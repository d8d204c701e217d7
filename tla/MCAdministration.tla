-------------------------- MODULE MCAdministration --------------------------
(* Processes that share the directory of traceboard: those that run a      *)
(* command while others sign in; and hook processes and collectors, which  *)
(* deliver payloads.  They share nothing else, so that a behaviour has one *)
(* or the other.                                                           *)
EXTENDS Administration, Delivery, TLC

CONSTANTS n1, n2

(* A payload the store takes and one of a version it does not know. *)
OneOdd == [p \in Payloads |-> IF p = n2 THEN "unsupported" ELSE "good"]

(* Nothing was delivered yet, for one choice of payloads and mode. *)
NoDelivery == DeliveryInit /\ file = "off" /\ \A h \in Hooks : given[h] = n1

ProcessesInit == Init /\ DeliveryInit

ProcessesNext ==
  \/ NoDelivery /\ Next /\ UNCHANGED deliveryVars
  \/ Init /\ DeliveryNext /\ UNCHANGED vars

ProcessesSpec == ProcessesInit /\ [][ProcessesNext]_<<vars, deliveryVars>>

(* Processes are alike, and so are exchanges of a sign-in token. *)
Symmetry == Permutations(Procs) \cup Permutations(Requests)
=============================================================================
