------------------------------- MODULE MCSpool -------------------------------
(* Small instances of Spool. *)
EXTENDS Spool, TLC

CONSTANTS h1, h2, server, p1, p2, p3, p4

(* One payload is twice as long as the others. *)
MixedSize == [p \in Payloads |-> IF p = p3 THEN 2 ELSE 1]

(* One event per hook call, and a call that spools two. *)
Singles == {<<p>> : p \in Payloads}

WithPair == {<<p1, p2>>, <<p3>>, <<p4>>}

HookSymmetry == Permutations(Hooks)
=============================================================================
