----------------------------- MODULE MCDelivery -----------------------------
(* One hook process and one payload with the body of a prompt. *)
EXTENDS Delivery

OneGood == [p \in Payloads |-> "good"]
=============================================================================
