-------------------------- MODULE ConfirmedHistory --------------------------
(***************************************************************************)
(* What the delivery contract promises (src/dainframe/core/delivery.py,    *)
(* header): "confirmed-send-before-recording".  A piece of prose enters    *)
(* the shared history only after the platform confirmed the send, it       *)
(* enters at most once whoever retries, and nothing that entered is ever   *)
(* moved or taken out.                                                     *)
(*                                                                         *)
(* The specification knows nothing of locks, retries, retention or tasks:  *)
(* Engine and DeliveryLedger implement it.                                 *)
(***************************************************************************)
CONSTANTS Delivery,   \* the pieces of prose agents produced
          Place       \* the positions of the shared history

VARIABLES receipts,   \* the deliveries the platform confirmed
          entries     \* the history: a set of [at, what] records

vars == <<receipts, entries>>

TypeOK == /\ receipts \subseteq Delivery
          /\ entries \subseteq [at : Place, what : Delivery]

Init == receipts = {} /\ entries = {}

\* The platform says yes to some deliveries.
Send == /\ receipts \subseteq receipts' /\ receipts' \subseteq Delivery
        /\ UNCHANGED entries

\* A confirmed delivery takes a free place, once.
Record ==
  \E e \in entries' \ entries :
    /\ e \in [at : Place, what : Delivery]
    /\ e.what \in receipts
    /\ \A f \in entries : f.what # e.what /\ f.at # e.at
    /\ entries' = entries \cup {e}
    /\ UNCHANGED receipts

Next == Send \/ Record

Spec == Init /\ [][Next]_vars
=============================================================================
