------------------------------ MODULE SioOutput ------------------------------
(***************************************************************************)
(* What a serial channel promises the layer above it about output: every   *)
(* character accepted is sent once, none is dropped, none is invented, and *)
(* as long as one is pending the channel goes on sending.                  *)
(***************************************************************************)
EXTENDS Naturals

VARIABLES pending, sent     \* characters accepted and not yet sent, and sent

Init == pending = 0 /\ sent = 0

Accept == pending' = pending + 1 /\ UNCHANGED sent

Send == pending > 0 /\ pending' = pending - 1 /\ sent' = sent + 1

Next == Accept \/ Send

Safety == Init /\ [][Next]_<<pending, sent>>

Spec == Safety /\ WF_<<pending, sent>>(Send)
=============================================================================
