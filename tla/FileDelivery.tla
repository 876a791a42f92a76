---------------------------- MODULE FileDelivery ----------------------------
(***************************************************************************)
(* What a sender and a Sudp promise together when no datagram is lost: the *)
(* queued files arrive whole, each one once, in the order they were        *)
(* queued.                                                                 *)
(***************************************************************************)
EXTENDS Naturals

CONSTANT Files   \* how many files were queued

VARIABLE delivered   \* how many of them, from the first on, have arrived whole

Init == delivered = 0

Deliver == delivered < Files /\ delivered' = delivered + 1

Next == Deliver

Safety == Init /\ [][Next]_delivered
Spec == Safety /\ WF_delivered(Next)

=============================================================================
