---------------------------- MODULE PacketStream ----------------------------
(***************************************************************************)
(* The datagrams one application's file_thread sends when nothing fails.   *)
(* A datagram (packet) is identified by its position in Stream; its header *)
(* fields are Xfer(p), the transfer (one queued file) it belongs to, and   *)
(* Nu(p), the pack_nu that SendPack_ex writes at offset 2.  Every packet   *)
(* carries the header of its file: file_size, hence the number of packets  *)
(* Packs[x], and file_name, whose base name is Name[x].                    *)
(***************************************************************************)
EXTENDS Naturals, Sequences

CONSTANTS
  Names,    \* base names of the files
  Packs,    \* Packs[x]: file_size of transfer x in units of MAXLINE, rounded up
  Name,     \* Name[x]: base name of transfer x; two transfers may share a name
  Stream    \* every packet of every transfer, in sending order

Xfers == DOMAIN Packs
Packets == DOMAIN Stream

Nu(p) == Stream[p].nu
Xfer(p) == Stream[p].xfer

(* What the loop of SendPack_ex does from one read() to the next, and       *)
(* file_thread from one file to the next.                                   *)
FollowsInStream(p, q) ==
  IF Nu(p) < Packs[Xfer(p)]
  THEN Xfer(q) = Xfer(p) /\ Nu(q) = Nu(p) + 1
  ELSE Xfer(q) = Xfer(p) + 1 /\ Nu(q) = 1

ASSUME StreamAssumption ==
  /\ Packs \in Seq(Nat \ {0})
  /\ Name \in [Xfers -> Names]
  /\ Stream \in Seq([xfer : Xfers, nu : Nat \ {0}])
  /\ \A p \in Packets : Nu(p) <= Packs[Xfer(p)]
  /\ Stream # << >> => Xfer(1) = 1 /\ Nu(1) = 1
  /\ \A p \in Packets : p + 1 \in Packets => FollowsInStream(p, p + 1)

(* A file text, as the sequence of packets whose payload was written to it, *)
(* is the whole of transfer x: every packet, once, in order.                *)
IsWhole(text, x) ==
  /\ Len(text) = Packs[x]
  /\ \A k \in 1..Len(text) : Xfer(text[k]) = x /\ Nu(text[k]) = k

=============================================================================
