--------------------------- MODULE MCFileTransfer ---------------------------
(* Three files, the last one a resend under the name of the first.          *)
EXTENDS FileTransfer

MCNames == {"a", "b"}
MCPacks == <<2, 1, 2>>
MCName == <<"a", "b", "a">>
MCStream ==
  <<[xfer |-> 1, nu |-> 1], [xfer |-> 1, nu |-> 2],
    [xfer |-> 2, nu |-> 1],
    [xfer |-> 3, nu |-> 1], [xfer |-> 3, nu |-> 2]>>

(* The same with a longer first file, which can lose its middle, and whose  *)
(* resend is shorter.                                                       *)
MCLongPacks == <<3, 2, 2>>
MCLongStream ==
  <<[xfer |-> 1, nu |-> 1], [xfer |-> 1, nu |-> 2], [xfer |-> 1, nu |-> 3],
    [xfer |-> 2, nu |-> 1], [xfer |-> 2, nu |-> 2],
    [xfer |-> 3, nu |-> 1], [xfer |-> 3, nu |-> 2]>>

=============================================================================
