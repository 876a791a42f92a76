--------------------------- MODULE MCProxyClient ----------------------------
(* Addresses and names are interchangeable: nothing compares them but for   *)
(* equality.                                                                *)
EXTENDS ProxyClient, TLC

Symmetry == Permutations(Apps) \cup Permutations(Names)

=============================================================================
