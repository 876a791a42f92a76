----------------------------- MODULE MCSendList -----------------------------
(* Model values only: see SendList.cfg.                                     *)
EXTENDS SendList

=============================================================================
