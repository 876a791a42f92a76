---------------------------- MODULE MCThreadPool ----------------------------
(* Workers and jobs are interchangeable, but liveness rules symmetry out.   *)
EXTENDS ThreadPool
=============================================================================
