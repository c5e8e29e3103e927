---------------------------- MODULE MCThreadPool ----------------------------
(* ThreadPool, for model checking.                                         *)
EXTENDS ThreadPool
=============================================================================
