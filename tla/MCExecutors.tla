---------------------------- MODULE MCExecutors ----------------------------
(* A batch of a few jobs, each with an outcome of its own.                 *)
EXTENDS Executors

MCRun(i) == <<"outcome", i>>

============================================================================
