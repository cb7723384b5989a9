-------------------------- MODULE ExecutorContract --------------------------
(***************************************************************************)
(* What the engine relies on of one call of Executor::execute              *)
(* (crates/increparse/src/executor.rs): the executed jobs come back with   *)
(* their own outcomes, in input order, as a prefix of the batch, and all   *)
(* of the batch unless the executor saw the cancel token set.              *)
(***************************************************************************)
EXTENDS Naturals, Sequences

CONSTANTS
  BatchSize,   \* Length of the batch.
  Run(_)       \* The outcome of a job, by its position: passes are pure.

VARIABLES
  stopping,  \* Has the executor seen the token set?
  returned   \* <<>> while it runs; then <<result>>, a sequence of outcomes.

vars == <<stopping, returned>>

Prefix(k) == [i \in 1 .. k |-> Run(i)]

Init == stopping = FALSE /\ returned = <<>>

SeeToken ==
  /\ returned = <<>>
  /\ stopping' = TRUE
  /\ UNCHANGED returned

Return(k) ==
  /\ returned = <<>>
  /\ k < BatchSize => stopping
  /\ returned' = <<Prefix(k)>>
  /\ UNCHANGED stopping

Next == SeeToken \/ \E k \in 0 .. BatchSize : Return(k)

Safety == Init /\ [][Next]_vars

Returns == <>(returned # <<>>)

============================================================================
