----------------------------- MODULE Executors -----------------------------
(***************************************************************************)
(* One call of execute of the two executors the crate provides             *)
(* (crates/increparse/src/executor.rs, executor_rayon.rs), while any other  *)
(* thread sets and clears the cancel token. Each job of the batch has a     *)
(* slot; a thread reads the token, then runs the job or leaves it out.      *)
(*                                                                         *)
(* The serial executor takes the jobs in order and breaks at the first one  *)
(* it leaves out; the rayon pool takes them in any order, on several        *)
(* threads, takes every one, and collects the results at the end.           *)
(***************************************************************************)
EXTENDS Naturals, Sequences, FiniteSets

CONSTANTS
  BatchSize,   \* Length of the batch.
  Threads,     \* Threads of the rayon pool.
  Run(_),      \* The outcome of a job, by its position.
  MaxTokens    \* Bound: calls of CancelToken::cancel.

ASSUME BatchAssumption   == BatchSize \in Nat
ASSUME ThreadsAssumption == Threads \in Nat \ {0}
ASSUME TokensAssumption  == MaxTokens \in Nat

VARIABLES
  executor,  \* Which executor was called: "serial" or "rayon".
  token,     \* The cancel token.
  tokens,    \* Bounded counter: calls of cancel.
  slots,     \* By job: "queued", "running", "skipped" or "done".
  results,   \* By job: its outcome, once it ran.
  returned   \* <<>> while the call runs; then <<result>>.

vars == <<executor, token, tokens, slots, results, returned>>

Jobs == 1 .. BatchSize

In(state) == {i \in Jobs : slots[i] = state}

NoOutcome == <<>>

Outcomes == {Run(i) : i \in Jobs} \union {NoOutcome}

Init ==
  /\ executor \in {"serial", "rayon"}
  /\ token \in BOOLEAN /\ tokens = 0
  /\ slots = [i \in Jobs |-> "queued"]
  /\ results = [i \in Jobs |-> NoOutcome]
  /\ returned = <<>>

Cancel ==
  /\ ~token /\ tokens < MaxTokens
  /\ token' = TRUE /\ tokens' = tokens + 1
  /\ UNCHANGED <<executor, slots, results, returned>>

ResetToken ==
  /\ token
  /\ token' = FALSE
  /\ UNCHANGED <<executor, tokens, slots, results, returned>>

(* Can a thread take job i now?                                            *)
MayTake(i) ==
  /\ returned = <<>> /\ slots[i] = "queued"
  /\ \/ executor = "serial" /\ \A j \in 1 .. (i - 1) : slots[j] = "done"
     \/ executor = "rayon" /\ Cardinality(In("running")) < Threads

TakeJob(i) ==
  /\ MayTake(i)
  /\ slots' = [slots EXCEPT ![i] = IF token THEN "skipped" ELSE "running"]
  /\ UNCHANGED <<executor, token, tokens, results, returned>>

(* The slip: results in the order of completion.                           *)
FinishInTurn(i) ==
  /\ slots[i] = "running"
  /\ slots' = [slots EXCEPT ![i] = "done"]
  /\ results' = [results EXCEPT ![Cardinality(In("done")) + 1] = Run(i)]
  /\ UNCHANGED <<executor, token, tokens, returned>>

FinishJob(i) ==
  /\ slots[i] = "running"
  /\ slots' = [slots EXCEPT ![i] = "done"]
  /\ results' = [results EXCEPT ![i] = Run(i)]
  /\ UNCHANGED <<executor, token, tokens, returned>>

(* How many jobs come back: those before the first slot without a result.   *)
(* The slips: as many as ran, whichever they are; none of a broken batch.   *)
AllExecuted(done) == Cardinality(done)

WholeOrNothing(done) == IF done = Jobs THEN BatchSize ELSE 0

TakeWhile(done) ==
  CHOOSE k \in 0 .. BatchSize :
    /\ 1 .. k \subseteq done
    /\ k < BatchSize => k + 1 \notin done

(* The loop broke or ended; every job of the parallel map ran or was left   *)
(* out (the slip: every job ran).                                          *)
FinishedWhole == In("done") = Jobs

Finished ==
  \/ executor = "serial" /\ (In("done") = Jobs \/ In("skipped") # {})
  \/ executor = "rayon" /\ In("queued") \union In("running") = {}

Return ==
  /\ returned = <<>> /\ Finished
  /\ returned' = <<SubSeq(results, 1, TakeWhile(In("done")))>>
  /\ UNCHANGED <<executor, token, tokens, slots, results>>

ExecutorStep == Return \/ \E i \in Jobs : TakeJob(i) \/ FinishJob(i)

Next == Cancel \/ ResetToken \/ ExecutorStep

(* Passes return, and the pool keeps running.                              *)
Fairness == WF_vars(ExecutorStep)

Spec == Init /\ [][Next]_vars /\ Fairness

----------------------------------------------------------------------------

TypeOK ==
  /\ executor \in {"serial", "rayon"}
  /\ token \in BOOLEAN /\ tokens \in Nat
  /\ slots \in [Jobs -> {"queued", "running", "skipped", "done"}]
  /\ results \in [Jobs -> Outcomes]
  /\ \A i \in Jobs : slots[i] = "done" => results[i] = Run(i)

(* The engine's view of the call: the contract of executor.rs:14-20.        *)
Contract == INSTANCE ExecutorContract WITH stopping <- In("skipped") # {}

(* Both executors keep the contract, however the pool orders the jobs and   *)
(* whenever the token is set and cleared: a result that comes back belongs  *)
(* to the job of its position, and the batch is whole if no job was skipped. *)
KeepsTheContract == Contract!Safety

(* The call returns, whatever the token does.                              *)
CallReturns == Contract!Returns

(* Work is thrown away only behind a skipped job: the pool never returns    *)
(* less than what it could, so a run advances as far as it can.             *)
OnlyWorkBehindAGapIsLost ==
  returned # <<>> =>
    \A i \in In("done") :
      i > Len(returned[1]) => \E j \in In("skipped") : j < i

============================================================================
