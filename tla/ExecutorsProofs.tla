-------------------------- MODULE ExecutorsProofs --------------------------
(***************************************************************************)
(* Both executors keep the contract the engine relies on, for every batch,  *)
(* pool size and pass, and however often the token is set and cleared; and   *)
(* a call can only take so many steps, one of which is always there to take. *)
(***************************************************************************)
EXTENDS Executors, SpansProofs, FiniteSetTheorems

(* The serial executor never looks past a job it has not finished.         *)
InOrder ==
  executor = "serial" =>
    \A i \in Jobs : slots[i] # "queued" =>
      \A j \in Jobs : j < i => slots[j] = "done"

(* Once the call returned, no job runs or will.                            *)
AtRest == returned # <<>> => Finished

IInv == TypeOK /\ InOrder /\ AtRest /\ OnlyWorkBehindAGapIsLost

(* Counting the results before the first gap is well defined.              *)
LEMMA TakeWhileCounts ==
  ASSUME NEW done
  PROVE  /\ TakeWhile(done) \in 0 .. BatchSize
         /\ 1 .. TakeWhile(done) \subseteq done
         /\ TakeWhile(done) < BatchSize => TakeWhile(done) + 1 \notin done
<1> DEFINE S == {k \in Nat : k <= BatchSize /\ (k < BatchSize => k + 1 \notin done)}
<1>1. BatchSize \in S
  BY BatchAssumption
<1>2. PICK k \in S : \A m \in S : k <= m
  BY <1>1, LeastNatural
<1>3. k \in 0 .. BatchSize /\ (k < BatchSize => k + 1 \notin done)
  BY <1>2, BatchAssumption
<1>4. 1 .. k \subseteq done
  <2> SUFFICES ASSUME NEW i \in 1 .. k PROVE i \in done
    OBVIOUS
  <2>1. i - 1 \in Nat /\ i - 1 < k /\ (i - 1) + 1 = i /\ i - 1 < BatchSize
    BY <1>3, BatchAssumption
  <2>2. i - 1 \notin S
    BY <1>2, <2>1
  <2>3. (i - 1) + 1 \in done
    BY <2>1, <2>2, BatchAssumption
  <2> QED BY <2>1, <2>3
<1> QED BY <1>3, <1>4 DEF TakeWhile

----------------------------------------------------------------------------

(* The invariant holds at the call.                                        *)
LEMMA InitEstablishes == Init => IInv
  BY DEF Init, IInv, TypeOK, InOrder, AtRest, OnlyWorkBehindAGapIsLost, Outcomes

(* A slot leaves the queue for a run or for good.                          *)
LEMMA TakeJobKeeps ==
  ASSUME IInv, NEW i \in Jobs, TakeJob(i)
  PROVE  IInv'
<1> DEFINE to == IF token THEN "skipped" ELSE "running"
<1> USE DEF IInv
<1>1. /\ returned = <<>> /\ returned' = <<>> /\ executor' = executor
      /\ slots' = [slots EXCEPT ![i] = to] /\ results' = results
      /\ token' = token /\ tokens' = tokens
  BY DEF TakeJob, MayTake
<1>2. TypeOK'
  BY <1>1 DEF TypeOK
<1>3. InOrder'
  <2> SUFFICES ASSUME executor = "serial",
                      NEW k \in Jobs, slots'[k] # "queued",
                      NEW j \in Jobs, j < k
               PROVE  slots'[j] = "done"
    BY <1>1 DEF InOrder
  <2>1. slots[j] = "done"
    <3>1. CASE k = i
      <4>1. j \in 1 .. (i - 1)
        BY <3>1 DEF Jobs
      <4> QED BY <4>1 DEF TakeJob, MayTake
    <3>2. CASE k # i
      BY <3>2, <1>1 DEF InOrder, TypeOK
    <3> QED BY <3>1, <3>2
  <2>2. slots[i] = "queued"
    BY DEF TakeJob, MayTake
  <2> QED BY <2>1, <2>2, <1>1 DEF TypeOK
<1>4. AtRest' /\ OnlyWorkBehindAGapIsLost'
  BY <1>1 DEF AtRest, OnlyWorkBehindAGapIsLost
<1> QED BY <1>2, <1>3, <1>4

(* A running job stores the outcome of its own position.                   *)
LEMMA FinishJobKeeps ==
  ASSUME IInv, NEW i \in Jobs, FinishJob(i)
  PROVE  IInv'
<1> USE DEF IInv
<1>1. /\ returned' = returned /\ executor' = executor
      /\ slots' = [slots EXCEPT ![i] = "done"]
      /\ results' = [results EXCEPT ![i] = Run(i)]
      /\ token' = token /\ tokens' = tokens /\ slots[i] = "running"
  BY DEF FinishJob
<1>2. TypeOK'
  BY <1>1 DEF TypeOK, Outcomes
<1>3. InOrder'
  BY <1>1 DEF InOrder, TypeOK
<1>4. returned = <<>>
  <2> SUFFICES ASSUME returned # <<>> PROVE FALSE
    OBVIOUS
  <2>1. Finished /\ i \in In("running")
    BY <1>1 DEF AtRest, In
  <2>2. PICK s \in Jobs : executor = "serial" /\ slots[s] = "skipped"
    BY <2>1, <1>1 DEF Finished, In
  <2>3. s < i \/ i < s
    BY <2>2, <1>1, BatchAssumption DEF Jobs
  <2> QED BY <2>2, <2>3, <1>1 DEF InOrder
<1>5. AtRest' /\ OnlyWorkBehindAGapIsLost'
  BY <1>1, <1>4 DEF AtRest, OnlyWorkBehindAGapIsLost
<1> QED BY <1>2, <1>3, <1>5

(* What Return hands over: the outcomes before the first gap, and a skipped *)
(* job wherever there is a gap.                                            *)
LEMMA WhatReturns ==
  ASSUME TypeOK, InOrder, Return
  PROVE  \E k \in 0 .. BatchSize :
           /\ returned' = <<[j \in 1 .. k |-> Run(j)]>>
           /\ 1 .. k \subseteq In("done")
           /\ k < BatchSize => \E s \in In("skipped") : TRUE
           /\ \A i \in In("done") : i > k => \E s \in In("skipped") : s < i
<1> DEFINE k == TakeWhile(In("done"))
<1>1. /\ k \in 0 .. BatchSize /\ 1 .. k \subseteq In("done")
      /\ k < BatchSize => k + 1 \notin In("done")
  BY TakeWhileCounts
<1>2. returned' = <<SubSeq(results, 1, k)>>
  BY DEF Return
<1> HIDE DEF k
<1>3. SubSeq(results, 1, k) = [j \in 1 .. k |-> results[j]]
  BY <1>1, BatchAssumption DEF TypeOK, Jobs
<1>4. \A j \in 1 .. k : results[j] = Run(j)
  BY <1>1 DEF TypeOK, In
<1>5. [j \in 1 .. k |-> results[j]] = [j \in 1 .. k |-> Run(j)]
  BY <1>4
<1>6. k < BatchSize => k + 1 \in Jobs /\ slots[k + 1] # "done"
  BY <1>1, BatchAssumption DEF Jobs, In
<1>7. k < BatchSize => \E s \in In("skipped") : TRUE
  BY <1>6 DEF Return, Finished, In, TypeOK
<1>8. ASSUME NEW i \in In("done"), i > k
      PROVE  \E s \in In("skipped") : s < i
  <2>1. i \in Jobs /\ slots[i] = "done" /\ k < BatchSize
    BY <1>1, <1>8, BatchAssumption DEF In, Jobs
  <2>2. k + 1 \in Jobs /\ slots[k + 1] # "done" /\ k + 1 < i
    BY <1>1, <1>6, <1>8, <2>1, BatchAssumption DEF Jobs
  <2>3. executor = "rayon"
    BY <2>1, <2>2 DEF InOrder, TypeOK
  <2>4. slots[k + 1] = "skipped"
    BY <2>2, <2>3 DEF Return, Finished, In, TypeOK
  <2> QED BY <2>2, <2>4 DEF In
<1> QED BY <1>1, <1>2, <1>3, <1>5, <1>7, <1>8

(* Returning the results keeps the invariant.                              *)
LEMMA ReturnKeeps ==
  ASSUME IInv, Return
  PROVE  IInv'
<1> USE DEF IInv
<1>1. UNCHANGED <<executor, token, tokens, slots, results>> /\ Finished
  BY DEF Return
<1>2. TypeOK' /\ InOrder' /\ AtRest'
  BY <1>1 DEF TypeOK, InOrder, AtRest, Finished, In
<1>3. PICK k \in 0 .. BatchSize :
        /\ returned' = <<[j \in 1 .. k |-> Run(j)]>>
        /\ \A i \in In("done") : i > k => \E s \in In("skipped") : s < i
  BY WhatReturns
<1>4. Len(returned'[1]) = k
  BY <1>3
<1>5. OnlyWorkBehindAGapIsLost'
  BY <1>1, <1>3, <1>4 DEF OnlyWorkBehindAGapIsLost, In
<1> QED BY <1>2, <1>5

(* Every step keeps the invariant.                                         *)
LEMMA NextKeeps == IInv /\ [Next]_vars => IInv'
<1> SUFFICES ASSUME IInv, [Next]_vars PROVE IInv'
  OBVIOUS
<1>1. CASE Return
  BY <1>1, ReturnKeeps
<1>2. ASSUME NEW i \in Jobs, TakeJob(i) PROVE IInv'
  BY <1>2, TakeJobKeeps
<1>3. ASSUME NEW i \in Jobs, FinishJob(i) PROVE IInv'
  BY <1>3, FinishJobKeeps
<1>4. CASE Cancel \/ ResetToken
  <2>1. UNCHANGED <<executor, slots, results, returned>>
    BY <1>4 DEF Cancel, ResetToken
  <2>2. token' \in BOOLEAN /\ tokens' \in Nat
    <3>1. CASE Cancel
      BY <3>1 DEF Cancel, IInv, TypeOK
    <3>2. CASE ResetToken
      BY <3>2 DEF ResetToken, IInv, TypeOK
    <3> QED BY <1>4, <3>1, <3>2
  <2>3. TypeOK' /\ InOrder' /\ AtRest' /\ OnlyWorkBehindAGapIsLost'
    BY <2>1, <2>2 DEF IInv, TypeOK, InOrder, AtRest, Finished, In,
                      OnlyWorkBehindAGapIsLost
  <2> QED BY <2>3 DEF IInv
<1>5. CASE UNCHANGED vars
  BY <1>5 DEF vars, IInv, TypeOK, InOrder, AtRest, Finished, In,
              OnlyWorkBehindAGapIsLost
<1> QED BY <1>1, <1>2, <1>3, <1>4, <1>5 DEF Next, ExecutorStep

(* The invariant holds in every state of a call.                           *)
THEOREM Invariance == Spec => []IInv
<1> QED BY InitEstablishes, NextKeeps, PTL DEF Spec

(* executor.rs:16: a job that ran keeps its own outcome at its own position, *)
(* whatever the order in which the pool ran the batch.                     *)
THEOREM TypeCorrectness == Spec => []TypeOK
<1>1. IInv => TypeOK
  BY DEF IInv
<1> QED BY <1>1, Invariance, PTL

(* executor_rayon.rs:13-17: only results past the first skipped job are     *)
(* thrown away.                                                            *)
THEOREM LostWorkIsBehindAGap == Spec => []OnlyWorkBehindAGapIsLost
<1>1. IInv => OnlyWorkBehindAGapIsLost
  BY DEF IInv
<1> QED BY <1>1, Invariance, PTL

----------------------------------------------------------------------------

(* Every step of an executor is a step of the contract, or changes nothing  *)
(* the engine can see.                                                     *)
LEMMA StepsKeepTheContract ==
  IInv /\ [Next]_vars => [Contract!Next]_(Contract!vars)
<1> SUFFICES ASSUME IInv, [Next]_vars PROVE [Contract!Next]_(Contract!vars)
  OBVIOUS
<1> DEFINE stopping == In("skipped") # {}
<1>1. CASE Return
  <2>1. PICK k \in 0 .. BatchSize :
          /\ returned' = <<[j \in 1 .. k |-> Run(j)]>>
          /\ k < BatchSize => \E s \in In("skipped") : TRUE
    BY <1>1, WhatReturns DEF IInv
  <2>2. returned = <<>> /\ slots' = slots
    BY <1>1 DEF Return
  <2>3. In("skipped")' = In("skipped")
    BY <2>2 DEF In
  <2>4. Contract!Return(k)
    BY <2>1, <2>2, <2>3 DEF Contract!Return, Contract!Prefix
  <2> QED BY <2>4 DEF Contract!Next
<1>2. ASSUME NEW i \in Jobs, TakeJob(i) PROVE [Contract!Next]_(Contract!vars)
  <2>1. returned = <<>> /\ returned' = returned
    BY <1>2 DEF TakeJob, MayTake
  <2>2. CASE token
    <3>1. i \in In("skipped")'
      BY <1>2, <2>2 DEF TakeJob, In, IInv, TypeOK
    <3>2. In("skipped")' # {}
      BY <3>1
    <3>3. Contract!SeeToken
      BY <2>1, <3>2 DEF Contract!SeeToken
    <3> QED BY <3>3 DEF Contract!Next
  <2>3. CASE ~token
    <3>1. \A j \in Jobs : (slots'[j] = "skipped") <=> (slots[j] = "skipped")
      BY <1>2, <2>3 DEF TakeJob, MayTake, IInv, TypeOK
    <3>2. In("skipped")' = In("skipped")
      BY <3>1 DEF In
    <3> QED BY <2>1, <3>2 DEF Contract!vars
  <2> QED BY <2>2, <2>3
<1>3. ASSUME NEW i \in Jobs, FinishJob(i) PROVE [Contract!Next]_(Contract!vars)
  <2>1. \A j \in Jobs : (slots'[j] = "skipped") <=> (slots[j] = "skipped")
    BY <1>3 DEF FinishJob, IInv, TypeOK
  <2>2. In("skipped")' = In("skipped") /\ returned' = returned
    BY <1>3, <2>1 DEF In, FinishJob
  <2> QED BY <2>2 DEF Contract!vars
<1>4. CASE Cancel \/ ResetToken \/ UNCHANGED vars
  <2>1. slots' = slots /\ returned' = returned
    BY <1>4 DEF Cancel, ResetToken, vars
  <2>2. In("skipped")' = In("skipped")
    BY <2>1 DEF In
  <2> QED BY <2>1, <2>2 DEF Contract!vars
<1> QED BY <1>1, <1>2, <1>3, <1>4 DEF Next, ExecutorStep

(* executor.rs:14-20: both executors implement the contract, step by step.  *)
THEOREM ExecutorsKeepTheContract == Spec => KeepsTheContract
<1>1. Init => Contract!Init
  BY DEF Init, Contract!Init, In
<1> QED
  BY <1>1, Invariance, StepsKeepTheContract, PTL
     DEF Spec, KeepsTheContract, Contract!Safety

----------------------------------------------------------------------------
(* Why execute returns.                                                    *)

(* The steps a call can take at most: a queued job is taken and finished.   *)
StepsLeft ==
  2 * Cardinality(In("queued")) + Cardinality(In("running")) + (IF returned = <<>> THEN 1 ELSE 0)

WindsDown ==
  \/ UNCHANGED <<slots, results, returned>>
  \/ StepsLeft' \in Nat /\ StepsLeft' < StepsLeft

(* Some job can be taken or finished, or the call can return.               *)
SomebodyCan ==
  returned = <<>> => Finished \/ \E i \in Jobs : MayTake(i) \/ slots[i] = "running"

(* Sets of jobs are finite.                                                *)
LEMMA JobsAreFinite ==
  ASSUME NEW S \in SUBSET Jobs
  PROVE  IsFiniteSet(S) /\ Cardinality(S) \in Nat
<1>1. IsFiniteSet(Jobs)
  BY BatchAssumption, FS_Interval DEF Jobs
<1> QED
  BY <1>1, FS_Subset, FS_CardinalityType

(* Every step of a call of execute takes a queued job, finishes a running    *)
(* one or returns, and there are only so many: clearing and setting the     *)
(* token cannot keep the call from returning.                              *)
THEOREM EveryCallWindsDown == Spec => [][WindsDown]_vars
<1>1. ASSUME TypeOK, TypeOK', NEW i \in Jobs, TakeJob(i)
      PROVE  StepsLeft' \in Nat /\ StepsLeft' < StepsLeft
  <2> DEFINE q == Cardinality(In("queued"))
             r == Cardinality(In("running"))
             q2 == Cardinality(In("queued"))'
             r2 == Cardinality(In("running"))'
  <2>1. /\ In("queued")' = In("queued") \ {i} /\ i \in In("queued")
        /\ In("running")' = In("running") \/ In("running")' = In("running") \union {i}
        /\ i \notin In("running") /\ returned' = returned
    BY <1>1 DEF TakeJob, MayTake, In, TypeOK
  <2>2. IsFiniteSet(In("queued")) /\ IsFiniteSet(In("running")) /\ q \in Nat /\ r \in Nat
    BY JobsAreFinite DEF In
  <2>3. q2 \in Nat /\ q2 = q - 1 /\ (r2 = r \/ r2 = r + 1)
    BY <2>1, <2>2, FS_AddElement, FS_RemoveElement, FS_CardinalityType
  <2>4. /\ StepsLeft = 2 * q + r + (IF returned = <<>> THEN 1 ELSE 0)
        /\ StepsLeft' = 2 * q2 + r2 + (IF returned = <<>> THEN 1 ELSE 0)
    BY <2>1 DEF StepsLeft
  <2> HIDE DEF q, r, q2, r2
  <2>5. ASSUME NEW b \in {0, 1} PROVE 2 * q2 + r2 + b \in Nat /\ 2 * q2 + r2 + b < 2 * q + r + b
    BY <2>2, <2>3
  <2> QED
    BY <2>4, <2>5
<1>2. ASSUME TypeOK, TypeOK', NEW i \in Jobs, FinishJob(i)
      PROVE  StepsLeft' \in Nat /\ StepsLeft' < StepsLeft
  <2> DEFINE q == Cardinality(In("queued"))
             r == Cardinality(In("running"))
             r2 == Cardinality(In("running"))'
  <2>1. /\ In("queued")' = In("queued")
        /\ In("running")' = In("running") \ {i} /\ i \in In("running") /\ returned' = returned
    BY <1>2 DEF FinishJob, In, TypeOK
  <2>2. IsFiniteSet(In("running")) /\ q \in Nat /\ r \in Nat
    BY JobsAreFinite DEF In
  <2>3. r2 \in Nat /\ r2 = r - 1
    BY <2>1, <2>2, FS_RemoveElement, FS_CardinalityType
  <2>4. /\ StepsLeft = 2 * q + r + (IF returned = <<>> THEN 1 ELSE 0)
        /\ StepsLeft' = 2 * q + r2 + (IF returned = <<>> THEN 1 ELSE 0)
    BY <2>1 DEF StepsLeft
  <2> HIDE DEF q, r, r2
  <2>5. ASSUME NEW b \in {0, 1} PROVE 2 * q + r2 + b \in Nat /\ 2 * q + r2 + b < 2 * q + r + b
    BY <2>2, <2>3
  <2> QED
    BY <2>4, <2>5
<1>3. ASSUME Return
      PROVE  StepsLeft' \in Nat /\ StepsLeft' < StepsLeft
  <2> DEFINE q == Cardinality(In("queued"))
             r == Cardinality(In("running"))
  <2>1. /\ In("queued")' = In("queued") /\ In("running")' = In("running")
        /\ returned = <<>> /\ returned' # <<>>
    BY <1>3 DEF Return, In
  <2>2. q \in Nat /\ r \in Nat
    BY JobsAreFinite DEF In
  <2>3. StepsLeft = 2 * q + r + 1 /\ StepsLeft' = 2 * q + r + 0
    BY <2>1 DEF StepsLeft
  <2> HIDE DEF q, r
  <2>4. 2 * q + r + 0 \in Nat /\ 2 * q + r + 0 < 2 * q + r + 1
    BY <2>2
  <2> QED
    BY <2>3, <2>4
<1>4. TypeOK /\ TypeOK' /\ [Next]_vars => [WindsDown]_vars
  BY <1>1, <1>2, <1>3 DEF Next, ExecutorStep, Cancel, ResetToken, WindsDown
<1> QED
  BY <1>4, TypeCorrectness, PTL DEF Spec

(* Until execute returns, a job can be taken or is running, or the results   *)
(* can be handed over: the two executors never wait for nobody.             *)
THEOREM SomeJobIsNext == Spec => []SomebodyCan
<1>1. ASSUME IInv, returned = <<>>, ~Finished, \A i \in Jobs : slots[i] # "running"
      PROVE  \E i \in Jobs : MayTake(i)
  <2>1. In("running") = {} /\ Cardinality(In("running")) < Threads
    <3>1. In("running") = {}
      BY <1>1 DEF In
    <3> QED
      BY <3>1, FS_EmptySet, ThreadsAssumption
  <2>2. CASE executor = "rayon"
    <3>1. PICK i \in Jobs : slots[i] = "queued"
      BY <1>1, <2>1, <2>2 DEF Finished, In
    <3> QED
      BY <1>1, <2>1, <2>2, <3>1 DEF MayTake
  <2>3. CASE executor = "serial"
    <3> DEFINE T == {k \in Nat : k \in Jobs /\ slots[k] # "done"}
    <3>1. \E k \in Jobs : slots[k] # "done"
      BY <1>1, <2>3 DEF Finished, In
    <3>2. T # {} /\ T \subseteq Nat
      BY <3>1, BatchAssumption DEF Jobs
    <3>3. PICK i \in T : \A m \in T : i <= m
      BY <3>2, LeastNatural
    <3>4. slots[i] = "queued"
      BY <1>1, <2>3, <3>3 DEF IInv, TypeOK, Finished, In
    <3>5. \A j \in 1 .. (i - 1) : slots[j] = "done"
      <4> SUFFICES ASSUME NEW j \in 1 .. (i - 1) PROVE slots[j] = "done"
        OBVIOUS
      <4>1. j \in Jobs /\ j \in Nat /\ ~(i <= j)
        BY <3>3, BatchAssumption DEF Jobs
      <4> QED
        BY <3>3, <4>1
    <3> QED
      BY <1>1, <2>3, <3>3, <3>4, <3>5 DEF MayTake
  <2> QED
    BY <1>1, <2>2, <2>3 DEF IInv, TypeOK
<1>2. IInv => SomebodyCan
  BY <1>1 DEF SomebodyCan
<1> QED
  BY <1>2, Invariance, PTL

============================================================================
