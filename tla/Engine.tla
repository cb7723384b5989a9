------------------------------- MODULE Engine -------------------------------
(***************************************************************************)
(* The fixpoint engine over one long-lived document                        *)
(* (crates/increparse/src/engine.rs, session.rs, executor.rs, cancel.rs).  *)
(*                                                                         *)
(* One thread calls Session::edit and Session::run in any order; a run is  *)
(* the loop of rounds below, with a step wherever the cancel token is read *)
(* or one job is executed or merged. Any other thread sets or clears the   *)
(* token at any moment. What a pass returns for a region is any element of *)
(* Parse(pass, span, ctx): nothing else is known of a client's pass.       *)
(***************************************************************************)
EXTENDS ParseTree

CONSTANTS
  NumPasses,      \* Schedule::len.
  RoundCap,       \* EngineConfig::max_rounds, a number or NoCap.
  NoCap,
  EnforceShrink,  \* EngineConfig::enforce_shrink.
  ShortBatches,   \* Does the executor stop early without the token's help?
  Parse(_, _, _), \* The outcomes a pass may return for a span and a context.
  RootCtx,        \* The context of the root.
  MaxRuns,        \* Bounds: calls of run, calls of edit, calls of
  MaxEdits,       \* CancelToken::cancel and the longest text.
  MaxCancels,
  MaxLen

ASSUME ScheduleAssumption == NumPasses \in Nat
ASSUME CapAssumption      == RoundCap \in Nat \/ RoundCap = NoCap
ASSUME ConfigAssumption   == EnforceShrink \in BOOLEAN /\ ShortBatches \in BOOLEAN
ASSUME RootCtxAssumption  == RootCtx \in Ctx
ASSUME BoundsAssumption   ==
  MaxRuns \in Nat /\ MaxEdits \in Nat /\ MaxCancels \in Nat /\ MaxLen \in Nat

VARIABLES
  nodes,     \* The arena of the session's tree.
  rev,       \* The source revision of the tree.
  textLen,   \* Length in bytes of the text at that revision.
  cancel,    \* The shared cancel token.
  pc,        \* Where the caller is in Engine::run; "done": it just returned.
  round,     \* The loop variable of the run.
  todo,      \* Jobs of the round the executor has not run, by node.
  outcomes,  \* Jobs executed and not merged yet: node -> outcome.
  report,    \* The RunReport of the current run, or of the last one.
  runs,      \* Bounded counters: runs started, edits made, cancels called.
  edits,
  cancels

treeVars == <<nodes, rev, textLen>>
runVars  == <<pc, round, todo, outcomes, report>>
counters == <<runs, edits, cancels>>
vars     == <<treeVars, runVars, cancel, counters>>

MaxRounds == IF RoundCap = NoCap THEN NumPasses ELSE RoundCap

ViolationRecord ==
  [node : Nat, round : Nat,
   kind : {"WrongRevision", "OutsideParent", "NotSmaller"}]

RunReport == [rounds : Nat, processed : Nat, failed : Nat, fixpoint : BOOLEAN,
              cancelled : BOOLEAN, violations : Seq(ViolationRecord)]

EmptyReport == [rounds |-> 0, processed |-> 0, failed |-> 0, fixpoint |-> FALSE,
                cancelled |-> FALSE, violations |-> <<>>]

NoOutcomes == [n \in {} |-> [kind |-> "Done", children |-> <<>>]]

IsFirst(id, ids) == id \in ids /\ \A other \in ids : id <= other

----------------------------------------------------------------------------

Init ==
  /\ textLen \in 0 .. MaxLen
  /\ rev = 0
  /\ nodes = NewTree(SpanOf(0, textLen, 0), RootCtx)
  /\ cancel = FALSE
  /\ pc = "idle" /\ round = 0 /\ todo = {} /\ outcomes = NoOutcomes
  /\ report = EmptyReport
  /\ runs = 0 /\ edits = 0 /\ cancels = 0

Resting == pc \in {"idle", "done"}

(* Session::edit: the text changes, and the tree with it.                  *)
EditText(e) ==
  /\ Resting /\ edits < MaxEdits
  /\ e.oldEnd <= textLen
  /\ textLen' = e.newEnd + (textLen - e.oldEnd)
  /\ textLen' <= MaxLen
  /\ rev' = rev + 1
  /\ nodes' = EditTree(nodes, e, rev + 1)
  /\ pc' = "idle"
  /\ edits' = edits + 1
  /\ UNCHANGED <<cancel, round, todo, outcomes, report, runs, cancels>>

(* CancelToken::cancel and CancelToken::reset, from any thread.            *)
Cancel ==
  /\ ~cancel /\ cancels < MaxCancels
  /\ cancel' = TRUE
  /\ cancels' = cancels + 1
  /\ UNCHANGED <<treeVars, runVars, runs, edits>>

ResetToken ==
  /\ cancel
  /\ cancel' = FALSE
  /\ UNCHANGED <<treeVars, runVars, counters>>

StartRun ==
  /\ Resting /\ runs < MaxRuns
  /\ pc' = "check" /\ round' = 0 /\ todo' = {} /\ outcomes' = NoOutcomes
  /\ report' = EmptyReport
  /\ runs' = runs + 1
  /\ UNCHANGED <<treeVars, cancel, edits, cancels>>

Return(result) ==
  /\ pc' = "done" /\ round' = 0
  /\ report' = result
  /\ UNCHANGED <<treeVars, cancel, counters, outcomes>>

(* The loop ran out of rounds.                                             *)
ExhaustedUnchecked ==
  /\ pc = "check" /\ round = MaxRounds
  /\ Return(report)
  /\ UNCHANGED todo

RoundsExhausted ==
  /\ pc = "check" /\ round = MaxRounds
  /\ Return([report EXCEPT !.fixpoint = Pending(nodes, MaxRounds) = {}])
  /\ UNCHANGED todo

SeeCancelled ==
  /\ pc = "check" /\ round < MaxRounds /\ cancel
  /\ Return([report EXCEPT !.cancelled = TRUE])
  /\ UNCHANGED todo

NothingReady ==
  /\ pc = "check" /\ round < MaxRounds /\ ~cancel
  /\ ReadyJobs(nodes, round) = {}
  /\ Return([report EXCEPT !.fixpoint = TRUE])
  /\ UNCHANGED todo

CollectJobs ==
  /\ pc = "check" /\ round < MaxRounds /\ ~cancel
  /\ ReadyJobs(nodes, round) # {}
  /\ todo' = ReadyJobs(nodes, round)
  /\ pc' = "execute"
  /\ UNCHANGED <<treeVars, cancel, counters, round, outcomes, report>>

(* Engine::execute_job: a round with no pass fails the node.               *)
PassOutcomes(id) ==
  IF round < NumPasses THEN Parse(round, nodes[id].span, nodes[id].ctx)
  ELSE {[kind |-> "Failed", children |-> <<>>]}

(* The executor reads the token, then runs the next job of the batch.      *)
ExecuteJob(id) ==
  /\ pc = "execute" /\ ~cancel
  /\ IsFirst(id, todo)
  /\ \E o \in PassOutcomes(id) :
       /\ o \in Outcome
       /\ outcomes' = [n \in DOMAIN outcomes \union {id} |->
                         IF n = id THEN o ELSE outcomes[n]]
  /\ todo' = todo \ {id}
  /\ UNCHANGED <<treeVars, cancel, counters, pc, round, report>>

(* It returns all of the batch, or the prefix it ran before it was stopped. *)
StopBatch ==
  /\ pc = "execute"
  /\ todo = {} \/ cancel \/ ShortBatches
  /\ pc' = "merge"
  /\ UNCHANGED <<treeVars, cancel, counters, round, todo, outcomes, report>>

NewViolations(id, o) ==
  LET bad   == Breaches(nodes, id, o, EnforceShrink)
      first == CHOOSE i \in bad : \A j \in bad : i <= j
  IN  IF o.kind = "Failed" \/ bad = {} THEN <<>>
      ELSE << [node |-> id, round |-> round,
               kind |-> ViolationKind(nodes[id].span, o.children[first].span,
                                      EnforceShrink)] >>

(* One iteration of the merge loop, in job order.                          *)
MergeJob(id) ==
  /\ pc = "merge" /\ IsFirst(id, DOMAIN outcomes)
  /\ LET o == outcomes[id] IN
       /\ nodes' = Apply(nodes, id, o, round, EnforceShrink)
       /\ report' =
            [report EXCEPT
               !.processed  = @ + 1,
               !.failed     = IF Applied(nodes, id, o, EnforceShrink) = "Failed"
                              THEN @ + 1 ELSE @,
               !.violations = @ \o NewViolations(id, o)]
  /\ outcomes' = [n \in DOMAIN outcomes \ {id} |-> outcomes[n]]
  /\ UNCHANGED <<rev, textLen, cancel, counters, pc, round, todo>>

(* The slip of retrying the round when the batch came back short.          *)
EndRoundRetrying ==
  /\ pc = "merge" /\ DOMAIN outcomes = {}
  /\ todo' = {} /\ pc' = "check"
  /\ round' = IF todo = {} THEN round + 1 ELSE round
  /\ report' = IF todo = {} THEN [report EXCEPT !.rounds = @ + 1] ELSE report
  /\ UNCHANGED <<treeVars, cancel, counters, outcomes>>

(* A short batch ends the run as cancelled; a full one goes on.            *)
EndRound ==
  /\ pc = "merge" /\ DOMAIN outcomes = {}
  /\ todo' = {}
  /\ IF todo # {}
     THEN Return([report EXCEPT !.rounds = @ + 1, !.cancelled = TRUE])
     ELSE /\ pc' = "check" /\ round' = round + 1
          /\ report' = [report EXCEPT !.rounds = @ + 1]
          /\ UNCHANGED <<treeVars, cancel, counters, outcomes>>

----------------------------------------------------------------------------

EngineStep ==
  \/ RoundsExhausted
  \/ SeeCancelled
  \/ NothingReady
  \/ CollectJobs
  \/ \E id \in todo : ExecuteJob(id)
  \/ StopBatch
  \/ \E id \in DOMAIN outcomes : MergeJob(id)
  \/ EndRound

EditsOf(len) == {[start |-> a, oldEnd |-> b, newEnd |-> c] :
                   a \in 0 .. len, b \in 0 .. len, c \in 0 .. MaxLen} \cap Edit

Next ==
  \/ \E e \in EditsOf(textLen) : EditText(e)
  \/ Cancel
  \/ ResetToken
  \/ StartRun
  \/ EngineStep

(* The thread that called run keeps running: passes return, and nothing    *)
(* else is owed.                                                           *)
Fairness == WF_vars(EngineStep)

Spec == Init /\ [][Next]_vars /\ Fairness

(***************************************************************************)
(* Invariants.                                                             *)
(***************************************************************************)

TypeOK ==
  /\ IsArena(nodes)
  /\ rev \in Nat /\ textLen \in Nat
  /\ cancel \in BOOLEAN
  /\ pc \in {"idle", "check", "execute", "merge", "done"}
  /\ round \in 0 .. MaxRounds
  /\ todo \subseteq DOMAIN nodes
  /\ DOMAIN outcomes \subseteq DOMAIN nodes
  /\ outcomes \in [DOMAIN outcomes -> Outcome]
  /\ report \in RunReport
  /\ runs \in Nat /\ edits \in Nat /\ cancels \in Nat

(* The live nodes are one tree hanging from the root: apply, reuse and      *)
(* detach leave no live node under a dead one, no child listed twice, and   *)
(* no parent link that disagrees with a child list.                         *)
TreeShape == WellShaped(nodes)

(* Every live span indexes the current text, inside the parent's span,     *)
(* through any sequence of edits, runs and reuse; the root covers it all.  *)
SpansNested ==
  /\ nodes[Root].span = SpanOf(0, textLen, rev)
  /\ Nested(nodes, rev)

(* depth - attempts is the round that first processed the node: it never   *)
(* underflows, it is 0 for the root, and it comes after the round of the   *)
(* parent, so a reset node is never processed before its parent; and no    *)
(* node is ever queued past the last round, so each pass sees it at most    *)
(* once between two resets.                                                *)
HomeRounds ==
  /\ Homed(nodes)
  /\ \A n \in DOMAIN nodes : nodes[n].depth <= MaxRounds

(* Merging one job of a batch never drops or re-queues the node of another *)
(* job of the batch, so apply always meets the node the job was made from. *)
BatchStaysReady ==
  /\ \A n \in todo \union DOMAIN outcomes :
       IsPending(nodes, n, MaxRounds) /\ nodes[n].depth = round
  /\ todo \cap DOMAIN outcomes = {}

(* No node is left behind in a round the run has passed, reused children   *)
(* and retries included: what is still pending waits for a later round.    *)
NothingLeftBehind ==
  pc \in {"check", "execute", "merge"} =>
    \A n \in Pending(nodes, MaxRounds) :
      \/ nodes[n].depth > round
      \/ nodes[n].depth = round /\ (pc = "check" \/ n \in todo \union DOMAIN outcomes)

(* A parse from scratch reports its fixpoint truthfully (engine.rs:15).     *)
FirstFixpointIsTrue ==
  runs = 1 /\ pc = "done" /\ report.fixpoint => Pending(nodes, MaxRounds) = {}

(* What a report says of the tree it left: fixpoint and cancelled exclude   *)
(* each other. A fixpoint leaves nodes only for rounds after the one it was  *)
(* found in (that it leaves none is true of first runs alone: see           *)
(* FixpointMeansSettled). Neither means that every round ran and what is    *)
(* left was never parsed and has no round left to be.                       *)
ReportIsReadable ==
  pc = "done" =>
    /\ ~(report.fixpoint /\ report.cancelled)
    /\ report.failed <= report.processed
    /\ Len(report.violations) <= report.failed
    /\ report.fixpoint =>
         \A n \in Pending(nodes, MaxRounds) : nodes[n].depth > report.rounds
    /\ ~report.fixpoint /\ ~report.cancelled =>
         /\ report.rounds = MaxRounds
         /\ Pending(nodes, MaxRounds) # {}
         /\ \A n \in Pending(nodes, MaxRounds) :
              nodes[n].status = "Unparsed" /\ nodes[n].depth = MaxRounds

(***************************************************************************)
(* Action properties.                                                      *)
(***************************************************************************)

(* What a child may be.                                                    *)
Allowed(parent, child) ==
  /\ child.rev = rev /\ Contains(parent, child)
  /\ EnforceShrink => SpanLen(child) < SpanLen(parent)

(* A node id is never reassigned: its context and parent are fixed, the    *)
(* arena only grows, and a dropped node never comes back.                  *)
IdsAreStable ==
  [][/\ DOMAIN nodes \subseteq DOMAIN nodes'
     /\ \A n \in DOMAIN nodes :
          /\ nodes'[n].ctx = nodes[n].ctx /\ nodes'[n].parent = nodes[n].parent
          /\ nodes'[n].alive => nodes[n].alive]_vars

(* Between edits, the only surviving node a step changes is the one it      *)
(* merges, which was waiting for this round: settled regions, reused ones   *)
(* included, are never re-parsed.                                           *)
RunsTouchOnlyReadyNodes ==
  [][rev' = rev =>
       \E id \in DOMAIN nodes : \A n \in DOMAIN nodes :
         \/ nodes'[n] = nodes[n]
         \/ ~nodes'[n].alive
         \/ n = id /\ IsPending(nodes, id, MaxRounds) /\ nodes[id].depth = round]_vars

(* A merge takes an expansion whole or refuses it whole. If every region is  *)
(* inside the node, on the text's revision and, when asked for, smaller, the *)
(* node gets a live child for each of them, in order, kept or new. If one is *)
(* not, the node fails with one violation and keeps nothing below it, the    *)
(* children it had that match the other regions included.                   *)
ExpansionsAreAllOrNothing ==
  [][\A id \in DOMAIN outcomes \ DOMAIN outcomes' :
       LET asked   == outcomes[id].children
           got     == nodes'[id].children
           refused == \E i \in DOMAIN asked : ~Allowed(nodes[id].span, asked[i].span)
           news    == Len(report'.violations) - Len(report.violations)
       IN  /\ refused => nodes'[id].status = "Failed"
           /\ news = IF refused THEN 1 ELSE 0
           /\ IF refused \/ asked = <<>>
              THEN \A n \in Live(nodes') : nodes'[n].parent # id
              ELSE /\ nodes'[id].status = "Expanded" /\ DOMAIN got = DOMAIN asked
                   /\ \A i \in DOMAIN asked :
                        nodes'[got[i]].alive /\ RegionOf(nodes', got[i]) = asked[i]]_vars

(* Every edit reopens the root at round 0, and with a node all the nodes    *)
(* above it, so that the next run finds its way down to every reset node.   *)
EditsReopenFromTheRoot ==
  [][rev' # rev =>
       /\ nodes'[Root].status = "Unparsed" /\ nodes'[Root].depth = 0
       /\ \A n \in Live(nodes) \ {Root} :
            ~OnlyMoved(nodes[n], nodes'[n]) =>
              nodes'[nodes[n].parent].status = "Unparsed"]_vars

(***************************************************************************)
(* What the documentation says and the code does not do.                   *)
(***************************************************************************)

(* engine.rs:15: reached_fixpoint means every node settled. Not after a     *)
(* cancelled run: the next one starts again at round 0, finds nothing ready *)
(* there and stops.                                                        *)
FixpointMeansSettled ==
  pc = "done" /\ report.fixpoint => Pending(nodes, MaxRounds) = {}

(* tree.rs:209-212: every node an edit could have changed is reset for      *)
(* re-parsing on the next run. Not when a parent that used to expand in a   *)
(* later round now expands in an earlier one and keeps the child's depth.   *)
EditedNodesAreReparsed ==
  pc = "done" /\ ~report.cancelled =>
    \A n \in Live(nodes) :
      nodes[n].status = "Unparsed" => nodes[n].depth >= MaxRounds

(* engine.rs:22: rounds_run counts rounds that processed at least one node. *)
(* Not when the token fires between the engine's check and the executor's.  *)
RoundsRunProcessSomething == report.rounds <= report.processed

(***************************************************************************)
(* Liveness.                                                               *)
(***************************************************************************)

(* Every run returns, whatever the passes, the token and the executor do.  *)
RunsReturn == (pc = "check") ~> (pc = "done")

============================================================================
