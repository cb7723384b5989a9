---------------------------- MODULE EngineProofs ----------------------------
(***************************************************************************)
(* The safety of the engine for every schedule, configuration, pass, number *)
(* of runs and edits, and text. IInv is inductive; TreeShape, SpansNested,  *)
(* HomeRounds, BatchStaysReady and NothingLeftBehind are five of its parts. *)
(* The second half is about the walks of TreeQueries over the trees that    *)
(* the engine reaches, and lists a tree in one order, which whatever is     *)
(* gathered node by node follows. The last part is why a run returns.       *)
(***************************************************************************)
EXTENDS TreeQueries, ParseTreeProofs, Listings, SequenceTheorems

(* Between runs no job is in flight.                                        *)
Quiet == pc \in {"idle", "check", "done"} => todo = {} /\ DOMAIN outcomes = {}

(* A batch belongs to a round that exists.                                  *)
InRound == pc \in {"execute", "merge"} => round < MaxRounds

IInv ==
  /\ TypeOK
  /\ TreeShape
  /\ SpansNested
  /\ HomeRounds
  /\ BatchStaysReady
  /\ NothingLeftBehind
  /\ Quiet
  /\ InRound

(* The bound of the run's loop is a number.                                 *)
LEMMA MaxRoundsIsNat == MaxRounds \in Nat
  BY ScheduleAssumption, CapAssumption DEF MaxRounds

(* A merge adds at most one violation, and only with a failure.             *)
LEMMA NewViolationsType ==
  ASSUME NEW id \in Nat, NEW o \in Outcome, round \in Nat
  PROVE  /\ NewViolations(id, o) \in Seq(ViolationRecord)
         /\ Len(NewViolations(id, o)) <= 1
         /\ Len(NewViolations(id, o)) = 1 =>
              Applied(nodes, id, o, EnforceShrink) = "Failed"
  <1> DEFINE bad   == Breaches(nodes, id, o, EnforceShrink)
             first == CHOOSE i \in bad : \A j \in bad : i <= j
             kind  == ViolationKind(nodes[id].span, o.children[first].span,
                                    EnforceShrink)
  <1>1. CASE o.kind = "Failed" \/ bad = {}
    BY <1>1 DEF NewViolations
  <1>2. CASE ~(o.kind = "Failed" \/ bad = {})
    <2>1. o.children \in Seq(Region)
      <3>1. <<>> \in Seq(Region)
        OBVIOUS
      <3>2. o.children = <<>> \/ o.children \in Seq(Region)
        BY DEF Outcome
      <3> QED
        BY <3>1, <3>2
    <2>2. bad \subseteq Nat
      <3>1. bad \subseteq DOMAIN o.children
        BY DEF Breaches
      <3>2. DOMAIN o.children = 1 .. Len(o.children) /\ Len(o.children) \in Nat
        BY <2>1
      <3> QED
        BY <3>1, <3>2
    <2>3. \E i \in bad : \A j \in bad : i <= j
      <3> HIDE DEF bad
      <3> QED
        BY <1>2, <2>2, LeastNatural
    <2>4. first \in bad
      BY <2>3
    <2>5. kind # "None"
      BY <2>4 DEF Breaches
    <2>6. kind \in {"WrongRevision", "OutsideParent", "NotSmaller"}
      BY <2>5 DEF ViolationKind
    <2>7. NewViolations(id, o) = << [node |-> id, round |-> round, kind |-> kind] >>
      BY <1>2 DEF NewViolations
    <2>8. Applied(nodes, id, o, EnforceShrink) = "Failed"
      BY <1>2 DEF Applied
    <2> HIDE DEF kind
    <2>9. [node |-> id, round |-> round, kind |-> kind] \in ViolationRecord
      BY <2>6 DEF ViolationRecord
    <2> QED
      BY <2>7, <2>8, <2>9
  <1> QED
    BY <1>1, <1>2

----------------------------------------------------------------------------

(* The engine starts with a tree of one node and no batch.                  *)
LEMMA InitIInv == Init => IInv
  <1> SUFFICES ASSUME Init PROVE IInv
    OBVIOUS
  <1> DEFINE span == SpanOf(0, textLen, 0)
  <1>1. textLen \in Nat /\ rev = 0 /\ MaxRounds \in Nat
    BY BoundsAssumption, MaxRoundsIsNat DEF Init
  <1>2. span \in Span /\ span.rev = 0
    BY <1>1 DEF Span, SpanOf
  <1>3. nodes = NewTree(span, RootCtx)
    BY DEF Init
  <1> HIDE DEF span
  <1>4. /\ IsArena(nodes) /\ WellShaped(nodes) /\ Homed(nodes) /\ Nested(nodes, 0)
        /\ DOMAIN nodes = {Root} /\ nodes[Root].span = span
        /\ nodes[Root].depth = 0
    BY <1>2, <1>3, RootCtxAssumption, NewTreeIsTree
  <1>5. /\ cancel = FALSE /\ pc = "idle" /\ round = 0 /\ todo = {}
        /\ outcomes = NoOutcomes /\ DOMAIN outcomes = {}
        /\ runs = 0 /\ edits = 0 /\ cancels = 0
    BY DEF Init, NoOutcomes
  <1>6. report \in RunReport
    BY DEF Init, EmptyReport, RunReport
  <1>7. outcomes \in [DOMAIN outcomes -> Outcome]
    BY <1>5 DEF NoOutcomes
  <1>8. TypeOK
    <2>0. round \in 0 .. MaxRounds
      BY <1>1, <1>5
    <2>1. cancel \in BOOLEAN
      BY <1>5
    <2>2. todo \subseteq DOMAIN nodes /\ DOMAIN outcomes \subseteq DOMAIN nodes
      BY <1>5
    <2>3. rev \in Nat /\ textLen \in Nat /\ runs \in Nat /\ edits \in Nat /\ cancels \in Nat
      BY <1>1, <1>5
    <2>4. pc \in {"idle", "check", "execute", "merge", "done"}
      BY <1>5
    <2> QED
      BY <2>0, <2>1, <2>2, <2>3, <2>4, <1>4, <1>6, <1>7 DEF TypeOK
  <1>9. TreeShape /\ SpansNested /\ HomeRounds
    BY <1>1, <1>4 DEF TreeShape, SpansNested, HomeRounds, span
  <1>10. BatchStaysReady /\ NothingLeftBehind /\ Quiet /\ InRound
    BY <1>5 DEF BatchStaysReady, NothingLeftBehind, Quiet, InRound
  <1> QED
    BY <1>8, <1>9, <1>10 DEF IInv

(* What the tree part of the invariant says of the tree, the round and the  *)
(* batch, in the form the steps below use.                                  *)
LEMMA IInvFacts ==
  ASSUME IInv
  PROVE  /\ IsArena(nodes) /\ WellShaped(nodes) /\ Homed(nodes) /\ Nested(nodes, rev)
         /\ MaxRounds \in Nat /\ round \in Nat /\ round <= MaxRounds
         /\ \A n \in DOMAIN nodes :
              nodes[n] \in Node /\ n \in Nat /\ nodes[n].depth <= MaxRounds
         /\ Root \in DOMAIN nodes
  <1>1. IsArena(nodes) /\ round \in 0 .. MaxRounds
    BY DEF IInv, TypeOK
  <1>2. \A n \in DOMAIN nodes : nodes[n] \in Node /\ n \in Nat
    BY <1>1, ArenaFacts DEF IsArena
  <1> QED
    BY <1>1, <1>2, MaxRoundsIsNat, ArenaFacts
       DEF IInv, TreeShape, SpansNested, HomeRounds

(* An edit keeps the invariant.                                             *)
LEMMA EditKeepsIInv ==
  ASSUME IInv, NEW e \in EditsOf(textLen), EditText(e)
  PROVE  IInv'
  <1>1. /\ IsArena(nodes) /\ WellShaped(nodes) /\ Homed(nodes) /\ Nested(nodes, rev)
        /\ MaxRounds \in Nat /\ round \in Nat
        /\ \A n \in DOMAIN nodes : nodes[n] \in Node /\ nodes[n].depth <= MaxRounds
        /\ Root \in DOMAIN nodes
    BY IInvFacts
  <1>2. e \in Edit /\ e.oldEnd <= textLen /\ textLen \in Nat /\ rev \in Nat
    BY DEF EditsOf, EditText, IInv, TypeOK
  <1>3. /\ textLen' = e.newEnd + (textLen - e.oldEnd) /\ textLen' \in Nat
        /\ rev' = rev + 1 /\ rev' \in Nat
    BY <1>2 DEF EditText, Edit
  <1>4. nodes' = EditTree(nodes, e, rev')
    BY DEF EditText
  <1>5. /\ IsArena(nodes') /\ WellShaped(nodes') /\ Homed(nodes')
        /\ Nested(nodes', rev')
        /\ DOMAIN nodes' = DOMAIN nodes
        /\ \A n \in DOMAIN nodes : nodes'[n].depth <= nodes[n].depth
        /\ nodes'[Root].span = MapSpan(e, nodes[Root].span, rev')
    <2>1. IsArena(nodes) /\ WellShaped(nodes) /\ Homed(nodes) /\ Nested(nodes, rev)
      BY <1>1
    <2>2. e \in Edit /\ rev' \in Nat
      BY <1>2, <1>3
    <2> QED
      BY <2>1, <2>2, <1>4, EditKeepsTree
  <1>6. nodes'[Root].span = SpanOf(0, textLen', rev')
    <2>1. nodes[Root].span = SpanOf(0, textLen, rev)
      BY DEF IInv, SpansNested
    <2> QED
      BY <2>1, <1>2, <1>3, <1>5, EditOfWholeText
  <1>7. \A n \in DOMAIN nodes' : nodes'[n].depth <= MaxRounds
    <2>1. ASSUME NEW n \in DOMAIN nodes
          PROVE  nodes'[n].depth <= MaxRounds
      <3>1. nodes'[n] \in Node
        BY <1>5, ArenaFacts
      <3>2. nodes'[n].depth \in Nat /\ nodes[n].depth \in Nat
        BY <3>1, <1>1 DEF Node
      <3> QED
        BY <3>2, <1>1, <1>5
    <2> QED
      BY <2>1, <1>5
  <1>8. /\ pc \in {"idle", "done"} /\ pc' = "idle" /\ todo' = todo
        /\ outcomes' = outcomes /\ todo = {} /\ DOMAIN outcomes = {}
    BY DEF EditText, Resting, IInv, Quiet
  <1>9. TypeOK'
    <2>1. edits' \in Nat
      BY DEF EditText, IInv, TypeOK
    <2> QED
      BY <2>1, <1>3, <1>5, <1>8, MaxRoundsIsNat
         DEF EditText, IInv, TypeOK, MaxRounds
  <1>10. TreeShape' /\ SpansNested' /\ HomeRounds'
    BY <1>5, <1>6, <1>7 DEF TreeShape, SpansNested, HomeRounds, MaxRounds
  <1>11. BatchStaysReady' /\ NothingLeftBehind' /\ Quiet' /\ InRound'
    BY <1>8 DEF BatchStaysReady, NothingLeftBehind, Quiet, InRound
  <1> QED
    BY <1>9, <1>10, <1>11 DEF IInv

(* Merging a job keeps the invariant: the tree stays a tree, the other jobs *)
(* of the batch stay in it, and what is still to do waits for a later round. *)
LEMMA MergeKeepsIInv ==
  ASSUME IInv, NEW id \in DOMAIN outcomes, MergeJob(id)
  PROVE  /\ IInv' /\ Merges(nodes, nodes', id, round)
         /\ id \in Live(nodes) /\ IsPending(nodes, id, MaxRounds)
         /\ nodes[id].depth = round
  <1> DEFINE o == outcomes[id]
  <1>1. /\ IsArena(nodes) /\ WellShaped(nodes) /\ Homed(nodes) /\ Nested(nodes, rev)
        /\ MaxRounds \in Nat /\ round \in Nat
        /\ \A n \in DOMAIN nodes : /\ nodes[n] \in Node /\ n \in Nat
                                   /\ nodes[n].depth <= MaxRounds
        /\ Root \in DOMAIN nodes
    BY IInvFacts
  <1>2. /\ pc = "merge" /\ round < MaxRounds
        /\ pc' = pc /\ round' = round /\ todo' = todo /\ rev' = rev
        /\ textLen' = textLen /\ DOMAIN outcomes' = DOMAIN outcomes \ {id}
        /\ \A n \in DOMAIN outcomes' : outcomes'[n] = outcomes[n]
        /\ outcomes' = [n \in DOMAIN outcomes' |-> outcomes'[n]]
    BY DEF MergeJob, IInv, InRound
  <1>3. /\ id \in Live(nodes) /\ IsPending(nodes, id, MaxRounds)
        /\ nodes[id].depth = round
        /\ o \in Outcome /\ id \in DOMAIN nodes
    BY DEF IInv, TypeOK, BatchStaysReady, IsPending, Live
  <1>4. nodes' = Apply(nodes, id, o, round, EnforceShrink)
    BY DEF MergeJob
  <1> HIDE DEF o
  <1>5. /\ IsArena(nodes') /\ WellShaped(nodes') /\ Homed(nodes')
        /\ Nested(nodes', rev) /\ Merges(nodes, nodes', id, round)
    BY <1>1, <1>3, <1>4, ConfigAssumption, ApplyKeepsTree
  <1>6. /\ DOMAIN nodes \subseteq DOMAIN nodes'
        /\ nodes'[Root].span = nodes[Root].span
        /\ \A n \in DOMAIN nodes \ {id} :
             \/ nodes'[n] = nodes[n]
             \/ /\ nodes[n].depth > round /\ ~nodes'[n].alive
                /\ nodes'[n].depth = nodes[n].depth
        /\ \/ nodes'[id].status \in {"Done", "Expanded"} /\ nodes'[id].depth = round
           \/ nodes'[id].status = "Failed" /\ nodes'[id].depth = round + 1
        /\ \A n \in DOMAIN nodes' \ DOMAIN nodes : nodes'[n].depth = round + 1
    BY <1>1, <1>5 DEF Merges
  <1>7. \A n \in DOMAIN nodes' : nodes'[n].depth <= MaxRounds
    BY <1>1, <1>2, <1>6
  <1>8. TreeShape' /\ SpansNested' /\ HomeRounds'
    BY <1>2, <1>5, <1>6, <1>7
       DEF IInv, TreeShape, SpansNested, HomeRounds, MaxRounds
  <1>9. /\ todo \cap DOMAIN outcomes = {} /\ todo \subseteq DOMAIN nodes
        /\ DOMAIN outcomes \subseteq DOMAIN nodes
        /\ \A n \in todo \union DOMAIN outcomes :
             IsPending(nodes, n, MaxRounds) /\ nodes[n].depth = round
    BY DEF IInv, BatchStaysReady, TypeOK
  <1>10. \A n \in todo \union DOMAIN outcomes' :
           n \in DOMAIN nodes' /\ nodes'[n] = nodes[n]
    BY <1>1, <1>2, <1>6, <1>9
  <1>11. BatchStaysReady'
    BY <1>2, <1>9, <1>10 DEF BatchStaysReady, IsPending, MaxRounds
  <1>12. NothingLeftBehind'
    <2> SUFFICES ASSUME NEW n \in Pending(nodes', MaxRounds)
                 PROVE  \/ nodes'[n].depth > round
                        \/ /\ nodes'[n].depth = round
                           /\ n \in todo \union DOMAIN outcomes'
      BY <1>2 DEF NothingLeftBehind, MaxRounds
    <2>1. n \in DOMAIN nodes' /\ IsPending(nodes', n, MaxRounds)
      BY DEF Pending
    <2>2. CASE n \notin DOMAIN nodes
      BY <2>1, <2>2, <1>1, <1>6
    <2>3. CASE n = id
      BY <2>1, <2>3, <1>1, <1>6 DEF IsPending
    <2>4. CASE n \in DOMAIN nodes \ {id}
      <3>1. nodes'[n] = nodes[n]
        BY <2>1, <2>4, <1>6 DEF IsPending
      <3>2. n \in Pending(nodes, MaxRounds)
        BY <2>1, <2>4, <3>1 DEF Pending, IsPending
      <3>3. \/ nodes[n].depth > round
            \/ nodes[n].depth = round /\ n \in todo \union DOMAIN outcomes
        BY <3>2, <1>2 DEF IInv, NothingLeftBehind
      <3> QED
        BY <3>1, <3>3, <2>4, <1>2
    <2> QED
      BY <2>2, <2>3, <2>4
  <1>13. Quiet' /\ InRound'
    BY <1>2 DEF Quiet, InRound, MaxRounds
  <1>14. report' \in RunReport
    <2>1. report \in RunReport
      BY DEF IInv, TypeOK
    <2>2. NewViolations(id, o) \in Seq(ViolationRecord)
      BY <1>1, <1>3, NewViolationsType
    <2>3. report' = [report EXCEPT
                       !.processed  = @ + 1,
                       !.failed     = IF Applied(nodes, id, o, EnforceShrink) = "Failed"
                                      THEN @ + 1 ELSE @,
                       !.violations = @ \o NewViolations(id, o)]
      BY DEF MergeJob, o
    <2>4. report' = [rounds |-> report.rounds, processed |-> report.processed + 1,
                     failed |-> IF Applied(nodes, id, o, EnforceShrink) = "Failed"
                                THEN report.failed + 1 ELSE report.failed,
                     fixpoint |-> report.fixpoint, cancelled |-> report.cancelled,
                     violations |-> report.violations \o NewViolations(id, o)]
      BY <2>1, <2>3 DEF RunReport
    <2>5. report.violations \o NewViolations(id, o) \in Seq(ViolationRecord)
      BY <2>1, <2>2 DEF RunReport
    <2> QED
      BY <2>1, <2>4, <2>5 DEF RunReport
  <1>15. TypeOK'
    <2>1. outcomes' \in [DOMAIN outcomes' -> Outcome]
      <3>1. \A n \in DOMAIN outcomes : outcomes[n] \in Outcome
        BY DEF IInv, TypeOK
      <3> QED
        BY <3>1, <1>2
    <2>2. /\ cancel' = cancel /\ runs' = runs /\ edits' = edits /\ cancels' = cancels
      BY DEF MergeJob, counters
    <2>3. /\ cancel \in BOOLEAN /\ runs \in Nat /\ edits \in Nat /\ cancels \in Nat
          /\ rev \in Nat /\ textLen \in Nat /\ round \in 0 .. MaxRounds
      BY DEF IInv, TypeOK
    <2>4. todo' \subseteq DOMAIN nodes' /\ DOMAIN outcomes' \subseteq DOMAIN nodes'
      BY <1>2, <1>6, <1>9
    <2> QED
      BY <2>1, <2>2, <2>3, <2>4, <1>2, <1>5, <1>14 DEF TypeOK, MaxRounds
  <1> QED
    BY <1>3, <1>5, <1>8, <1>11, <1>12, <1>13, <1>15 DEF IInv

(* A step that leaves the tree alone and the batch or the round as they     *)
(* should be keeps the invariant: what remains to check of it is what the   *)
(* step says of its place, its batch and its report.                        *)
LEMMA SameTreeKeepsIInv ==
  ASSUME IInv, UNCHANGED treeVars,
         pc' \in {"idle", "check", "execute", "merge", "done"},
         round' \in 0 .. MaxRounds, cancel' \in BOOLEAN, report' \in RunReport,
         runs' \in Nat, edits' \in Nat, cancels' \in Nat,
         outcomes' \in [DOMAIN outcomes' -> Outcome],
         Quiet', InRound',
         todo' \cap DOMAIN outcomes' = {},
         \A n \in todo' \union DOMAIN outcomes' :
           /\ n \in DOMAIN nodes
           /\ IsPending(nodes, n, MaxRounds) /\ nodes[n].depth = round',
         pc' \in {"check", "execute", "merge"} =>
           \A n \in Pending(nodes, MaxRounds) :
             \/ nodes[n].depth > round'
             \/ /\ nodes[n].depth = round'
                /\ pc' = "check" \/ n \in todo' \union DOMAIN outcomes'
  PROVE  IInv'
  <1>1. nodes' = nodes /\ rev' = rev /\ textLen' = textLen /\ MaxRounds' = MaxRounds
    BY DEF treeVars, MaxRounds
  <1>2. TypeOK'
    <2>1. todo' \subseteq DOMAIN nodes' /\ DOMAIN outcomes' \subseteq DOMAIN nodes'
      BY <1>1
    <2>2. IsArena(nodes') /\ rev' \in Nat /\ textLen' \in Nat
      BY <1>1 DEF IInv, TypeOK
    <2>3. round' \in 0 .. MaxRounds'
      BY <1>1
    <2> QED
      BY <2>1, <2>2, <2>3 DEF TypeOK
  <1>3. TreeShape' /\ SpansNested' /\ HomeRounds'
    BY <1>1 DEF IInv, TreeShape, SpansNested, HomeRounds
  <1>4. BatchStaysReady' /\ NothingLeftBehind'
    BY <1>1 DEF BatchStaysReady, NothingLeftBehind
  <1> QED
    BY <1>2, <1>3, <1>4 DEF IInv

(* Changing one flag or count of a report leaves a report.                  *)
LEMMA ReportTypes ==
  ASSUME report \in RunReport
  PROVE  /\ \A x \in BOOLEAN : [report EXCEPT !.fixpoint = x] \in RunReport
         /\ [report EXCEPT !.cancelled = TRUE] \in RunReport
         /\ [report EXCEPT !.rounds = @ + 1] \in RunReport
         /\ [report EXCEPT !.rounds = @ + 1, !.cancelled = TRUE] \in RunReport
  <1>1. \A x \in BOOLEAN : [report EXCEPT !.fixpoint = x] \in RunReport
    BY DEF RunReport
  <1>2. [report EXCEPT !.cancelled = TRUE] \in RunReport
    BY DEF RunReport
  <1>3. [report EXCEPT !.rounds = @ + 1] \in RunReport
    BY DEF RunReport
  <1>4. [report EXCEPT !.rounds = @ + 1, !.cancelled = TRUE] \in RunReport
    <2> DEFINE counted == [report EXCEPT !.rounds = @ + 1]
    <2>1. [report EXCEPT !.rounds = @ + 1, !.cancelled = TRUE]
            = [counted EXCEPT !.cancelled = TRUE]
      OBVIOUS
    <2>2. counted \in RunReport
      BY <1>3
    <2> HIDE DEF counted
    <2>3. [counted EXCEPT !.cancelled = TRUE] \in RunReport
      BY <2>2 DEF RunReport
    <2> QED
      BY <2>1, <2>3
  <1> QED
    BY <1>1, <1>2, <1>3, <1>4

(* Every step keeps the invariant.                                          *)
LEMMA NextIInv == IInv /\ [Next]_vars => IInv'
  <1> SUFFICES ASSUME IInv, [Next]_vars PROVE IInv'
    OBVIOUS
  <1>0. /\ MaxRounds \in Nat /\ round \in Nat /\ round \in 0 .. MaxRounds
        /\ \A n \in DOMAIN nodes : nodes[n].depth \in Nat
    BY IInvFacts DEF Node, IInv, TypeOK
  <1>t. /\ pc \in {"idle", "check", "execute", "merge", "done"}
        /\ cancel \in BOOLEAN /\ report \in RunReport
        /\ runs \in Nat /\ edits \in Nat /\ cancels \in Nat
        /\ outcomes \in [DOMAIN outcomes -> Outcome]
        /\ todo \subseteq DOMAIN nodes
    BY DEF IInv, TypeOK
  <1>b. /\ todo \cap DOMAIN outcomes = {}
        /\ \A n \in todo \union DOMAIN outcomes :
             /\ n \in DOMAIN nodes
             /\ IsPending(nodes, n, MaxRounds) /\ nodes[n].depth = round
    BY DEF IInv, BatchStaysReady, TypeOK
  <1>l. pc \in {"check", "execute", "merge"} =>
          \A n \in Pending(nodes, MaxRounds) :
            \/ nodes[n].depth > round
            \/ /\ nodes[n].depth = round
               /\ pc = "check" \/ n \in todo \union DOMAIN outcomes
    BY DEF IInv, NothingLeftBehind
  <1>q. Quiet /\ InRound
    BY DEF IInv
  <1>1. ASSUME NEW e \in EditsOf(textLen), EditText(e) PROVE IInv'
    BY <1>1, EditKeepsIInv
  <1>2. CASE Cancel \/ ResetToken
    <2>1. UNCHANGED <<treeVars, pc, round, todo, outcomes, report, runs, edits>>
      BY <1>2 DEF Cancel, ResetToken, counters, runVars
    <2>2. cancel' \in BOOLEAN
      BY <1>2 DEF Cancel, ResetToken
    <2>3. cancels' \in Nat
      BY <1>2, <1>t DEF Cancel, ResetToken, counters
    <2>4. Quiet' /\ InRound'
      BY <2>1, <1>q DEF Quiet, InRound, MaxRounds
    <2> QED
      BY <2>1, <2>2, <2>3, <2>4, <1>0, <1>t, <1>b, <1>l, SameTreeKeepsIInv
  <1>3. CASE StartRun
    <2>1. /\ UNCHANGED <<treeVars, cancel, edits, cancels>>
          /\ pc' = "check" /\ round' = 0 /\ todo' = {} /\ DOMAIN outcomes' = {}
          /\ outcomes' = NoOutcomes /\ report' = EmptyReport /\ runs' = runs + 1
      BY <1>3 DEF StartRun, NoOutcomes
    <2>2. report' \in RunReport
      BY <2>1 DEF EmptyReport, RunReport
    <2>3. runs' \in Nat /\ round' \in 0 .. MaxRounds
      BY <2>1, <1>0, <1>t
    <2>4. Quiet' /\ InRound'
      BY <2>1 DEF Quiet, InRound
    <2>5. outcomes' \in [DOMAIN outcomes' -> Outcome]
      BY <2>1 DEF NoOutcomes
    <2>6. \A n \in Pending(nodes, MaxRounds) :
            nodes[n].depth > round' \/ nodes[n].depth = round'
      BY <2>1, <1>0 DEF Pending
    <2> QED
      BY <2>1, <2>2, <2>3, <2>4, <2>5, <2>6, <1>t, SameTreeKeepsIInv
  <1>4. CASE RoundsExhausted \/ SeeCancelled \/ NothingReady
    <2>1. /\ pc = "check" /\ pc' = "done" /\ round' = 0 /\ todo' = todo
          /\ UNCHANGED <<treeVars, cancel, runs, edits, cancels, outcomes>>
      BY <1>4 DEF RoundsExhausted, SeeCancelled, NothingReady, Return, counters
    <2>2. report' \in RunReport
      <3>1. (Pending(nodes, MaxRounds) = {}) \in BOOLEAN /\ TRUE \in BOOLEAN
        OBVIOUS
      <3> QED
        BY <3>1, <1>4, <1>t, ReportTypes
           DEF RoundsExhausted, SeeCancelled, NothingReady, Return
    <2>3. todo' = {} /\ DOMAIN outcomes' = {}
      BY <2>1, <1>q DEF Quiet
    <2>4. Quiet' /\ InRound'
      BY <2>1, <2>3 DEF Quiet, InRound
    <2>5. round' \in 0 .. MaxRounds
      BY <2>1, <1>0
    <2> QED
      BY <2>1, <2>2, <2>3, <2>4, <2>5, <1>t, SameTreeKeepsIInv
  <1>5. CASE CollectJobs
    <2>1. /\ pc = "check" /\ pc' = "execute" /\ round < MaxRounds
          /\ todo' = ReadyJobs(nodes, round)
          /\ UNCHANGED <<treeVars, cancel, runs, edits, cancels, round, outcomes, report>>
      BY <1>5 DEF CollectJobs, counters
    <2>2. DOMAIN outcomes' = {}
      BY <2>1, <1>q DEF Quiet
    <2>3. \A n \in todo' : /\ n \in DOMAIN nodes
                           /\ IsPending(nodes, n, MaxRounds)
                           /\ nodes[n].depth = round
      BY <2>1 DEF ReadyJobs, Live, IsPending
    <2>4. \A n \in Pending(nodes, MaxRounds) :
            nodes[n].depth > round \/ (nodes[n].depth = round /\ n \in todo')
      <3>1. \A n \in Pending(nodes, MaxRounds) :
              nodes[n].depth = round => n \in ReadyJobs(nodes, round)
        BY DEF Pending, IsPending, ReadyJobs, Live
      <3>2. \A n \in Pending(nodes, MaxRounds) :
              nodes[n].depth > round \/ nodes[n].depth = round
        BY <2>1, <1>l
      <3> QED
        BY <2>1, <3>1, <3>2
    <2>5. Quiet' /\ InRound'
      BY <2>1 DEF Quiet, InRound, MaxRounds
    <2> QED
      BY <2>1, <2>2, <2>3, <2>4, <2>5, <1>0, <1>t, SameTreeKeepsIInv
  <1>6. ASSUME NEW id \in todo, ExecuteJob(id) PROVE IInv'
    <2>1. /\ pc = "execute" /\ todo' = todo \ {id}
          /\ UNCHANGED <<treeVars, cancel, runs, edits, cancels, pc, round, report>>
      BY <1>6 DEF ExecuteJob, counters
    <2>2. PICK o \in Outcome :
            outcomes' = [n \in DOMAIN outcomes \union {id} |->
                           IF n = id THEN o ELSE outcomes[n]]
      BY <1>6 DEF ExecuteJob
    <2>3. DOMAIN outcomes' = DOMAIN outcomes \union {id}
      BY <2>2
    <2>4. outcomes' \in [DOMAIN outcomes' -> Outcome]
      BY <2>2, <2>3, <1>t
    <2>5. todo' \union DOMAIN outcomes' = todo \union DOMAIN outcomes
      BY <2>1, <2>3
    <2>6. todo' \cap DOMAIN outcomes' = {}
      BY <2>1, <2>3, <1>b
    <2>7. Quiet' /\ InRound'
      BY <2>1, <1>q DEF Quiet, InRound, MaxRounds
    <2> QED
      BY <2>1, <2>4, <2>5, <2>6, <2>7, <1>0, <1>t, <1>b, <1>l, SameTreeKeepsIInv
  <1>7. CASE StopBatch
    <2>1. /\ pc = "execute" /\ pc' = "merge"
          /\ UNCHANGED <<treeVars, cancel, runs, edits, cancels, round, todo,
                         outcomes, report>>
      BY <1>7 DEF StopBatch, counters
    <2>2. Quiet' /\ InRound'
      BY <2>1, <1>q DEF Quiet, InRound, MaxRounds
    <2> QED
      BY <2>1, <2>2, <1>0, <1>t, <1>b, <1>l, SameTreeKeepsIInv
  <1>8. ASSUME NEW id \in DOMAIN outcomes, MergeJob(id) PROVE IInv'
    BY <1>8, MergeKeepsIInv
  <1>9. CASE EndRound
    <2>1. /\ pc = "merge" /\ DOMAIN outcomes = {} /\ todo' = {}
          /\ UNCHANGED <<treeVars, cancel, runs, edits, cancels, outcomes>>
          /\ \/ pc' = "done" /\ round' = 0
             \/ pc' = "check" /\ round' = round + 1 /\ todo = {}
      BY <1>9 DEF EndRound, Return, counters
    <2>2. report' \in RunReport
      BY <1>9, <1>t, ReportTypes DEF EndRound, Return
    <2>3. round < MaxRounds /\ round' \in 0 .. MaxRounds
      BY <2>1, <1>0, <1>q DEF InRound
    <2>4. Quiet' /\ InRound'
      BY <2>1 DEF Quiet, InRound
    <2>5. pc' = "check" =>
            \A n \in Pending(nodes, MaxRounds) :
              nodes[n].depth > round' \/ nodes[n].depth = round'
      BY <2>1, <1>0, <1>l DEF Pending
    <2> QED
      BY <2>1, <2>2, <2>3, <2>4, <2>5, <1>t, SameTreeKeepsIInv
  <1>10. CASE UNCHANGED vars
    <2>1. UNCHANGED <<treeVars, pc, round, todo, outcomes, report, cancel, runs,
                      edits, cancels>>
      BY <1>10 DEF vars, runVars, counters
    <2>2. Quiet' /\ InRound'
      BY <2>1, <1>q DEF Quiet, InRound, MaxRounds
    <2> QED
      BY <2>1, <2>2, <1>0, <1>t, <1>b, <1>l, SameTreeKeepsIInv
  <1> QED
    BY <1>1, <1>2, <1>3, <1>4, <1>5, <1>6, <1>7, <1>8, <1>9, <1>10
       DEF Next, EngineStep

----------------------------------------------------------------------------

(* The whole inductive invariant holds of every reachable state.            *)
THEOREM Invariance == Spec => []IInv
  <1>1. Init => IInv
    BY InitIInv
  <1>2. IInv /\ [Next]_vars => IInv'
    BY NextIInv
  <1> QED
    BY <1>1, <1>2, PTL DEF Spec

(* The state of the engine has its types; the arena has no gap.             *)
THEOREM TypeCorrectness == Spec => []TypeOK
  BY Invariance, PTL DEF IInv

(* The live nodes are always one tree: no orphan, no node listed twice.     *)
THEOREM TreeIsATree == Spec => []TreeShape
  BY Invariance, PTL DEF IInv

(* Every live span lies in its parent's, in the current text.               *)
THEOREM SpansStayNested == Spec => []SpansNested
  BY Invariance, PTL DEF IInv

(* depth - attempts never underflows and stays after the parent's round.     *)
THEOREM HomesFollowParents == Spec => []HomeRounds
  BY Invariance, PTL DEF IInv

(* No merge of a batch disturbs the nodes of its other jobs.                *)
THEOREM BatchesStayReady == Spec => []BatchStaysReady
  BY Invariance, PTL DEF IInv

(* A run never passes the round of a node that is still to be processed.     *)
THEOREM NothingIsLeftBehind == Spec => []NothingLeftBehind
  BY Invariance, PTL DEF IInv

----------------------------------------------------------------------------
(* What a step does to the tree.                                            *)

(* Only edits and merges change the tree; only edits change the revision.    *)
LEMMA TreeSteps ==
  ASSUME [Next]_vars
  PROVE  \/ UNCHANGED treeVars
         \/ \E e \in EditsOf(textLen) : EditText(e)
         \/ \E id \in DOMAIN outcomes : MergeJob(id)
  BY DEF Next, EngineStep, vars, Cancel, ResetToken, StartRun, RoundsExhausted,
         SeeCancelled, NothingReady, Return, CollectJobs, ExecuteJob, StopBatch,
         EndRound

(* What an edit does to the tree, in every state of the invariant.          *)
LEMMA EditStep ==
  ASSUME IInv, NEW e \in EditsOf(textLen), EditText(e)
  PROVE  /\ rev' = rev + 1 /\ rev \in Nat
         /\ DOMAIN nodes' = DOMAIN nodes
         /\ \A n \in DOMAIN nodes :
              /\ nodes'[n].ctx = nodes[n].ctx /\ nodes'[n].parent = nodes[n].parent
              /\ nodes'[n].alive = nodes[n].alive
              /\ nodes'[n].depth <= nodes[n].depth
              /\ nodes'[n].status \in {nodes[n].status, "Unparsed"}
         /\ nodes'[Root].status = "Unparsed" /\ nodes'[Root].depth = 0
         /\ \A n \in Live(nodes) \ {Root} :
              ~OnlyMoved(nodes[n], nodes'[n]) =>
                nodes'[nodes[n].parent].status = "Unparsed"
  <1>1. IsArena(nodes) /\ WellShaped(nodes) /\ Homed(nodes) /\ Nested(nodes, rev)
    BY IInvFacts
  <1>2. /\ e \in Edit /\ e.oldEnd <= textLen /\ textLen \in Nat /\ rev \in Nat
        /\ rev' = rev + 1 /\ rev' \in Nat /\ nodes' = EditTree(nodes, e, rev')
    BY DEF EditsOf, EditText, IInv, TypeOK
  <1>3. Touches(e, nodes[Root].span)
    <2>1. nodes[Root].span = SpanOf(0, textLen, rev)
      BY DEF IInv, SpansNested
    <2> QED
      BY <2>1, <1>2, EditOfWholeText
  <1>4. /\ DOMAIN nodes' = DOMAIN nodes
        /\ \A n \in DOMAIN nodes :
             /\ nodes'[n].ctx = nodes[n].ctx /\ nodes'[n].parent = nodes[n].parent
             /\ nodes'[n].alive = nodes[n].alive /\ nodes'[n].depth <= nodes[n].depth
             /\ nodes'[n].status \in {nodes[n].status, "Unparsed"}
    BY <1>1, <1>2, EditKeepsTree
  <1>5. nodes'[Root].status = "Unparsed" /\ nodes'[Root].depth = 0
    BY <1>1, <1>2, <1>3, EditKeepsTree
  <1>6. \A n \in Live(nodes) \ {Root} :
          ~OnlyMoved(nodes[n], nodes'[n]) =>
            nodes'[nodes[n].parent].status = "Unparsed"
    BY <1>1, <1>2, EditKeepsTree
  <1> QED
    BY <1>2, <1>4, <1>5, <1>6

(* Node ids keep their context and parent, and a dropped node stays so.      *)
THEOREM IdsNeverChange == Spec => IdsAreStable
  <1> DEFINE Stable ==
        /\ DOMAIN nodes \subseteq DOMAIN nodes'
        /\ \A n \in DOMAIN nodes :
             /\ nodes'[n].ctx = nodes[n].ctx /\ nodes'[n].parent = nodes[n].parent
             /\ nodes'[n].alive => nodes[n].alive
  <1>1. IInv /\ [Next]_vars => [Stable]_vars
    <2> SUFFICES ASSUME IInv, [Next]_vars PROVE Stable
      OBVIOUS
    <2>1. CASE UNCHANGED treeVars
      BY <2>1 DEF treeVars
    <2>2. ASSUME NEW e \in EditsOf(textLen), EditText(e) PROVE Stable
      BY <2>2, EditStep
    <2>3. ASSUME NEW id \in DOMAIN outcomes, MergeJob(id) PROVE Stable
      BY <2>3, MergeKeepsIInv DEF Merges
    <2> QED
      BY <2>1, <2>2, <2>3, TreeSteps
  <1> QED
    BY <1>1, Invariance, PTL DEF Spec, IdsAreStable

(* Between edits a step changes or drops only the node it merges, which was *)
(* due in this round, and what hangs below it.                              *)
THEOREM SettledNodesRest == Spec => RunsTouchOnlyReadyNodes
  <1> DEFINE Touched ==
        rev' = rev =>
          \E id \in DOMAIN nodes : \A n \in DOMAIN nodes :
            \/ nodes'[n] = nodes[n]
            \/ ~nodes'[n].alive
            \/ n = id /\ IsPending(nodes, id, MaxRounds) /\ nodes[id].depth = round
  <1>1. IInv /\ [Next]_vars => [Touched]_vars
    <2> SUFFICES ASSUME IInv, [Next]_vars PROVE Touched
      OBVIOUS
    <2>1. CASE UNCHANGED treeVars
      BY <2>1, IInvFacts DEF treeVars
    <2>2. ASSUME NEW e \in EditsOf(textLen), EditText(e) PROVE Touched
      <3>1. rev' = rev + 1 /\ rev \in Nat
        BY <2>2, EditStep
      <3> QED
        BY <3>1
    <2>3. ASSUME NEW id \in DOMAIN outcomes, MergeJob(id) PROVE Touched
      <3>1. /\ id \in Live(nodes) /\ IsPending(nodes, id, MaxRounds)
            /\ nodes[id].depth = round /\ Merges(nodes, nodes', id, round)
        BY <2>3, MergeKeepsIInv
      <3>2. id \in DOMAIN nodes
        BY <3>1 DEF Live
      <3>3. \A n \in DOMAIN nodes \ {id} : nodes'[n] = nodes[n] \/ ~nodes'[n].alive
        BY <3>1 DEF Merges
      <3> QED
        BY <3>1, <3>2, <3>3
    <2> QED
      BY <2>1, <2>2, <2>3, TreeSteps
  <1> QED
    BY <1>1, Invariance, PTL DEF Spec, RunsTouchOnlyReadyNodes

(* An edit reopens the root, and with a node the chain up to the root.       *)
THEOREM EditsReopenTheirWay == Spec => EditsReopenFromTheRoot
  <1> DEFINE Reopened ==
        rev' # rev =>
          /\ nodes'[Root].status = "Unparsed" /\ nodes'[Root].depth = 0
          /\ \A n \in Live(nodes) \ {Root} :
               ~OnlyMoved(nodes[n], nodes'[n]) =>
                 nodes'[nodes[n].parent].status = "Unparsed"
  <1>1. IInv /\ [Next]_vars => [Reopened]_vars
    <2> SUFFICES ASSUME IInv, [Next]_vars PROVE Reopened
      OBVIOUS
    <2>1. CASE UNCHANGED treeVars
      BY <2>1 DEF treeVars
    <2>2. ASSUME NEW e \in EditsOf(textLen), EditText(e) PROVE Reopened
      BY <2>2, EditStep
    <2>3. ASSUME NEW id \in DOMAIN outcomes, MergeJob(id) PROVE Reopened
      BY <2>3 DEF MergeJob
    <2> QED
      BY <2>1, <2>2, <2>3, TreeSteps
  <1> QED
    BY <1>1, Invariance, PTL DEF Spec, EditsReopenFromTheRoot

(* What apply checks of a child is what a child may be.                     *)
LEMMA BreachesAreNotAllowed ==
  ASSUME IInv, NEW id \in Live(nodes), NEW o \in Outcome
  PROVE  /\ Breaches(nodes, id, o, EnforceShrink) # {} <=>
              \E i \in DOMAIN o.children : ~Allowed(nodes[id].span, o.children[i].span)
         /\ o.kind = "Failed" => Breaches(nodes, id, o, EnforceShrink) = {}
  <1>1. IsArena(nodes) /\ Nested(nodes, rev) /\ EnforceShrink \in BOOLEAN
    BY IInvFacts, ConfigAssumption
  <1>2. nodes[id].span \in Span /\ nodes[id].span.rev = rev
    BY <1>1, ArenaFacts DEF Live, Node, Nested
  <1>3. o.kind = "Failed" => o.children = <<>>
    BY DEF Outcome
  <1>4. ASSUME NEW i \in DOMAIN o.children
        PROVE  ViolationKind(nodes[id].span, o.children[i].span, EnforceShrink) = "None"
                 <=> Allowed(nodes[id].span, o.children[i].span)
    <2> DEFINE parent == nodes[id].span
               child == o.children[i].span
    <2>1. child \in Span
      <3>1. o.children # <<>>
        OBVIOUS
      <3>2. o.children \in Seq(Region)
        BY <3>1 DEF Outcome
      <3>3. o.children[i] \in Region
        BY <3>2
      <3> QED
        BY <3>3 DEF Region
    <2>2. TooLong(parent, child) <=> ~(SpanLen(child) < SpanLen(parent))
      BY <1>2, <2>1 DEF TooLong, SpanLen, Span
    <2> HIDE DEF child
    <2> QED
      BY <1>1, <1>2, <2>2 DEF ViolationKind, Allowed, child
  <1> QED
    BY <1>3, <1>4 DEF Breaches

(* An expansion is taken whole or refused whole, whatever a pass returned    *)
(* and whatever children the node had, and each refusal is reported once.    *)
THEOREM ExpansionsAreChecked == Spec => ExpansionsAreAllOrNothing
  <1> DEFINE Merged(id) ==
        LET asked   == outcomes[id].children
            got     == nodes'[id].children
            refused == \E i \in DOMAIN asked : ~Allowed(nodes[id].span, asked[i].span)
            news    == Len(report'.violations) - Len(report.violations)
        IN  /\ refused => nodes'[id].status = "Failed"
            /\ news = IF refused THEN 1 ELSE 0
            /\ IF refused \/ asked = <<>>
               THEN \A n \in Live(nodes') : nodes'[n].parent # id
               ELSE /\ nodes'[id].status = "Expanded" /\ DOMAIN got = DOMAIN asked
                    /\ \A i \in DOMAIN asked :
                         nodes'[got[i]].alive /\ RegionOf(nodes', got[i]) = asked[i]
             AllMerged == \A id \in DOMAIN outcomes \ DOMAIN outcomes' : Merged(id)
  <1>1. ASSUME IInv, NEW id \in DOMAIN outcomes, MergeJob(id) PROVE Merged(id)
    <2> DEFINE o == outcomes[id]
               asked == o.children
               bad == Breaches(nodes, id, o, EnforceShrink)
               news == NewViolations(id, o)
               refused == \E i \in DOMAIN asked : ~Allowed(nodes[id].span, asked[i].span)
    <2>1. /\ IInv' /\ id \in Live(nodes) /\ nodes[id].depth = round
      BY <1>1, MergeKeepsIInv
    <2>2. /\ IsArena(nodes) /\ WellShaped(nodes) /\ Homed(nodes) /\ round \in Nat
          /\ id \in Nat
      BY <1>1, <2>1, IInvFacts DEF Live
    <2>3. o \in Outcome /\ nodes' = Apply(nodes, id, o, round, EnforceShrink)
      BY <1>1 DEF IInv, TypeOK, MergeJob
    <2> HIDE DEF o
    <2>4. /\ bad # {} <=> refused
          /\ o.kind = "Failed" => bad = {}
      BY <1>1, <2>1, <2>3, BreachesAreNotAllowed
    <2>5. /\ bad # {} => nodes'[id].status = "Failed"
          /\ bad # {} \/ asked = <<>> => nodes'[id].children = <<>>
          /\ ~(bad # {}) /\ asked # <<>> =>
               /\ nodes'[id].status = "Expanded"
               /\ DOMAIN nodes'[id].children = DOMAIN asked
               /\ \A i \in DOMAIN nodes'[id].children :
                    /\ nodes'[nodes'[id].children[i]].alive
                    /\ RegionOf(nodes', nodes'[id].children[i]) = asked[i]
      BY <2>1, <2>2, <2>3, ConfigAssumption, ApplyIsAllOrNothing
    <2>6. ASSUME nodes'[id].children = <<>>
          PROVE  \A n \in Live(nodes') : nodes'[n].parent # id
      <3>1. WellShaped(nodes')
        BY <2>1 DEF IInv, TreeShape
      <3>2. Kids(nodes', id) = {}
        BY <2>6 DEF Kids
      <3>3. NoParent # id
        BY <2>2 DEF NoParent
      <3> QED
        BY <3>1, <3>2, <3>3 DEF WellShaped, RootAlive, ParentsListTheirKids
    <2>7. Len(report'.violations) - Len(report.violations) = IF bad # {} THEN 1 ELSE 0
      <3>1. /\ report \in RunReport
            /\ report' = [report EXCEPT
                            !.processed = @ + 1,
                            !.failed = IF Applied(nodes, id, o, EnforceShrink) = "Failed"
                                       THEN @ + 1 ELSE @,
                            !.violations = @ \o news]
        BY <1>1 DEF IInv, TypeOK, MergeJob, o
      <3>2. report'.violations = report.violations \o news
        BY <3>1 DEF RunReport
      <3>3. news \in Seq(ViolationRecord) /\ report.violations \in Seq(ViolationRecord)
        BY <2>2, <2>3, <3>1, NewViolationsType DEF RunReport
      <3>4. Len(news) = IF bad # {} THEN 1 ELSE 0
        BY <2>4 DEF NewViolations
      <3> HIDE DEF news
      <3>5. Len(report'.violations) = Len(report.violations) + Len(news)
        BY <3>2, <3>3
      <3>6. Len(report.violations) \in Nat
        BY <3>3
      <3> HIDE DEF bad
      <3> QED
        BY <3>4, <3>5, <3>6
    <2> HIDE DEF bad, refused
    <2> QED
      BY <2>4, <2>5, <2>6, <2>7 DEF o, refused
  <1>2. IInv /\ [Next]_vars => [AllMerged]_vars
    <2> SUFFICES ASSUME IInv, Next, NEW id \in DOMAIN outcomes \ DOMAIN outcomes'
                 PROVE  Merged(id)
      OBVIOUS
    <2>1. CASE \E n \in DOMAIN outcomes : MergeJob(n)
      <3>1. PICK n \in DOMAIN outcomes : MergeJob(n)
        BY <2>1
      <3>2. n = id
        BY <3>1 DEF MergeJob
      <3> HIDE DEF Merged
      <3> QED
        BY <1>1, <3>1, <3>2
    <2>2. CASE ~\E n \in DOMAIN outcomes : MergeJob(n)
      <3>1. StartRun => DOMAIN outcomes = {}
        BY DEF IInv, Quiet, StartRun, Resting
      <3>2. ASSUME NEW n \in todo, ExecuteJob(n)
            PROVE  DOMAIN outcomes \subseteq DOMAIN outcomes'
        BY <3>2 DEF ExecuteJob
      <3>3. ~StartRun /\ ~(\E n \in todo : ExecuteJob(n)) => outcomes' = outcomes
        BY <2>2
           DEF Next, EditText, Cancel, ResetToken, EngineStep, RoundsExhausted,
               SeeCancelled, NothingReady, CollectJobs, StopBatch, EndRound, Return,
               runVars
      <3> QED
        BY <3>1, <3>2, <3>3
    <2> QED
      BY <2>1, <2>2
  <1> QED
    BY <1>2, Invariance, PTL DEF Spec, ExpansionsAreAllOrNothing

----------------------------------------------------------------------------
(* What runs report. RInv is inductive relative to IInv.                    *)

Running == pc \in {"check", "execute", "merge"}

(* Before the first run every node waits in round 0; during it, none waits   *)
(* further ahead than the next round. No later run can say as much: that is *)
(* why only the first fixpoint is always true.                              *)
FirstRunIsTight ==
  /\ runs = 0 => /\ pc = "idle"
                 /\ \A n \in DOMAIN nodes : nodes[n].depth = 0
  /\ runs = 1 /\ Running =>
       \A n \in Pending(nodes, MaxRounds) :
         IF pc = "check" THEN nodes[n].depth <= round
         ELSE nodes[n].depth <= round + 1

(* The report while it is being written.                                    *)
ReportSoFar ==
  Running =>
    /\ ~report.fixpoint /\ ~report.cancelled
    /\ report.rounds = round
    /\ report.failed <= report.processed
    /\ Len(report.violations) <= report.failed

RInv ==
  /\ FirstRunIsTight
  /\ ReportSoFar
  /\ FirstFixpointIsTrue
  /\ ReportIsReadable

(* It holds before any run.                                                 *)
LEMMA InitRInv == Init => RInv
  <1> SUFFICES ASSUME Init PROVE RInv
    OBVIOUS
  <1>1. pc = "idle" /\ runs = 0
    BY DEF Init
  <1>2. \A n \in DOMAIN nodes : nodes[n].depth = 0
    <2> DEFINE span == SpanOf(0, textLen, 0)
    <2>1. nodes = NewTree(span, RootCtx)
      BY DEF Init
    <2>2. span \in Span
      BY BoundsAssumption DEF Init, Span, SpanOf
    <2> HIDE DEF span
    <2> QED
      BY <2>1, <2>2, RootCtxAssumption, NewTreeIsTree
  <1> QED
    BY <1>1, <1>2
       DEF RInv, FirstRunIsTight, ReportSoFar, FirstFixpointIsTrue,
           ReportIsReadable, Running

(* Merging a job counts it once, counts a failure with every violation, and *)
(* in a first run leaves nothing waiting beyond the next round.             *)
LEMMA MergeKeepsRInv ==
  ASSUME IInv, RInv, NEW id \in DOMAIN outcomes, MergeJob(id)
  PROVE  RInv'
  <1> DEFINE o == outcomes[id]
             bad == Applied(nodes, id, o, EnforceShrink) = "Failed"
             news == NewViolations(id, o)
  <1>1. /\ Merges(nodes, nodes', id, round) /\ id \in Live(nodes)
        /\ MaxRounds \in Nat /\ round \in Nat
    BY MergeKeepsIInv, IInvFacts
  <1>2. /\ pc = "merge" /\ pc' = pc /\ round' = round /\ runs' = runs
        /\ report' = [report EXCEPT
                        !.processed = @ + 1,
                        !.failed = IF bad THEN @ + 1 ELSE @,
                        !.violations = @ \o news]
    BY DEF MergeJob, counters
  <1>3. report \in RunReport /\ id \in Nat /\ o \in Outcome
    BY <1>1, IInvFacts DEF IInv, TypeOK, Live
  <1>4. /\ news \in Seq(ViolationRecord) /\ Len(news) <= 1
        /\ Len(news) = 1 => bad
    BY <1>1, <1>3, NewViolationsType
  <1> HIDE DEF bad, news
  <1>5. /\ report'.fixpoint = report.fixpoint /\ report'.cancelled = report.cancelled
        /\ report'.rounds = report.rounds
        /\ report'.processed = report.processed + 1
        /\ report'.failed = IF bad THEN report.failed + 1 ELSE report.failed
        /\ report'.violations = report.violations \o news
    BY <1>2, <1>3 DEF RunReport
  <1>6. /\ report.failed \in Nat /\ report.processed \in Nat
        /\ report.violations \in Seq(ViolationRecord)
    BY <1>3 DEF RunReport
  <1>7. /\ Len(report'.violations) = Len(report.violations) + Len(news)
        /\ Len(report.violations) \in Nat /\ Len(news) \in Nat
    BY <1>4, <1>5, <1>6
  <1>8. /\ ~report.fixpoint /\ ~report.cancelled /\ report.rounds = round
        /\ report.failed <= report.processed
        /\ Len(report.violations) <= report.failed
    BY <1>2 DEF RInv, ReportSoFar, Running
  <1>9. report'.failed <= report'.processed
    BY <1>5, <1>6, <1>8
  <1>10. Len(report'.violations) <= report'.failed
    <2>1. CASE bad
      <3>1. report'.failed = report.failed + 1
        BY <2>1, <1>5
      <3>2. Len(report.violations) <= report.failed
        BY <1>8
      <3> QED
        BY <3>1, <3>2, <1>4, <1>6, <1>7
    <2>2. CASE ~bad
      <3>1. report'.failed = report.failed
        BY <2>2, <1>5
      <3>2. Len(report.violations) <= report.failed
        BY <1>8
      <3>3. Len(news) <= 1 /\ Len(news) \in Nat /\ Len(news) # 1
        <4>1. Len(news) # 1
          BY <2>2, <1>4, Zenon
        <4> QED
          BY <4>1, <1>4, <1>7
      <3>4. Len(report'.violations) = Len(report.violations)
        <4> DEFINE k == Len(news)
                   m == Len(report.violations)
        <4>0. k \in Nat /\ k <= 1 /\ k # 1
          BY <3>3
        <4>1. k = 0
          <5> HIDE DEF k
          <5> QED
            BY <4>0
        <4>2. Len(report'.violations) = m + k /\ m \in Nat
          BY <1>7
        <4> HIDE DEF k, m
        <4>3. m + k = m
          BY <4>1, <4>2
        <4> QED
          BY <4>2, <4>3 DEF m
      <3> QED
        BY <3>1, <3>2, <3>4
    <2> QED
      BY <2>1, <2>2
  <1>11. ReportSoFar'
    <2>1. ~report'.fixpoint /\ ~report'.cancelled
      BY <1>5, <1>8
    <2>2. report'.rounds = round'
      BY <1>2, <1>5, <1>8
    <2> QED
      BY <2>1, <2>2, <1>9, <1>10 DEF ReportSoFar
  <1>12. FirstRunIsTight'
    <2>1. runs # 0
      BY <1>2 DEF RInv, FirstRunIsTight
    <2> SUFFICES ASSUME runs = 1, NEW n \in Pending(nodes', MaxRounds)
                 PROVE  nodes'[n].depth <= round + 1
      BY <1>2, <2>1 DEF FirstRunIsTight, Running, MaxRounds
    <2>2. n \in DOMAIN nodes' /\ IsPending(nodes', n, MaxRounds)
      BY DEF Pending
    <2>3. CASE n \notin DOMAIN nodes
      BY <2>2, <2>3, <1>1 DEF Merges
    <2>4. CASE n = id
      <3>1. nodes'[id].depth = round \/ nodes'[id].depth = round + 1
        BY <1>1 DEF Merges
      <3> QED
        BY <2>4, <3>1, <1>1
    <2>5. CASE n \in DOMAIN nodes \ {id}
      <3>1. nodes'[n] = nodes[n]
        BY <2>2, <2>5, <1>1 DEF Merges, IsPending
      <3>2. n \in Pending(nodes, MaxRounds)
        BY <2>2, <2>5, <3>1 DEF Pending, IsPending
      <3> QED
        BY <3>1, <3>2, <1>2 DEF RInv, FirstRunIsTight, Running
    <2> QED
      BY <2>3, <2>4, <2>5
  <1>13. FirstFixpointIsTrue' /\ ReportIsReadable'
    BY <1>2 DEF FirstFixpointIsTrue, ReportIsReadable
  <1> QED
    BY <1>11, <1>12, <1>13 DEF RInv

(* The steps of the caller, the executor and the round keep it too.         *)
LEMMA NextRInv == IInv /\ IInv' /\ RInv /\ [Next]_vars => RInv'
  <1> SUFFICES ASSUME IInv, IInv', RInv, [Next]_vars PROVE RInv'
    OBVIOUS
  <1>0. /\ MaxRounds \in Nat /\ round \in Nat /\ MaxRounds' = MaxRounds
        /\ runs \in Nat
        /\ \A n \in DOMAIN nodes : nodes[n] \in Node /\ nodes[n].depth \in Nat
    BY IInvFacts DEF IInv, TypeOK, MaxRounds, Node
  <1>r. /\ report \in RunReport
        /\ report.rounds \in Nat /\ report.failed \in Nat
        /\ report.processed \in Nat
    BY DEF IInv, TypeOK, RunReport
  <1>s. Running =>
          /\ ~report.fixpoint /\ ~report.cancelled /\ report.rounds = round
          /\ report.failed <= report.processed
          /\ Len(report.violations) <= report.failed
    BY DEF RInv, ReportSoFar
  <1>f. FirstRunIsTight
    BY DEF RInv
  <1>1. ASSUME NEW e \in EditsOf(textLen), EditText(e) PROVE RInv'
    <2>1. pc' = "idle" /\ runs' = runs
      BY <1>1 DEF EditText
    <2>2. /\ DOMAIN nodes' = DOMAIN nodes
          /\ \A n \in DOMAIN nodes : nodes'[n].depth <= nodes[n].depth
      BY <1>1, EditStep
    <2>3. ASSUME runs = 0, NEW n \in DOMAIN nodes'
          PROVE  nodes'[n].depth = 0
      <3>1. nodes[n].depth = 0 /\ nodes'[n].depth <= nodes[n].depth
        BY <2>2, <2>3, <1>f DEF FirstRunIsTight
      <3>2. IsArena(nodes')
        BY DEF IInv, TypeOK
      <3>3. nodes'[n].depth \in Nat
        BY <3>2, ArenaFacts DEF Node
      <3> QED
        BY <3>1, <3>3
    <2> QED
      BY <2>1, <2>3
         DEF RInv, FirstRunIsTight, ReportSoFar, Running, FirstFixpointIsTrue,
             ReportIsReadable
  <1>2. CASE Cancel \/ ResetToken \/ UNCHANGED vars
    <2>1. UNCHANGED <<nodes, pc, round, report, runs>>
      BY <1>2 DEF Cancel, ResetToken, vars, treeVars, runVars, counters
    <2> QED
      BY <2>1, <1>0
         DEF RInv, FirstRunIsTight, ReportSoFar, Running, FirstFixpointIsTrue,
             ReportIsReadable
  <1>3. CASE StartRun
    <2>1. /\ pc' = "check" /\ round' = 0 /\ report' = EmptyReport
          /\ nodes' = nodes /\ runs' = runs + 1
      BY <1>3 DEF StartRun, treeVars
    <2>2. ReportSoFar'
      BY <2>1 DEF ReportSoFar, EmptyReport
    <2>3. FirstRunIsTight'
      <3>1. runs' # 0
        BY <2>1, <1>0
      <3>2. runs' = 1 => runs = 0
        BY <2>1, <1>0
      <3>3. runs = 0 => \A n \in Pending(nodes, MaxRounds) : nodes[n].depth = 0
        BY <1>f DEF FirstRunIsTight, Pending
      <3>4. runs' = 1 => \A n \in Pending(nodes, MaxRounds) : nodes[n].depth <= 0
        BY <3>2, <3>3
      <3> QED
        BY <2>1, <3>1, <3>4, <1>0 DEF FirstRunIsTight
    <2>4. FirstFixpointIsTrue' /\ ReportIsReadable'
      BY <2>1 DEF FirstFixpointIsTrue, ReportIsReadable
    <2> QED
      BY <2>2, <2>3, <2>4 DEF RInv
  <1>4. CASE RoundsExhausted
    <2>1. /\ pc = "check" /\ pc' = "done" /\ nodes' = nodes /\ runs' = runs
          /\ round = MaxRounds
          /\ report' = [report EXCEPT !.fixpoint = Pending(nodes, MaxRounds) = {}]
      BY <1>4 DEF RoundsExhausted, Return, treeVars, counters
    <2>2. /\ report'.fixpoint <=> Pending(nodes, MaxRounds) = {}
          /\ report'.cancelled = report.cancelled /\ report'.rounds = report.rounds
          /\ report'.failed = report.failed /\ report'.processed = report.processed
          /\ report'.violations = report.violations
      BY <2>1, <1>r DEF RunReport
    <2>3. FirstFixpointIsTrue'
      BY <2>1, <2>2, <1>0 DEF FirstFixpointIsTrue
    <2>6. \A n \in Pending(nodes, MaxRounds) :
            nodes[n].status = "Unparsed" /\ nodes[n].depth = MaxRounds
      <3> SUFFICES ASSUME NEW n \in Pending(nodes, MaxRounds)
                   PROVE  nodes[n].status = "Unparsed" /\ nodes[n].depth = MaxRounds
        OBVIOUS
      <3>1. n \in DOMAIN nodes /\ IsPending(nodes, n, MaxRounds)
        BY DEF Pending
      <3>2. nodes[n].depth <= MaxRounds
        BY <3>1 DEF IInv, HomeRounds
      <3>3. nodes[n].depth > MaxRounds \/ nodes[n].depth = MaxRounds
        BY <2>1 DEF IInv, NothingLeftBehind
      <3>4. nodes[n].depth = MaxRounds
        BY <1>0, <3>1, <3>2, <3>3
      <3> QED
        BY <1>0, <3>1, <3>4 DEF IsPending
    <2>4. ReportIsReadable'
      BY <2>1, <2>2, <2>6, <1>0, <1>s DEF ReportIsReadable, Running
    <2>5. FirstRunIsTight' /\ ReportSoFar'
      BY <2>1, <1>f DEF FirstRunIsTight, ReportSoFar, Running
    <2> QED
      BY <2>3, <2>4, <2>5 DEF RInv
  <1>5. CASE SeeCancelled
    <2>1. /\ pc = "check" /\ pc' = "done" /\ nodes' = nodes /\ runs' = runs
          /\ report' = [report EXCEPT !.cancelled = TRUE]
      BY <1>5 DEF SeeCancelled, Return, treeVars, counters
    <2>2. /\ report'.fixpoint = report.fixpoint /\ report'.cancelled
          /\ report'.failed = report.failed /\ report'.processed = report.processed
          /\ report'.violations = report.violations
      BY <2>1, <1>r DEF RunReport
    <2>3. FirstFixpointIsTrue' /\ ReportIsReadable'
      BY <2>1, <2>2, <1>s DEF FirstFixpointIsTrue, ReportIsReadable, Running
    <2>4. FirstRunIsTight' /\ ReportSoFar'
      BY <2>1, <1>f DEF FirstRunIsTight, ReportSoFar, Running
    <2> QED
      BY <2>3, <2>4 DEF RInv
  <1>6. CASE NothingReady
    <2>1. /\ pc = "check" /\ pc' = "done" /\ nodes' = nodes /\ runs' = runs
          /\ ReadyJobs(nodes, round) = {}
          /\ report' = [report EXCEPT !.fixpoint = TRUE]
      BY <1>6 DEF NothingReady, Return, treeVars, counters
    <2>2. /\ report'.fixpoint /\ report'.cancelled = report.cancelled
          /\ report'.failed = report.failed /\ report'.processed = report.processed
          /\ report'.violations = report.violations
      BY <2>1, <1>r DEF RunReport
    <2>7. \A n \in Pending(nodes, MaxRounds) : nodes[n].depth > round
      BY <2>1 DEF IInv, NothingLeftBehind, ReadyJobs, Live, Pending, IsPending
    <2>8. report'.rounds = round
      BY <2>1, <1>r, <1>s DEF RunReport, Running
    <2>3. ReportIsReadable'
      BY <2>1, <2>2, <2>7, <2>8, <1>0, <1>s DEF ReportIsReadable, Running
    <2>4. ASSUME runs = 1, NEW n \in Pending(nodes, MaxRounds)
          PROVE  FALSE
      <3>1. nodes[n].depth <= round /\ n \in DOMAIN nodes
        BY <2>1, <2>4, <1>f DEF FirstRunIsTight, Running, Pending
      <3>2. nodes[n].depth > round \/ nodes[n].depth = round
        BY <2>1 DEF IInv, NothingLeftBehind
      <3>3. nodes[n].depth = round
        BY <3>1, <3>2, <1>0
      <3>4. n \in ReadyJobs(nodes, round)
        BY <3>1, <3>3 DEF ReadyJobs, Live, Pending, IsPending
      <3> QED
        BY <3>4, <2>1
    <2>5. FirstFixpointIsTrue'
      BY <2>1, <2>4, <1>0 DEF FirstFixpointIsTrue
    <2>6. FirstRunIsTight' /\ ReportSoFar'
      BY <2>1, <1>f DEF FirstRunIsTight, ReportSoFar, Running
    <2> QED
      BY <2>3, <2>5, <2>6 DEF RInv
  <1>7. CASE CollectJobs \/ StopBatch \/ \E id \in todo : ExecuteJob(id)
    <2>1. /\ Running /\ pc' \in {"execute", "merge"}
          /\ UNCHANGED <<nodes, runs, round, report>>
      BY <1>7 DEF CollectJobs, StopBatch, ExecuteJob, treeVars, counters, Running
    <2>2. ReportSoFar'
      BY <2>1, <1>s DEF ReportSoFar
    <2>3. FirstRunIsTight'
      <3>1. runs # 0
        BY <2>1, <1>f DEF FirstRunIsTight, Running
      <3>2. runs = 1 => \A n \in Pending(nodes, MaxRounds) :
                          nodes[n].depth <= round \/ nodes[n].depth <= round + 1
        BY <2>1, <1>f DEF FirstRunIsTight
      <3>3. runs = 1 => \A n \in Pending(nodes, MaxRounds) :
                          nodes[n].depth <= round + 1
        BY <3>2, <1>0 DEF Pending
      <3> QED
        BY <2>1, <3>1, <3>3, <1>0 DEF FirstRunIsTight
    <2>4. FirstFixpointIsTrue' /\ ReportIsReadable'
      BY <2>1 DEF FirstFixpointIsTrue, ReportIsReadable
    <2> QED
      BY <2>2, <2>3, <2>4 DEF RInv
  <1>8. ASSUME NEW id \in DOMAIN outcomes, MergeJob(id) PROVE RInv'
    BY <1>8, MergeKeepsRInv
  <1>9. CASE EndRound
    <2>1. pc = "merge" /\ nodes' = nodes /\ runs' = runs /\ Running
      BY <1>9 DEF EndRound, Return, treeVars, counters, Running
    <2>2. CASE todo # {}
      <3>1. /\ pc' = "done"
            /\ report' = [report EXCEPT !.rounds = @ + 1, !.cancelled = TRUE]
        BY <1>9, <2>2 DEF EndRound, Return
      <3>2. /\ report'.fixpoint = report.fixpoint /\ report'.cancelled
            /\ report'.failed = report.failed /\ report'.processed = report.processed
            /\ report'.violations = report.violations
        BY <3>1, <1>r DEF RunReport
      <3>3. FirstFixpointIsTrue' /\ ReportIsReadable'
        BY <2>1, <3>1, <3>2, <1>s DEF FirstFixpointIsTrue, ReportIsReadable
      <3>4. FirstRunIsTight' /\ ReportSoFar'
        BY <2>1, <3>1, <1>f DEF FirstRunIsTight, ReportSoFar, Running
      <3> QED
        BY <3>3, <3>4 DEF RInv
    <2>3. CASE todo = {}
      <3>1. /\ pc' = "check" /\ round' = round + 1
            /\ report' = [report EXCEPT !.rounds = @ + 1]
        BY <1>9, <2>3 DEF EndRound
      <3>2. /\ report'.fixpoint = report.fixpoint
            /\ report'.cancelled = report.cancelled
            /\ report'.rounds = report.rounds + 1
            /\ report'.failed = report.failed /\ report'.processed = report.processed
            /\ report'.violations = report.violations
        BY <3>1, <1>r DEF RunReport
      <3>3. ReportSoFar'
        BY <2>1, <3>1, <3>2, <1>s DEF ReportSoFar
      <3>4. FirstRunIsTight'
        BY <2>1, <3>1, <1>0, <1>f DEF FirstRunIsTight, Running
      <3>5. FirstFixpointIsTrue' /\ ReportIsReadable'
        BY <3>1 DEF FirstFixpointIsTrue, ReportIsReadable
      <3> QED
        BY <3>3, <3>4, <3>5 DEF RInv
    <2> QED
      BY <2>2, <2>3
  <1> QED
    BY <1>1, <1>2, <1>3, <1>4, <1>5, <1>6, <1>7, <1>8, <1>9 DEF Next, EngineStep

(* Reports are truthful: both invariants of every run.                      *)
LEMMA Reporting == Spec => []RInv
  <1>1. Init => RInv
    BY InitRInv
  <1>2. IInv /\ IInv' /\ RInv /\ [Next]_vars => RInv'
    BY NextRInv
  <1> QED
    BY <1>1, <1>2, Invariance, PTL DEF Spec

(* If the first run of a document says fixpoint, nothing is left to do.      *)
THEOREM FirstFixpointIsReal == Spec => []FirstFixpointIsTrue
  BY Reporting, PTL DEF RInv

(* Whenever a run returns, its report and the tree agree on what is left: in *)
(* any run a fixpoint leaves nodes for later rounds only, and a report with  *)
(* neither flag regions that no round was left for.                         *)
THEOREM ReportsAreReadable == Spec => []ReportIsReadable
  BY Reporting, PTL DEF RInv

----------------------------------------------------------------------------
(* What is read off the tree is read off all of it, once, whatever was      *)
(* edited, run, kept and dropped before.                                   *)

(* The tree as a walk sees it: a child comes after its parent in depth, and *)
(* no depth is past the last round.                                        *)
LEMMA WalkFacts ==
  ASSUME IInv
  PROVE  /\ DOMAIN nodes \subseteq Nat /\ Root \in Live(nodes)
         /\ \A n \in DOMAIN nodes : nodes[n].depth \in 0 .. MaxRounds
         /\ \A n \in DOMAIN nodes : \A k \in Kids(nodes, n) :
              /\ k \in Live(nodes) \ {Root} /\ n \in Live(nodes)
              /\ nodes[k].parent = n /\ nodes[k].depth > nodes[n].depth
         /\ \A n \in Live(nodes) \ {Root} :
              /\ nodes[n].parent \in Live(nodes) /\ n \in Kids(nodes, nodes[n].parent)
              /\ nodes[n].depth > nodes[nodes[n].parent].depth
<1>1. /\ IsArena(nodes) /\ WellShaped(nodes) /\ Homed(nodes)
      /\ \A n \in DOMAIN nodes : nodes[n].depth <= MaxRounds
  BY DEF IInv, TypeOK, TreeShape, HomeRounds
<1>2. /\ nodes \in [0 .. (Size(nodes) - 1) -> Node] /\ Size(nodes) \in Nat \ {0}
      /\ DOMAIN nodes = 0 .. (Size(nodes) - 1)
  BY <1>1 DEF IsArena
<1>3. \A n \in DOMAIN nodes : nodes[n] \in Node
  BY <1>2
<1>4. DOMAIN nodes \subseteq Nat /\ Root \in Live(nodes)
  BY <1>1, <1>2 DEF WellShaped, RootAlive, Live, Root
<1>5. \A n \in DOMAIN nodes : nodes[n].depth \in 0 .. MaxRounds /\ nodes[n].attempts \in Nat
  BY <1>1, <1>3, MaxRoundsIsNat DEF Node
<1>6. ASSUME NEW n \in Live(nodes) \ {Root}
      PROVE  /\ nodes[n].parent \in Live(nodes) /\ n \in Kids(nodes, nodes[n].parent)
             /\ nodes[n].depth > nodes[nodes[n].parent].depth
  <2>1. nodes[n].parent \in Live(nodes) /\ n \in Kids(nodes, nodes[n].parent)
    BY <1>1 DEF WellShaped, ParentsListTheirKids
  <2>2. n \in DOMAIN nodes /\ nodes[n].parent \in DOMAIN nodes
    BY <2>1 DEF Live
  <2>3. nodes[n].depth - nodes[n].attempts > nodes[nodes[n].parent].depth
    BY <1>1 DEF Homed
  <2>4. \A a, b, c \in Nat : a - b > c => a > c
    OBVIOUS
  <2> QED
    BY <2>1, <2>2, <2>3, <2>4, <1>5
<1>7. ASSUME NEW n \in DOMAIN nodes, NEW k \in Kids(nodes, n)
      PROVE  k \in Live(nodes) \ {Root} /\ nodes[k].parent = n /\ n \in Live(nodes)
  BY <1>1 DEF WellShaped, KidsPointBack, OnlyLiveNodesHaveKids, Kids, Live
<1> QED
  BY <1>4, <1>5, <1>6, <1>7

----------------------------------------------------------------------------
(* How deep a node is, and how far from the last round.                     *)
Deep == [n \in DOMAIN nodes |-> nodes[n].depth]

Above == [n \in DOMAIN nodes |-> MaxRounds - nodes[n].depth]

(* Both ranks are numbers up to MaxRounds, and a child is one step on.      *)
LEMMA RankTypes ==
  ASSUME IInv
  PROVE  /\ Above \in [DOMAIN nodes -> 0 .. MaxRounds]
         /\ Deep \in [DOMAIN nodes -> 0 .. MaxRounds]
         /\ \A n \in DOMAIN nodes : \A k \in Kids(nodes, n) :
              k \in DOMAIN nodes /\ Above[k] < Above[n] /\ Deep[n] < Deep[k]
<1>1. \A n \in DOMAIN nodes : nodes[n].depth \in 0 .. MaxRounds
  BY WalkFacts
<1>2. ASSUME NEW n \in DOMAIN nodes, NEW k \in Kids(nodes, n)
      PROVE  k \in DOMAIN nodes /\ Above[k] < Above[n] /\ Deep[n] < Deep[k]
  <2>1. k \in DOMAIN nodes /\ nodes[k].depth > nodes[n].depth
    BY WalkFacts DEF Live
  <2> QED
    BY <1>1, <2>1, MaxRoundsIsNat DEF Above, Deep
<1>3. Deep \in [DOMAIN nodes -> 0 .. MaxRounds]
  BY <1>1 DEF Deep
<1>4. \A n \in DOMAIN nodes : MaxRounds - nodes[n].depth \in 0 .. MaxRounds
  BY <1>1, MaxRoundsIsNat
<1>5. Above \in [DOMAIN nodes -> 0 .. MaxRounds]
  BY <1>4 DEF Above
<1> QED
  BY <1>2, <1>3, <1>5

----------------------------------------------------------------------------
(* The walk that asks whether anything is left to do.                      *)

IsVerdict(f, t, maxRounds) ==
  f = [m \in DOMAIN t |-> ~IsPending(t, m, maxRounds) /\ \A k \in Kids(t, m) : f[k]]

(* A subtree is settled when its top is and its parts are.                  *)
LEMMA SettledUnfolds ==
  ASSUME IInv, NEW n \in DOMAIN nodes
  PROVE  IsSettled(nodes, n, MaxRounds) <=>
           /\ ~IsPending(nodes, n, MaxRounds)
           /\ \A k \in Kids(nodes, n) : IsSettled(nodes, k, MaxRounds)
<1> DEFINE D == DOMAIN nodes
           Busy(m) == IsPending(nodes, m, MaxRounds)
           Step == [m \in D |-> [f \in [D -> BOOLEAN] |->
                      ~Busy(m) /\ \A k \in Kids(nodes, m) : f[k]]]
<1>1. Step \in [D -> [[D -> BOOLEAN] -> BOOLEAN]]
  OBVIOUS
<1>2. ASSUME NEW x \in D, NEW f \in [D -> BOOLEAN], NEW g \in [D -> BOOLEAN],
             \A y \in D : Above[y] < Above[x] => f[y] = g[y]
      PROVE  Step[x][f] = Step[x][g]
  <2>1. \A k \in Kids(nodes, x) : f[k] = g[k]
    BY <1>2, RankTypes
  <2> QED
    BY <2>1
<1>3. [m \in D |-> TRUE] \in [D -> BOOLEAN]
  OBVIOUS
<1>4. \E f \in [D -> BOOLEAN] : Solves(f, D, Step)
  <2>1. LooksDown(D, BOOLEAN, Above, Step)
    BY <1>2 DEF LooksDown
  <2>2. Above \in [D -> 0 .. MaxRounds]
    BY RankTypes
  <2> HIDE DEF Step, D
  <2> QED
    BY <1>1, <1>3, <2>1, <2>2, MaxRoundsIsNat, Recursion
<1>5. PICK f \in [D -> BOOLEAN] : \A x \in D : f[x] = Step[x][f]
  BY <1>4 DEF Solves
<1>6. IsVerdict(f, nodes, MaxRounds)
  BY <1>5 DEF IsVerdict
<1> DEFINE c == CHOOSE g : IsVerdict(g, nodes, MaxRounds)
<1>7. IsVerdict(c, nodes, MaxRounds)
  BY <1>6
<1>8. \A m : IsSettled(nodes, m, MaxRounds) = c[m]
  BY DEF IsSettled, IsVerdict
<1> HIDE DEF c
<1>9. c[n] = (~IsPending(nodes, n, MaxRounds) /\ \A k \in Kids(nodes, n) : c[k])
  BY <1>7 DEF IsVerdict
<1> QED
  BY <1>8, <1>9

(* Downwards from the root, the walk finds every live node.                 *)
LEMMA SettledAgrees ==
  ASSUME IInv
  PROVE  SettledAgreesWithPending
<1> DEFINE Settled(n) == IsSettled(nodes, n, MaxRounds)
<1>1. ASSUME Pending(nodes, MaxRounds) = {}, ~Settled(Root)
      PROVE  FALSE
  <2> DEFINE S == {n \in DOMAIN nodes : ~Settled(n)}
  <2>1. Root \in S
    BY <1>1, WalkFacts DEF Live
  <2>2. PICK n \in S : \A m \in S : Above[n] <= Above[m]
    <3>1. \A x \in S : Above[x] \in Nat
      BY RankTypes
    <3> HIDE DEF S
    <3> QED
      BY <2>1, <3>1, LeastRanked
  <2>3. ~IsPending(nodes, n, MaxRounds)
    BY <1>1 DEF Pending
  <2>4. PICK k \in Kids(nodes, n) : ~Settled(k)
    BY <2>3, SettledUnfolds
  <2>5. k \in S /\ Above[k] < Above[n]
    BY <2>4, RankTypes
  <2>6. Above[n] \in Nat /\ Above[k] \in Nat /\ Above[n] <= Above[k]
    BY <2>2, <2>5, RankTypes
  <2> QED
    BY <2>5, <2>6
<1>2. ASSUME Settled(Root)
      PROVE  Pending(nodes, MaxRounds) = {}
  <2> DEFINE S == {n \in Live(nodes) : ~Settled(n)}
  <2>1. ASSUME S # {} PROVE FALSE
    <3>1. PICK n \in S : \A m \in S : Deep[n] <= Deep[m]
      <4>1. \A x \in S : Deep[x] \in Nat
        BY RankTypes DEF Live
      <4> HIDE DEF S
      <4> QED
        BY <2>1, <4>1, LeastRanked
    <3> DEFINE p == nodes[n].parent
    <3>2. n # Root /\ n \in Live(nodes)
      BY <1>2
    <3>3. p \in Live(nodes) /\ n \in Kids(nodes, p)
      BY <3>2, WalkFacts
    <3>4. p \in DOMAIN nodes /\ Deep[p] < Deep[n]
      BY <3>3, RankTypes DEF Live
    <3>5. Deep[p] \in Nat /\ Deep[n] \in Nat
      BY <3>2, <3>4, RankTypes DEF Live
    <3>6. p \notin S
      <4> HIDE DEF S, p
      <4> QED
        BY <3>1, <3>4, <3>5
    <3>7. Settled(p)
      BY <3>3, <3>6
    <3> QED
      BY <3>3, <3>4, <3>7, SettledUnfolds
  <2>2. \A n \in Live(nodes) : ~IsPending(nodes, n, MaxRounds)
    BY <2>1, SettledUnfolds DEF Live
  <2> QED
    BY <2>2 DEF Pending, IsPending, Live
<1> QED
  BY <1>1, <1>2 DEF SettledAgreesWithPending

(* Whoever asks the tree by walking and whoever asks by scanning get the    *)
(* same answer to whether work is left.                                    *)
THEOREM WalkAndScanAgree == Spec => []SettledAgreesWithPending
  BY SettledAgrees, Invariance, PTL

----------------------------------------------------------------------------
(* The way up.                                                             *)

IsUp(f, t) ==
  f = [m \in Live(t) |-> {m} \union (IF m = Root THEN {} ELSE f[t[m].parent])]

(* A node and what is above it.                                            *)
Up(n) == AndAbove(nodes, n)

(* The way up from a node is the node and the way up from its parent.       *)
LEMMA UpUnfolds ==
  ASSUME IInv, NEW n \in Live(nodes)
  PROVE  /\ Up(n) = {n} \union (IF n = Root THEN {} ELSE Up(nodes[n].parent))
         /\ n # Root => nodes[n].parent \in Live(nodes)
<1> DEFINE D == Live(nodes)
           Parent(m) == nodes[m].parent
           V == SUBSET D
           Step == [m \in D |-> [f \in [D -> V] |->
                      {m} \union (IF m = Root THEN {} ELSE f[Parent(m)])]]
           deep == [m \in D |-> Deep[m]]
<1>0. \A m \in D : m # Root => Parent(m) \in D /\ deep[Parent(m)] < deep[m]
  <2> SUFFICES ASSUME NEW m \in D, m # Root
               PROVE  Parent(m) \in D /\ deep[Parent(m)] < deep[m]
    OBVIOUS
  <2>1. Parent(m) \in D /\ m \in Kids(nodes, Parent(m))
    BY WalkFacts
  <2>2. Parent(m) \in DOMAIN nodes
    BY <2>1 DEF Live
  <2> QED
    BY <2>1, <2>2, RankTypes
<1>1. Step \in [D -> [[D -> V] -> V]]
  <2>1. ASSUME NEW m \in D, NEW f \in [D -> V]
        PROVE  {m} \union (IF m = Root THEN {} ELSE f[Parent(m)]) \in V
    <3>1. CASE m = Root
      BY <3>1
    <3>2. CASE m # Root
      <4>1. f[Parent(m)] \in V
        BY <1>0, <3>2
      <4> QED
        BY <3>2, <4>1
    <3> QED
      BY <3>1, <3>2
  <2> HIDE DEF D, V, Parent
  <2> QED
    BY <2>1
<1>2. ASSUME NEW x \in D, NEW f \in [D -> V], NEW g \in [D -> V],
             \A y \in D : deep[y] < deep[x] => f[y] = g[y]
      PROVE  Step[x][f] = Step[x][g]
  <2>1. x # Root => f[Parent(x)] = g[Parent(x)]
    BY <1>0, <1>2
  <2> HIDE DEF D, V, Parent, deep
  <2> QED
    BY <2>1
<1>3. [m \in D |-> {}] \in [D -> V]
  OBVIOUS
<1>4. \E f \in [D -> V] : Solves(f, D, Step)
  <2>1. LooksDown(D, V, deep, Step)
    <3> HIDE DEF D, V, deep, Step
    <3> QED
      BY <1>2 DEF LooksDown
  <2>2. deep \in [D -> 0 .. MaxRounds]
    BY RankTypes DEF Live
  <2> HIDE DEF Step, D, V, deep
  <2> QED
    BY <1>1, <1>3, <2>1, <2>2, MaxRoundsIsNat, Recursion
<1>5. PICK f \in [D -> V] : \A x \in D : f[x] = Step[x][f]
  BY <1>4 DEF Solves
<1>6. IsUp(f, nodes)
  <2>1. \A x \in D : f[x] = {x} \union (IF x = Root THEN {} ELSE f[Parent(x)])
    <3> HIDE DEF D, V, Parent
    <3> QED
      BY <1>5
  <2> QED
    BY <2>1 DEF IsUp
<1> DEFINE c == CHOOSE g : IsUp(g, nodes)
<1>7. IsUp(c, nodes)
  BY <1>6
<1>8. \A m : Up(m) = c[m]
  BY DEF Up, AndAbove, IsUp
<1> HIDE DEF c
<1>9. c[n] = {n} \union (IF n = Root THEN {} ELSE c[nodes[n].parent])
  BY <1>7 DEF IsUp
<1> QED
  BY <1>0, <1>8, <1>9

(* What is above a node is alive, less deep, and has less above it.         *)
WellAbove(n) ==
  /\ Up(n) \subseteq Live(nodes) /\ {n, Root} \subseteq Up(n)
  /\ \A x \in Up(n) : /\ Up(x) \subseteq Up(n)
                      /\ x = n \/ Deep[x] < Deep[n]

(* The way up stays among living nodes, less deep at each step, to the      *)
(* root.                                                                    *)
LEMMA UpFacts ==
  ASSUME IInv, NEW n \in Live(nodes)
  PROVE  WellAbove(n)
<1> DEFINE S == {m \in Live(nodes) : ~WellAbove(m)}
<1>1. ASSUME S # {} PROVE FALSE
  <2>1. PICK m \in S : \A y \in S : Deep[m] <= Deep[y]
    <3>1. \A x \in S : Deep[x] \in Nat
      BY RankTypes DEF Live
    <3> HIDE DEF S
    <3> QED
      BY <1>1, <3>1, LeastRanked
  <2>2. m \in Live(nodes) /\ ~WellAbove(m)
    OBVIOUS
  <2>3. CASE m = Root
    <3>1. Up(m) = {m}
      BY <2>2, <2>3, UpUnfolds
    <3> QED
      BY <2>2, <2>3, <3>1 DEF WellAbove
  <2>4. CASE m # Root
    <3> DEFINE p == nodes[m].parent
    <3>1. p \in Live(nodes) /\ m \in Kids(nodes, p) /\ Up(m) = {m} \union Up(p)
      BY <2>2, <2>4, UpUnfolds, WalkFacts
    <3> HIDE DEF p
    <3>2. Deep[p] < Deep[m] /\ Deep[p] \in Nat /\ Deep[m] \in Nat
      BY <2>2, <3>1, RankTypes DEF Live
    <3>3. p \notin S
      <4> HIDE DEF S
      <4> QED
        BY <2>1, <3>2
    <3>4. WellAbove(p)
      BY <3>1, <3>3
    <3>5. \A x \in Up(p) : Deep[x] \in Nat
      BY <3>4, RankTypes DEF WellAbove, Live
    <3>6. \A x \in Up(p) : Deep[x] < Deep[m]
      BY <3>2, <3>4, <3>5 DEF WellAbove
    <3>7. WellAbove(m)
      BY <2>2, <3>1, <3>4, <3>6 DEF WellAbove
    <3> QED
      BY <2>2, <3>7
  <2> QED
    BY <2>3, <2>4
<1> QED
  BY <1>1

----------------------------------------------------------------------------
(* The walk to the node at an offset.                                      *)

HitsAt(n, offset) ==
  {i \in DOMAIN nodes[n].children : ContainsOffset(nodes[nodes[n].children[i]].span, offset)}

FirstOf(S) == CHOOSE i \in S : \A j \in S : i <= j

IsDown(f, offset) ==
  f = [n \in DOMAIN nodes |->
         IF HitsAt(n, offset) = {} THEN n
         ELSE f[nodes[n].children[FirstOf(HitsAt(n, offset))]]]

NextDown(n, offset) == nodes[n].children[FirstOf(HitsAt(n, offset))]

(* The child the search goes to exists and contains the offset.             *)
LEMMA NextDownFacts ==
  ASSUME IInv, NEW n \in DOMAIN nodes, NEW offset, HitsAt(n, offset) # {}
  PROVE  /\ NextDown(n, offset) \in Kids(nodes, n)
         /\ ContainsOffset(nodes[NextDown(n, offset)].span, offset)
<1> DEFINE S == HitsAt(n, offset)
<1>1. nodes[n] \in Node
  BY IInvFacts
<1>2. DOMAIN nodes[n].children \subseteq Nat
  BY <1>1 DEF Node
<1>3. S \in SUBSET Nat
  BY <1>2 DEF HitsAt
<1>4. FirstOf(S) \in S
  <2> HIDE DEF S
  <2>1. \E i \in S : \A j \in S : i <= j
    BY <1>3, LeastNatural DEF S
  <2> QED
    BY <2>1 DEF FirstOf
<1> QED
  BY <1>4 DEF NextDown, HitsAt, Kids

(* The search from the root is a descent.                                   *)
LEMMA NodeAtUnfolds ==
  ASSUME IInv, NEW offset
  PROVE  \E f : /\ IsDown(f, offset)
                /\ ContainsOffset(nodes[Root].span, offset) =>
                     NodeAt(nodes, offset) = f[Root]
                /\ ~ContainsOffset(nodes[Root].span, offset) =>
                     NodeAt(nodes, offset) = NoNode
<1> DEFINE D == DOMAIN nodes
           Stops(n) == HitsAt(n, offset) = {}
           Next1(n) == NextDown(n, offset)
           Step == [n \in D |-> [f \in [D -> D] |-> IF Stops(n) THEN n ELSE f[Next1(n)]]]
<1>0. \A n \in D : ~Stops(n) => Next1(n) \in D /\ Above[Next1(n)] < Above[n]
  BY NextDownFacts, RankTypes
<1>1. Step \in [D -> [[D -> D] -> D]]
  <2> HIDE DEF D, Stops, Next1
  <2> QED
    BY <1>0
<1>2. LooksDown(D, D, Above, Step)
  <2>1. ASSUME NEW x \in D, NEW f \in [D -> D], NEW g \in [D -> D],
               \A y \in D : Above[y] < Above[x] => f[y] = g[y]
        PROVE  Step[x][f] = Step[x][g]
    <3>1. ~Stops(x) => f[Next1(x)] = g[Next1(x)]
      BY <1>0, <2>1
    <3> HIDE DEF D, Stops, Next1
    <3> QED
      BY <3>1
  <2> HIDE DEF D, Step
  <2> QED
    BY <2>1 DEF LooksDown
<1>3. [n \in D |-> n] \in [D -> D]
  OBVIOUS
<1>4. \E f \in [D -> D] : Solves(f, D, Step)
  <2>2. Above \in [D -> 0 .. MaxRounds]
    BY RankTypes
  <2> HIDE DEF Step, D
  <2> QED
    BY <1>1, <1>2, <1>3, <2>2, MaxRoundsIsNat, Recursion
<1>5. PICK f \in [D -> D] : \A x \in D : f[x] = Step[x][f]
  BY <1>4 DEF Solves
<1>6. IsDown(f, offset)
  <2>1. \A x \in D : f[x] = IF Stops(x) THEN x ELSE f[Next1(x)]
    <3> HIDE DEF D, Stops, Next1
    <3> QED
      BY <1>5
  <2> QED
    BY <2>1 DEF IsDown, NextDown
<1> DEFINE c == CHOOSE g : IsDown(g, offset)
<1>7. IsDown(c, offset)
  BY <1>6
<1>8. ContainsOffset(nodes[Root].span, offset) => NodeAt(nodes, offset) = c[Root]
  BY DEF NodeAt, IsDown, HitsAt, FirstOf
<1>9. ~ContainsOffset(nodes[Root].span, offset) => NodeAt(nodes, offset) = NoNode
  BY DEF NodeAt
<1> HIDE DEF c
<1> QED
  BY <1>7, <1>8, <1>9

(* A live node around an offset.                                           *)
Holds(n, offset) == n \in Live(nodes) /\ ContainsOffset(nodes[n].span, offset)

(* Where the walk from a node stops is around the offset too, and below it. *)
EndsBelow(f, n, offset) == Holds(f[n], offset) /\ n \in Up(f[n])

(* A descent ends below where it starts, at a node nothing splits.          *)
LEMMA DownEndsBelow ==
  ASSUME IInv, NEW offset, NEW f, IsDown(f, offset), NEW n, Holds(n, offset)
  PROVE  EndsBelow(f, n, offset)
<1> DEFINE S == {m \in Live(nodes) : Holds(m, offset) /\ ~EndsBelow(f, m, offset)}
<1>1. ASSUME S # {} PROVE FALSE
  <2>1. PICK m \in S : \A y \in S : Above[m] <= Above[y]
    <3>1. \A x \in S : Above[x] \in Nat
      BY RankTypes DEF Live
    <3> HIDE DEF S
    <3> QED
      BY <1>1, <3>1, LeastRanked
  <2>2. m \in Live(nodes) /\ m \in DOMAIN nodes /\ Holds(m, offset) /\ ~EndsBelow(f, m, offset)
    BY DEF Live
  <2>3. CASE HitsAt(m, offset) = {}
    <3>1. f[m] = m
      BY <2>2, <2>3 DEF IsDown
    <3>2. m \in Up(m)
      BY <2>2, UpFacts DEF WellAbove
    <3> QED
      BY <2>2, <3>1, <3>2 DEF EndsBelow
  <2>4. CASE HitsAt(m, offset) # {}
    <3> DEFINE k == NextDown(m, offset)
    <3>1. k \in Kids(nodes, m) /\ ContainsOffset(nodes[k].span, offset) /\ f[m] = f[k]
      BY <2>2, <2>4, NextDownFacts DEF IsDown, NextDown
    <3> HIDE DEF k
    <3>2. k \in Live(nodes) \ {Root} /\ nodes[k].parent = m
      BY <2>2, <3>1, WalkFacts
    <3>3. Above[k] < Above[m] /\ Above[k] \in Nat /\ Above[m] \in Nat
      BY <2>2, <3>1, RankTypes DEF Live
    <3>4. k \notin S
      <4> HIDE DEF S
      <4> QED
        BY <2>1, <3>3
    <3>5. EndsBelow(f, k, offset)
      BY <3>1, <3>2, <3>4 DEF Holds
    <3>6. m \in Up(k)
      BY <2>2, <3>2, UpUnfolds, UpFacts DEF WellAbove
    <3>7. Up(k) \subseteq Up(f[k])
      BY <3>5, UpFacts DEF EndsBelow, Holds, WellAbove
    <3> QED
      BY <2>2, <3>1, <3>5, <3>6, <3>7 DEF EndsBelow
  <2> QED
    BY <2>3, <2>4
<1>2. n \in Live(nodes)
  BY DEF Holds
<1> QED
  BY <1>1, <1>2

(* With no overlap among siblings, every walk inside an offset meets the    *)
(* one from the root.                                                      *)
LEMMA DownMeets ==
  ASSUME IInv, SiblingsDisjoint(nodes), NEW offset \in Nat, NEW f, IsDown(f, offset),
         NEW n, Holds(n, offset)
  PROVE  f[n] = f[Root]
<1> DEFINE S == {m \in Live(nodes) : Holds(m, offset) /\ f[m] # f[Root]}
<1>1. ASSUME S # {} PROVE FALSE
  <2>1. PICK m \in S : \A y \in S : Deep[m] <= Deep[y]
    <3>1. \A x \in S : Deep[x] \in Nat
      BY RankTypes DEF Live
    <3> HIDE DEF S
    <3> QED
      BY <1>1, <3>1, LeastRanked
  <2>2. m \in Live(nodes) \ {Root} /\ Holds(m, offset) /\ f[m] # f[Root]
    OBVIOUS
  <2> DEFINE p == nodes[m].parent
  <2>3. p \in Live(nodes) /\ m \in Kids(nodes, p)
    BY <2>2, WalkFacts
  <2>4. Contains(nodes[p].span, nodes[m].span)
    BY <2>2, IInvFacts DEF Nested
  <2> HIDE DEF p
  <2>5. /\ p \in DOMAIN nodes /\ m \in DOMAIN nodes
        /\ nodes[p].span \in Span /\ nodes[m].span \in Span
    BY <2>2, <2>3, IInvFacts DEF Live, Node
  <2>6. Holds(p, offset)
    BY <2>2, <2>3, <2>4, <2>5 DEF Holds, Contains, ContainsOffset, Span
  <2>7. Deep[p] < Deep[m] /\ Deep[p] \in Nat /\ Deep[m] \in Nat
    BY <2>3, <2>5, RankTypes
  <2>8. p \notin S
    <3> HIDE DEF S
    <3> QED
      BY <2>1, <2>7
  <2>9. f[p] = f[Root]
    BY <2>3, <2>6, <2>8
  <2>10. HitsAt(p, offset) # {}
    BY <2>2, <2>3 DEF Kids, HitsAt, Holds
  <2> DEFINE k == NextDown(p, offset)
  <2>11. k \in Kids(nodes, p) /\ ContainsOffset(nodes[k].span, offset) /\ f[p] = f[k]
    BY <2>5, <2>10, NextDownFacts DEF IsDown, NextDown
  <2> HIDE DEF k
  <2>12. k \in Live(nodes) \ {Root} /\ nodes[k].parent = nodes[m].parent
    BY <2>2, <2>3, <2>5, <2>11, WalkFacts
  <2>13. nodes[k].span \in Span
    BY <2>12, IInvFacts DEF Live, Node
  <2>14. Overlaps(nodes[k].span, nodes[m].span)
    BY <2>2, <2>5, <2>11, <2>13 DEF Holds, Overlaps, ContainsOffset, Span
  <2>15. k = m
    BY <2>2, <2>12, <2>14 DEF SiblingsDisjoint
  <2> QED
    BY <2>2, <2>9, <2>11, <2>15
<1>2. n \in Live(nodes)
  BY DEF Holds
<1> QED
  BY <1>1, <1>2

(* The answer at every offset of the text.                                 *)
LEMMA NodeAtFacts ==
  ASSUME IInv, NEW offset \in 0 .. textLen
  PROVE  LET found == NodeAt(nodes, offset) IN
           IF offset = textLen THEN found = NoNode
           ELSE /\ Holds(found, offset)
                /\ SiblingsDisjoint(nodes) =>
                     \A n : Holds(n, offset) => n \in Up(found)
<1>1. textLen \in Nat /\ nodes[Root].span = SpanOf(0, textLen, rev)
  BY DEF IInv, TypeOK, SpansNested
<1>2. PICK f : /\ IsDown(f, offset)
               /\ ContainsOffset(nodes[Root].span, offset) => NodeAt(nodes, offset) = f[Root]
               /\ ~ContainsOffset(nodes[Root].span, offset) => NodeAt(nodes, offset) = NoNode
  BY NodeAtUnfolds
<1>3. ContainsOffset(nodes[Root].span, offset) <=> offset # textLen
  BY <1>1 DEF ContainsOffset, SpanOf
<1>4. CASE offset # textLen
  <2>1. Holds(Root, offset)
    BY <1>3, <1>4, WalkFacts DEF Holds
  <2>2. NodeAt(nodes, offset) = f[Root]
    BY <1>2, <1>3, <1>4
  <2>3. Holds(f[Root], offset)
    BY <1>2, <2>1, DownEndsBelow DEF EndsBelow
  <2>4. ASSUME SiblingsDisjoint(nodes), NEW n, Holds(n, offset)
        PROVE  n \in Up(f[Root])
    <3>1. f[n] = f[Root]
      BY <1>1, <1>2, <2>4, DownMeets
    <3> QED
      BY <1>2, <2>4, <3>1, DownEndsBelow DEF EndsBelow
  <2> QED
    BY <1>4, <2>2, <2>3, <2>4
<1> QED
  BY <1>2, <1>3, <1>4

(* After any edits and runs, asking for the node at an offset finds a live  *)
(* node around it, the deepest one when siblings do not overlap.            *)
THEOREM NodeAtFindsTheDeepest == Spec => []NodeAtIsDeepest
<1>1. IInv => NodeAtIsDeepest
  BY NodeAtFacts DEF NodeAtIsDeepest, Holds, Up
<1> QED
  BY <1>1, Invariance, PTL

----------------------------------------------------------------------------
(* The list s holds the members of S, each once.                           *)
Lists(s, S) ==
  /\ s \in Seq(Nat)
  /\ Sq!ToSet(s) = S
  /\ Sq!IsInjective(s)

(* Two listings of disjoint sets list their union, one after the other.     *)
LEMMA ListsJoin ==
  ASSUME NEW s, NEW S, NEW t, NEW T, Lists(s, S), Lists(t, T), S \cap T = {}
  PROVE  Lists(s \o t, S \union T)
<1>1. s \in Seq(Nat) /\ t \in Seq(Nat)
  BY DEF Lists
<1>2. /\ s \o t \in Seq(Nat) /\ Len(s \o t) = Len(s) + Len(t)
      /\ \A i \in 1 .. Len(s) + Len(t) :
           (s \o t)[i] = IF i <= Len(s) THEN s[i] ELSE t[i - Len(s)]
  BY <1>1, ConcatProperties
<1>3. /\ Len(s) \in Nat /\ DOMAIN s = 1 .. Len(s)
      /\ Len(t) \in Nat /\ DOMAIN t = 1 .. Len(t)
      /\ DOMAIN (s \o t) = 1 .. Len(s) + Len(t)
  BY <1>1, <1>2, LenProperties
<1>4. \A i \in DOMAIN (s \o t) :
        \/ i \in DOMAIN s /\ (s \o t)[i] = s[i] /\ s[i] \in S
        \/ i - Len(s) \in DOMAIN t /\ (s \o t)[i] = t[i - Len(s)] /\ t[i - Len(s)] \in T
  <2> SUFFICES ASSUME NEW i \in DOMAIN (s \o t)
               PROVE  \/ i \in DOMAIN s /\ (s \o t)[i] = s[i] /\ s[i] \in S
                      \/ /\ i - Len(s) \in DOMAIN t
                         /\ (s \o t)[i] = t[i - Len(s)] /\ t[i - Len(s)] \in T
    OBVIOUS
  <2>1. CASE i <= Len(s)
    <3>1. i \in DOMAIN s /\ (s \o t)[i] = s[i]
      BY <1>2, <1>3, <2>1
    <3> QED
      BY <3>1 DEF Lists, Sq!ToSet
  <2>2. CASE ~(i <= Len(s))
    <3>1. i - Len(s) \in DOMAIN t /\ (s \o t)[i] = t[i - Len(s)]
      BY <1>2, <1>3, <2>2
    <3> QED
      BY <3>1 DEF Lists, Sq!ToSet
  <2> QED
    BY <2>1, <2>2
<1>5. /\ \A i \in DOMAIN s : i \in DOMAIN (s \o t) /\ (s \o t)[i] = s[i]
      /\ \A i \in DOMAIN t :
           i + Len(s) \in DOMAIN (s \o t) /\ (s \o t)[i + Len(s)] = t[i]
  BY <1>2, <1>3
<1>6. Sq!ToSet(s \o t) = S \union T
  <2>1. Sq!ToSet(s \o t) \subseteq S \union T
    BY <1>4 DEF Sq!ToSet
  <2>2. S \subseteq Sq!ToSet(s \o t)
    BY <1>5 DEF Lists, Sq!ToSet
  <2>3. T \subseteq Sq!ToSet(s \o t)
    BY <1>5 DEF Lists, Sq!ToSet
  <2> QED
    BY <2>1, <2>2, <2>3
<1>7. Sq!IsInjective(s \o t)
  <2> SUFFICES ASSUME NEW i \in DOMAIN (s \o t), NEW j \in DOMAIN (s \o t),
                      (s \o t)[i] = (s \o t)[j]
               PROVE  i = j
    BY DEF Sq!IsInjective
  <2>1. CASE i \in DOMAIN s /\ j \in DOMAIN s
    BY <1>5, <2>1 DEF Lists, Sq!IsInjective
  <2>2. CASE i - Len(s) \in DOMAIN t /\ j - Len(s) \in DOMAIN t
    <3>1. t[i - Len(s)] = (s \o t)[i] /\ t[j - Len(s)] = (s \o t)[j]
      <4>1. i \in Int /\ j \in Int
        BY <1>3
      <4> QED
        BY <1>3, <1>5, <2>2, <4>1
    <3>2. i - Len(s) = j - Len(s)
      BY <2>2, <3>1 DEF Lists, Sq!IsInjective
    <3> QED
      BY <1>3, <3>2
  <2> QED
    BY <1>4, <2>1, <2>2
<1> QED
  BY <1>2, <1>6, <1>7 DEF Lists

(* The lists in a list, one after the other.                               *)
IsFlat(f, seqs) ==
  f = [i \in 1 .. Len(seqs) |-> IF i = 1 THEN seqs[i] ELSE f[i - 1] \o seqs[i]]

Grows(f, seqs, n) ==
  /\ Sq!FlattenSeq(seqs) = f[n]
  /\ f[1] = seqs[1]
  /\ \A i \in 1 .. (n - 1) : f[i + 1] = f[i] \o seqs[i + 1]

(* Flattening is joining one sequence after the other.                      *)
LEMMA FlatUnfolds ==
  ASSUME NEW X, NEW n \in Nat, n # 0, NEW seqs \in [1 .. n -> Seq(X)]
  PROVE  \E f \in [1 .. n -> Seq(X)] : Grows(f, seqs, n)
<1> DEFINE D == 1 .. n
           V == Seq(X)
           Step == [i \in D |-> [f \in [D -> V] |->
                      IF i = 1 THEN seqs[i] ELSE f[i - 1] \o seqs[i]]]
           rank == [i \in D |-> i]
<1>0. \A i \in D : seqs[i] \in V
  OBVIOUS
<1>1. Step \in [D -> [[D -> V] -> V]]
  <2>1. ASSUME NEW i \in D, NEW f \in [D -> V]
        PROVE  (IF i = 1 THEN seqs[i] ELSE f[i - 1] \o seqs[i]) \in V
    <3>1. CASE i = 1
      BY <1>0, <3>1
    <3>2. CASE i # 1
      <4>1. i - 1 \in D
        BY <3>2
      <4>2. f[i - 1] \in Seq(X) /\ seqs[i] \in Seq(X)
        BY <1>0, <4>1
      <4>3. f[i - 1] \o seqs[i] \in Seq(X)
        BY <4>2, ConcatProperties
      <4> QED
        BY <3>2, <4>3
    <3> QED
      BY <3>1, <3>2
  <2> HIDE DEF D, V
  <2> QED
    BY <2>1
<1>2. LooksDown(D, V, rank, Step)
  <2>1. ASSUME NEW x \in D, NEW f \in [D -> V], NEW g \in [D -> V],
               \A y \in D : rank[y] < rank[x] => f[y] = g[y]
        PROVE  Step[x][f] = Step[x][g]
    <3>1. x # 1 => f[x - 1] = g[x - 1]
      BY <2>1
    <3> HIDE DEF D, V, rank
    <3> QED
      BY <3>1
  <2> HIDE DEF D, V, rank, Step
  <2> QED
    BY <2>1 DEF LooksDown
<1>3. rank \in [D -> 0 .. n] /\ seqs \in [D -> V]
  OBVIOUS
<1>4. \E f \in [D -> V] : Solves(f, D, Step)
  <2>1. n \in Nat
    OBVIOUS
  <2> HIDE DEF D, V, rank, Step
  <2> QED
    BY <1>1, <1>2, <1>3, <2>1, Recursion
<1>5. PICK f \in [D -> V] : \A x \in D : f[x] = Step[x][f]
  BY <1>4 DEF Solves
<1>6. \A i \in D : f[i] = IF i = 1 THEN seqs[i] ELSE f[i - 1] \o seqs[i]
  <2> HIDE DEF D, V
  <2> QED
    BY <1>5
<1>7. Len(seqs) = n
  <2>1. seqs \in Seq(Seq(X))
    BY SeqDef
  <2> QED
    BY <2>1, LenProperties
<1>8. IsFlat(f, seqs)
  <2> HIDE DEF V
  <2> QED
    BY <1>5, <1>6, <1>7 DEF IsFlat
<1> DEFINE c == CHOOSE g : IsFlat(g, seqs)
<1>9. IsFlat(c, seqs)
  BY <1>8
<1>10. Sq!FlattenSeq(seqs) = c[n]
  BY <1>7 DEF Sq!FlattenSeq, IsFlat
<1> HIDE DEF c
<1>11. \A g : IsFlat(g, seqs) =>
         \A i \in D : g[i] = IF i = 1 THEN seqs[i] ELSE g[i - 1] \o seqs[i]
  <2> SUFFICES ASSUME NEW g, IsFlat(g, seqs), NEW i \in D
               PROVE  g[i] = IF i = 1 THEN seqs[i] ELSE g[i - 1] \o seqs[i]
    OBVIOUS
  <2> QED
    BY <1>7 DEF IsFlat
<1>12. c \in [D -> V]
  <2>1. DOMAIN c = D
    BY <1>7, <1>9 DEF IsFlat
  <2> DEFINE S == {i \in D : c[i] \notin V}
  <2>2. ASSUME S # {} PROVE FALSE
    <3>1. S \in SUBSET Nat
      OBVIOUS
    <3>2. PICK i \in S : \A j \in S : i <= j
      <4> HIDE DEF S
      <4> QED
        BY <2>2, <3>1, LeastNatural
    <3>3. i \in D /\ c[i] \notin V
      OBVIOUS
    <3>4. i # 1
      <4> HIDE DEF D, V
      <4> QED
        BY <1>0, <1>9, <1>11, <3>3
    <3>5. i - 1 \in D /\ i - 1 \notin S
      <4>1. i - 1 \in D /\ i - 1 < i /\ i \in Nat
        BY <3>3, <3>4
      <4> HIDE DEF S
      <4> QED
        BY <3>2, <4>1
    <3>6. c[i - 1] \in Seq(X) /\ seqs[i] \in Seq(X)
      BY <1>0, <3>3, <3>5
    <3>7. c[i] = c[i - 1] \o seqs[i]
      <4> HIDE DEF D, V
      <4> QED
        BY <1>9, <1>11, <3>3, <3>4
    <3> QED
      BY <3>3, <3>6, <3>7, ConcatProperties
  <2>3. c = [i \in D |-> c[i]]
    BY <1>7, <1>9 DEF IsFlat
  <2> HIDE DEF D, V
  <2> QED
    BY <2>2, <2>3
<1>13. c[1] = seqs[1] /\ \A i \in 1 .. (n - 1) : c[i + 1] = c[i] \o seqs[i + 1]
  <2>1. 1 \in D /\ \A i \in 1 .. (n - 1) : i + 1 \in D /\ i + 1 # 1 /\ (i + 1) - 1 = i
    OBVIOUS
  <2> HIDE DEF D, V
  <2> QED
    BY <1>9, <1>11, <2>1
<1> QED
  BY <1>10, <1>12, <1>13 DEF Grows

(* Flattened sequences are a sequence.                                      *)
LEMMA FlattenType ==
  ASSUME NEW X, NEW n \in Nat, NEW seqs \in [1 .. n -> Seq(X)]
  PROVE  Sq!FlattenSeq(seqs) \in Seq(X)
<1>1. CASE n = 0
  <2>1. seqs \in Seq(Seq(X))
    BY SeqDef
  <2>2. Len(seqs) = 0 /\ seqs = <<>>
    BY <1>1, <2>1, LenProperties
  <2>3. Sq!FlattenSeq(seqs) = seqs
    BY <2>2 DEF Sq!FlattenSeq
  <2> QED
    BY <2>2, <2>3, EmptySeq
<1>2. CASE n # 0
  <2>1. n \in 1 .. n
    BY <1>2
  <2>2. \E f \in [1 .. n -> Seq(X)] : Grows(f, seqs, n)
    BY <1>2, FlatUnfolds, Zenon
  <2>3. PICK f \in [1 .. n -> Seq(X)] : Sq!FlattenSeq(seqs) = f[n]
    BY <2>2 DEF Grows
  <2> QED
    BY <2>1, <2>3
<1> QED
  BY <1>1, <1>2

(* The sets P[1], .., P[n], listed by seqs[1], .., seqs[n] and disjoint.     *)
ListedApart(seqs, P, n) ==
  /\ \A i \in 1 .. n : Lists(seqs[i], P[i])
  /\ \A i, j \in 1 .. n : i # j => P[i] \cap P[j] = {}

AllOf(P, n) == UNION {P[i] : i \in 1 .. n}

(* Flattened listings of disjoint sets list all of them.                    *)
LEMMA FlattenLists ==
  ASSUME NEW n \in Nat, NEW seqs \in [1 .. n -> Seq(Nat)], NEW P,
         ListedApart(seqs, P, n)
  PROVE  Lists(Sq!FlattenSeq(seqs), AllOf(P, n))
<1>0. /\ \A i \in 1 .. n : Lists(seqs[i], P[i])
      /\ \A i, j \in 1 .. n : i # j => P[i] \cap P[j] = {}
  BY DEF ListedApart
<1>1. CASE n = 0
  <2>1. seqs \in Seq(Seq(Nat))
    BY SeqDef
  <2>2. Len(seqs) = 0 /\ seqs = <<>>
    BY <1>1, <2>1, LenProperties
  <2>3. Sq!FlattenSeq(seqs) = <<>>
    BY <2>2 DEF Sq!FlattenSeq
  <2>4. AllOf(P, n) = {}
    BY <1>1 DEF AllOf
  <2>5. Lists(<<>>, {})
    BY DEF Lists, Sq!ToSet, Sq!IsInjective
  <2> QED
    BY <2>3, <2>4, <2>5
<1>2. CASE n # 0
  <2>1. PICK f \in [1 .. n -> Seq(Nat)] :
          /\ Sq!FlattenSeq(seqs) = f[n]
          /\ f[1] = seqs[1]
          /\ \A i \in 1 .. (n - 1) : f[i + 1] = f[i] \o seqs[i + 1]
    <3>1. \E f \in [1 .. n -> Seq(Nat)] : Grows(f, seqs, n)
      BY <1>2, FlatUnfolds, Zenon
    <3> QED
      BY <3>1 DEF Grows
  <2> DEFINE Upto(m) == UNION {P[i] : i \in 1 .. m}
             S == {m \in 1 .. n : ~Lists(f[m], Upto(m))}
  <2>2. ASSUME S # {} PROVE FALSE
    <3>1. S \in SUBSET Nat
      OBVIOUS
    <3>2. PICK m \in S : \A j \in S : m <= j
      <4> HIDE DEF S
      <4> QED
        BY <2>2, <3>1, LeastNatural
    <3>3. m \in 1 .. n /\ ~Lists(f[m], Upto(m))
      OBVIOUS
    <3>4. CASE m = 1
      <4>1. Upto(m) = P[1]
        BY <3>4
      <4> QED
        <5>1. 1 \in 1 .. n
          BY <3>3, <3>4
        <5>2. Lists(f[1], P[1])
          BY <1>0, <2>1, <5>1
        <5> QED
          BY <3>3, <3>4, <4>1, <5>2
    <3>5. CASE m # 1
      <4> DEFINE k == m - 1
      <4>1. k \in 1 .. (n - 1) /\ k \in 1 .. n /\ k + 1 = m /\ k < m /\ m \in Nat /\ k \in Nat
        <5> HIDE DEF S, Upto
        <5> QED
          BY <3>3, <3>5
      <4>2. Upto(m) = Upto(k) \union P[m]
        <5>1. 1 .. m = (1 .. k) \union {m}
          BY <4>1
        <5> HIDE DEF k
        <5> QED
          BY <5>1
      <4> HIDE DEF k
      <4>3. k \notin S
        <5> HIDE DEF S
        <5> QED
          BY <3>2, <4>1
      <4>4. Lists(f[k], Upto(k))
        BY <4>1, <4>3
      <4>5. f[m] = f[k] \o seqs[m]
        BY <2>1, <4>1
      <4>6. Lists(seqs[m], P[m])
        BY <1>0, <3>3
      <4>7. Upto(k) \cap P[m] = {}
        <5>1. \A i \in 1 .. k : i \in 1 .. n /\ i # m
          BY <3>3, <4>1
        <5> QED
          BY <1>0, <3>3, <5>1
      <4> HIDE DEF Upto
      <4>8. Lists(f[m], Upto(m))
        <5>1. Lists(f[k] \o seqs[m], Upto(k) \union P[m])
          BY <4>4, <4>6, <4>7, ListsJoin
        <5> QED
          BY <4>2, <4>5, <5>1
      <4> QED
        BY <3>3, <4>8
    <3> QED
      BY <3>4, <3>5
  <2>3. n \in 1 .. n
    BY <1>2
  <2> QED
    BY <2>1, <2>2, <2>3 DEF AllOf
<1> QED
  BY <1>1, <1>2

----------------------------------------------------------------------------
(* The ways up from one node are one way.                                  *)
OneWay(m) == \A x, y \in Up(m) : x \in Up(y) \/ y \in Up(x)

(* Of two nodes on a way up, one is above the other.                        *)
LEMMA UpIsOneWay ==
  ASSUME IInv, NEW n \in Live(nodes)
  PROVE  OneWay(n)
<1> DEFINE S == {m \in Live(nodes) : ~OneWay(m)}
<1>1. ASSUME S # {} PROVE FALSE
  <2>1. PICK m \in S : \A y \in S : Deep[m] <= Deep[y]
    <3>1. \A x \in S : Deep[x] \in Nat
      BY RankTypes DEF Live
    <3> HIDE DEF S
    <3> QED
      BY <1>1, <3>1, LeastRanked
  <2>2. m \in Live(nodes) /\ ~OneWay(m)
    OBVIOUS
  <2>3. CASE m = Root
    <3>1. Up(m) = {m}
      BY <2>2, <2>3, UpUnfolds
    <3> QED
      BY <2>2, <3>1 DEF OneWay
  <2>4. CASE m # Root
    <3> DEFINE p == nodes[m].parent
    <3>1. p \in Live(nodes) /\ m \in Kids(nodes, p) /\ Up(m) = {m} \union Up(p)
      BY <2>2, <2>4, UpUnfolds, WalkFacts
    <3> HIDE DEF p
    <3>2. Deep[p] < Deep[m] /\ Deep[p] \in Nat /\ Deep[m] \in Nat
      BY <2>2, <3>1, RankTypes DEF Live
    <3>3. p \notin S
      <4> HIDE DEF S
      <4> QED
        BY <2>1, <3>2
    <3>4. OneWay(p)
      BY <3>1, <3>3
    <3> HIDE DEF S
    <3>5. ASSUME NEW x \in Up(m), NEW y \in Up(m)
          PROVE  x \in Up(y) \/ y \in Up(x)
      <4>1. CASE x = m \/ y = m
        BY <4>1
      <4>2. CASE x \in Up(p) /\ y \in Up(p)
        BY <3>4, <4>2 DEF OneWay
      <4> QED
        BY <3>1, <4>1, <4>2
    <3> QED
      BY <2>2, <3>5 DEF OneWay
  <2> QED
    BY <2>3, <2>4
<1> QED
  BY <1>1

(* On the way from a node up to another, just below that one, is one of its *)
(* children.                                                               *)
HasKidOnWay(m) ==
  \A n \in Up(m) \ {m} : \E k \in Kids(nodes, n) : k \in Up(m)

(* Between a node and one below it there is a child on the way.             *)
LEMMA KidOnWay ==
  ASSUME IInv, NEW n \in Live(nodes)
  PROVE  HasKidOnWay(n)
<1> DEFINE S == {m \in Live(nodes) : ~HasKidOnWay(m)}
<1>1. ASSUME S # {} PROVE FALSE
  <2>1. PICK m \in S : \A y \in S : Deep[m] <= Deep[y]
    <3>1. \A x \in S : Deep[x] \in Nat
      BY RankTypes DEF Live
    <3> HIDE DEF S
    <3> QED
      BY <1>1, <3>1, LeastRanked
  <2>2. m \in Live(nodes) /\ ~HasKidOnWay(m)
    OBVIOUS
  <2>3. CASE m = Root
    <3>1. Up(m) = {m}
      BY <2>2, <2>3, UpUnfolds
    <3> QED
      BY <2>2, <3>1 DEF HasKidOnWay
  <2>4. CASE m # Root
    <3> DEFINE p == nodes[m].parent
    <3>1. p \in Live(nodes) /\ m \in Kids(nodes, p) /\ Up(m) = {m} \union Up(p)
      BY <2>2, <2>4, UpUnfolds, WalkFacts
    <3> HIDE DEF p
    <3>2. Deep[p] < Deep[m] /\ Deep[p] \in Nat /\ Deep[m] \in Nat
      BY <2>2, <3>1, RankTypes DEF Live
    <3>3. p \notin S
      <4> HIDE DEF S
      <4> QED
        BY <2>1, <3>2
    <3>4. HasKidOnWay(p)
      BY <3>1, <3>3
    <3> HIDE DEF S
    <3>5. ASSUME NEW n1 \in Up(m) \ {m}
          PROVE  \E k \in Kids(nodes, n1) : k \in Up(m)
      <4>1. CASE n1 = p
        BY <3>1, <4>1
      <4>2. CASE n1 # p
        BY <3>1, <3>4, <4>2 DEF HasKidOnWay
      <4> QED
        BY <4>1, <4>2
    <3> QED
      BY <2>2, <3>5 DEF HasKidOnWay
  <2> QED
    BY <2>3, <2>4
<1> QED
  BY <1>1

(* And only one; no child is above its parent.                             *)
LEMMA OneKidOnWay ==
  ASSUME IInv, NEW n \in Live(nodes), NEW k \in Kids(nodes, n)
  PROVE  /\ k \in Live(nodes) /\ k # Root /\ k # n
         /\ Up(k) = {k} \union Up(n) /\ k \notin Up(n)
         /\ \A m \in Live(nodes) : \A j \in Kids(nodes, n) :
              {j, k} \subseteq Up(m) => j = k
<1>0. \A j \in Kids(nodes, n) :
        /\ j \in Live(nodes) /\ j # Root /\ j # n
        /\ Up(j) = {j} \union Up(n) /\ j \notin Up(n)
  <2> SUFFICES ASSUME NEW j \in Kids(nodes, n)
               PROVE  /\ j \in Live(nodes) /\ j # Root /\ j # n
                      /\ Up(j) = {j} \union Up(n) /\ j \notin Up(n)
    OBVIOUS
  <2>1. j \in Live(nodes) \ {Root} /\ nodes[j].parent = n /\ n \in DOMAIN nodes
    BY WalkFacts DEF Live
  <2>2. Up(j) = {j} \union Up(n)
    BY <2>1, UpUnfolds
  <2>3. Deep[n] < Deep[j] /\ Deep[n] \in Nat /\ Deep[j] \in Nat
    BY <2>1, RankTypes DEF Live
  <2>4. j # n /\ j \notin Up(n)
    BY <2>3, UpFacts DEF WellAbove
  <2> QED
    BY <2>1, <2>2, <2>4
<1>1. ASSUME NEW m \in Live(nodes), NEW j \in Kids(nodes, n), {j, k} \subseteq Up(m)
      PROVE  j = k
  <2>1. j \in Up(k) \/ k \in Up(j)
    BY <1>1, UpIsOneWay DEF OneWay
  <2> QED
    BY <1>0, <2>1
<1> QED
  BY <1>0, <1>1

----------------------------------------------------------------------------
(* The walk that collects diagnostics.                                     *)

(* The failing nodes at or below n the walk offers, called on n with or     *)
(* without a failure above.                                                *)
Told(n, under, cascades) ==
  {m \in Live(nodes) :
     /\ n \in Up(m) /\ Failing(nodes, m)
     /\ \/ cascades
        \/ ~under /\ \A x \in Up(m) : n \in Up(x) /\ Failing(nodes, x) => x = m}

OwnTold(n, under, cascades) ==
  IF Failing(nodes, n) /\ (~under \/ cascades) THEN {n} ELSE {}

(* What a subtree tells: its top, and apart from it its parts.              *)
LEMMA ToldUnfolds ==
  ASSUME IInv, NEW n \in Live(nodes), NEW under \in BOOLEAN, NEW cascades \in BOOLEAN
  PROVE  LET next == UnderFailure(under, Failing(nodes, n), cascades)
         IN  /\ Told(n, under, cascades) =
                  OwnTold(n, under, cascades)
                    \union UNION {Told(k, next, cascades) : k \in Kids(nodes, n)}
             /\ \A k \in Kids(nodes, n) : n \notin Told(k, next, cascades)
             /\ \A j, k \in Kids(nodes, n) :
                  j # k => Told(j, next, cascades) \cap Told(k, next, cascades) = {}
<1> DEFINE next == UnderFailure(under, Failing(nodes, n), cascades)
<1>1. \A k \in Kids(nodes, n) : n \notin Told(k, next, cascades)
  BY OneKidOnWay DEF Told
<1>2. \A j, k \in Kids(nodes, n) :
        j # k => Told(j, next, cascades) \cap Told(k, next, cascades) = {}
  BY OneKidOnWay DEF Told
<1>3. n \in Up(n) /\ \A x \in Up(n) : n \in Up(x) => x = n
  <2>1. WellAbove(n) /\ \A x \in Up(n) : WellAbove(x)
    BY UpFacts DEF WellAbove
  <2>2. \A x \in Up(n) : Deep[x] \in Nat
    BY <2>1, RankTypes DEF WellAbove, Live
  <2>3. Deep[n] \in Nat
    BY RankTypes DEF Live
  <2> QED
    BY <2>1, <2>2, <2>3 DEF WellAbove
<1>4. n \in Told(n, under, cascades) <=> n \in OwnTold(n, under, cascades)
  BY <1>3 DEF Told, OwnTold
<1>5. ASSUME NEW m \in Live(nodes), NEW k \in Kids(nodes, n), k \in Up(m)
      PROVE  m \in Told(n, under, cascades) <=> m \in Told(k, next, cascades)
  <2>1. n \in Up(m) /\ m # n
    BY <1>5, OneKidOnWay, UpFacts DEF WellAbove
  <2>2. CASE cascades
    BY <1>5, <2>1, <2>2 DEF Told
  <2>3. CASE ~cascades
    <3>1. ASSUME m \in Told(n, under, cascades)
          PROVE  m \in Told(k, next, cascades)
      <4>1. /\ ~under /\ Failing(nodes, m)
            /\ \A x \in Up(m) : n \in Up(x) /\ Failing(nodes, x) => x = m
        BY <2>3, <3>1 DEF Told
      <4>2. ~Failing(nodes, n)
        BY <1>3, <2>1, <4>1
      <4>3. ~next
        BY <2>3, <4>1, <4>2 DEF UnderFailure
      <4>4. ASSUME NEW x \in Up(m), k \in Up(x), Failing(nodes, x)
            PROVE  x = m
        <5>1. x \in Live(nodes)
          BY UpFacts DEF WellAbove
        <5>2. n \in Up(x)
          BY <4>4, <5>1, OneKidOnWay, UpFacts, <1>3 DEF WellAbove
        <5> QED
          BY <4>1, <4>4, <5>2
      <4> QED
        BY <1>5, <4>1, <4>3, <4>4 DEF Told
    <3>2. ASSUME m \in Told(k, next, cascades)
          PROVE  m \in Told(n, under, cascades)
      <4>1. /\ ~next /\ Failing(nodes, m)
            /\ \A x \in Up(m) : k \in Up(x) /\ Failing(nodes, x) => x = m
        BY <2>3, <3>2 DEF Told
      <4>2. ~under /\ ~Failing(nodes, n)
        BY <2>3, <4>1 DEF UnderFailure
      <4>3. ASSUME NEW x \in Up(m), n \in Up(x), Failing(nodes, x)
            PROVE  x = m
        <5>1. x \in Live(nodes) /\ Up(x) \subseteq Up(m) /\ x # n
          BY <4>2, <4>3, UpFacts DEF WellAbove
        <5>2. PICK j \in Kids(nodes, n) : j \in Up(x)
          BY <4>3, <5>1, KidOnWay DEF HasKidOnWay
        <5>3. j = k
          BY <1>5, <5>1, <5>2, OneKidOnWay
        <5> QED
          BY <4>1, <4>3, <5>2, <5>3
      <4> QED
        BY <2>1, <4>1, <4>2, <4>3 DEF Told
    <3> QED
      BY <3>1, <3>2
  <2> QED
    BY <2>2, <2>3
<1> HIDE DEF next
<1>6. \A m \in Told(n, under, cascades) :
        m = n \/ \E k \in Kids(nodes, n) : m \in Told(k, next, cascades)
  <2> SUFFICES ASSUME NEW m \in Told(n, under, cascades), m # n
               PROVE  \E k \in Kids(nodes, n) : m \in Told(k, next, cascades)
    OBVIOUS
  <2>1. m \in Live(nodes) /\ n \in Up(m)
    BY DEF Told
  <2>2. PICK k \in Kids(nodes, n) : k \in Up(m)
    BY <2>1, KidOnWay DEF HasKidOnWay
  <2> QED
    BY <1>5, <2>1, <2>2
<1>7. \A k \in Kids(nodes, n) : Told(k, next, cascades) \subseteq Told(n, under, cascades)
  <2> SUFFICES ASSUME NEW k \in Kids(nodes, n), NEW m \in Told(k, next, cascades)
               PROVE  m \in Told(n, under, cascades)
    OBVIOUS
  <2>1. m \in Live(nodes) /\ k \in Up(m)
    BY DEF Told
  <2> QED
    BY <1>5, <2>1
<1>8. OwnTold(n, under, cascades) \subseteq {n}
  BY DEF OwnTold
<1>9. Told(n, under, cascades) =
        OwnTold(n, under, cascades)
          \union UNION {Told(k, next, cascades) : k \in Kids(nodes, n)}
  BY <1>4, <1>6, <1>7, <1>8
<1> QED
  BY <1>1, <1>2, <1>9 DEF next

OwnOffer(n, under, cascades) ==
  IF Failing(nodes, n) /\ (~under \/ cascades) THEN <<n>> ELSE <<>>

(* What the walk offers at a node, given what it offers at the others.      *)
Offers(f, n, under, cascades) ==
  OwnOffer(n, under, cascades) \o
    Sq!FlattenSeq([i \in DOMAIN nodes[n].children |->
                     f[nodes[n].children[i]]
                      [UnderFailure(under, Failing(nodes, n), cascades)]])

IsWalk(f, cascades) ==
  f = [n \in DOMAIN nodes |-> [under \in BOOLEAN |-> Offers(f, n, under, cascades)]]

(* A list of children lists each child once.                                *)
LEMMA ChildLists ==
  ASSUME IInv, NEW n \in DOMAIN nodes
  PROVE  /\ Len(nodes[n].children) \in Nat
         /\ DOMAIN nodes[n].children = 1 .. Len(nodes[n].children)
         /\ \A i \in DOMAIN nodes[n].children : nodes[n].children[i] \in Kids(nodes, n)
         /\ \A i, j \in DOMAIN nodes[n].children :
              i # j => nodes[n].children[i] # nodes[n].children[j]
<1>1. nodes[n].children \in Seq(Nat)
  BY IInvFacts DEF Node
<1>2. \A i, j \in DOMAIN nodes[n].children :
        i # j => nodes[n].children[i] # nodes[n].children[j]
  BY IInvFacts DEF WellShaped, KidsPointBack
<1>3. \A i \in DOMAIN nodes[n].children : nodes[n].children[i] \in Kids(nodes, n)
  BY DEF Kids
<1>4. /\ Len(nodes[n].children) \in Nat
      /\ DOMAIN nodes[n].children = 1 .. Len(nodes[n].children)
  BY <1>1, LenProperties
<1> QED
  BY <1>2, <1>3, <1>4

(* What a node and its children offer is a sequence.                        *)
LEMMA OffersType ==
  ASSUME IInv, NEW n \in DOMAIN nodes, NEW under \in BOOLEAN, NEW cascades \in BOOLEAN,
         NEW f, \A k \in Kids(nodes, n) : f[k] \in [BOOLEAN -> Seq(Nat)]
  PROVE  Offers(f, n, under, cascades) \in Seq(Nat)
<1> DEFINE next  == UnderFailure(under, Failing(nodes, n), cascades)
           count == Len(nodes[n].children)
           parts == [i \in DOMAIN nodes[n].children |-> f[nodes[n].children[i]][next]]
<1>1. next \in BOOLEAN
  BY DEF UnderFailure, Failing
<1>2. \A i \in DOMAIN nodes[n].children : f[nodes[n].children[i]][next] \in Seq(Nat)
  <2> SUFFICES ASSUME NEW i \in DOMAIN nodes[n].children
               PROVE  f[nodes[n].children[i]][next] \in Seq(Nat)
    OBVIOUS
  <2>1. f[nodes[n].children[i]] \in [BOOLEAN -> Seq(Nat)]
    BY ChildLists
  <2> HIDE DEF next
  <2> QED
    BY <1>1, <2>1
<1> HIDE DEF next
<1>3. count \in Nat /\ parts \in [1 .. count -> Seq(Nat)]
  BY <1>2, ChildLists
<1>4. Sq!FlattenSeq(parts) \in Seq(Nat)
  <2> HIDE DEF count, parts
  <2> QED
    BY <1>3, FlattenType, Zenon
<1>5. n \in Nat
  BY IInvFacts
<1>6. OwnOffer(n, under, cascades) \in Seq(Nat)
  BY <1>5 DEF OwnOffer
<1>7. Offers(f, n, under, cascades) = OwnOffer(n, under, cascades) \o Sq!FlattenSeq(parts)
  BY DEF Offers, next
<1> QED
  BY <1>4, <1>6, <1>7, ConcatProperties

(* The walk of the diagnostics, one node at a time.                         *)
LEMMA WalkUnfolds ==
  ASSUME IInv, NEW cascades \in BOOLEAN
  PROVE  \E f : IsWalk(f, cascades) /\ Offered(nodes, cascades) = f[Root][FALSE]
<1> DEFINE D == DOMAIN nodes
           V == [BOOLEAN -> Seq(Nat)]
           Step == [n \in D |-> [f \in [D -> V] |->
                      [under \in BOOLEAN |-> Offers(f, n, under, cascades)]]]
<1>1. Step \in [D -> [[D -> V] -> V]]
  <2>1. ASSUME NEW n \in D, NEW f \in [D -> V], NEW under \in BOOLEAN
        PROVE  Offers(f, n, under, cascades) \in Seq(Nat)
    <3>1. \A k \in Kids(nodes, n) : k \in D /\ f[k] \in [BOOLEAN -> Seq(Nat)]
      BY RankTypes
    <3> QED
      BY <3>1, OffersType
  <2>2. ASSUME NEW n \in D, NEW f \in [D -> V]
        PROVE  [under \in BOOLEAN |-> Offers(f, n, under, cascades)] \in V
    BY <2>1
  <2> HIDE DEF D, V
  <2> QED
    BY <2>2
<1>2. LooksDown(D, V, Above, Step)
  <2>1. ASSUME NEW x \in D, NEW f \in [D -> V], NEW g \in [D -> V],
               \A y \in D : Above[y] < Above[x] => f[y] = g[y]
        PROVE  Step[x][f] = Step[x][g]
    <3>1. \A i \in DOMAIN nodes[x].children : f[nodes[x].children[i]] = g[nodes[x].children[i]]
      BY <2>1, ChildLists, RankTypes
    <3>2. \A under : Offers(f, x, under, cascades) = Offers(g, x, under, cascades)
      BY <3>1 DEF Offers
    <3> HIDE DEF D, V
    <3> QED
      BY <3>2
  <2> HIDE DEF D, V, Step
  <2> QED
    BY <2>1 DEF LooksDown
<1>3. [n \in D |-> [under \in BOOLEAN |-> <<>>]] \in [D -> V]
  OBVIOUS
<1>4. \E f \in [D -> V] : Solves(f, D, Step)
  <2>2. Above \in [D -> 0 .. MaxRounds]
    BY RankTypes
  <2> HIDE DEF Step, D, V
  <2> QED
    BY <1>1, <1>2, <1>3, <2>2, MaxRoundsIsNat, Recursion
<1>5. PICK f \in [D -> V] : \A x \in D : f[x] = Step[x][f]
  BY <1>4 DEF Solves
<1>6. IsWalk(f, cascades)
  <2>1. \A x \in D : f[x] = [under \in BOOLEAN |-> Offers(f, x, under, cascades)]
    <3> HIDE DEF D, V
    <3> QED
      BY <1>5
  <2>2. f = [x \in D |-> f[x]]
    <3> HIDE DEF D, V
    <3> QED
      OBVIOUS
  <2> HIDE DEF V
  <2> QED
    BY <2>1, <2>2 DEF IsWalk
<1> DEFINE c == CHOOSE g : IsWalk(g, cascades)
<1>7. IsWalk(c, cascades)
  BY <1>6
<1>8. Offered(nodes, cascades) = c[Root][FALSE]
  BY DEF Offered, IsWalk, Offers, OwnOffer
<1> HIDE DEF c
<1> QED
  BY <1>7, <1>8

(* By induction from the bottom: the walk from a node lists, once each, the  *)
(* failing nodes it should tell of.                                        *)
WellTold(f, n, cascades) ==
  \A under \in BOOLEAN : Lists(f[n][under], Told(n, under, cascades))

(* The walk lists what the subtree tells.                                   *)
LEMMA WalkTells ==
  ASSUME IInv, NEW cascades \in BOOLEAN, NEW f, IsWalk(f, cascades), NEW n \in Live(nodes)
  PROVE  WellTold(f, n, cascades)
<1> DEFINE S == {m \in Live(nodes) : ~WellTold(f, m, cascades)}
<1>1. ASSUME S # {} PROVE FALSE
  <2>1. PICK m \in S : \A y \in S : Above[m] <= Above[y]
    <3>1. \A x \in S : Above[x] \in Nat
      BY RankTypes DEF Live
    <3> HIDE DEF S
    <3> QED
      BY <1>1, <3>1, LeastRanked
  <2>2. m \in Live(nodes) /\ m \in DOMAIN nodes /\ ~WellTold(f, m, cascades)
    BY DEF Live
  <2>3. \A k \in Kids(nodes, m) : k \in Live(nodes) /\ WellTold(f, k, cascades)
    <3> SUFFICES ASSUME NEW k \in Kids(nodes, m)
                 PROVE  k \in Live(nodes) /\ WellTold(f, k, cascades)
      OBVIOUS
    <3>1. k \in Live(nodes)
      BY <2>2, WalkFacts
    <3>2. Above[k] < Above[m] /\ Above[k] \in Nat /\ Above[m] \in Nat
      BY <2>2, <3>1, RankTypes DEF Live
    <3>3. k \notin S
      <4> HIDE DEF S
      <4> QED
        BY <2>1, <3>2
    <3> QED
      BY <3>1, <3>3
  <2> HIDE DEF S
  <2>4. ASSUME NEW under \in BOOLEAN
        PROVE  Lists(f[m][under], Told(m, under, cascades))
    <3> DEFINE next  == UnderFailure(under, Failing(nodes, m), cascades)
               kid(i) == nodes[m].children[i]
               count == Len(nodes[m].children)
               parts == [i \in 1 .. count |-> f[kid(i)][next]]
               P     == [i \in 1 .. count |-> Told(kid(i), next, cascades)]
    <3>1. next \in BOOLEAN
      BY DEF UnderFailure, Failing
    <3>2. /\ count \in Nat /\ DOMAIN nodes[m].children = 1 .. count
          /\ \A i \in 1 .. count : kid(i) \in Kids(nodes, m)
          /\ \A i, j \in 1 .. count : i # j => kid(i) # kid(j)
      BY <2>2, ChildLists
    <3>3. /\ Told(m, under, cascades) =
               OwnTold(m, under, cascades)
                 \union UNION {Told(k, next, cascades) : k \in Kids(nodes, m)}
          /\ \A k \in Kids(nodes, m) : m \notin Told(k, next, cascades)
          /\ \A j, k \in Kids(nodes, m) :
               j # k => Told(j, next, cascades) \cap Told(k, next, cascades) = {}
      BY <2>2, ToldUnfolds
    <3>4. f[m][under] = OwnOffer(m, under, cascades) \o Sq!FlattenSeq(parts)
      <4>1. f[m] = [u \in BOOLEAN |-> Offers(f, m, u, cascades)]
        BY <2>2 DEF IsWalk
      <4>2. f[m][under] = Offers(f, m, under, cascades)
        BY <4>1
      <4>3. parts = [i \in DOMAIN nodes[m].children |-> f[nodes[m].children[i]][next]]
        BY <3>2
      <4> QED
        BY <4>2, <4>3 DEF Offers
    <3>5. \A k \in Kids(nodes, m) : Lists(f[k][next], Told(k, next, cascades))
      BY <2>3, <3>1 DEF WellTold
    <3>6. Kids(nodes, m) = {kid(i) : i \in 1 .. count}
      BY <3>2 DEF Kids
    <3> HIDE DEF next, kid, count
    <3>7. \A i \in 1 .. count : Lists(parts[i], P[i])
      BY <3>2, <3>5
    <3>8. \A i, j \in 1 .. count : i # j => P[i] \cap P[j] = {}
      BY <3>2, <3>3
    <3>9. parts \in [1 .. count -> Seq(Nat)]
      BY <3>7 DEF Lists
    <3>10. UNION {P[i] : i \in 1 .. count} =
             UNION {Told(k, next, cascades) : k \in Kids(nodes, m)}
      BY <3>6
    <3> HIDE DEF parts, P
    <3>11. Lists(Sq!FlattenSeq(parts), UNION {P[i] : i \in 1 .. count})
      <4>1. count \in Nat
        BY <3>2
      <4>2. ListedApart(parts, P, count)
        BY <3>7, <3>8 DEF ListedApart
      <4>3. Lists(Sq!FlattenSeq(parts), AllOf(P, count))
        BY <3>9, <4>1, <4>2, FlattenLists, Zenon
      <4> QED
        BY <4>3 DEF AllOf
    <3>12. Lists(OwnOffer(m, under, cascades), OwnTold(m, under, cascades))
      <4>1. m \in Nat
        BY <2>2, IInvFacts
      <4> QED
        BY <4>1 DEF OwnOffer, OwnTold, Lists, Sq!ToSet, Sq!IsInjective
    <3>13. OwnTold(m, under, cascades) \cap UNION {P[i] : i \in 1 .. count} = {}
      BY <3>3, <3>10 DEF OwnTold
    <3>14. Lists(OwnOffer(m, under, cascades) \o Sq!FlattenSeq(parts),
                 OwnTold(m, under, cascades) \union UNION {P[i] : i \in 1 .. count})
      BY <3>11, <3>12, <3>13, ListsJoin, Zenon
    <3> QED
      BY <3>3, <3>4, <3>10, <3>14
  <2> QED
    BY <2>2, <2>4 DEF WellTold
<1> QED
  BY <1>1

(* A listing is as long as what it lists has elements.                      *)
LEMMA ListedSize ==
  ASSUME NEW s, NEW S, Lists(s, S)
  PROVE  IsFiniteSet(S) /\ Cardinality(S) = Len(s)
<1>1. s \in Seq(Nat) /\ Len(s) \in Nat /\ DOMAIN s = 1 .. Len(s)
  BY LenProperties DEF Lists
<1>2. IsFiniteSet(1 .. Len(s)) /\ Cardinality(1 .. Len(s)) = Len(s)
  <2>1. /\ IsFiniteSet(1 .. Len(s))
        /\ Cardinality(1 .. Len(s)) = IF 1 > Len(s) THEN 0 ELSE Len(s) - 1 + 1
    BY <1>1, FS_Interval
  <2> QED
    BY <1>1, <2>1
<1>3. s \in Bijection(1 .. Len(s), S)
  <2>1. S = {s[i] : i \in 1 .. Len(s)}
    BY <1>1 DEF Lists, Sq!ToSet
  <2>2. s \in [1 .. Len(s) -> S]
    BY <1>1, <2>1
  <2>3. \A i, j \in 1 .. Len(s) : s[i] = s[j] => i = j
    BY <1>1 DEF Lists, Sq!IsInjective
  <2>4. s \in Injection(1 .. Len(s), S)
    BY <2>2, <2>3 DEF Injection, IsInjective
  <2>5. s \in Surjection(1 .. Len(s), S)
    BY <2>1, <2>2 DEF Surjection
  <2> QED
    BY <2>4, <2>5 DEF Bijection
<1>4. ExistsBijection(1 .. Len(s), S)
  BY <1>3 DEF ExistsBijection
<1> QED
  BY <1>2, <1>4, FS_Bijection

(* What the diagnostics hook is offered is exactly the failing live nodes,  *)
(* or the outermost of them, and none twice, in every tree there can be.     *)
THEOREM DiagnosticsAreComplete == Spec => []FailuresAreOfferedOnce
<1>1. IInv => FailuresAreOfferedOnce
  <2> SUFFICES ASSUME IInv PROVE FailuresAreOfferedOnce
    OBVIOUS
  <2> DEFINE failing   == {n \in Live(nodes) : Failing(nodes, n)}
             outermost == {n \in failing : AndAbove(nodes, n) \cap failing = {n}}
  <2>1. ASSUME NEW cascades \in BOOLEAN
        PROVE  Lists(Offered(nodes, cascades), Told(Root, FALSE, cascades))
    <3>1. PICK f : IsWalk(f, cascades) /\ Offered(nodes, cascades) = f[Root][FALSE]
      BY WalkUnfolds
    <3>2. WellTold(f, Root, cascades)
      BY <3>1, WalkTells, WalkFacts
    <3> QED
      BY <3>1, <3>2 DEF WellTold
  <2>2. \A m \in Live(nodes) : /\ Root \in Up(m) /\ m \in Up(m)
                               /\ Up(m) \subseteq Live(nodes)
    BY UpFacts DEF WellAbove
  <2>3. Told(Root, FALSE, TRUE) = failing
    BY <2>2 DEF Told
  <2>4. Told(Root, FALSE, FALSE) = outermost
    <3>1. \A m : m \in Told(Root, FALSE, FALSE) <=>
                   /\ m \in failing
                   /\ \A x \in Up(m) : Failing(nodes, x) => x = m
      BY <2>2 DEF Told
    <3>2. \A m : m \in outermost <=>
                   /\ m \in failing
                   /\ \A x \in Up(m) : Failing(nodes, x) => x = m
      <4>1. \A m : m \in outermost <=> m \in failing /\ Up(m) \cap failing = {m}
        BY DEF Up
      <4>2. \A m \in failing : Up(m) \cap failing = {m} <=>
                                 \A x \in Up(m) : Failing(nodes, x) => x = m
        BY <2>2
      <4> HIDE DEF failing, outermost
      <4> QED
        BY <4>1, <4>2
    <3> HIDE DEF outermost, failing
    <3> QED
      BY <3>1, <3>2
  <2> HIDE DEF outermost, failing
  <2>5. /\ Lists(Offered(nodes, TRUE), failing)
        /\ Lists(Offered(nodes, FALSE), outermost)
    BY <2>1, <2>3, <2>4
  <2>6. LET counts == StatusCounts(nodes) IN
          Len(Offered(nodes, TRUE)) = counts["Failed"] + counts["Unparsed"]
    <3> DEFINE With(s) == {n \in Live(nodes) : nodes[n].status = s}
    <3>1. /\ StatusCounts(nodes)["Failed"] = Cardinality(With("Failed"))
          /\ StatusCounts(nodes)["Unparsed"] = Cardinality(With("Unparsed"))
      BY DEF StatusCounts, Status
    <3>2. /\ failing = With("Failed") \union With("Unparsed")
          /\ With("Failed") \cap With("Unparsed") = {}
      BY DEF failing, Failing
    <3>3. IsFiniteSet(failing) /\ Cardinality(failing) = Len(Offered(nodes, TRUE))
      BY <2>5, ListedSize
    <3> HIDE DEF With
    <3>4. IsFiniteSet(With("Failed")) /\ IsFiniteSet(With("Unparsed"))
      BY <3>2, <3>3, FS_Subset
    <3>5. Cardinality(failing) = Cardinality(With("Failed")) + Cardinality(With("Unparsed"))
                                   - Cardinality({})
      BY <3>2, <3>4, FS_Union
    <3>6. /\ Cardinality(With("Failed")) \in Nat /\ Cardinality(With("Unparsed")) \in Nat
          /\ Cardinality({}) = 0
      BY <3>4, FS_CardinalityType, FS_EmptySet
    <3>7. Cardinality(failing) = Cardinality(With("Failed")) + Cardinality(With("Unparsed"))
      BY <3>5, <3>6
    <3> QED
      BY <3>1, <3>3, <3>7
  <2> QED
    BY <2>5, <2>6 DEF FailuresAreOfferedOnce, Lists, failing, outermost
<1> QED
  BY <1>1, Invariance, PTL

----------------------------------------------------------------------------
(* Lists made element by element.                                          *)

(* What f takes elements of A to are lists over X.                          *)
Takes(f, A, X) == \A a \in A : f[a] \in Seq(X)

(* What FilterMap has made of the first elements of a list.                 *)
IsMade(u, s, f) ==
  u = [k \in 0 .. Len(s) |-> IF k = 0 THEN <<>> ELSE u[k - 1] \o f[s[k]]]

Makes(u, s, f) ==
  /\ FilterMap(s, f) = u[Len(s)]
  /\ u[0] = <<>>
  /\ \A k \in 0 .. (Len(s) - 1) : u[k + 1] = u[k] \o f[s[k + 1]]

(* What FilterMap makes, unfolded from one element to the next.            *)
LEMMA FilterMapUnfolds ==
  ASSUME NEW A, NEW X, NEW s \in Seq(A), NEW f, \A a \in A : f[a] \in Seq(X)
  PROVE  \E u \in [0 .. Len(s) -> Seq(X)] : Makes(u, s, f)
<1> DEFINE n == Len(s)
           D == 0 .. n
           V == Seq(X)
           Step == [k \in D |-> [u \in [D -> V] |->
                      IF k = 0 THEN <<>> ELSE u[k - 1] \o f[s[k]]]]
           rank == [k \in D |-> k]
           none == [k \in D |-> <<>>]
<1>0. n \in Nat /\ \A k \in 1 .. n : f[s[k]] \in V
  <2>1. n \in Nat /\ \A k \in 1 .. n : s[k] \in A
    BY LenProperties, ElementOfSeq
  <2> QED
    BY <2>1
<1> HIDE DEF n
<1>1. Step \in [D -> [[D -> V] -> V]]
  <2>1. ASSUME NEW k \in D, NEW u \in [D -> V]
        PROVE  (IF k = 0 THEN <<>> ELSE u[k - 1] \o f[s[k]]) \in V
    <3>1. CASE k = 0
      BY <3>1, EmptySeq
    <3>2. CASE k # 0
      <4>1. k - 1 \in D /\ k \in 1 .. n
        BY <1>0, <3>2
      <4>2. u[k - 1] \in Seq(X) /\ f[s[k]] \in Seq(X)
        BY <1>0, <4>1
      <4>3. u[k - 1] \o f[s[k]] \in Seq(X)
        BY <4>2, ConcatProperties
      <4> QED
        BY <3>2, <4>3
    <3> QED
      BY <3>1, <3>2
  <2> HIDE DEF D, V
  <2> QED
    BY <2>1
<1>2. LooksDown(D, V, rank, Step)
  <2>1. ASSUME NEW x \in D, NEW u \in [D -> V], NEW v \in [D -> V],
               \A y \in D : rank[y] < rank[x] => u[y] = v[y]
        PROVE  Step[x][u] = Step[x][v]
    <3>1. x # 0 => u[x - 1] = v[x - 1]
      BY <1>0, <2>1
    <3> HIDE DEF D, V, rank
    <3> QED
      BY <3>1
  <2> HIDE DEF D, V, rank, Step
  <2> QED
    BY <2>1 DEF LooksDown
<1>3. rank \in [D -> 0 .. n] /\ none \in [D -> V]
  BY EmptySeq
<1>4. \E u \in [D -> V] : Solves(u, D, Step)
  <2> HIDE DEF D, V, rank, Step, none
  <2> QED
    BY <1>0, <1>1, <1>2, <1>3, Recursion
<1>5. PICK u \in [D -> V] : \A x \in D : u[x] = Step[x][u]
  BY <1>4 DEF Solves
<1>6. IsMade(u, s, f)
  <2>1. \A k \in D : u[k] = IF k = 0 THEN <<>> ELSE u[k - 1] \o f[s[k]]
    <3> HIDE DEF D, V
    <3> QED
      BY <1>5
  <2> HIDE DEF V
  <2> QED
    BY <1>5, <2>1 DEF IsMade, n
<1> DEFINE c == CHOOSE v : IsMade(v, s, f)
<1>7. IsMade(c, s, f)
  BY <1>6
<1>8. FilterMap(s, f) = c[n]
  BY DEF FilterMap, IsMade, n
<1> HIDE DEF c
<1>9. /\ c[0] = <<>>
      /\ \A k \in 0 .. (n - 1) : c[k + 1] = c[k] \o f[s[k + 1]]
  <2>1. /\ 0 \in D
        /\ \A k \in 0 .. (n - 1) : k + 1 \in D /\ k + 1 # 0 /\ (k + 1) - 1 = k
    BY <1>0
  <2>2. \A k \in D : c[k] = IF k = 0 THEN <<>> ELSE c[k - 1] \o f[s[k]]
    BY <1>7 DEF IsMade, n
  <2> HIDE DEF D
  <2> QED
    BY <2>1, <2>2
<1>10. c \in [D -> V]
  <2> DEFINE S == {k \in D : c[k] \notin V}
  <2>1. ASSUME S # {} PROVE FALSE
    <3>1. S \in SUBSET Nat
      OBVIOUS
    <3>2. PICK k \in S : \A j \in S : k <= j
      <4> HIDE DEF S
      <4> QED
        BY <2>1, <3>1, LeastNatural
    <3>3. k \in D /\ c[k] \notin V
      OBVIOUS
    <3>4. k # 0
      BY <1>9, <3>3, EmptySeq
    <3> DEFINE b == k - 1
    <3>5. b \in D /\ b \in 0 .. (n - 1) /\ b + 1 = k /\ ~(k <= b) /\ k \in 1 .. n
      BY <1>0, <3>3, <3>4
    <3> HIDE DEF b
    <3>6. b \notin S
      <4> HIDE DEF S
      <4> QED
        BY <3>2, <3>5
    <3>7. c[b] \in Seq(X) /\ f[s[k]] \in Seq(X)
      BY <1>0, <3>5, <3>6
    <3>8. c[k] = c[b] \o f[s[k]]
      BY <1>9, <3>5
    <3> QED
      BY <3>3, <3>7, <3>8, ConcatProperties
  <2>2. c = [k \in D |-> c[k]]
    BY <1>7 DEF IsMade, n
  <2> HIDE DEF D, V
  <2> QED
    BY <2>1, <2>2
<1> QED
  BY <1>8, <1>9, <1>10 DEF Makes, n

(* What is made of a list over A by a function into lists over X.          *)
LEMMA FilterMapType ==
  ASSUME NEW A, NEW X, NEW s \in Seq(A), NEW f, \A a \in A : f[a] \in Seq(X)
  PROVE  FilterMap(s, f) \in Seq(X)
<1>1. PICK u \in [0 .. Len(s) -> Seq(X)] : Makes(u, s, f)
  BY FilterMapUnfolds
<1>2. Len(s) \in 0 .. Len(s)
  BY LenProperties
<1> QED
  BY <1>1, <1>2 DEF Makes

(* Lists that are taken alike give the same.                                *)
GiveAlike(s, f, t, g) ==
  Len(s) = Len(t) /\ \A k \in 1 .. Len(s) : f[s[k]] = g[t[k]]

(* What is made of lists that are taken alike is the same.                 *)
LEMMA FilterMapSame ==
  ASSUME NEW A, NEW B, NEW X, NEW s \in Seq(A), NEW t \in Seq(B), NEW f, NEW g,
         Takes(f, A, X), Takes(g, B, X), GiveAlike(s, f, t, g)
  PROVE  FilterMap(s, f) = FilterMap(t, g)
<1>a. /\ \A a \in A : f[a] \in Seq(X)
      /\ \A b \in B : g[b] \in Seq(X)
      /\ Len(s) = Len(t)
      /\ \A k \in 1 .. Len(s) : f[s[k]] = g[t[k]]
  BY DEF Takes, GiveAlike
<1> DEFINE n == Len(s)
<1>1. PICK u \in [0 .. n -> Seq(X)] : Makes(u, s, f)
  BY <1>a, FilterMapUnfolds
<1>2. PICK v \in [0 .. n -> Seq(X)] : Makes(v, t, g)
  BY <1>a, FilterMapUnfolds
<1>3. n \in Nat
  BY LenProperties
<1> DEFINE S == {k \in 0 .. n : u[k] # v[k]}
<1>4. ASSUME S # {} PROVE FALSE
  <2>1. PICK k \in S : \A j \in S : k <= j
    <3>1. S \in SUBSET Nat
      OBVIOUS
    <3> HIDE DEF S
    <3> QED
      BY <1>4, <3>1, LeastNatural
  <2>2. k \in 0 .. n /\ u[k] # v[k]
    OBVIOUS
  <2>3. k # 0
    BY <1>a, <1>1, <1>2, <2>2 DEF Makes
  <2> DEFINE b == k - 1
  <2>4. b \in 0 .. n /\ b \in 0 .. (n - 1) /\ b + 1 = k /\ ~(k <= b) /\ k \in 1 .. n
    BY <1>3, <2>2, <2>3
  <2> HIDE DEF b
  <2>5. u[b] = v[b]
    <3>1. b \notin S
      <4> HIDE DEF S
      <4> QED
        BY <2>1, <2>4
    <3> QED
      BY <2>4, <3>1
  <2>6. u[k] = u[b] \o f[s[k]] /\ v[k] = v[b] \o g[t[k]]
    BY <1>a, <1>1, <1>2, <2>4 DEF Makes
  <2> QED
    BY <1>a, <2>2, <2>4, <2>5, <2>6
<1>5. n \in 0 .. n
  BY <1>3
<1>6. u[n] = v[n]
  <2>1. n \notin S
    <3> HIDE DEF S, n
    <3> QED
      BY <1>4
  <2> HIDE DEF n
  <2> QED
    BY <1>5, <2>1
<1> QED
  BY <1>a, <1>1, <1>2, <1>6 DEF Makes

(* Of no elements nothing is made, ...                                     *)
LEMMA FilterMapNone ==
  ASSUME NEW A, NEW X, NEW f, \A a \in A : f[a] \in Seq(X)
  PROVE  FilterMap(<<>>, f) = <<>>
<1> DEFINE e == <<>>
<1>1. e \in Seq(A) /\ Len(e) = 0
  BY EmptySeq
<1>2. e = <<>>
  OBVIOUS
<1> HIDE DEF e
<1>3. \E u \in [0 .. Len(e) -> Seq(X)] : Makes(u, e, f)
  BY <1>1, FilterMapUnfolds, Zenon
<1> QED
  BY <1>1, <1>2, <1>3 DEF Makes

(* ... of one what the function has for it, ...                            *)
LEMMA FilterMapOne ==
  ASSUME NEW A, NEW X, NEW a \in A, NEW f, \A x \in A : f[x] \in Seq(X)
  PROVE  FilterMap(<<a>>, f) = f[a]
<1> DEFINE s == <<a>>
<1>1. s \in Seq(A) /\ Len(s) = 1 /\ s[1] = a
  OBVIOUS
<1> HIDE DEF s
<1>2. PICK u : Makes(u, s, f)
  BY <1>1, FilterMapUnfolds, Zenon
<1>3. FilterMap(s, f) = u[1] /\ u[0] = <<>> /\ u[1] = u[0] \o f[a]
  <2>1. FilterMap(s, f) = u[1] /\ u[0] = <<>>
    BY <1>1, <1>2 DEF Makes
  <2>2. \A k \in 0 .. (Len(s) - 1) : u[k + 1] = u[k] \o f[s[k + 1]]
    BY <1>2 DEF Makes
  <2>3. 0 \in 0 .. (Len(s) - 1) /\ 0 + 1 = 1
    BY <1>1
  <2>4. u[0 + 1] = u[0] \o f[s[0 + 1]]
    BY <2>2, <2>3
  <2> QED
    BY <1>1, <2>1, <2>4
<1>4. f[a] \in Seq(X)
  OBVIOUS
<1> QED
  BY <1>3, <1>4, ConcatEmptySeq DEF s

(* Joining lists is associative, in the form the proofs below cite it.     *)
LEMMA JoinsAssociate ==
  ASSUME NEW X
  PROVE  \A x, y, z \in Seq(X) : (x \o y) \o z = x \o (y \o z)
<1> SUFFICES ASSUME NEW x \in Seq(X), NEW y \in Seq(X), NEW z \in Seq(X)
             PROVE  (x \o y) \o z = x \o (y \o z)
  OBVIOUS
<1> QED
  BY ConcatAssociative

(* ... and of two lists joined what is made of each.                       *)
LEMMA FilterMapJoin ==
  ASSUME NEW A, NEW X, NEW f, Takes(f, A, X)
  PROVE  \A s, t \in Seq(A) : FilterMap(s \o t, f) = FilterMap(s, f) \o FilterMap(t, f)
<1> SUFFICES ASSUME NEW s \in Seq(A), NEW t \in Seq(A)
             PROVE  FilterMap(s \o t, f) = FilterMap(s, f) \o FilterMap(t, f)
  OBVIOUS
<1>a. \A a \in A : f[a] \in Seq(X)
  BY DEF Takes
<1>00. \A x, y, z \in Seq(X) : (x \o y) \o z = x \o (y \o z)
  BY JoinsAssociate
<1> DEFINE m == Len(s)
           n == Len(t)
           all == s \o t
<1>0. /\ m \in Nat /\ n \in Nat /\ all \in Seq(A) /\ Len(all) = m + n
      /\ \A k \in 1 .. m : all[k] = s[k]
      /\ \A k \in 1 .. n : all[m + k] = t[k]
  <2>1. /\ m \in Nat /\ n \in Nat /\ all \in Seq(A) /\ Len(all) = m + n
        /\ \A i \in 1 .. (m + n) : all[i] = IF i <= m THEN s[i] ELSE t[i - m]
    BY ConcatProperties, LenProperties
  <2> HIDE DEF m, n, all
  <2>2. \A k \in 1 .. m : k \in 1 .. (m + n) /\ k <= m
    BY <2>1
  <2>3. \A k \in 1 .. n : m + k \in 1 .. (m + n) /\ ~(m + k <= m) /\ (m + k) - m = k
    BY <2>1
  <2> QED
    BY <2>1, <2>2, <2>3
<1>1. PICK u \in [0 .. m -> Seq(X)] : Makes(u, s, f)
  BY <1>a, FilterMapUnfolds
<1>2. PICK v \in [0 .. n -> Seq(X)] : Makes(v, t, f)
  BY <1>a, FilterMapUnfolds
<1>3. PICK w \in [0 .. (m + n) -> Seq(X)] : Makes(w, all, f)
  <2>1. \E w \in [0 .. Len(all) -> Seq(X)] : Makes(w, all, f)
    <3> HIDE DEF all, m, n
    <3> QED
      BY <1>0, <1>a, FilterMapUnfolds
  <2> QED
    BY <1>0, <2>1
<1>4. /\ FilterMap(s, f) = u[m] /\ u[0] = <<>>
      /\ \A k \in 0 .. (m - 1) : u[k + 1] = u[k] \o f[s[k + 1]]
  BY <1>1 DEF Makes
<1>5. /\ FilterMap(t, f) = v[n] /\ v[0] = <<>>
      /\ \A k \in 0 .. (n - 1) : v[k + 1] = v[k] \o f[t[k + 1]]
  BY <1>2 DEF Makes
<1>6. /\ FilterMap(all, f) = w[m + n] /\ w[0] = <<>>
      /\ \A k \in 0 .. (m + n - 1) : w[k + 1] = w[k] \o f[all[k + 1]]
  <2>1. /\ FilterMap(all, f) = w[Len(all)] /\ w[0] = <<>>
        /\ \A k \in 0 .. (Len(all) - 1) : w[k + 1] = w[k] \o f[all[k + 1]]
    BY <1>3 DEF Makes
  <2>2. 0 .. (Len(all) - 1) = 0 .. (m + n - 1)
    BY <1>0
  <2> HIDE DEF all, m, n
  <2> QED
    BY <1>0, <2>1, <2>2, Zenon
<1> HIDE DEF all, m, n
<1> DEFINE S == {k \in 0 .. m : w[k] # u[k]}
           T == {k \in 0 .. n : w[m + k] # u[m] \o v[k]}
<1>7. ASSUME S # {} PROVE FALSE
  <2>1. PICK k \in S : \A j \in S : k <= j
    <3>1. S \in SUBSET Nat
      BY <1>0
    <3> HIDE DEF S
    <3> QED
      BY <1>7, <3>1, LeastNatural
  <2>2. k \in 0 .. m /\ w[k] # u[k]
    OBVIOUS
  <2>3. k # 0
    BY <1>4, <1>6, <2>2
  <2> DEFINE b == k - 1
  <2>4. /\ b \in 0 .. m /\ b \in 0 .. (m - 1) /\ b \in 0 .. (m + n - 1)
        /\ b + 1 = k /\ ~(k <= b) /\ k \in 1 .. m
    BY <1>0, <2>2, <2>3
  <2> HIDE DEF b
  <2>5. w[b] = u[b]
    <3>1. b \notin S
      <4> HIDE DEF S
      <4> QED
        BY <2>1, <2>4
    <3> QED
      BY <2>4, <3>1
  <2>6. w[k] = w[b] \o f[all[k]] /\ u[k] = u[b] \o f[s[k]] /\ all[k] = s[k]
    BY <1>0, <1>4, <1>6, <2>4
  <2> QED
    BY <2>2, <2>5, <2>6
<1>8. w[m] = u[m]
  <2>1. m \in 0 .. m
    BY <1>0
  <2>2. m \notin S
    <3> HIDE DEF S
    <3> QED
      BY <1>7
  <2> QED
    BY <2>1, <2>2
<1> HIDE DEF S
<1>9. u[m] \in Seq(X) /\ \A k \in 0 .. n : v[k] \in Seq(X)
  <2>1. m \in 0 .. m
    BY <1>0
  <2> QED
    BY <2>1
<1>10. ASSUME T # {} PROVE FALSE
  <2>1. PICK k \in T : \A j \in T : k <= j
    <3>1. T \in SUBSET Nat
      BY <1>0
    <3> HIDE DEF T
    <3> QED
      BY <1>10, <3>1, LeastNatural
  <2>2. k \in 0 .. n /\ w[m + k] # u[m] \o v[k]
    OBVIOUS
  <2>3. k # 0
    <3>1. u[m] \o v[0] = u[m] /\ m + 0 = m
      BY <1>0, <1>5, <1>9, ConcatEmptySeq
    <3> QED
      BY <1>8, <2>2, <3>1
  <2> DEFINE b == k - 1
  <2>4. /\ b \in 0 .. n /\ b \in 0 .. (n - 1) /\ m + b \in 0 .. (m + n - 1)
        /\ b + 1 = k /\ ~(k <= b) /\ k \in 1 .. n /\ (m + b) + 1 = m + k
    <3>1. m \in Nat /\ n \in Nat /\ k \in 0 .. n /\ k # 0
      BY <1>0, <2>2, <2>3
    <3> HIDE DEF T
    <3> QED
      BY <3>1
  <2> HIDE DEF b
  <2>5. w[m + b] = u[m] \o v[b]
    <3>1. b \notin T
      <4> HIDE DEF T
      <4> QED
        BY <2>1, <2>4
    <3> QED
      BY <2>4, <3>1
  <2>6. w[m + k] = w[m + b] \o f[t[k]] /\ v[k] = v[b] \o f[t[k]]
    <3>1. w[(m + b) + 1] = w[m + b] \o f[all[(m + b) + 1]]
      BY <1>6, <2>4
    <3> QED
      BY <1>0, <1>5, <2>4, <3>1
  <2>7. (u[m] \o v[b]) \o f[t[k]] = u[m] \o (v[b] \o f[t[k]])
    <3>1. u[m] \in Seq(X) /\ v[b] \in Seq(X) /\ f[t[k]] \in Seq(X)
      <4>1. t[k] \in A
        BY <2>4, ElementOfSeq DEF n
      <4> QED
        BY <1>9, <1>a, <2>4, <4>1
    <3> QED
      BY <1>00, <3>1, Zenon
  <2> QED
    BY <2>2, <2>5, <2>6, <2>7
<1>11. w[m + n] = u[m] \o v[n]
  <2>1. n \in 0 .. n
    BY <1>0
  <2>2. n \notin T
    <3> HIDE DEF T
    <3> QED
      BY <1>10
  <2> QED
    BY <2>1, <2>2
<1> QED
  BY <1>4, <1>5, <1>6, <1>11 DEF all

(* What is made of a list, and something again of that.                     *)
Composes(h, f, g, A) == \A a \in A : h[a] = FilterMap(f[a], g)

(* To make one list and another of that is to make it at once.             *)
LEMMA FilterMapTwice ==
  ASSUME NEW A, NEW B, NEW X, NEW s \in Seq(A), NEW f, NEW g, NEW h,
         Takes(f, A, B), Takes(g, B, X), Composes(h, f, g, A)
  PROVE  FilterMap(FilterMap(s, f), g) = FilterMap(s, h) /\ Takes(h, A, X)
<1>00. \A x, y \in Seq(B) : FilterMap(x \o y, g) = FilterMap(x, g) \o FilterMap(y, g)
  BY FilterMapJoin
<1>a. \A a \in A : f[a] \in Seq(B)
  BY DEF Takes
<1>b. \A b \in B : g[b] \in Seq(X)
  BY DEF Takes
<1> DEFINE n == Len(s)
<1>0. /\ n \in Nat /\ \A k \in 1 .. n : s[k] \in A
      /\ \A a \in A : h[a] = FilterMap(f[a], g) /\ h[a] \in Seq(X)
  <2>1. n \in Nat /\ \A k \in 1 .. n : s[k] \in A
    BY LenProperties, ElementOfSeq
  <2>2. \A a \in A : FilterMap(f[a], g) \in Seq(X)
    <3> SUFFICES ASSUME NEW a \in A PROVE FilterMap(f[a], g) \in Seq(X)
      OBVIOUS
    <3> DEFINE w == f[a]
    <3>1. w \in Seq(B)
      BY <1>a
    <3> HIDE DEF w
    <3>2. FilterMap(w, g) \in Seq(X)
      BY <1>b, <3>1, FilterMapType
    <3> QED
      BY <3>2 DEF w
  <2> QED
    BY <2>1, <2>2 DEF Composes
<1>1. PICK u \in [0 .. n -> Seq(B)] : Makes(u, s, f)
  BY <1>a, FilterMapUnfolds
<1>2. PICK v \in [0 .. n -> Seq(X)] : Makes(v, s, h)
  BY <1>0, FilterMapUnfolds
<1>3. /\ FilterMap(s, f) = u[n] /\ u[0] = <<>>
      /\ \A k \in 0 .. (n - 1) : u[k + 1] = u[k] \o f[s[k + 1]]
  BY <1>1 DEF Makes
<1>4. /\ FilterMap(s, h) = v[n] /\ v[0] = <<>>
      /\ \A k \in 0 .. (n - 1) : v[k + 1] = v[k] \o h[s[k + 1]]
  BY <1>2 DEF Makes
<1> HIDE DEF n
<1> DEFINE S == {k \in 0 .. n : FilterMap(u[k], g) # v[k]}
<1>5. ASSUME S # {} PROVE FALSE
  <2>1. PICK k \in S : \A j \in S : k <= j
    <3>1. S \in SUBSET Nat
      BY <1>0
    <3> HIDE DEF S
    <3> QED
      BY <1>5, <3>1, LeastNatural
  <2>2. k \in 0 .. n /\ FilterMap(u[k], g) # v[k]
    OBVIOUS
  <2>3. k # 0
    BY <1>b, <1>3, <1>4, <2>2, FilterMapNone
  <2> DEFINE b == k - 1
  <2>4. b \in 0 .. n /\ b \in 0 .. (n - 1) /\ b + 1 = k /\ ~(k <= b) /\ k \in 1 .. n
    BY <1>0, <2>2, <2>3
  <2> HIDE DEF b
  <2>5. FilterMap(u[b], g) = v[b]
    <3>1. b \notin S
      <4> HIDE DEF S
      <4> QED
        BY <2>1, <2>4
    <3> QED
      BY <2>4, <3>1
  <2>6. u[k] = u[b] \o f[s[k]] /\ v[k] = v[b] \o h[s[k]]
    BY <1>3, <1>4, <2>4
  <2>7. FilterMap(u[b] \o f[s[k]], g) = FilterMap(u[b], g) \o FilterMap(f[s[k]], g)
    <3>1. u[b] \in Seq(B) /\ f[s[k]] \in Seq(B)
      BY <1>0, <1>a, <2>4
    <3> QED
      BY <1>00, <3>1, Zenon
  <2>8. h[s[k]] = FilterMap(f[s[k]], g)
    BY <1>0, <2>4
  <2> QED
    BY <2>2, <2>5, <2>6, <2>7, <2>8
<1>6. FilterMap(u[n], g) = v[n]
  <2>1. n \in 0 .. n
    BY <1>0
  <2>2. n \notin S
    <3> HIDE DEF S
    <3> QED
      BY <1>5
  <2> QED
    BY <2>1, <2>2
<1> QED
  BY <1>0, <1>3, <1>4, <1>6 DEF Takes

(* What is made of lists joined is what is made of each, joined.           *)
LEMMA FilterMapFlatten ==
  ASSUME NEW A, NEW X, NEW n \in Nat, NEW seqs \in [1 .. n -> Seq(A)], NEW f,
         Takes(f, A, X)
  PROVE  FilterMap(Sq!FlattenSeq(seqs), f)
           = Sq!FlattenSeq([i \in 1 .. n |-> FilterMap(seqs[i], f)])
<1>00. \A x, y \in Seq(A) : FilterMap(x \o y, f) = FilterMap(x, f) \o FilterMap(y, f)
  BY FilterMapJoin
<1>a. \A a \in A : f[a] \in Seq(X)
  BY DEF Takes
<1> DEFINE parts == [i \in 1 .. n |-> FilterMap(seqs[i], f)]
<1>0. /\ parts \in [1 .. n -> Seq(X)]
      /\ \A i \in 1 .. n : parts[i] = FilterMap(seqs[i], f)
  <2>1. \A i \in 1 .. n : FilterMap(seqs[i], f) \in Seq(X)
    <3> SUFFICES ASSUME NEW i \in 1 .. n PROVE FilterMap(seqs[i], f) \in Seq(X)
      OBVIOUS
    <3> DEFINE s == seqs[i]
    <3>1. s \in Seq(A)
      OBVIOUS
    <3> HIDE DEF s
    <3>2. FilterMap(s, f) \in Seq(X)
      BY <1>a, <3>1, FilterMapType
    <3> QED
      BY <3>2 DEF s
  <2> QED
    BY <2>1
<1>1. CASE n = 0
  <2>1. /\ Len(seqs) = 0 /\ seqs = <<>> /\ Len(parts) = 0 /\ parts = <<>>
    <3>1. seqs \in Seq(Seq(A)) /\ parts \in Seq(Seq(X))
      BY <1>0, SeqDef
    <3> HIDE DEF parts
    <3> QED
      BY <1>0, <1>1, <3>1, LenProperties
  <2>2. Sq!FlattenSeq(seqs) = <<>> /\ Sq!FlattenSeq(parts) = <<>>
    BY <2>1 DEF Sq!FlattenSeq
  <2>3. FilterMap(<<>>, f) = <<>>
    BY <1>a, FilterMapNone, Zenon
  <2> HIDE DEF parts
  <2>4. FilterMap(Sq!FlattenSeq(seqs), f) = Sq!FlattenSeq(parts)
    BY <2>2, <2>3
  <2> QED
    BY <2>4 DEF parts
<1>2. CASE n # 0
  <2> HIDE DEF parts
  <2>0. /\ \E u \in [1 .. n -> Seq(A)] : Grows(u, seqs, n)
        /\ \E v \in [1 .. n -> Seq(X)] : Grows(v, parts, n)
    BY <1>0, <1>2, FlatUnfolds, Zenon
  <2>1. PICK u \in [1 .. n -> Seq(A)] : Grows(u, seqs, n)
    BY <2>0
  <2>2. PICK v \in [1 .. n -> Seq(X)] : Grows(v, parts, n)
    BY <2>0
  <2>3. /\ Sq!FlattenSeq(seqs) = u[n] /\ Sq!FlattenSeq(parts) = v[n]
        /\ u[1] = seqs[1] /\ v[1] = parts[1]
        /\ \A i \in 1 .. (n - 1) : u[i + 1] = u[i] \o seqs[i + 1]
        /\ \A i \in 1 .. (n - 1) : v[i + 1] = v[i] \o parts[i + 1]
    BY <2>1, <2>2 DEF Grows
  <2> DEFINE S == {k \in 1 .. n : FilterMap(u[k], f) # v[k]}
  <2>4. ASSUME S # {} PROVE FALSE
    <3>1. PICK k \in S : \A j \in S : k <= j
      <4>1. S \in SUBSET Nat
        OBVIOUS
      <4> HIDE DEF S
      <4> QED
        BY <2>4, <4>1, LeastNatural
    <3>2. k \in 1 .. n /\ FilterMap(u[k], f) # v[k]
      OBVIOUS
    <3>3. k # 1
      BY <1>0, <2>3, <3>2
    <3> DEFINE b == k - 1
    <3>4. b \in 1 .. n /\ b \in 1 .. (n - 1) /\ b + 1 = k /\ ~(k <= b)
      BY <3>2, <3>3
    <3> HIDE DEF b
    <3>5. FilterMap(u[b], f) = v[b]
      <4>1. b \notin S
        <5> HIDE DEF S
        <5> QED
          BY <3>1, <3>4
      <4> QED
        BY <3>4, <4>1
    <3>6. u[k] = u[b] \o seqs[k] /\ v[k] = v[b] \o parts[k]
      BY <2>3, <3>4
    <3>7. FilterMap(u[b] \o seqs[k], f) = FilterMap(u[b], f) \o FilterMap(seqs[k], f)
      <4>1. u[b] \in Seq(A) /\ seqs[k] \in Seq(A)
        BY <3>2, <3>4
      <4> QED
        BY <1>00, <4>1, Zenon
    <3> QED
      BY <1>0, <3>2, <3>5, <3>6, <3>7
  <2>5. FilterMap(u[n], f) = v[n]
    <3>1. n \in 1 .. n
      BY <1>2
    <3>2. n \notin S
      <4> HIDE DEF S
      <4> QED
        BY <2>4
    <3> QED
      BY <3>1, <3>2
  <2> QED
    BY <2>3, <2>5 DEF parts
<1> QED
  BY <1>1, <1>2

(* One more element.                                                       *)
LEMMA OneMore ==
  ASSUME NEW X, NEW s \in Seq(X), NEW x \in X
  PROVE  /\ s \o <<x>> \in Seq(X) /\ Len(s \o <<x>>) = Len(s) + 1
         /\ (s \o <<x>>)[Len(s) + 1] = x
         /\ \A i \in 1 .. Len(s) : (s \o <<x>>)[i] = s[i]
<1> DEFINE t == <<x>>
           all == s \o t
<1>1. t \in Seq(X) /\ Len(t) = 1 /\ t[1] = x /\ Len(s) \in Nat
  BY LenProperties
<1> HIDE DEF t
<1>2. /\ all \in Seq(X) /\ Len(all) = Len(s) + 1
      /\ \A i \in 1 .. (Len(s) + 1) : all[i] = IF i <= Len(s) THEN s[i] ELSE t[i - Len(s)]
  <2>1. /\ all \in Seq(X) /\ Len(all) = Len(s) + Len(t)
        /\ \A i \in 1 .. (Len(s) + Len(t)) :
             all[i] = IF i <= Len(s) THEN s[i] ELSE t[i - Len(s)]
    BY <1>1, ConcatProperties, Zenon
  <2> QED
    BY <1>1, <2>1
<1> HIDE DEF all
<1>3. /\ Len(s) + 1 \in 1 .. (Len(s) + 1) /\ ~(Len(s) + 1 <= Len(s))
      /\ (Len(s) + 1) - Len(s) = 1
      /\ \A i \in 1 .. Len(s) : i \in 1 .. (Len(s) + 1) /\ i <= Len(s)
  BY <1>1
<1>4. all[Len(s) + 1] = x /\ \A i \in 1 .. Len(s) : all[i] = s[i]
  BY <1>1, <1>2, <1>3
<1> QED
  BY <1>2, <1>4 DEF all, t

(* Where every element gives one thing, its place is kept.                 *)
LEMMA FilterMapOnes ==
  ASSUME NEW A, NEW X, NEW s \in Seq(A), NEW f, NEW g,
         \A a \in A : g[a] \in X /\ f[a] = <<g[a]>>
  PROVE  /\ FilterMap(s, f) \in Seq(X) /\ Len(FilterMap(s, f)) = Len(s)
         /\ \A k \in 1 .. Len(s) : FilterMap(s, f)[k] = g[s[k]]
<1> DEFINE n == Len(s)
           Fits(w, k) == Len(w) = k /\ \A j \in 1 .. k : w[j] = g[s[j]]
<1>0. n \in Nat /\ \A k \in 1 .. n : s[k] \in A
  BY LenProperties, ElementOfSeq
<1>1. \A a \in A : f[a] \in Seq(X)
  <2> SUFFICES ASSUME NEW a \in A PROVE f[a] \in Seq(X)
    OBVIOUS
  <2> DEFINE x == g[a]
  <2>1. x \in X /\ f[a] = <<x>>
    OBVIOUS
  <2> HIDE DEF x
  <2>2. <<x>> \in Seq(X)
    BY <2>1
  <2> QED
    BY <2>1, <2>2
<1>2. PICK u \in [0 .. n -> Seq(X)] : Makes(u, s, f)
  BY <1>1, FilterMapUnfolds
<1>3. /\ FilterMap(s, f) = u[n] /\ u[0] = <<>>
      /\ \A k \in 0 .. (n - 1) : u[k + 1] = u[k] \o f[s[k + 1]]
  BY <1>2 DEF Makes
<1> HIDE DEF n
<1> DEFINE S == {k \in 0 .. n : ~Fits(u[k], k)}
<1>4. ASSUME S # {} PROVE FALSE
  <2>1. PICK k \in S : \A j \in S : k <= j
    <3>1. S \in SUBSET Nat
      BY <1>0
    <3> HIDE DEF S
    <3> QED
      BY <1>4, <3>1, LeastNatural
  <2>2. k \in 0 .. n /\ ~Fits(u[k], k)
    OBVIOUS
  <2>3. k # 0
    BY <1>3, <2>2, EmptySeq
  <2> DEFINE b == k - 1
  <2>4. /\ b \in 0 .. n /\ b \in 0 .. (n - 1) /\ b + 1 = k /\ ~(k <= b)
        /\ k \in 1 .. n /\ \A j \in 1 .. k : j = k \/ j \in 1 .. b
    BY <1>0, <2>2, <2>3
  <2> HIDE DEF b
  <2>5. Fits(u[b], b)
    <3>1. b \notin S
      <4> HIDE DEF S
      <4> QED
        BY <2>1, <2>4
    <3> QED
      BY <2>4, <3>1
  <2> HIDE DEF S
  <2>6. u[k] = u[b] \o <<g[s[k]]>> /\ u[b] \in Seq(X) /\ g[s[k]] \in X
    BY <1>0, <1>3, <2>4
  <2> DEFINE w == u[b]
             x == g[s[k]]
  <2>7. /\ Len(w \o <<x>>) = Len(w) + 1 /\ (w \o <<x>>)[Len(w) + 1] = x
        /\ \A i \in 1 .. Len(w) : (w \o <<x>>)[i] = w[i]
    <3> HIDE DEF w, x
    <3>1. w \in Seq(X) /\ x \in X
      BY <2>6 DEF w, x
    <3> QED
      BY <3>1, OneMore
  <2>8. Fits(u[k], k)
    BY <2>4, <2>5, <2>6, <2>7
  <2> QED
    BY <2>2, <2>8
<1>5. Fits(u[n], n)
  <2>1. n \in 0 .. n
    BY <1>0
  <2>2. n \notin S
    <3> HIDE DEF S
    <3> QED
      BY <1>4
  <2> QED
    BY <2>1, <2>2
<1>6. u[n] \in Seq(X)
  <2>1. n \in 0 .. n
    BY <1>0
  <2> QED
    BY <2>1
<1> QED
  BY <1>3, <1>5, <1>6 DEF n

(* Of each element f makes nothing, or one thing.                          *)
OneOrNone(f, S, X) == \A a \in S : f[a] = <<>> \/ \E x \in X : f[a] = <<x>>

GivenBy(f, S) == {a \in S : f[a] # <<>>}

WhatIsGiven(f, S) == UNION {Sq!ToSet(f[a]) : a \in S}

(* What is made of a list of distinct things does not depend on their order, *)
(* but for its own.                                                        *)
LEMMA FilterMapOfList ==
  ASSUME NEW X, NEW s, NEW S, NEW f, Lists(s, S), OneOrNone(f, S, X)
  PROVE  /\ FilterMap(s, f) \in Seq(X)
         /\ Sq!ToSet(FilterMap(s, f)) = WhatIsGiven(f, S)
         /\ Len(FilterMap(s, f)) = Cardinality(GivenBy(f, S))
<1> DEFINE n == Len(s)
           Upto(k) == {s[j] : j \in 1 .. k}
           Fits(w, k) == /\ Sq!ToSet(w) = UNION {Sq!ToSet(f[a]) : a \in Upto(k)}
                         /\ Len(w) = Cardinality(GivenBy(f, Upto(k)))
                         /\ IsFiniteSet(GivenBy(f, Upto(k)))
<1>0. /\ n \in Nat /\ DOMAIN s = 1 .. n /\ \A k \in 1 .. n : s[k] \in S
      /\ s \in Seq(S) /\ Upto(n) = S
      /\ \A j, k \in 1 .. n : s[j] = s[k] => j = k
  <2>1. n \in Nat /\ DOMAIN s = 1 .. n
    BY LenProperties DEF Lists
  <2>2. \A k \in 1 .. n : s[k] \in S
    BY <2>1 DEF Lists, Sq!ToSet
  <2>3. s = [k \in 1 .. n |-> s[k]]
    BY <2>1, SeqDef DEF Lists
  <2>4. s \in Seq(S)
    <3> HIDE DEF n
    <3>1. s \in [1 .. n -> S]
      BY <2>2, <2>3
    <3> QED
      BY <2>1, <3>1, SeqDef
  <2>5. Upto(n) = S
    BY <2>1 DEF Lists, Sq!ToSet
  <2>6. \A j, k \in 1 .. n : s[j] = s[k] => j = k
    BY <2>1 DEF Lists, Sq!IsInjective
  <2> QED
    BY <2>1, <2>2, <2>4, <2>5, <2>6
<1>1. \A a \in S : f[a] \in Seq(X)
  <2> SUFFICES ASSUME NEW a \in S PROVE f[a] \in Seq(X)
    OBVIOUS
  <2>1. CASE f[a] = <<>>
    BY <2>1, EmptySeq
  <2>2. CASE \E x \in X : f[a] = <<x>>
    <3>1. PICK x \in X : f[a] = <<x>>
      BY <2>2
    <3>2. <<x>> \in Seq(X)
      OBVIOUS
    <3> QED
      BY <3>1, <3>2
  <2> QED
    BY <2>1, <2>2 DEF OneOrNone
<1>2. PICK u \in [0 .. n -> Seq(X)] : Makes(u, s, f)
  BY <1>0, <1>1, FilterMapUnfolds
<1>3. /\ FilterMap(s, f) = u[n] /\ u[0] = <<>>
      /\ \A k \in 0 .. (n - 1) : u[k + 1] = u[k] \o f[s[k + 1]]
  BY <1>2 DEF Makes
<1> HIDE DEF n
<1> DEFINE T == {k \in 0 .. n : ~Fits(u[k], k)}
<1>4. ASSUME T # {} PROVE FALSE
  <2>1. PICK k \in T : \A j \in T : k <= j
    <3>1. T \in SUBSET Nat
      BY <1>0
    <3> HIDE DEF T
    <3> QED
      BY <1>4, <3>1, LeastNatural
  <2>2. k \in 0 .. n /\ ~Fits(u[k], k)
    OBVIOUS
  <2>3. k # 0
    <3>1. Upto(0) = {}
      OBVIOUS
    <3>2. GivenBy(f, {}) = {}
      BY DEF GivenBy
    <3>3. Sq!ToSet(<<>>) = {} /\ Len(<<>>) = 0
      BY EmptySeq DEF Sq!ToSet
    <3>4. Fits(<<>>, 0)
      BY <3>1, <3>2, <3>3, FS_EmptySet
    <3> QED
      BY <1>3, <2>2, <3>4
  <2> DEFINE b == k - 1
  <2>4. /\ b \in 0 .. n /\ b \in 0 .. (n - 1) /\ b + 1 = k /\ ~(k <= b)
        /\ k \in 1 .. n /\ 1 .. k = (1 .. b) \union {k} /\ k \notin 1 .. b
        /\ 1 .. b \subseteq 1 .. n
    BY <1>0, <2>2, <2>3
  <2> HIDE DEF b
  <2>5. Fits(u[b], b)
    <3>1. b \notin T
      <4> HIDE DEF T
      <4> QED
        BY <2>1, <2>4
    <3> QED
      BY <2>4, <3>1
  <2> HIDE DEF T
  <2> DEFINE a == s[k]
             w == u[b]
             old == Upto(b)
  <2>6. /\ u[k] = w \o f[a] /\ w \in Seq(X) /\ a \in S
        /\ Upto(k) = old \union {a} /\ a \notin old
    <3>1. u[b + 1] = u[b] \o f[s[b + 1]]
      BY <1>3, <2>4
    <3>2. u[k] = w \o f[a] /\ w \in Seq(X) /\ a \in S
      BY <1>0, <2>4, <3>1
    <3>3. Upto(k) = old \union {a}
      BY <2>4
    <3>4. a \notin old
      BY <1>0, <2>4
    <3> QED
      BY <3>2, <3>3, <3>4
  <2>7. /\ Sq!ToSet(w) = UNION {Sq!ToSet(f[x]) : x \in old}
        /\ Len(w) = Cardinality(GivenBy(f, old)) /\ IsFiniteSet(GivenBy(f, old))
    BY <2>5
  <2> HIDE DEF a, w, old, Upto
  <2>8. UNION {Sq!ToSet(f[x]) : x \in old \union {a}} = Sq!ToSet(w) \union Sq!ToSet(f[a])
    BY <2>7
  <2>9. CASE f[a] = <<>>
    <3>1. u[k] = w
      BY <2>6, <2>9, ConcatEmptySeq
    <3>2. GivenBy(f, old \union {a}) = GivenBy(f, old)
      BY <2>9 DEF GivenBy
    <3>3. Sq!ToSet(f[a]) = {}
      BY <2>9, EmptySeq DEF Sq!ToSet
    <3>4. Fits(u[k], k)
      BY <2>6, <2>7, <2>8, <3>1, <3>2, <3>3
    <3> QED
      BY <2>2, <3>4
  <2>10. CASE \E x \in X : f[a] = <<x>>
    <3>1. PICK x \in X : f[a] = <<x>>
      BY <2>10
    <3>2. /\ u[k] \in Seq(X) /\ Len(u[k]) = Len(w) + 1 /\ u[k][Len(w) + 1] = x
          /\ \A i \in 1 .. Len(w) : u[k][i] = w[i]
      BY <2>6, <3>1, OneMore
    <3>3. /\ Len(w) \in Nat /\ DOMAIN w = 1 .. Len(w)
          /\ DOMAIN u[k] = (1 .. Len(w)) \union {Len(w) + 1}
      <4>1. /\ Len(w) \in Nat /\ DOMAIN w = 1 .. Len(w)
            /\ DOMAIN u[k] = 1 .. (Len(w) + 1)
        BY <2>6, <3>2, LenProperties
      <4>2. 1 .. (Len(w) + 1) = (1 .. Len(w)) \union {Len(w) + 1}
        BY <4>1
      <4> QED
        BY <4>1, <4>2
    <3>4. Sq!ToSet(u[k]) = Sq!ToSet(w) \union {x}
      BY <3>2, <3>3 DEF Sq!ToSet
    <3>5. Sq!ToSet(f[a]) = {x} /\ f[a] # <<>>
      BY <3>1 DEF Sq!ToSet
    <3>6. GivenBy(f, old \union {a}) = GivenBy(f, old) \union {a} /\ a \notin GivenBy(f, old)
      BY <2>6, <3>5 DEF GivenBy
    <3>7. /\ IsFiniteSet(GivenBy(f, old) \union {a})
          /\ Cardinality(GivenBy(f, old) \union {a}) = Cardinality(GivenBy(f, old)) + 1
      BY <2>7, <3>6, FS_AddElement
    <3>8. Fits(u[k], k)
      BY <2>6, <2>7, <2>8, <3>2, <3>4, <3>5, <3>6, <3>7
    <3> QED
      BY <2>2, <3>8
  <2> QED
    BY <2>6, <2>9, <2>10 DEF OneOrNone
<1>5. Fits(u[n], n)
  <2>1. n \in 0 .. n
    BY <1>0
  <2>2. n \notin T
    <3> HIDE DEF T
    <3> QED
      BY <1>4
  <2> QED
    BY <2>1, <2>2
<1>6. u[n] \in Seq(X)
  <2>1. n \in 0 .. n
    BY <1>0
  <2> QED
    BY <2>1
<1> QED
  BY <1>0, <1>3, <1>5, <1>6 DEF WhatIsGiven

----------------------------------------------------------------------------
(* The nodes of the tree, each before those below it.                      *)

(* F gathers what f has of a node and F of its children, one by one.        *)
Gathers(F, f, n) ==
  F[n] = f[n] \o Sq!FlattenSeq([i \in DOMAIN nodes[n].children |-> F[nodes[n].children[i]]])

Alone == [n \in Live(nodes) |-> <<n>>]

IsOrder(order) ==
  /\ order \in [Live(nodes) -> Seq(Live(nodes))]
  /\ \A n \in Live(nodes) : Gathers(order, Alone, n)

(* There is an order of the tree, each node before those below it.         *)
LEMMA OrderExists ==
  ASSUME IInv
  PROVE  \E order : IsOrder(order)
<1> DEFINE D == Live(nodes)
           V == Seq(D)
           Kid(n, i) == nodes[n].children[i]
           Theirs(n, f) == [i \in DOMAIN nodes[n].children |-> f[Kid(n, i)]]
           Step == [n \in D |-> [f \in [D -> V] |-> Alone[n] \o Sq!FlattenSeq(Theirs(n, f))]]
           rank == [n \in D |-> Above[n]]
<1>1. ASSUME NEW n \in D
      PROVE  /\ \E m \in Nat : DOMAIN nodes[n].children = 1 .. m
             /\ \A i \in DOMAIN nodes[n].children : Kid(n, i) \in D /\ rank[Kid(n, i)] < rank[n]
  <2>1. n \in DOMAIN nodes
    BY DEF Live
  <2>2. \A i \in DOMAIN nodes[n].children : Kid(n, i) \in Kids(nodes, n)
    BY <2>1, ChildLists
  <2> QED
    BY <2>1, <2>2, ChildLists, WalkFacts, RankTypes
<1>2. Step \in [D -> [[D -> V] -> V]]
  <2>1. ASSUME NEW n \in D, NEW f \in [D -> V]
        PROVE  Alone[n] \o Sq!FlattenSeq(Theirs(n, f)) \in V
    <3>1. PICK m \in Nat : DOMAIN nodes[n].children = 1 .. m
      BY <1>1
    <3>2. Theirs(n, f) \in [1 .. m -> Seq(D)]
      BY <1>1, <3>1
    <3> HIDE DEF Theirs
    <3>3. Sq!FlattenSeq(Theirs(n, f)) \in Seq(D)
      BY <3>2, FlattenType
    <3>4. Alone[n] \in Seq(D)
      BY DEF Alone
    <3> HIDE DEF D
    <3> QED
      BY <3>3, <3>4, ConcatProperties
  <2> HIDE DEF D, V, Theirs
  <2> QED
    BY <2>1
<1>3. LooksDown(D, V, rank, Step)
  <2>1. ASSUME NEW x \in D, NEW f \in [D -> V], NEW g \in [D -> V],
               \A y \in D : rank[y] < rank[x] => f[y] = g[y]
        PROVE  Step[x][f] = Step[x][g]
    <3>1. \A i \in DOMAIN nodes[x].children : f[Kid(x, i)] = g[Kid(x, i)]
      BY <1>1, <2>1
    <3>2. Theirs(x, f) = Theirs(x, g)
      BY <3>1
    <3> HIDE DEF D, V, Theirs
    <3> QED
      BY <3>2
  <2> HIDE DEF D, V, Step, rank
  <2> QED
    BY <2>1 DEF LooksDown
<1>4. \E f \in [D -> V] : Solves(f, D, Step)
  <2>1. rank \in [D -> 0 .. MaxRounds]
    BY RankTypes DEF Live
  <2>2. [n \in D |-> <<>>] \in [D -> V]
    BY EmptySeq
  <2> HIDE DEF Step, D, V, rank
  <2> QED
    BY <1>2, <1>3, <2>1, <2>2, MaxRoundsIsNat, Recursion
<1>5. PICK f \in [D -> V] : \A x \in D : f[x] = Step[x][f]
  BY <1>4 DEF Solves
<1>6. \A x \in D : f[x] = Alone[x] \o Sq!FlattenSeq(Theirs(x, f))
  <2> HIDE DEF D, V, Theirs
  <2> QED
    BY <1>5
<1>7. IsOrder(f)
  BY <1>5, <1>6 DEF IsOrder, Gathers
<1> QED
  BY <1>7

(* The nodes at or below n.                                                *)
AtOrUnder(n) == {m \in Live(nodes) : n \in Up(m)}

(* What is under a node: itself and what is under its children, each once. *)
LEMMA AtOrUnderUnfolds ==
  ASSUME IInv, NEW n \in Live(nodes)
  PROVE  /\ AtOrUnder(n) = {n} \union UNION {AtOrUnder(k) : k \in Kids(nodes, n)}
         /\ \A k \in Kids(nodes, n) : n \notin AtOrUnder(k)
         /\ \A j, k \in Kids(nodes, n) : j # k => AtOrUnder(j) \cap AtOrUnder(k) = {}
<1>1. \A k \in Kids(nodes, n) : n \notin AtOrUnder(k)
  BY OneKidOnWay DEF AtOrUnder
<1>2. \A j, k \in Kids(nodes, n) : j # k => AtOrUnder(j) \cap AtOrUnder(k) = {}
  BY OneKidOnWay DEF AtOrUnder
<1>3. n \in AtOrUnder(n)
  BY UpFacts DEF AtOrUnder, WellAbove
<1>4. ASSUME NEW k \in Kids(nodes, n), NEW m \in AtOrUnder(k)
      PROVE  m \in AtOrUnder(n)
  <2>1. m \in Live(nodes) /\ k \in Up(m) /\ WellAbove(m)
    BY UpFacts DEF AtOrUnder
  <2>2. n \in Up(k)
    <3>1. WellAbove(n) /\ Up(k) = {k} \union Up(n)
      BY OneKidOnWay, UpFacts
    <3> QED
      BY <3>1 DEF WellAbove
  <2> QED
    BY <2>1, <2>2 DEF AtOrUnder, WellAbove
<1>5. ASSUME NEW m \in AtOrUnder(n), m # n
      PROVE  \E k \in Kids(nodes, n) : m \in AtOrUnder(k)
  BY <1>5, KidOnWay DEF AtOrUnder, HasKidOnWay
<1> QED
  BY <1>1, <1>2, <1>3, <1>4, <1>5

(* By induction from the bottom: each node at or below n, once.            *)
LEMMA OrderLists ==
  ASSUME IInv, NEW order, IsOrder(order)
  PROVE  \A n \in Live(nodes) : Lists(order[n], AtOrUnder(n))
<1> DEFINE S == {m \in Live(nodes) : ~Lists(order[m], AtOrUnder(m))}
<1>1. ASSUME S # {} PROVE FALSE
  <2>1. PICK m \in S : \A y \in S : Above[m] <= Above[y]
    <3>1. \A x \in S : Above[x] \in Nat
      BY RankTypes DEF Live
    <3> HIDE DEF S
    <3> QED
      BY <1>1, <3>1, LeastRanked
  <2>2. m \in Live(nodes) /\ m \in DOMAIN nodes /\ ~Lists(order[m], AtOrUnder(m))
    BY DEF Live
  <2>3. \A k \in Kids(nodes, m) : k \in Live(nodes) /\ Lists(order[k], AtOrUnder(k))
    <3> SUFFICES ASSUME NEW k \in Kids(nodes, m)
                 PROVE  k \in Live(nodes) /\ Lists(order[k], AtOrUnder(k))
      OBVIOUS
    <3>1. k \in Live(nodes)
      BY <2>2, WalkFacts
    <3>2. Above[k] < Above[m] /\ Above[k] \in Nat /\ Above[m] \in Nat
      BY <2>2, <3>1, RankTypes DEF Live
    <3>3. k \notin S
      <4> HIDE DEF S
      <4> QED
        BY <2>1, <3>2
    <3> QED
      BY <3>1, <3>3
  <2> HIDE DEF S
  <2> DEFINE kid(i) == nodes[m].children[i]
             count == Len(nodes[m].children)
             parts == [i \in 1 .. count |-> order[kid(i)]]
             P     == [i \in 1 .. count |-> AtOrUnder(kid(i))]
  <2>4. /\ count \in Nat /\ DOMAIN nodes[m].children = 1 .. count
        /\ \A i \in 1 .. count : kid(i) \in Kids(nodes, m)
        /\ \A i, j \in 1 .. count : i # j => kid(i) # kid(j)
    BY <2>2, ChildLists
  <2>5. order[m] = <<m>> \o Sq!FlattenSeq(parts)
    <3>1. Gathers(order, Alone, m)
      BY <2>2 DEF IsOrder
    <3>2. parts = [i \in DOMAIN nodes[m].children |-> order[nodes[m].children[i]]]
      BY <2>4
    <3>3. Alone[m] = <<m>>
      BY <2>2 DEF Alone
    <3> QED
      BY <3>1, <3>2, <3>3 DEF Gathers
  <2>6. /\ AtOrUnder(m) = {m} \union UNION {AtOrUnder(k) : k \in Kids(nodes, m)}
        /\ \A k \in Kids(nodes, m) : m \notin AtOrUnder(k)
        /\ \A j, k \in Kids(nodes, m) : j # k => AtOrUnder(j) \cap AtOrUnder(k) = {}
    BY <2>2, AtOrUnderUnfolds
  <2>7. Kids(nodes, m) = {kid(i) : i \in 1 .. count}
    BY <2>4 DEF Kids
  <2> HIDE DEF kid, count
  <2>8. /\ \A i \in 1 .. count : Lists(parts[i], P[i])
        /\ \A i, j \in 1 .. count : i # j => P[i] \cap P[j] = {}
    BY <2>3, <2>4, <2>6
  <2>9. parts \in [1 .. count -> Seq(Nat)]
    BY <2>8 DEF Lists
  <2>10. AllOf(P, count) = UNION {AtOrUnder(k) : k \in Kids(nodes, m)}
    BY <2>7 DEF AllOf
  <2> HIDE DEF parts, P
  <2>11. Lists(Sq!FlattenSeq(parts), AllOf(P, count))
    <3>1. count \in Nat /\ ListedApart(parts, P, count)
      BY <2>4, <2>8 DEF ListedApart
    <3> QED
      BY <2>9, <3>1, FlattenLists, Zenon
  <2>12. Lists(<<m>>, {m})
    <3>1. m \in Nat
      BY <2>2, IInvFacts
    <3> QED
      BY <3>1 DEF Lists, Sq!ToSet, Sq!IsInjective
  <2>13. {m} \cap AllOf(P, count) = {}
    BY <2>6, <2>10
  <2>14. Lists(<<m>> \o Sq!FlattenSeq(parts), {m} \union AllOf(P, count))
    BY <2>11, <2>12, <2>13, ListsJoin, Zenon
  <2> QED
    BY <2>2, <2>5, <2>6, <2>10, <2>14
<1> QED
  BY <1>1

(* What is gathered from the tree is made of its nodes in order.            *)
LEMMA GatheredInOrder ==
  ASSUME IInv, NEW order, IsOrder(order), NEW X, NEW f, Takes(f, Live(nodes), X),
         NEW F, \A n \in Live(nodes) : Gathers(F, f, n)
  PROVE  \A n \in Live(nodes) : F[n] = FilterMap(order[n], f)
<1> DEFINE D == Live(nodes)
           S == {m \in D : F[m] # FilterMap(order[m], f)}
<1>0. \A x, y \in Seq(D) : FilterMap(x \o y, f) = FilterMap(x, f) \o FilterMap(y, f)
  BY FilterMapJoin
<1>1. ASSUME S # {} PROVE FALSE
  <2>1. PICK m \in S : \A y \in S : Above[m] <= Above[y]
    <3>1. \A x \in S : Above[x] \in Nat
      BY RankTypes DEF Live
    <3> HIDE DEF S
    <3> QED
      BY <1>1, <3>1, LeastRanked
  <2>2. m \in D /\ m \in DOMAIN nodes /\ F[m] # FilterMap(order[m], f)
    BY DEF Live
  <2>3. \A k \in Kids(nodes, m) : k \in D /\ F[k] = FilterMap(order[k], f)
    <3> SUFFICES ASSUME NEW k \in Kids(nodes, m)
                 PROVE  k \in D /\ F[k] = FilterMap(order[k], f)
      OBVIOUS
    <3>1. k \in D
      BY <2>2, WalkFacts
    <3>2. Above[k] < Above[m] /\ Above[k] \in Nat /\ Above[m] \in Nat
      BY <2>2, <3>1, RankTypes DEF Live
    <3>3. k \notin S
      <4> HIDE DEF S
      <4> QED
        BY <2>1, <3>2
    <3> QED
      BY <3>1, <3>3
  <2> HIDE DEF S
  <2> DEFINE kid(i) == nodes[m].children[i]
             count == Len(nodes[m].children)
             parts == [i \in 1 .. count |-> order[kid(i)]]
             made  == [i \in 1 .. count |-> FilterMap(parts[i], f)]
  <2>4. /\ count \in Nat /\ DOMAIN nodes[m].children = 1 .. count
        /\ \A i \in 1 .. count : kid(i) \in Kids(nodes, m)
    BY <2>2, ChildLists
  <2>5. order[m] = <<m>> \o Sq!FlattenSeq(parts)
    <3>1. Gathers(order, Alone, m)
      BY <2>2 DEF IsOrder
    <3>2. parts = [i \in DOMAIN nodes[m].children |-> order[nodes[m].children[i]]]
      BY <2>4
    <3>3. Alone[m] = <<m>>
      BY <2>2 DEF Alone
    <3> QED
      BY <3>1, <3>2, <3>3 DEF Gathers
  <2>6. F[m] = f[m] \o Sq!FlattenSeq(made)
    <3>1. Gathers(F, f, m)
      BY <2>2
    <3>2. made = [i \in DOMAIN nodes[m].children |-> F[nodes[m].children[i]]]
      BY <2>3, <2>4
    <3> QED
      BY <3>1, <3>2 DEF Gathers
  <2> HIDE DEF kid, count
  <2>7. parts \in [1 .. count -> Seq(D)]
    BY <2>3, <2>4 DEF IsOrder
  <2>8. FilterMap(Sq!FlattenSeq(parts), f) = Sq!FlattenSeq(made)
    <3> HIDE DEF parts, D
    <3>1. Takes(f, D, X)
      BY DEF D
    <3> QED
      BY <2>4, <2>7, <3>1, FilterMapFlatten
  <2> HIDE DEF made
  <2>9. Sq!FlattenSeq(parts) \in Seq(D) /\ <<m>> \in Seq(D)
    <3> HIDE DEF parts
    <3>1. Sq!FlattenSeq(parts) \in Seq(D)
      BY <2>4, <2>7, FlattenType
    <3> QED
      BY <2>2, <3>1
  <2> HIDE DEF parts, D
  <2>10. FilterMap(<<m>>, f) = f[m]
    <3>1. \A a \in D : f[a] \in Seq(X)
      BY DEF Takes, D
    <3> QED
      BY <2>2, <3>1, FilterMapOne
  <2>11. FilterMap(order[m], f) = f[m] \o Sq!FlattenSeq(made)
    BY <1>0, <2>5, <2>8, <2>9, <2>10
  <2> QED
    BY <2>2, <2>6, <2>11
<1> QED
  BY <1>1

(* How far a node is from the root.                                        *)
Level(n) == Cardinality(Up(n)) - 1

(* The level of a node: one more than its parent's, more than any above it.*)
LEMMA LevelFacts ==
  ASSUME IInv, NEW n \in Live(nodes)
  PROVE  /\ Level(n) \in Nat
         /\ n = Root => Level(n) = 0
         /\ \A k \in Kids(nodes, n) : Level(k) = Level(n) + 1
         /\ \A x \in Up(n) : x = n \/ Level(x) < Level(n)
<1>1. IsFiniteSet(DOMAIN nodes)
  <2>1. DOMAIN nodes = 0 .. (Size(nodes) - 1) /\ Size(nodes) \in Nat
    BY DEF IInv, TypeOK, IsArena
  <2>2. 0 \in Int /\ Size(nodes) - 1 \in Int
    BY <2>1
  <2> QED
    BY <2>1, <2>2, FS_Interval
<1>2. \A m \in Live(nodes) : /\ IsFiniteSet(Up(m)) /\ Cardinality(Up(m)) \in Nat
                             /\ Cardinality(Up(m)) # 0
  <2> SUFFICES ASSUME NEW m \in Live(nodes)
               PROVE  /\ IsFiniteSet(Up(m)) /\ Cardinality(Up(m)) \in Nat
                      /\ Cardinality(Up(m)) # 0
    OBVIOUS
  <2>1. Up(m) \in SUBSET DOMAIN nodes /\ Up(m) # {}
    BY UpFacts DEF WellAbove, Live
  <2>2. IsFiniteSet(Up(m))
    BY <1>1, <2>1, FS_Subset
  <2> QED
    BY <2>1, <2>2, FS_CardinalityType, FS_EmptySet
<1>3. n = Root => Level(n) = 0
  <2>1. ASSUME n = Root PROVE Level(n) = 0
    <3>1. Up(n) = {n}
      BY <2>1, UpUnfolds
    <3>2. Cardinality({} \union {n}) = Cardinality({}) + 1
      BY FS_EmptySet, FS_AddElement
    <3>3. {} \union {n} = {n} /\ Cardinality({}) = 0
      BY FS_EmptySet
    <3> QED
      BY <3>1, <3>2, <3>3 DEF Level
  <2> QED
    BY <2>1
<1>4. ASSUME NEW k \in Kids(nodes, n)
      PROVE  Level(k) = Level(n) + 1
  <2>1. Up(k) = Up(n) \union {k} /\ k \notin Up(n)
    BY OneKidOnWay
  <2>2. Cardinality(Up(k)) = Cardinality(Up(n)) + 1
    BY <1>2, <2>1, FS_AddElement
  <2> QED
    BY <1>2, <2>2 DEF Level
<1>5. ASSUME NEW x \in Up(n), x # n
      PROVE  Level(x) < Level(n)
  <2>1. /\ x \in Live(nodes) /\ Up(x) \in SUBSET Up(n) /\ n \in Up(n)
        /\ Deep[x] < Deep[n] /\ Deep[x] \in Nat /\ Deep[n] \in Nat
    BY <1>5, UpFacts, RankTypes DEF WellAbove, Live
  <2>2. n \notin Up(x)
    <3>1. WellAbove(x)
      BY <2>1, UpFacts
    <3> QED
      BY <1>5, <2>1, <3>1 DEF WellAbove
  <2>3. Cardinality(Up(x)) <= Cardinality(Up(n)) /\ Cardinality(Up(x)) # Cardinality(Up(n))
    BY <1>2, <2>1, <2>2, FS_Subset
  <2> QED
    BY <1>2, <2>1, <2>3 DEF Level
<1>6. Level(n) \in Nat
  BY <1>2 DEF Level
<1> QED
  BY <1>3, <1>4, <1>5, <1>6

----------------------------------------------------------------------------
(* Why run returns.                                                        *)

(* How far a run has come: the rounds left, the phase of the round, and the  *)
(* jobs left in the phase. Each of the three is a number.                   *)
RoundsLeft == MaxRounds - round

Phase == CASE pc = "check" -> 2 [] pc = "execute" -> 1 [] OTHER -> 0

JobsLeft == Cardinality(IF pc = "execute" THEN todo ELSE DOMAIN outcomes)

Nearer ==
  \/ RoundsLeft' < RoundsLeft
  \/ RoundsLeft' = RoundsLeft /\ Phase' < Phase
  \/ RoundsLeft' = RoundsLeft /\ Phase' = Phase /\ JobsLeft' < JobsLeft

InNumbers == RoundsLeft \in Nat /\ Phase \in Nat /\ JobsLeft \in Nat

Approaches ==
  Running => UNCHANGED runVars \/ pc' = "done" \/ (InNumbers /\ Running' /\ InNumbers' /\ Nearer)

(* A job that can run and a step the loop of run can take: the conditions    *)
(* under which its actions are enabled.                                     *)
CanRun(id) == IsFirst(id, todo) /\ PassOutcomes(id) \cap Outcome # {}

LoopGoesOn ==
  \/ pc = "check"
  \/ pc = "execute" /\ (todo = {} \/ \E id \in todo : CanRun(id))
  \/ pc = "merge" /\ (DOMAIN outcomes = {} \/ \E id \in DOMAIN outcomes : IsFirst(id, DOMAIN outcomes))

(* The sets of jobs are finite, and a run stays within its rounds.          *)
LEMMA RunsAreFinite ==
  ASSUME IInv
  PROVE  /\ InNumbers
         /\ IsFiniteSet(todo) /\ IsFiniteSet(DOMAIN outcomes)
         /\ todo \subseteq Nat /\ DOMAIN outcomes \subseteq Nat
<1>1. /\ Size(nodes) \in Nat /\ DOMAIN nodes = 0 .. (Size(nodes) - 1)
      /\ todo \subseteq DOMAIN nodes /\ DOMAIN outcomes \subseteq DOMAIN nodes
      /\ round \in 0 .. MaxRounds
  BY DEF IInv, TypeOK, IsArena
<1>2. IsFiniteSet(DOMAIN nodes) /\ DOMAIN nodes \subseteq Nat
  BY <1>1, FS_Interval
<1>3. IsFiniteSet(todo) /\ IsFiniteSet(DOMAIN outcomes)
  BY <1>1, <1>2, FS_Subset
<1>4. RoundsLeft \in Nat
  BY <1>1, MaxRoundsIsNat DEF RoundsLeft
<1>5. Phase \in Nat
  BY DEF Phase
<1>6. JobsLeft \in Nat
  BY <1>3, FS_CardinalityType DEF JobsLeft
<1> QED
  BY <1>1, <1>2, <1>3, <1>4, <1>5, <1>6 DEF InNumbers

(* Every step of a running run brings it nearer to its end.                 *)
LEMMA RunsApproach ==
  ASSUME IInv, [Next]_vars, Running
  PROVE  UNCHANGED runVars \/ pc' = "done" \/ (Running' /\ Nearer)
<1>1. CASE UNCHANGED vars \/ Cancel \/ ResetToken \/ StartRun \/ \E e \in EditsOf(textLen) : EditText(e)
  BY <1>1 DEF vars, runVars, Cancel, ResetToken, StartRun, EditText, Resting, Running
<1>2. CASE RoundsExhausted \/ SeeCancelled \/ NothingReady
  BY <1>2 DEF RoundsExhausted, SeeCancelled, NothingReady, Return
<1>3. CASE CollectJobs
  <2>1. pc = "check" /\ pc' = "execute" /\ round' = round
    BY <1>3 DEF CollectJobs
  <2> QED
    BY <2>1 DEF Nearer, RoundsLeft, Phase, Running
<1>4. ASSUME NEW id \in todo, ExecuteJob(id) PROVE Running' /\ Nearer
  <2>1. pc = "execute" /\ pc' = "execute" /\ round' = round /\ todo' = todo \ {id}
    BY <1>4 DEF ExecuteJob
  <2> DEFINE n == Cardinality(todo)
             n2 == Cardinality(todo')
  <2>2. n \in Nat /\ n2 = n - 1
    BY <1>4, <2>1, RunsAreFinite, FS_RemoveElement, FS_CardinalityType
  <2>3. JobsLeft = n /\ JobsLeft' = n2
    BY <2>1 DEF JobsLeft
  <2> HIDE DEF n, n2
  <2>4. n2 < n
    BY <2>2
  <2> QED
    BY <2>1, <2>3, <2>4 DEF Nearer, RoundsLeft, Phase, Running
<1>5. CASE StopBatch
  <2>1. pc = "execute" /\ pc' = "merge" /\ round' = round
    BY <1>5 DEF StopBatch
  <2> QED
    BY <2>1 DEF Nearer, RoundsLeft, Phase, Running
<1>6. ASSUME NEW id \in DOMAIN outcomes, MergeJob(id) PROVE Running' /\ Nearer
  <2>1. pc = "merge" /\ pc' = "merge" /\ round' = round /\ DOMAIN outcomes' = DOMAIN outcomes \ {id}
    BY <1>6 DEF MergeJob
  <2> DEFINE n == Cardinality(DOMAIN outcomes)
             n2 == Cardinality(DOMAIN outcomes')
  <2>2. n \in Nat /\ n2 = n - 1
    BY <1>6, <2>1, RunsAreFinite, FS_RemoveElement, FS_CardinalityType
  <2>3. JobsLeft = n /\ JobsLeft' = n2
    BY <2>1 DEF JobsLeft
  <2> HIDE DEF n, n2
  <2>4. n2 < n
    BY <2>2
  <2> QED
    BY <2>1, <2>3, <2>4 DEF Nearer, RoundsLeft, Phase, Running
<1>7. CASE EndRound
  <2>1. pc' = "done" \/ (pc' = "check" /\ round' = round + 1)
    BY <1>7 DEF EndRound, Return
  <2> DEFINE a == MaxRounds - round
             b == MaxRounds - (round + 1)
  <2>2. round \in Nat /\ MaxRounds \in Nat
    BY MaxRoundsIsNat DEF IInv, TypeOK
  <2>3. b < a
    BY <2>2
  <2>4. RoundsLeft = a /\ (round' = round + 1 => RoundsLeft' = b)
    BY DEF RoundsLeft, MaxRounds
  <2> HIDE DEF a, b
  <2> QED
    BY <2>1, <2>3, <2>4 DEF Nearer, Running
<1> QED
  BY <1>1, <1>2, <1>3, <1>4, <1>5, <1>6, <1>7 DEF Next, EngineStep

(* The loop of run, whatever passes and executors answer and the token does: *)
(* no step of it goes back, so that it ends.                               *)
THEOREM RunsComeToAnEnd == Spec => [][Approaches]_vars
<1>1. IInv /\ [Next]_vars => [Running => UNCHANGED runVars \/ pc' = "done" \/ (Running' /\ Nearer)]_vars
  BY RunsApproach
<1>2. IInv => InNumbers
  BY RunsAreFinite
<1> QED
  BY <1>1, <1>2, Invariance, PTL DEF Spec, Approaches

(* Where every pass has an answer for every region, the loop of run is never *)
(* stuck: a batch has a next job, and a merge a next outcome.              *)
THEOREM LoopsGoOn ==
  ASSUME \A r \in 0 .. (NumPasses - 1), s \in Span, c \in Ctx : Parse(r, s, c) \cap Outcome # {}
  PROVE  Spec => [](Running => LoopGoesOn)
<1>1. ASSUME IInv, pc = "execute", todo # {} PROVE \E id \in todo : CanRun(id)
  <2>1. PICK id \in todo : \A other \in todo : id <= other
    BY <1>1, RunsAreFinite, LeastNatural
  <2>2. nodes[id].span \in Span /\ nodes[id].ctx \in Ctx
    BY <1>1, <2>1 DEF IInv, TypeOK, IsArena, Node
  <2>3. PassOutcomes(id) \cap Outcome # {}
    <3>1. CASE round < NumPasses
      <4>1. round \in 0 .. (NumPasses - 1)
        BY <1>1, <3>1, ScheduleAssumption, MaxRoundsIsNat DEF IInv, TypeOK
      <4> QED
        BY <2>2, <3>1, <4>1 DEF PassOutcomes
    <3>2. CASE ~(round < NumPasses)
      <4> DEFINE o == [kind |-> "Failed", children |-> <<>>]
      <4>1. o \in [kind : {"Done", "Failed"}, children : {<<>>}]
        OBVIOUS
      <4>2. o \in Outcome
        BY <4>1 DEF Outcome
      <4>3. PassOutcomes(id) = {o}
        BY <3>2 DEF PassOutcomes
      <4> QED
        BY <4>2, <4>3
    <3> QED
      BY <3>1, <3>2
  <2> QED
    BY <2>1, <2>3 DEF CanRun, IsFirst
<1>2. ASSUME IInv, DOMAIN outcomes # {}
      PROVE  \E id \in DOMAIN outcomes : IsFirst(id, DOMAIN outcomes)
  BY <1>2, RunsAreFinite, LeastNatural DEF IsFirst
<1>3. IInv => (Running => LoopGoesOn)
  BY <1>1, <1>2 DEF Running, LoopGoesOn
<1> QED
  BY <1>3, Invariance, PTL

============================================================================
