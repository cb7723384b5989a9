---------------------------- MODULE TreeQueries ----------------------------
(***************************************************************************)
(* What a client asks of the tree between runs                             *)
(* (crates/increparse/src/tree.rs) and what its diagnostics are drawn from  *)
(* (crates/increparse-lsp/src/diagnostics.rs), over every tree the Engine   *)
(* module reaches.                                                         *)
(***************************************************************************)
EXTENDS Engine

Sq == INSTANCE SequencesExt

NoNode == -1

(* From the root, into the first child that holds the offset, again and    *)
(* again.                                                                  *)
NodeAt(t, offset) ==
  LET Hits(n) == {i \in DOMAIN t[n].children :
                    ContainsOffset(t[t[n].children[i]].span, offset)}
      First(S) == CHOOSE i \in S : \A j \in S : i <= j
      down[n \in DOMAIN t] ==
        IF Hits(n) = {} THEN n ELSE down[t[n].children[First(Hits(n))]]
  IN  IF ContainsOffset(t[Root].span, offset) THEN down[Root] ELSE NoNode

(* Has no node under n, as far as child links lead, any work left?          *)
IsSettled(t, n, maxRounds) ==
  LET settled[m \in DOMAIN t] ==
        ~IsPending(t, m, maxRounds) /\ \A k \in Kids(t, m) : settled[k]
  IN  settled[n]

StatusCounts(t) ==
  [s \in Status |-> Cardinality({n \in Live(t) : t[n].status = s})]

----------------------------------------------------------------------------
(* The nodes offered to the diagnostics hook, in the order of the walk.     *)

Failing(t, n) == t[n].status \in {"Failed", "Unparsed"}

(* Is a child's failure a consequence? The slip: of its parent's only.      *)
ParentFails(under, failing, cascades) == failing /\ ~cascades

UnderFailure(under, failing, cascades) == under \/ (failing /\ ~cascades)

Offered(t, cascades) ==
  LET Own(n, under) == IF Failing(t, n) /\ (~under \/ cascades) THEN <<n>> ELSE <<>>
      walk[n \in DOMAIN t] ==
        [under \in BOOLEAN |->
           LET next == UnderFailure(under, Failing(t, n), cascades)
           IN  Own(n, under) \o Sq!FlattenSeq([i \in DOMAIN t[n].children |->
                                                 walk[t[n].children[i]][next]])]
  IN  walk[Root][FALSE]

----------------------------------------------------------------------------

AndAbove(t, n) ==
  LET up[m \in Live(t)] == {m} \union (IF m = Root THEN {} ELSE up[t[m].parent])
  IN  up[n]

SiblingsDisjoint(t) ==
  \A m, n \in Live(t) \ {Root} :
    m # n /\ t[m].parent = t[n].parent => ~Overlaps(t[m].span, t[n].span)

(* node_at answers with a live node that holds the offset; when siblings do *)
(* not overlap it is the deepest: every live node that holds the offset is  *)
(* it or above it, after edits, reuse and drops alike.                     *)
NodeAtIsDeepest ==
  Resting => \A offset \in 0 .. textLen :
    LET found == NodeAt(nodes, offset) IN
      IF offset = textLen THEN found = NoNode
      ELSE /\ found \in Live(nodes)
           /\ ContainsOffset(nodes[found].span, offset)
           /\ SiblingsDisjoint(nodes) =>
                \A n \in Live(nodes) :
                  ContainsOffset(nodes[n].span, offset) =>
                    n \in AndAbove(nodes, found)

(* The query that walks down from the root and the one that scans the arena *)
(* agree on whether work is left: no pending node is out of the walk's      *)
(* reach, and nothing the walk meets is out of the scan's.                  *)
SettledAgreesWithPending ==
  IsSettled(nodes, Root, MaxRounds) <=> Pending(nodes, MaxRounds) = {}

(* Diagnostics are drawn from the failing live nodes, each offered once:    *)
(* with cascades all of them, as many as status_counts counts, and without    *)
(* them those with no failure above.                                        *)
FailuresAreOfferedOnce ==
  Resting =>
    LET failing   == {n \in Live(nodes) : Failing(nodes, n)}
        outermost == {n \in failing : AndAbove(nodes, n) \cap failing = {n}}
    IN  /\ Sq!ToSet(Offered(nodes, TRUE)) = failing
        /\ Sq!ToSet(Offered(nodes, FALSE)) = outermost
        /\ Sq!IsInjective(Offered(nodes, TRUE)) /\ Sq!IsInjective(Offered(nodes, FALSE))
        /\ LET counts == StatusCounts(nodes) IN
             Len(Offered(nodes, TRUE)) = counts["Failed"] + counts["Unparsed"]

============================================================================
