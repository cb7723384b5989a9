----------------------------- MODULE ParseTree -----------------------------
(***************************************************************************)
(* The arena a parse lives in (crates/increparse/src/tree.rs, node.rs):    *)
(* operators on a tree value t, a function from the node ids 0 .. n-1 to   *)
(* node records. Ids are never reused; a dropped node stays in the arena   *)
(* with alive = FALSE. The Engine module owns the tree as its state.       *)
(***************************************************************************)
EXTENDS Spans, Sequences, FiniteSets

CONSTANT Ctx   \* The contexts a client attaches to its regions.

Root     == 0
NoParent == -1

Status == {"Unparsed", "Expanded", "Done", "Failed"}

(* What a pass returns for a child: a region and the context it carries.   *)
Region == [span : Span, ctx : Ctx]

Node == [span     : Span,
         ctx      : Ctx,
         status   : Status,
         depth    : Nat,                    \* the round that picks it up
         parent   : Nat \union {NoParent},
         children : Seq(Nat),
         attempts : Nat,                    \* failures since the last reset
         alive    : BOOLEAN]

(* What a pass returns. Expand with no children means Done.                *)
Outcome == [kind : {"Done", "Failed"}, children : {<<>>}]
             \union [kind : {"Expand"}, children : Seq(Region)]

NewNode(region, depth, parent) ==
  [span |-> region.span, ctx |-> region.ctx, status |-> "Unparsed",
   depth |-> depth, parent |-> parent, children |-> <<>>, attempts |-> 0,
   alive |-> TRUE]

NewTree(span, ctx) ==
  [n \in {Root} |-> NewNode([span |-> span, ctx |-> ctx], 0, NoParent)]

----------------------------------------------------------------------------
(* Queries.                                                                *)

(* Nodes are numbered by the length of the arena (the slip: by len()).       *)
LiveSize(t) == Cardinality({n \in DOMAIN t : t[n].alive})

Size(t) == Cardinality(DOMAIN t)

Live(t) == {n \in DOMAIN t : t[n].alive}

Kids(t, n) == {t[n].children[i] : i \in DOMAIN t[n].children}

RegionOf(t, n) == [span |-> t[n].span, ctx |-> t[n].ctx]

(* Work a pass could still do within maxRounds rounds (the slip: dropped    *)
(* nodes count).                                                           *)
PendingEvenDead(t, n, maxRounds) ==
  \/ t[n].status = "Unparsed"
  \/ t[n].status = "Failed" /\ t[n].depth < maxRounds

IsPending(t, n, maxRounds) ==
  /\ t[n].alive
  /\ \/ t[n].status = "Unparsed"
     \/ t[n].status = "Failed" /\ t[n].depth < maxRounds

Pending(t, maxRounds) == {n \in DOMAIN t : IsPending(t, n, maxRounds)}

(* The nodes round r hands to pass r. The slips: settled ones too, or no    *)
(* retries of failed ones.                                                 *)
ReadyEvenDone(t, round) ==
  {n \in Live(t) : t[n].depth = round /\ t[n].status # "Expanded"}

ReadyNoRetries(t, round) ==
  {n \in Live(t) : t[n].depth = round /\ t[n].status = "Unparsed"}

ReadyJobs(t, round) ==
  {n \in Live(t) : t[n].depth = round /\ t[n].status \in {"Unparsed", "Failed"}}

----------------------------------------------------------------------------
(* A text edit: every live span moves; every touched node restarts at its  *)
(* home round, depth - attempts, and keeps its children attached. The slips: *)
(* it stays where it is, goes to round 0, or keeps its failure count.       *)

ResetInPlace(node) == [node EXCEPT !.status = "Unparsed", !.attempts = 0]

ResetToRoundZero(node) ==
  [node EXCEPT !.status = "Unparsed", !.depth = 0, !.attempts = 0]

ResetKeepingAttempts(node) ==
  [node EXCEPT !.status = "Unparsed", !.depth = @ - node.attempts]

ResetNode(node) ==
  [node EXCEPT !.status = "Unparsed", !.depth = @ - node.attempts, !.attempts = 0]

EditNode(node, e, rev) ==
  LET moved == [node EXCEPT !.span = MapSpan(e, node.span, rev)]
  IN  IF Touches(e, node.span) THEN ResetNode(moved) ELSE moved

EditTree(t, e, rev) ==
  [n \in DOMAIN t |-> IF t[n].alive THEN EditNode(t[n], e, rev) ELSE t[n]]

OnlyMoved(old, new) == new = [old EXCEPT !.span = new.span]

----------------------------------------------------------------------------
(* Dropping subtrees.                                                      *)

(* Everything reachable from roots by child links: the least set that holds *)
(* the roots and the children of its members (roots and listed children are *)
(* all it can hold).                                                       *)
Below(t, roots) ==
  LET listed == roots \union UNION {Kids(t, n) : n \in DOMAIN t}
      Closed == {S \in SUBSET (listed \cap DOMAIN t) :
                   roots \subseteq S /\ \A k \in S : Kids(t, k) \subseteq S}
  IN  {n \in DOMAIN t : \A S \in Closed : n \in S}

Dropped(node) == [node EXCEPT !.alive = FALSE, !.children = <<>>]

Detach(t, roots) ==
  LET gone == Below(t, roots)
  IN  [n \in DOMAIN t |-> IF n \in gone THEN Dropped(t[n]) ELSE t[n]]

----------------------------------------------------------------------------
(* Merging the outcome of pass `round` on node id.                         *)

(* Is a child too long for enforce_shrink? The slip: only if it is longer.  *)
Longer(parent, child) == SpanLen(child) > SpanLen(parent)

TooLong(parent, child) == SpanLen(child) >= SpanLen(parent)

(* Why a produced child is rejected: the first rule it breaks.             *)
ViolationKind(parent, child, shrink) ==
  IF child.rev # parent.rev THEN "WrongRevision"
  ELSE IF ~Contains(parent, child) THEN "OutsideParent"
  ELSE IF shrink /\ TooLong(parent, child) THEN "NotSmaller"
  ELSE "None"

Breaches(t, id, o, shrink) ==
  {i \in DOMAIN o.children :
     ViolationKind(t[id].span, o.children[i].span, shrink) # "None"}

Applied(t, id, o, shrink) ==
  IF o.kind = "Failed" \/ Breaches(t, id, o, shrink) # {} THEN "Failed"
  ELSE IF o.children = <<>> THEN "Done"
  ELSE "Expanded"

(* Done: the node keeps nothing below it.                                  *)
DoneNode(node) == [node EXCEPT !.status = "Done", !.children = <<>>]

Accept(t, id) == [Detach(t, Kids(t, id)) EXCEPT ![id] = DoneNode(@)]

(* Failed: nothing below it either, and it waits for the next round.       *)
FailedNode(node, round) ==
  [node EXCEPT !.status = "Failed", !.children = <<>>,
               !.depth = round + 1, !.attempts = @ + 1]

Fail(t, id, round) == [Detach(t, Kids(t, id)) EXCEPT ![id] = FailedNode(@, round)]

----------------------------------------------------------------------------
(* Expanding node id into the produced children kids.                      *)

Rank(S, x) == Cardinality({y \in S : y < x})

(* Old child positions of id holding what slot s of kids asks for (the      *)
(* slip: at the same place, whatever its context).                         *)
MatchesSpan(t, id, kids, s) ==
  LET old == t[id].children IN
  {q \in DOMAIN old : t[old[q]].alive /\ t[old[q]].span = kids[s].span}

Matches(t, id, kids, s) ==
  LET old == t[id].children IN
  {q \in DOMAIN old : t[old[q]].alive /\ RegionOf(t, old[q]) = kids[s]}

(* Does slot s keep the old child at position p? Matching each slot with    *)
(* the first old child left pairs the k-th copy of a region among the slots *)
(* with its k-th copy among the old children (the slips: with any copy, or   *)
(* with the one at the same position).                                     *)
KeepsInPlace(t, id, kids, s, p) == p = s /\ p \in Matches(t, id, kids, s)

KeepsAnyCopy(t, id, kids, s, p) == p \in Matches(t, id, kids, s)

Keeps(t, id, kids, s, p) ==
  /\ p \in Matches(t, id, kids, s)
  /\ Rank({u \in DOMAIN kids : kids[u] = kids[s]}, s) =
       Rank(Matches(t, id, kids, s), p)

FreshSlots(t, id, kids) ==
  {s \in DOMAIN kids : \A p \in DOMAIN t[id].children : ~Keeps(t, id, kids, s, p)}

Orphans(t, id, kids) ==
  {t[id].children[p] : p \in {q \in DOMAIN t[id].children :
                                \A s \in DOMAIN kids : ~Keeps(t, id, kids, s, q)}}

(* A matched slot keeps its node, the others are appended to the arena.     *)
ChildId(t, id, kids, s) ==
  IF s \in FreshSlots(t, id, kids)
  THEN Size(t) + Rank(FreshSlots(t, id, kids), s)
  ELSE t[id].children[CHOOSE p \in DOMAIN t[id].children : Keeps(t, id, kids, s, p)]

ChildIds(t, id, kids) == [s \in DOMAIN kids |-> ChildId(t, id, kids, s)]

SlotOf(t, id, kids, n) ==
  CHOOSE s \in FreshSlots(t, id, kids) : ChildId(t, id, kids, s) = n

ExpandedNode(node, children) ==
  [node EXCEPT !.status = "Expanded", !.children = children]

(* New children wait for the next round (the slip: for this one).           *)
SameRound(round) == round

ChildRound(round) == round + 1

Expand(t, id, kids, round) ==
  LET kept == Detach(t, Orphans(t, id, kids))
      size == Size(t) + Cardinality(FreshSlots(t, id, kids))
  IN  [n \in 0 .. (size - 1) |->
         IF n = id THEN ExpandedNode(t[id], ChildIds(t, id, kids))
         ELSE IF n \in DOMAIN t THEN kept[n]
         ELSE NewNode(kids[SlotOf(t, id, kids, n)], ChildRound(round), id)]

(* The slip: the regions that break the contract are left out.              *)
ApplyGoodOnes(t, id, o, round, shrink) ==
  LET Good(child) == ViolationKind(t[id].span, child.span, shrink) = "None"
      good == SelectSeq(o.children, Good)
  IN  CASE o.kind = "Failed"                   -> Fail(t, id, round)
        [] o.kind # "Failed" /\ good = <<>>    -> Accept(t, id)
        [] o.kind # "Failed" /\ good # <<>>    -> Expand(t, id, good, round)

Apply(t, id, o, round, shrink) ==
  CASE Applied(t, id, o, shrink) = "Done"     -> Accept(t, id)
    [] Applied(t, id, o, shrink) = "Failed"   -> Fail(t, id, round)
    [] Applied(t, id, o, shrink) = "Expanded" -> Expand(t, id, o.children, round)

----------------------------------------------------------------------------
(* What makes a value a parse tree.                                        *)

IsArena(t) ==
  /\ Size(t) \in Nat \ {0}
  /\ t \in [0 .. (Size(t) - 1) -> Node]

RootAlive(t) == t[Root].alive /\ t[Root].parent = NoParent

ParentsListTheirKids(t) ==
  \A n \in Live(t) \ {Root} :
    t[n].parent \in Live(t) /\ n \in Kids(t, t[n].parent)

KidsPointBack(t) ==
  \A n \in DOMAIN t : \A i \in DOMAIN t[n].children :
    LET kid == t[n].children[i] IN
      /\ kid \in Live(t) \ {Root}
      /\ t[kid].parent = n
      /\ \A j \in DOMAIN t[n].children : t[n].children[j] = kid => j = i

OnlyLiveNodesHaveKids(t) ==
  \A n \in DOMAIN t : Kids(t, n) # {} =>
    t[n].alive /\ t[n].status \in {"Unparsed", "Expanded"}

WellShaped(t) ==
  /\ RootAlive(t)
  /\ ParentsListTheirKids(t)
  /\ KidsPointBack(t)
  /\ OnlyLiveNodesHaveKids(t)

Homed(t) ==
  /\ t[Root].depth = t[Root].attempts
  /\ \A n \in DOMAIN t : t[n].attempts <= t[n].depth
  /\ \A n \in Live(t) \ {Root} :
       t[n].depth - t[n].attempts > t[t[n].parent].depth

Nested(t, rev) ==
  /\ \A n \in Live(t) : t[n].span.rev = rev
  /\ \A n \in Live(t) \ {Root} : Contains(t[t[n].parent].span, t[n].span)

============================================================================
