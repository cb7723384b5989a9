---------------------------- MODULE SpansProofs ----------------------------
(***************************************************************************)
(* What an edit does to a span and an adapter to the spans of a slice, for  *)
(* every edit and every span; and what the other proofs need beyond         *)
(* arithmetic: that naturals have a least one, and that functions which call *)
(* themselves on something smaller exist.                                  *)
(***************************************************************************)
EXTENDS Spans, Adapters, WellFoundedInduction, TLAPS

(* A non-empty set of naturals has a least element.                         *)
LEMMA LeastNatural ==
  ASSUME NEW S \in SUBSET Nat, S # {}
  PROVE  \E x \in S : \A y \in S : x <= y
  <1> DEFINE R == OpToRel(<, Nat)
  <1>1. \A x, y \in Nat : y < x => <<y, x>> \in R
    BY DEF OpToRel
  <1>2. IsWellFoundedOn(R, Nat)
    BY NatLessThanWellFounded
  <1> HIDE DEF R
  <1>3. PICK x \in S : \A y \in S : ~(<<y, x>> \in R)
    BY <1>2, WFMin
  <1>4. \A y \in S : ~(y < x)
    BY <1>1, <1>3
  <1> QED
    BY <1>3, <1>4

(* Functions that call themselves nearer to the bottom exist: Step[x][f] is  *)
(* the value at x, with f for the recursive calls.                         *)
LooksDown(D, V, rank, Step) ==
  \A x \in D : \A f, g \in [D -> V] :
    (\A y \in D : rank[y] < rank[x] => f[y] = g[y]) => Step[x][f] = Step[x][g]

Solves(f, D, Step) == \A x \in D : f[x] = Step[x][f]

(* A recursion that only looks at lower ranks has a solution.               *)
LEMMA Recursion ==
  ASSUME NEW D, NEW V, NEW N \in Nat, NEW rank \in [D -> 0 .. N],
         NEW Step \in [D -> [[D -> V] -> V]], NEW start \in [D -> V],
         LooksDown(D, V, rank, Step)
  PROVE  \E f \in [D -> V] : Solves(f, D, Step)
<1> DEFINE Upto(f, n) == \A x \in D : rank[x] < n => f[x] = Step[x][f]
           B == {n \in Nat : ~ \E f \in [D -> V] : Upto(f, n)}
<1>1. ASSUME B # {} PROVE FALSE
  <2>1. PICK n \in B : \A m \in B : n <= m
    <3>1. B \in SUBSET Nat
      OBVIOUS
    <3> HIDE DEF B
    <3> QED
      BY <1>1, <3>1, LeastNatural
  <2>2. CASE n = 0
    <3>1. Upto(start, 0)
      OBVIOUS
    <3> QED
      BY <2>1, <2>2, <3>1
  <2>3. CASE n # 0
    <3>0. n \in B
      OBVIOUS
    <3>00. n \in Nat
      OBVIOUS
    <3>1. n - 1 \in Nat /\ n - 1 \notin B
      <4> HIDE DEF B
      <4> QED
        BY <2>1, <2>3, <3>0, <3>00
    <3>2. PICK f \in [D -> V] : Upto(f, n - 1)
      BY <3>1
    <3> DEFINE g == [x \in D |-> IF rank[x] = n - 1 THEN Step[x][f] ELSE f[x]]
    <3>3. g \in [D -> V]
      OBVIOUS
    <3>4. \A y \in D : rank[y] < n - 1 => f[y] = g[y]
      BY <3>1
    <3>5. ASSUME NEW x \in D, rank[x] < n
          PROVE  g[x] = Step[x][g]
      <4>1. rank[x] \in Nat /\ (rank[x] = n - 1 \/ rank[x] < n - 1)
        <5>1. rank[x] \in 0 .. N
          OBVIOUS
        <5>2. rank[x] \in Nat
          BY <5>1
        <5>3. \A r, q \in Nat : r < q => r = q - 1 \/ r < q - 1
          OBVIOUS
        <5> QED
          BY <3>00, <3>5, <5>2, <5>3, Zenon
      <4>2. \A y \in D : rank[y] < rank[x] => f[y] = g[y]
        BY <3>1, <3>4, <4>1
      <4>3. Step[x][f] = Step[x][g]
        <5> HIDE DEF g
        <5> QED
          BY <3>3, <4>2 DEF LooksDown
      <4>4. CASE rank[x] = n - 1
        BY <4>3, <4>4
      <4>5. CASE rank[x] < n - 1
        <5>1. g[x] = f[x]
          BY <3>4, <4>5
        <5>2. f[x] = Step[x][f]
          BY <3>2, <4>5
        <5> QED
          BY <4>3, <5>1, <5>2
      <4> QED
        BY <4>1, <4>4, <4>5
    <3> HIDE DEF g
    <3>6. Upto(g, n)
      BY <3>5
    <3> QED
      BY <3>0, <3>3, <3>6
  <2> QED
    BY <2>2, <2>3
<1>2. N + 1 \in Nat /\ N + 1 \notin B
  <2> HIDE DEF B
  <2> QED
    BY <1>1
<1>3. PICK f \in [D -> V] : Upto(f, N + 1)
  BY <1>2
<1>4. \A x \in D : rank[x] < N + 1
  OBVIOUS
<1> QED
  BY <1>3, <1>4 DEF Solves

(* Something is nearest to the bottom.                                     *)
LEMMA LeastRanked ==
  ASSUME NEW S, S # {}, NEW rank, \A x \in S : rank[x] \in Nat
  PROVE  \E x \in S : \A y \in S : rank[x] <= rank[y]
<1> DEFINE R == {rank[x] : x \in S}
<1>1. R \in SUBSET Nat /\ R # {}
  OBVIOUS
<1>2. PICK r \in R : \A q \in R : r <= q
  <2> HIDE DEF R
  <2> QED
    BY <1>1, LeastNatural
<1> QED
  BY <1>2

----------------------------------------------------------------------------
(* A well-formed edit moves a well-formed span to a well-formed span: the   *)
(* debug assertion of Span::new cannot fire inside map_span.                *)
LEMMA MapSpanType ==
  ASSUME NEW e \in Edit, NEW s \in Span, NEW r \in Nat
  PROVE  MapSpan(e, s, r) \in Span /\ MapSpan(e, s, r).rev = r
  BY DEF Edit, Span, MapSpan, MapPos, MapEnd, IsInsertion, SpanOf

(* An edit keeps a child inside its parent, however it cuts across them.    *)
LEMMA MapSpanKeepsContainment ==
  ASSUME NEW e \in Edit, NEW p \in Span, NEW s \in Span, NEW r \in Nat,
         Contains(p, s)
  PROVE  Contains(MapSpan(e, p, r), MapSpan(e, s, r))
  BY DEF Edit, Span, MapSpan, MapPos, MapEnd, IsInsertion, SpanOf, Contains

(* An edit that touches a span touches every span around it.                *)
LEMMA TouchesUpward ==
  ASSUME NEW e \in Edit, NEW p \in Span, NEW s \in Span,
         Contains(p, s), Touches(e, s)
  PROVE  Touches(e, p)
  BY DEF Edit, Span, Touches, IsInsertion, Contains

(* Every edit inside the text touches the region that covers all of it, and *)
(* that region covers all of the new text.                                  *)
LEMMA EditOfWholeText ==
  ASSUME NEW e \in Edit, NEW len \in Nat, NEW r \in Nat, NEW q \in Nat,
         e.oldEnd <= len
  PROVE  /\ Touches(e, SpanOf(0, len, q))
         /\ MapSpan(e, SpanOf(0, len, q), r)
              = SpanOf(0, e.newEnd + (len - e.oldEnd), r)
  BY DEF Edit, Touches, IsInsertion, SpanOf, MapSpan, MapPos, MapEnd

(* The text of a span the edit does not touch lies on one side of it and is *)
(* moved as a block: reusing its parse is sound.                            *)
THEOREM UntouchedSpansMoveRigidly ==
  ASSUME NEW e \in Edit, NEW s \in Span, NEW r \in Nat, ~Touches(e, s)
  PROVE  LET m == MapSpan(e, s, r) IN
         \/ s.end <= e.start /\ m.start = s.start /\ m.end = s.end
         \/ /\ e.oldEnd <= s.start
            /\ m.start = s.start + (e.newEnd - e.oldEnd)
            /\ m.end = s.end + (e.newEnd - e.oldEnd)
  BY DEF Edit, Span, Touches, IsInsertion, SpanOf, MapSpan, MapPos, MapEnd

----------------------------------------------------------------------------

(* A parser that stays inside its slice keeps the contract of a pass:       *)
(* every child of the outcome lies inside the region, wherever the region   *)
(* is, and carries its revision, which is all that apply asks of it unless   *)
(* enforce_shrink is on: then a child as long as the region is refused.      *)
THEOREM AdaptersKeepTheContract ==
  ASSUME NEW s \in Span, NEW parsed, parsed.ok,
         NEW n \in Nat,
         DOMAIN parsed.children = 1 .. n,
         \A k \in 1 .. n : /\ parsed.children[k].span \in Span
                           /\ parsed.children[k].span.end <= SpanLen(s)
  PROVE  LET kids == Answered(parsed, s).children IN
         parsed.children # <<>> =>
           \A k \in 1 .. n : /\ kids[k].span \in Span
                             /\ kids[k].span.rev = s.rev
                             /\ Contains(s, kids[k].span)
  <1> DEFINE kids == RebaseAll(parsed.children, s)
  <1>1. parsed.children # <<>> => Answered(parsed, s).children = kids
    BY DEF Answered
  <1>2. ASSUME NEW c, c.span \in Span, c.span.end <= SpanLen(s)
        PROVE  /\ Rebase(c, s).span \in Span /\ Rebase(c, s).span.rev = s.rev
               /\ Contains(s, Rebase(c, s).span)
    <2> DEFINE m == SpanOf(s.start + c.span.start, s.start + c.span.end, s.rev)
    <2>1. Rebase(c, s).span = m
      BY DEF Rebase
    <2>2. m \in Span /\ m.rev = s.rev /\ Contains(s, m)
      BY <1>2, SMTT(30) DEF Span, SpanOf, SpanLen, Contains
    <2> QED
      BY <2>1, <2>2
  <1>3. \A k \in 1 .. n : kids[k] = Rebase(parsed.children[k], s)
    BY DEF RebaseAll
  <1> HIDE DEF kids
  <1> QED
    BY <1>1, <1>2, <1>3

============================================================================
