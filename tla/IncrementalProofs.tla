-------------------------- MODULE IncrementalProofs --------------------------
(***************************************************************************)
(* The incremental parse of a text that is edited. The session of the       *)
(* Incremental module is one of the Engine's, and nothing its tree says is   *)
(* about an older text: Engine!IInv carries the tree, and LocalAssumption is *)
(* what the passes are trusted with. In the second half, no node is         *)
(* forgotten either (SInv, which is inductive with TInv), so that what a run *)
(* leaves is what a parse of the same text from nothing finds. In the last   *)
(* part, what an editor asks of that tree is answered as of that parse.      *)
(***************************************************************************)
EXTENDS EditorFeatures, EngineProofs, SequenceTheorems

----------------------------------------------------------------------------
(* Texts and their slices.                                                 *)

(* A concatenation, part by part.                                           *)
LEMMA JoinFacts ==
  ASSUME NEW S, NEW a \in Seq(S), NEW b \in Seq(S)
  PROVE  /\ a \o b \in Seq(S) /\ Len(a \o b) = Len(a) + Len(b)
         /\ \A i \in 1 .. Len(a) : (a \o b)[i] = a[i]
         /\ \A i \in (Len(a) + 1) .. (Len(a) + Len(b)) :
              (a \o b)[i] = b[i - Len(a)]
  <1> DEFINE d == a \o b
  <1>1. /\ d \in Seq(S) /\ Len(d) = Len(a) + Len(b)
        /\ \A i \in 1 .. (Len(a) + Len(b)) :
             d[i] = IF i <= Len(a) THEN a[i] ELSE b[i - Len(a)]
    BY ConcatProperties, Zenon
  <1> HIDE DEF d
  <1>2. Len(a) \in Nat /\ Len(b) \in Nat
    OBVIOUS
  <1>3. \A i \in 1 .. Len(a) : d[i] = a[i]
    BY <1>1, <1>2
  <1>4. \A i \in (Len(a) + 1) .. (Len(a) + Len(b)) : d[i] = b[i - Len(a)]
    BY <1>1, <1>2
  <1> QED
    BY <1>1, <1>3, <1>4 DEF d

(* Three pieces in a row: where the first and the last one are.              *)
LEMMA JoinThreeFacts ==
  ASSUME NEW a \in Seq(Token), NEW b \in Seq(Token), NEW c \in Seq(Token)
  PROVE  /\ (a \o b) \o c \in Seq(Token)
         /\ Len((a \o b) \o c) = Len(a) + Len(b) + Len(c)
         /\ \A i \in 1 .. Len(a) : ((a \o b) \o c)[i] = a[i]
         /\ \A i \in 1 .. Len(c) :
              ((a \o b) \o c)[i + (Len(a) + Len(b))] = c[i]
  <1>0. Len(a) \in Nat /\ Len(b) \in Nat /\ Len(c) \in Nat
    OBVIOUS
  <1>1. PICK d \in Seq(Token) :
          /\ d = a \o b /\ Len(d) = Len(a) + Len(b)
          /\ \A i \in 1 .. Len(a) : d[i] = a[i]
    BY JoinFacts, ZenonT(40)
  <1>e. /\ d \o c \in Seq(Token) /\ Len(d \o c) = Len(d) + Len(c)
        /\ \A i \in 1 .. Len(d) : (d \o c)[i] = d[i]
        /\ \A i \in (Len(d) + 1) .. (Len(d) + Len(c)) :
             (d \o c)[i] = c[i - Len(d)]
    BY JoinFacts, Zenon
  <1>2. PICK u \in Seq(Token) :
          /\ u = d \o c /\ Len(u) = Len(d) + Len(c)
          /\ \A i \in 1 .. Len(d) : u[i] = d[i]
          /\ \A i \in (Len(d) + 1) .. (Len(d) + Len(c)) : u[i] = c[i - Len(d)]
    BY <1>e, Zenon
  <1>3. ASSUME NEW i \in 1 .. Len(a) PROVE u[i] = a[i]
    <2>1. i \in 1 .. Len(d)
      BY <1>0, <1>1
    <2> QED
      BY <2>1, <1>1, <1>2
  <1>4. ASSUME NEW i \in 1 .. Len(c) PROVE u[i + (Len(a) + Len(b))] = c[i]
    <2> DEFINE j == i + Len(d)
    <2>1. j \in (Len(d) + 1) .. (Len(d) + Len(c)) /\ j - Len(d) = i
      BY <1>0, <1>1
    <2> HIDE DEF j
    <2>2. u[j] = c[j - Len(d)]
      BY <2>1, <1>2
    <2>3. u[j] = c[i]
      BY <2>1, <2>2, Zenon
    <2> QED
      BY <2>3, <1>1 DEF j
  <1>5. Len(u) = Len(a) + Len(b) + Len(c)
    BY <1>0, <1>1, <1>2
  <1>6. u = (a \o b) \o c
    BY <1>1, <1>2, Zenon
  <1> QED
    BY <1>3, <1>4, <1>5, <1>6, Zenon

(* Splicing moves what stood behind the range and leaves what stood before. *)
LEMMA SpliceFacts ==
  ASSUME NEW t \in Seq(Token), NEW typed \in Seq(Token),
         NEW first \in 0 .. Len(t), NEW last \in first .. Len(t)
  PROVE  LET u     == Splice(t, first, last, typed)
             shift == first + Len(typed) - last
         IN  /\ u \in Seq(Token) /\ Len(u) = Len(t) + shift
             /\ \A i \in 1 .. first : u[i] = t[i]
             /\ \A i \in (last + 1) .. Len(t) : u[i + shift] = t[i]
  <1>0. /\ Len(t) \in Nat /\ Len(typed) \in Nat /\ first \in Nat /\ last \in Nat
        /\ first <= last /\ last <= Len(t)
    OBVIOUS
  <1>a. /\ SubSeq(t, 1, first) \in Seq(Token) /\ Len(SubSeq(t, 1, first)) = first
        /\ \A i \in 1 .. first : SubSeq(t, 1, first)[i] = t[i]
    BY <1>0
  <1>1. PICK a \in Seq(Token) :
          /\ a = SubSeq(t, 1, first) /\ Len(a) = first
          /\ \A i \in 1 .. first : a[i] = t[i]
    BY <1>a, Zenon
  <1>b. /\ SubSeq(t, last + 1, Len(t)) \in Seq(Token)
        /\ Len(SubSeq(t, last + 1, Len(t))) = Len(t) - last
        /\ \A i \in 1 .. (Len(t) - last) :
             SubSeq(t, last + 1, Len(t))[i] = t[i + last]
    BY <1>0
  <1>2. PICK c \in Seq(Token) :
          /\ c = SubSeq(t, last + 1, Len(t)) /\ Len(c) = Len(t) - last
          /\ \A i \in 1 .. (Len(t) - last) : c[i] = t[i + last]
    BY <1>b, Zenon
  <1>c. /\ (a \o typed) \o c \in Seq(Token)
        /\ Len((a \o typed) \o c) = Len(a) + Len(typed) + Len(c)
        /\ \A i \in 1 .. Len(a) : ((a \o typed) \o c)[i] = a[i]
        /\ \A i \in 1 .. Len(c) :
             ((a \o typed) \o c)[i + (Len(a) + Len(typed))] = c[i]
    BY JoinThreeFacts, ZenonT(40)
  <1>3. PICK u \in Seq(Token) :
          /\ u = (a \o typed) \o c /\ Len(u) = Len(a) + Len(typed) + Len(c)
          /\ \A i \in 1 .. Len(a) : u[i] = a[i]
          /\ \A i \in 1 .. Len(c) : u[i + (Len(a) + Len(typed))] = c[i]
    BY <1>c, Zenon
  <1>4. u = Splice(t, first, last, typed)
    BY <1>1, <1>2, <1>3 DEF Splice
  <1>5. Len(u) = Len(t) + (first + Len(typed) - last)
    <2>1. Len(u) = first + Len(typed) + (Len(t) - last)
      BY <1>1, <1>2, <1>3, Zenon
    <2> QED
      BY <2>1, <1>0
  <1>6. \A i \in 1 .. first : u[i] = t[i]
    BY <1>1, <1>3, Zenon
  <1>7. ASSUME NEW i \in (last + 1) .. Len(t)
        PROVE  u[i + (first + Len(typed) - last)] = t[i]
    <2> DEFINE j == i - last
    <2>1. /\ j \in 1 .. (Len(t) - last) /\ j + last = i
          /\ j + (first + Len(typed)) = i + (first + Len(typed) - last)
      BY <1>0
    <2> HIDE DEF j
    <2>2. u[j + (first + Len(typed))] = c[j]
      BY <2>1, <1>1, <1>2, <1>3, Zenon
    <2>3. c[j] = t[i]
      BY <2>1, <1>2, Zenon
    <2> QED
      BY <2>1, <2>2, <2>3, Zenon
  <1> QED
    BY <1>4, <1>5, <1>6, <1>7, Zenon

(* A slice of a text, token by token.                                       *)
LEMMA SliceFacts ==
  ASSUME NEW t \in Seq(Token), NEW s \in Span, s.end <= Len(t)
  PROVE  /\ Slice0(t, s) \in Seq(Token) /\ Len(Slice0(t, s)) = SpanLen(s)
         /\ \A i \in 1 .. SpanLen(s) : Slice0(t, s)[i] = t[s.start + i]
  BY DEF Slice0, Span, SpanLen

(* Two slices that agree token by token are the same.                      *)
LEMMA SameSlice ==
  ASSUME NEW t \in Seq(Token), NEW u \in Seq(Token), NEW s \in Span, NEW m \in Span,
         s.end <= Len(t), m.end <= Len(u), SpanLen(s) = SpanLen(m),
         \A i \in 1 .. SpanLen(s) : t[s.start + i] = u[m.start + i]
  PROVE  Slice0(t, s) = Slice0(u, m)
  <1>1. /\ Slice0(t, s) \in Seq(Token) /\ Len(Slice0(t, s)) = SpanLen(s)
        /\ \A i \in 1 .. SpanLen(s) : Slice0(t, s)[i] = t[s.start + i]
    BY SliceFacts
  <1>2. /\ Slice0(u, m) \in Seq(Token) /\ Len(Slice0(u, m)) = SpanLen(s)
        /\ \A i \in 1 .. SpanLen(s) : Slice0(u, m)[i] = u[m.start + i]
    BY SliceFacts
  <1> QED
    BY <1>1, <1>2

(* The edit the client tells the session of when it splices.                *)
EditOfSplice(first, last, typed) ==
  [start |-> first, oldEnd |-> last, newEnd |-> first + Len(typed)]

(* A span an edit does not touch covers the same tokens afterwards.         *)
LEMMA UntouchedTextStays ==
  ASSUME NEW t \in Seq(Token), NEW typed \in Seq(Token),
         NEW first \in 0 .. Len(t), NEW last \in first .. Len(t),
         NEW s \in Span, s.end <= Len(t), NEW r \in Nat,
         ~Touches(EditOfSplice(first, last, typed), s)
  PROVE  LET u == Splice(t, first, last, typed)
             m == MapSpan(EditOfSplice(first, last, typed), s, r)
         IN  /\ m \in Span /\ m.rev = r /\ m.end <= Len(u)
             /\ SpanLen(m) = SpanLen(s)
             /\ Slice0(t, s) = Slice0(u, m)
  <1> DEFINE e == EditOfSplice(first, last, typed)
             u == Splice(t, first, last, typed)
             m == MapSpan(e, s, r)
             shift == first + Len(typed) - last
  <1>1. /\ e \in Edit /\ e.start = first /\ e.oldEnd = last
        /\ e.newEnd - e.oldEnd = shift
    BY DEF EditOfSplice, Edit
  <1>2. m \in Span /\ m.rev = r
    BY <1>1, MapSpanType
  <1>3. /\ u \in Seq(Token) /\ Len(u) = Len(t) + shift
        /\ \A i \in 1 .. first : u[i] = t[i]
        /\ \A i \in (last + 1) .. Len(t) : u[i + shift] = t[i]
    BY SpliceFacts
  <1>4. \/ s.end <= first /\ m.start = s.start /\ m.end = s.end
        \/ last <= s.start /\ m.start = s.start + shift /\ m.end = s.end + shift
    <2> HIDE DEF e, shift
    <2>1. ~Touches(e, s)
      BY DEF e
    <2> QED
      BY <1>1, <2>1, UntouchedSpansMoveRigidly
  <1>5. /\ s.start \in Nat /\ s.end \in Nat /\ s.start <= s.end /\ shift \in Int
        /\ Len(t) \in Nat /\ Len(typed) \in Nat /\ first \in Nat /\ last \in Nat
        /\ first <= Len(t) /\ last <= Len(t)
    BY DEF Span
  <1> HIDE DEF e, u, m
  <1>6. SpanLen(m) = SpanLen(s)
    BY <1>4, <1>5 DEF SpanLen
  <1>7. m.end <= Len(u)
    BY <1>3, <1>4, <1>5
  <1>8. ASSUME NEW i \in 1 .. SpanLen(s)
        PROVE  t[s.start + i] = u[m.start + i]
    <2>0. i \in Nat /\ i >= 1 /\ i <= s.end - s.start
      BY <1>5 DEF SpanLen
    <2>1. CASE s.end <= first /\ m.start = s.start
      <3>1. s.start + i \in 1 .. first
        BY <2>0, <2>1, <1>5
      <3> QED BY <3>1, <2>1, <1>3
    <2>2. CASE last <= s.start /\ m.start = s.start + shift
      <3>1. s.start + i \in (last + 1) .. Len(t)
        BY <2>0, <2>2, <1>5
      <3>2. m.start + i = (s.start + i) + shift
        BY <2>0, <2>2, <1>5
      <3> HIDE DEF shift
      <3> QED BY <3>1, <3>2, <1>3
    <2> QED BY <2>1, <2>2, <1>4
  <1>9. Slice0(t, s) = Slice0(u, m)
    BY <1>2, <1>3, <1>6, <1>7, <1>8, SameSlice
  <1> QED
    BY <1>2, <1>6, <1>7, <1>9 DEF e, u, m

----------------------------------------------------------------------------
(* Answers.                                                                *)

(* What round p makes of a region of text x, in language l.                 *)
AnswerIn(l, x, p, s, c) ==
  IF p < NumPasses THEN Lang(l, p, x, s, c)
  ELSE [kind |-> "Failed", children |-> <<>>]

(* An answer is an outcome a pass may give: the session of this module      *)
(* leaves nothing to chance that Engine does not leave open.                *)
LEMMA AnswerIsAnOutcome ==
  ASSUME NEW l \in Language, NEW x \in Text, NEW p \in Nat,
         NEW s \in SpansIn(x), NEW c \in Ctx
  PROVE  /\ AnswerIn(l, x, p, s, c) \in Outcome
         /\ p < NumPasses => AnswerIn(l, x, p, s, c) \in Parse(p, s, c)
  <1>1. CASE p < NumPasses
    <2>1. p \in 0 .. (NumPasses - 1)
      BY <1>1, ScheduleAssumption
    <2>2. Lang(l, p, x, s, c) \in Parse(p, s, c) \cap Outcome
      BY <2>1, LocalAssumption
    <2> QED
      BY <2>2, <1>1 DEF AnswerIn
  <1>2. CASE ~(p < NumPasses)
    BY <1>2 DEF AnswerIn, Outcome
  <1> QED
    BY <1>1, <1>2

(* The children of an outcome are regions.                                  *)
LEMMA OutcomeChildren ==
  ASSUME NEW o \in Outcome
  PROVE  /\ o.children \in Seq(Region)
         /\ \A k \in DOMAIN o.children : o.children[k] \in Region
         /\ (o.children = <<>>) <=> (DOMAIN o.children = {})
  <1>1. <<>> \in Seq(Region)
    OBVIOUS
  <1>2. o.children = <<>> \/ o.children \in Seq(Region)
    BY DEF Outcome
  <1>3. o.children \in Seq(Region)
    BY <1>1, <1>2
  <1>4. ASSUME NEW q \in Seq(Region)
        PROVE  /\ \A k \in DOMAIN q : q[k] \in Region
               /\ (q = <<>>) <=> (DOMAIN q = {})
    BY <1>4
  <1> QED
    BY <1>3, <1>4

(* Two answers, for regions s and m, that differ by where the regions are:  *)
(* the same kind, children as many, each as far from the start of its       *)
(* region as the other, of its region's revision and with the same context. *)
SameButMoved(a, s, b, m) ==
  /\ a \in Outcome /\ b \in Outcome
  /\ a.kind = b.kind
  /\ DOMAIN a.children = DOMAIN b.children
  /\ \A k \in DOMAIN a.children :
       /\ a.children[k] \in Region /\ b.children[k] \in Region
       /\ a.children[k].ctx = b.children[k].ctx
       /\ a.children[k].span.rev = s.rev /\ b.children[k].span.rev = m.rev
       /\ a.children[k].span.start - s.start = b.children[k].span.start - m.start
       /\ a.children[k].span.end - s.start = b.children[k].span.end - m.start
       /\ a.children[k].span.start >= s.start

(* A child of an outcome moved to a region.                                 *)
LEMMA MovedFields ==
  ASSUME NEW s \in Span, NEW o \in Outcome
  PROVE  LET a == MovedTo(s, o) IN
         /\ a.kind = o.kind /\ DOMAIN a.children = DOMAIN o.children
         /\ \A k \in DOMAIN o.children :
              /\ o.children[k] \in Region
              /\ a.children[k].ctx = o.children[k].ctx
              /\ a.children[k].span =
                   SpanOf(s.start + o.children[k].span.start,
                          s.start + o.children[k].span.end, s.rev)
  <1>2. \A k \in DOMAIN o.children : o.children[k] \in Region
    BY OutcomeChildren
  <1> DEFINE Kid(k) == [span |-> SpanOf(s.start + o.children[k].span.start,
                                        s.start + o.children[k].span.end, s.rev),
                        ctx  |-> o.children[k].ctx]
             a == MovedTo(s, o)
  <1>3. a = [kind |-> o.kind, children |-> [k \in DOMAIN o.children |-> Kid(k)]]
    BY DEF MovedTo
  <1>4. a.kind = o.kind /\ a.children = [k \in DOMAIN o.children |-> Kid(k)]
    BY <1>3
  <1>5. \A k \in DOMAIN o.children :
          /\ Kid(k).ctx = o.children[k].ctx
          /\ Kid(k).span = SpanOf(s.start + o.children[k].span.start,
                                  s.start + o.children[k].span.end, s.rev)
    OBVIOUS
  <1> HIDE DEF a, Kid
  <1> QED
    BY <1>2, <1>4, <1>5 DEF a

(* The same tokens get the same answer wherever they are.                   *)
LEMMA AnswersMove ==
  ASSUME NEW l \in Language, NEW x \in Text, NEW y \in Text, NEW p \in Nat,
         NEW s \in SpansIn(x), NEW m \in SpansIn(y), NEW c \in Ctx,
         Slice0(x, s) = Slice0(y, m)
  PROVE  SameButMoved(AnswerIn(l, x, p, s, c), s, AnswerIn(l, y, p, m, c), m)
  <1> DEFINE a == AnswerIn(l, x, p, s, c)
             b == AnswerIn(l, y, p, m, c)
  <1>0. a \in Outcome /\ b \in Outcome
    BY AnswerIsAnOutcome
  <1>1. s \in Span /\ m \in Span
    BY BoundsAssumption DEF SpansIn, Span
  <1>2. CASE p < NumPasses
    <2> DEFINE o == Lang(l, p, Slice0(x, s), Whole(Slice0(x, s)), c)
    <2>1. p \in 0 .. (NumPasses - 1)
      BY <1>2, ScheduleAssumption
    <2>2. o \in Outcome /\ Lang(l, p, x, s, c) = MovedTo(s, o)
      BY <2>1, LocalAssumption
    <2>3. o = Lang(l, p, Slice0(y, m), Whole(Slice0(y, m)), c)
      OBVIOUS
    <2>4. Lang(l, p, y, m, c) = MovedTo(m, o)
      BY <2>1, <2>3, LocalAssumption
    <2>5. a = MovedTo(s, o) /\ b = MovedTo(m, o)
      BY <1>2, <2>2, <2>4 DEF AnswerIn
    <2> HIDE DEF o, a, b
    <2>6. /\ a.kind = o.kind /\ b.kind = o.kind
          /\ DOMAIN a.children = DOMAIN o.children
          /\ DOMAIN b.children = DOMAIN o.children
          /\ \A k \in DOMAIN o.children :
               /\ o.children[k] \in Region
               /\ a.children[k].ctx = o.children[k].ctx
               /\ b.children[k].ctx = o.children[k].ctx
               /\ a.children[k].span =
                    SpanOf(s.start + o.children[k].span.start,
                           s.start + o.children[k].span.end, s.rev)
               /\ b.children[k].span =
                    SpanOf(m.start + o.children[k].span.start,
                           m.start + o.children[k].span.end, m.rev)
      BY <1>1, <2>2, <2>5, MovedFields
    <2>7. \A k \in DOMAIN a.children : a.children[k] \in Region
      BY <1>0, OutcomeChildren
    <2>8. \A k \in DOMAIN b.children : b.children[k] \in Region
      BY <1>0, OutcomeChildren
    <2>9. ASSUME NEW k \in DOMAIN o.children
          PROVE  /\ a.children[k].span.rev = s.rev /\ b.children[k].span.rev = m.rev
                 /\ a.children[k].span.start - s.start
                      = b.children[k].span.start - m.start
                 /\ a.children[k].span.end - s.start
                      = b.children[k].span.end - m.start
                 /\ a.children[k].span.start >= s.start
      <3> DEFINE r == o.children[k].span
      <3>1. /\ r.start \in Nat /\ r.end \in Nat
            /\ s.start \in Nat /\ m.start \in Nat
        BY <1>1, <2>6 DEF Span, Region
      <3>2. /\ a.children[k].span = SpanOf(s.start + r.start, s.start + r.end, s.rev)
            /\ b.children[k].span = SpanOf(m.start + r.start, m.start + r.end, m.rev)
        BY <2>6
      <3> HIDE DEF r
      <3> QED
        BY <3>1, <3>2 DEF SpanOf
    <2>10. \A k \in DOMAIN a.children :
             /\ a.children[k].ctx = b.children[k].ctx
             /\ a.children[k] \in Region /\ b.children[k] \in Region
      BY <2>6, <2>7, <2>8
    <2>11. a.kind = b.kind /\ DOMAIN a.children = DOMAIN b.children
      BY <2>6, Zenon
    <2>12. \A k \in DOMAIN a.children :
             /\ a.children[k].span.rev = s.rev /\ b.children[k].span.rev = m.rev
             /\ a.children[k].span.start - s.start
                  = b.children[k].span.start - m.start
             /\ a.children[k].span.end - s.start
                  = b.children[k].span.end - m.start
             /\ a.children[k].span.start >= s.start
      BY <2>6, <2>9, Zenon
    <2>13. SameButMoved(a, s, b, m)
      BY <1>0, <2>10, <2>11, <2>12 DEF SameButMoved
    <2> QED
      BY <2>13 DEF a, b
  <1>3. CASE ~(p < NumPasses)
    <2>1. a = [kind |-> "Failed", children |-> <<>>] /\ b = a
      BY <1>3 DEF AnswerIn
    <2>2. DOMAIN a.children = {}
      BY <2>1
    <2> QED
      BY <1>0, <2>1, <2>2 DEF SameButMoved
  <1> QED
    BY <1>2, <1>3

(* Answers that differ by the place only get the same verdict.              *)
LEMMA VerdictsMove ==
  ASSUME NEW t, NEW w, NEW n, NEW a, NEW b,
         t[n].span \in Span, w[n].span \in Span,
         SpanLen(t[n].span) = SpanLen(w[n].span),
         SameButMoved(a, t[n].span, b, w[n].span)
  PROVE  Applied(t, n, a, EnforceShrink) = Applied(w, n, b, EnforceShrink)
  <1> DEFINE s == t[n].span
             m == w[n].span
  <1>1. ASSUME NEW k \in DOMAIN a.children
        PROVE  ViolationKind(s, a.children[k].span, EnforceShrink)
                 = ViolationKind(m, b.children[k].span, EnforceShrink)
    <2> DEFINE f == a.children[k].span
               g == b.children[k].span
    <2>1. /\ f \in Span /\ g \in Span /\ f.rev = s.rev /\ g.rev = m.rev
          /\ f.start - s.start = g.start - m.start
          /\ f.end - s.start = g.end - m.start
          /\ f.start >= s.start
      BY DEF SameButMoved, Region
    <2> HIDE DEF f, g, s, m
    <2>2. /\ Contains(s, f) <=> Contains(m, g)
          /\ SpanLen(f) = SpanLen(g)
      BY <2>1 DEF Contains, SpanLen, Span, s, m
    <2>3. TooLong(s, f) <=> TooLong(m, g)
      BY <2>2 DEF TooLong, s, m
    <2>4. ViolationKind(s, f, EnforceShrink) = ViolationKind(m, g, EnforceShrink)
      BY <2>1, <2>2, <2>3 DEF ViolationKind
    <2> QED
      BY <2>4 DEF f, g
  <1>2. a.kind = b.kind /\ DOMAIN a.children = DOMAIN b.children
    BY DEF SameButMoved
  <1>3. Breaches(t, n, a, EnforceShrink) = Breaches(w, n, b, EnforceShrink)
    BY <1>1, <1>2 DEF Breaches
  <1>4. (a.children = <<>>) <=> (b.children = <<>>)
    BY <1>2, OutcomeChildren DEF SameButMoved
  <1> QED
    BY <1>2, <1>3, <1>4 DEF Applied

----------------------------------------------------------------------------
(* What a node says of a text: NodeIsCurrent, of any tree and text.         *)
NodeFits(l, x, t, n) ==
  /\ \A p \in Home(t[n]) .. (t[n].depth - 1) :
       Applied(t, n, AnswerIn(l, x, p, t[n].span, t[n].ctx), EnforceShrink) = "Failed"
  /\ t[n].status = "Failed" => t[n].attempts > 0
  /\ t[n].status \in {"Done", "Expanded"} =>
       Applied(t, n, AnswerIn(l, x, t[n].depth, t[n].span, t[n].ctx), EnforceShrink)
         = t[n].status
  /\ t[n].status = "Expanded" =>
       [i \in DOMAIN t[n].children |-> RegionOf(t, t[n].children[i])]
         = AnswerIn(l, x, t[n].depth, t[n].span, t[n].ctx).children

(* What waits to be merged is what the passes say of the text.              *)
AnswersFit(l, x, t, r, results) ==
  \A n \in DOMAIN results : results[n] = AnswerIn(l, x, r, t[n].span, t[n].ctx)

(* NodeIsCurrent and NodeFits say the same, of this state ...              *)
LEMMA CurrentIsFits ==
  EveryNodeIsCurrent <=> /\ \A n \in Live(nodes) : NodeFits(language, text, nodes, n)
                         /\ AnswersFit(language, text, nodes, round, outcomes)
  BY DEF EveryNodeIsCurrent, NodeIsCurrent, NodeFits, AnswersFit, Verdict, Said, AnswerIn

(* ... and of the next one.                                                *)
LEMMA CurrentIsFitsNext ==
  EveryNodeIsCurrent' <=>
    /\ \A n \in Live(nodes') : NodeFits(language', text', nodes', n)
    /\ AnswersFit(language', text', nodes', round', outcomes')
  BY DEF EveryNodeIsCurrent, NodeIsCurrent, NodeFits, AnswersFit, Verdict, Said, AnswerIn

(* A node that was just reset says nothing.                                 *)
LEMMA ResetFits ==
  ASSUME NEW l, NEW x, NEW t, NEW n, t[n].status = "Unparsed",
         t[n].attempts = 0, t[n].depth \in Nat
  PROVE  NodeFits(l, x, t, n)
  BY DEF NodeFits, Home

(* What a node says depends on its own record and its children's regions.   *)
LEMMA SameNodeFits ==
  ASSUME NEW l, NEW x, NEW t, NEW w, NEW n, NodeFits(l, x, t, n), w[n] = t[n],
         \A i \in DOMAIN t[n].children :
           RegionOf(w, t[n].children[i]) = RegionOf(t, t[n].children[i])
  PROVE  NodeFits(l, x, w, n)
  <1>1. \A o : Applied(w, n, o, EnforceShrink) = Applied(t, n, o, EnforceShrink)
    BY DEF Applied, Breaches
  <1>2. [i \in DOMAIN w[n].children |-> RegionOf(w, w[n].children[i])]
          = [i \in DOMAIN t[n].children |-> RegionOf(t, t[n].children[i])]
    OBVIOUS
  <1> QED
    BY <1>1, <1>2 DEF NodeFits

(* Every live span lies in the root's.                                      *)
LEMMA NestedInRoot ==
  ASSUME NEW t, IsArena(t), WellShaped(t), Homed(t), NEW r, Nested(t, r),
         NEW n \in Live(t)
  PROVE  Contains(t[Root].span, t[n].span)
  <1> DEFINE Out(k) == ~Contains(t[Root].span, t[k].span)
             S == {Home(t[k]) : k \in {j \in Live(t) : Out(j)}}
  <1>1. /\ Root \in Live(t)
        /\ \A k \in Live(t) : /\ k \in DOMAIN t /\ t[k] \in Node
                             /\ t[k].span \in Span
                             /\ t[k].depth \in Nat /\ t[k].attempts \in Nat
                             /\ t[k].attempts <= t[k].depth
    BY ArenaFacts DEF Live, Homed, WellShaped, RootAlive, Node
  <1>2. S \in SUBSET Nat
    BY <1>1 DEF Home
  <1>3. SUFFICES ASSUME S # {} PROVE FALSE
    OBVIOUS
  <1>4. PICK h \in S : \A g \in S : h <= g
    BY <1>2, <1>3, LeastNatural
  <1>5. PICK k \in Live(t) : Out(k) /\ Home(t[k]) = h
    BY <1>4
  <1>6. k # Root
    BY <1>1, <1>5 DEF Contains, Span
  <1> DEFINE p == t[k].parent
  <1>7. /\ p \in Live(t) /\ Contains(t[p].span, t[k].span)
        /\ Home(t[k]) > t[p].depth
    BY <1>6 DEF WellShaped, ParentsListTheirKids, Nested, Homed, Home
  <1>8. Home(t[p]) < h
    BY <1>1, <1>5, <1>7 DEF Home
  <1>9. Out(p)
    <2> HIDE DEF p
    <2> QED BY <1>1, <1>5, <1>7 DEF Contains, Span
  <1>10. Home(t[p]) \in S
    BY <1>7, <1>9
  <1>11. h <= Home(t[p]) /\ h \in Nat /\ Home(t[p]) \in Nat
    BY <1>2, <1>4, <1>10
  <1> QED
    BY <1>8, <1>11

----------------------------------------------------------------------------
(* The text the session is of.                                             *)

Tracked == TextTypeOK /\ edits <= MaxEdits

(* What is known of the text, the revision and the language.               *)
LEMMA TrackedFacts ==
  ASSUME Tracked
  PROVE  /\ text \in Text /\ text \in Seq(Token) /\ language \in Language
         /\ textLen = Len(text) /\ rev = edits /\ rev <= MaxEdits /\ ~cancel
  BY TextAssumption DEF Tracked, TextTypeOK

(* A live node is of a region of the text.                                  *)
LEMMA LiveFacts ==
  ASSUME IInv, Tracked, NEW n \in Live(nodes)
  PROVE  /\ n \in DOMAIN nodes /\ nodes[n] \in Node
         /\ nodes[n].span \in Span /\ nodes[n].span \in SpansIn(text)
         /\ nodes[n].span.rev = rev /\ nodes[n].span.end <= Len(text)
         /\ nodes[n].ctx \in Ctx
  <1>1. /\ IsArena(nodes) /\ WellShaped(nodes) /\ Homed(nodes) /\ Nested(nodes, rev)
        /\ n \in DOMAIN nodes /\ nodes[n] \in Node
    BY IInvFacts DEF Live
  <1>2. nodes[Root].span = SpanOf(0, textLen, rev)
    BY DEF IInv, SpansNested
  <1>3. Contains(nodes[Root].span, nodes[n].span)
    BY <1>1, NestedInRoot
  <1>4. nodes[n].span \in Span /\ nodes[n].ctx \in Ctx /\ nodes[n].span.rev = rev
    BY <1>1 DEF Node, Nested
  <1>5. nodes[n].span.end <= Len(text) /\ Len(text) \in Nat
    BY <1>2, <1>3, TrackedFacts DEF Contains, SpanOf
  <1>6. nodes[n].span \in SpansIn(text)
    BY <1>4, <1>5, TrackedFacts, BoundsAssumption DEF Span, SpansIn
  <1> QED
    BY <1>1, <1>4, <1>5, <1>6

(* The same of the spans of the next state.                                *)
LEMMA LiveFactsNext ==
  ASSUME IInv', Tracked', NEW n \in Live(nodes')
  PROVE  nodes'[n].span \in SpansIn(text')
  <1>1. /\ IsArena(nodes') /\ WellShaped(nodes') /\ Homed(nodes')
        /\ Nested(nodes', rev') /\ n \in DOMAIN nodes' /\ nodes'[n] \in Node
        /\ nodes'[Root].span = SpanOf(0, textLen', rev')
    BY ArenaFacts DEF IInv, TypeOK, TreeShape, HomeRounds, SpansNested, Live
  <1>2. Contains(nodes'[Root].span, nodes'[n].span)
    BY <1>1, NestedInRoot
  <1>3. nodes'[n].span \in Span /\ nodes'[n].span.rev = rev'
    BY <1>1 DEF Node, Nested
  <1>4. /\ Len(text') = textLen' /\ rev' = edits' /\ edits' <= MaxEdits
        /\ textLen' \in Nat
    BY DEF Tracked, TextTypeOK, IInv, TypeOK
  <1> QED
    BY <1>1, <1>2, <1>3, <1>4, BoundsAssumption DEF Contains, SpanOf, Span, SpansIn

(* What is typed is an edit of the engine, and the text follows it.         *)
LEMMA TypeFacts ==
  ASSUME IInv, Tracked, NEW first \in 0 .. Len(text), NEW typed \in Typed,
         NEW last \in first .. Len(text), Type(first, last, typed)
  PROVE  LET e == EditOfSplice(first, last, typed) IN
         /\ e \in EditsOf(textLen) /\ e \in Edit /\ EditText(e)
         /\ text' = Splice(text, first, last, typed) /\ typed \in Seq(Token)
         /\ Tracked'
  <1> DEFINE e == EditOfSplice(first, last, typed)
  <1>1. /\ EditText(e) /\ text' = Splice(text, first, last, typed)
        /\ text' \in Text /\ language' = language
    BY DEF Type, EditOfSplice
  <1>2. typed \in Seq(Token) /\ text \in Seq(Token) /\ Len(text) = textLen
    BY TextAssumption, TrackedFacts
  <1>3. Len(text') = Len(text) + (first + Len(typed) - last)
    BY <1>1, <1>2, SpliceFacts
  <1>4. /\ Len(typed) \in Nat /\ Len(text) \in Nat /\ first \in Nat /\ last \in Nat
        /\ first <= last /\ last <= Len(text) /\ MaxLen \in Nat
    BY <1>2, BoundsAssumption
  <1>5. /\ e.start = first /\ e.oldEnd = last /\ e.newEnd = first + Len(typed)
        /\ e = [start |-> e.start, oldEnd |-> e.oldEnd, newEnd |-> e.newEnd]
    BY DEF EditOfSplice
  <1> HIDE DEF e
  <1>6. e \in Edit
    BY <1>4, <1>5 DEF Edit
  <1>7. /\ textLen' = e.newEnd + (textLen - e.oldEnd) /\ textLen' <= MaxLen
        /\ edits' = edits + 1 /\ edits < MaxEdits /\ rev' = rev + 1
        /\ cancel' = cancel
    BY <1>1 DEF EditText
  <1>8. e.newEnd <= MaxLen
    BY <1>2, <1>4, <1>5, <1>7
  <1>9. e \in EditsOf(textLen)
    BY <1>2, <1>4, <1>5, <1>6, <1>8 DEF EditsOf
  <1>10. Tracked'
    <2>1. textLen' = Len(text')
      BY <1>2, <1>3, <1>4, <1>5, <1>7
    <2>2. edits' <= MaxEdits
      BY <1>7, BoundsAssumption DEF IInv, TypeOK
    <2> QED
      BY <1>1, <1>7, <2>1, <2>2 DEF Tracked, TextTypeOK
  <1> QED
    BY <1>1, <1>2, <1>6, <1>9, <1>10 DEF e

(* Running a pass on the text is what the engine's executor may do.         *)
LEMMA ParseJobIsExecuteJob ==
  ASSUME IInv, Tracked, NEW id \in todo, ParseJob(id)
  PROVE  ExecuteJob(id)
  <1>1. id \in Live(nodes)
    BY DEF IInv, TypeOK, BatchStaysReady, IsPending, Live
  <1>2. Said(round, id) = AnswerIn(language, text, round, nodes[id].span, nodes[id].ctx)
    BY DEF Said, AnswerIn
  <1>3. round \in Nat
    BY IInvFacts
  <1>4. /\ Said(round, id) \in Outcome
        /\ round < NumPasses =>
             Said(round, id) \in Parse(round, nodes[id].span, nodes[id].ctx)
    BY <1>1, <1>2, <1>3, LiveFacts, TrackedFacts, AnswerIsAnOutcome
  <1>5. Said(round, id) \in PassOutcomes(id)
    BY <1>4 DEF PassOutcomes, Said
  <1> QED
    BY <1>4, <1>5 DEF ParseJob, ExecuteJob

(* The kinds of step a session with a text takes.                           *)
LEMMA TextSteps ==
  ASSUME [NextText]_allVars
  PROVE  \/ \E first \in 0 .. Len(text), typed \in Typed :
              \E last \in first .. Len(text) : Type(first, last, typed)
         \/ \E id \in todo : ParseJob(id)
         \/ \E id \in DOMAIN outcomes : MergeJob(id) /\ UNCHANGED <<text, language>>
         \/ /\ \/ StartRun \/ RoundsExhausted \/ NothingReady \/ CollectJobs
               \/ FinishBatch \/ EndRound
            /\ UNCHANGED <<text, language>>
         \/ UNCHANGED allVars
  BY DEF NextText, RunStep

(* Every step of the session is a step of the engine.                       *)
LEMMA StepsAreTheEngines ==
  ASSUME IInv, Tracked, [NextText]_allVars
  PROVE  [Next]_vars
  <1>1. ASSUME NEW first \in 0 .. Len(text), NEW typed \in Typed,
               NEW last \in first .. Len(text), Type(first, last, typed)
        PROVE  Next
    BY <1>1, TypeFacts DEF Next
  <1>2. ASSUME NEW id \in todo, ParseJob(id)
        PROVE  Next
    BY <1>2, ParseJobIsExecuteJob DEF Next, EngineStep
  <1>3. CASE UNCHANGED allVars
    BY <1>3 DEF allVars
  <1>4. ASSUME \/ \E id \in DOMAIN outcomes : MergeJob(id)
               \/ StartRun \/ RoundsExhausted \/ NothingReady \/ CollectJobs
               \/ FinishBatch \/ EndRound
        PROVE  Next
    BY <1>4 DEF Next, EngineStep, FinishBatch
  <1> QED
    BY <1>1, <1>2, <1>3, <1>4, TextSteps

(* The text stays one of the texts, and as long as the session thinks.      *)
LEMMA NextTracked ==
  ASSUME IInv, Tracked, [NextText]_allVars
  PROVE  Tracked'
  <1>1. ASSUME NEW first \in 0 .. Len(text), NEW typed \in Typed,
               NEW last \in first .. Len(text), Type(first, last, typed)
        PROVE  Tracked'
    BY <1>1, TypeFacts
  <1>2. ASSUME UNCHANGED <<text, language, textLen, rev, edits, cancel>>
        PROVE  Tracked'
    BY <1>2 DEF Tracked, TextTypeOK
  <1>3. ASSUME NEW id \in todo, ParseJob(id)
        PROVE  Tracked'
    BY <1>2, <1>3 DEF ParseJob, treeVars, counters
  <1>4. CASE UNCHANGED allVars
    BY <1>2, <1>4 DEF allVars, vars, treeVars, counters
  <1>5. ASSUME NEW id \in DOMAIN outcomes, MergeJob(id), UNCHANGED <<text, language>>
        PROVE  Tracked'
    BY <1>2, <1>5 DEF MergeJob, counters
  <1>6. CASE /\ \/ StartRun \/ RoundsExhausted \/ NothingReady \/ CollectJobs
                \/ FinishBatch \/ EndRound
             /\ UNCHANGED <<text, language>>
    BY <1>2, <1>6 DEF StartRun, RoundsExhausted, NothingReady, CollectJobs,
       FinishBatch, StopBatch, EndRound, Return, treeVars, counters
  <1> QED
    BY <1>1, <1>3, <1>4, <1>5, <1>6, TextSteps

----------------------------------------------------------------------------
(* Nothing the tree says is about an older text.                           *)

(* A region inside one the edit does not touch goes where that one goes.    *)
LEMMA InnerSpansFollow ==
  ASSUME NEW e \in Edit, NEW s \in Span, NEW c \in Span, NEW r \in Nat,
         Contains(s, c), ~Touches(e, s)
  PROVE  LET m == MapSpan(e, s, r)
             d == MapSpan(e, c, r)
         IN  /\ d.start - m.start = c.start - s.start
             /\ d.end - m.start = c.end - s.start
  BY DEF Edit, Span, Touches, IsInsertion, Contains, SpanOf, MapSpan, MapPos, MapEnd

(* A node an edit does not touch says of the new text what it said of the   *)
(* old one, which reads the same there.                                     *)
LEMMA UntouchedNodeFits ==
  ASSUME IInv, Tracked, NEW first \in 0 .. Len(text), NEW typed \in Typed,
         NEW last \in first .. Len(text), Type(first, last, typed),
         NEW n \in Live(nodes), NodeFits(language, text, nodes, n),
         ~Touches(EditOfSplice(first, last, typed), nodes[n].span)
  PROVE  NodeFits(language, text', nodes', n)
  <1> DEFINE e == EditOfSplice(first, last, typed)
             s == nodes[n].span
             c == nodes[n].ctx
             m == MapSpan(e, s, rev + 1)
             Old(p) == AnswerIn(language, text, p, s, c)
             New(p) == AnswerIn(language, text', p, m, c)
  <1>1. /\ e \in Edit /\ typed \in Seq(Token)
        /\ text' = Splice(text, first, last, typed)
        /\ nodes' = EditTree(nodes, e, rev + 1) /\ rev' = rev + 1 /\ Tracked' /\ IInv'
    BY TypeFacts, EditKeepsIInv DEF EditText
  <1>2. /\ IsArena(nodes) /\ WellShaped(nodes) /\ Homed(nodes) /\ Nested(nodes, rev)
    BY IInvFacts
  <1>3. /\ n \in DOMAIN nodes /\ nodes[n] \in Node /\ s \in Span /\ c \in Ctx
        /\ s \in SpansIn(text) /\ s.end <= Len(text) /\ rev + 1 \in Nat
        /\ text \in Text /\ text' \in Text /\ language \in Language
        /\ text \in Seq(Token)
    BY <1>1, LiveFacts, TrackedFacts DEF IInv, TypeOK, Tracked, TextTypeOK
  <1>4. ASSUME NEW k \in Live(nodes), ~Touches(e, nodes[k].span)
        PROVE  nodes'[k] = [nodes[k] EXCEPT !.span = MapSpan(e, nodes[k].span, rev + 1)]
    BY <1>1, <1>4 DEF EditTree, EditNode, Live
  <1>5. nodes'[n] = [nodes[n] EXCEPT !.span = m]
    BY <1>4
  <1>6. /\ nodes'[n].span = m /\ nodes'[n].ctx = c
        /\ nodes'[n].status = nodes[n].status /\ nodes'[n].depth = nodes[n].depth
        /\ nodes'[n].attempts = nodes[n].attempts
        /\ nodes'[n].children = nodes[n].children
        /\ Home(nodes'[n]) = Home(nodes[n])
    <2> HIDE DEF m
    <2> QED BY <1>3, <1>5 DEF Node, Home
  <1>7. /\ m \in Span /\ SpanLen(m) = SpanLen(s) /\ Slice0(text, s) = Slice0(text', m)
    BY <1>1, <1>3, UntouchedTextStays
  <1>8. m \in SpansIn(text')
    <2>1. n \in Live(nodes')
      BY <1>1, <1>3, <1>5 DEF Live, EditTree, Node
    <2> QED
      BY <2>1, <1>1, <1>6, LiveFactsNext
  <1> HIDE DEF e, m
  <1>9. ASSUME NEW p \in Nat
        PROVE  /\ SameButMoved(Old(p), s, New(p), m)
               /\ Applied(nodes, n, Old(p), EnforceShrink)
                    = Applied(nodes', n, New(p), EnforceShrink)
    <2>1. SameButMoved(Old(p), s, New(p), m)
      BY <1>3, <1>7, <1>8, AnswersMove
    <2> HIDE DEF Old, New
    <2> QED
      BY <2>1, <1>3, <1>6, <1>7, VerdictsMove
  <1>10. nodes[n].depth \in Nat /\ nodes[n].attempts \in Nat
         /\ nodes[n].attempts <= nodes[n].depth
    BY <1>2, <1>3 DEF Node, Homed
  <1>11. \A p \in Home(nodes'[n]) .. (nodes'[n].depth - 1) :
           Applied(nodes', n, New(p), EnforceShrink) = "Failed"
    <2> SUFFICES ASSUME NEW p \in Home(nodes[n]) .. (nodes[n].depth - 1)
                 PROVE  Applied(nodes', n, New(p), EnforceShrink) = "Failed"
      BY <1>6
    <2>1. p \in Nat
      BY <1>10 DEF Home
    <2>2. Applied(nodes, n, Old(p), EnforceShrink) = "Failed"
      BY DEF NodeFits
    <2> QED
      BY <2>1, <2>2, <1>9
  <1>12. nodes'[n].status \in {"Done", "Expanded"} =>
           Applied(nodes', n, New(nodes'[n].depth), EnforceShrink) = nodes'[n].status
    <2>1. nodes[n].status \in {"Done", "Expanded"} =>
            Applied(nodes, n, Old(nodes[n].depth), EnforceShrink) = nodes[n].status
      BY DEF NodeFits
    <2> QED
      BY <2>1, <1>6, <1>9, <1>10
  <1>13. ASSUME nodes'[n].status = "Expanded"
         PROVE  [i \in DOMAIN nodes'[n].children |->
                   RegionOf(nodes', nodes'[n].children[i])]
                  = New(nodes'[n].depth).children
    <2> DEFINE a == Old(nodes[n].depth)
               b == New(nodes[n].depth)
               kids == nodes[n].children
    <2>1. [i \in DOMAIN kids |-> RegionOf(nodes, kids[i])] = a.children
      BY <1>6, <1>13 DEF NodeFits
    <2>2. SameButMoved(a, s, b, m)
      BY <1>9, <1>10
    <2> HIDE DEF a, b, Old, New
    <2>3. /\ DOMAIN kids = DOMAIN a.children /\ DOMAIN kids = DOMAIN b.children
          /\ \A i \in DOMAIN kids : RegionOf(nodes, kids[i]) = a.children[i]
      BY <2>1, <2>2 DEF SameButMoved
    <2>4. ASSUME NEW i \in DOMAIN kids
          PROVE  RegionOf(nodes', kids[i]) = b.children[i]
      <3> DEFINE j == kids[i]
                 f == nodes[j].span
                 g == MapSpan(e, f, rev + 1)
      <3>1. /\ j \in Live(nodes) \ {Root} /\ nodes[j].parent = n
        BY <1>2, <1>3 DEF WellShaped, KidsPointBack
      <3>2. /\ Contains(s, f) /\ f \in Span /\ nodes[j] \in Node
        BY <3>1, <1>2, LiveFacts DEF Nested
      <3>3. ~Touches(e, f)
        BY <3>2, <1>1, <1>3, TouchesUpward DEF e
      <3>4. nodes'[j] = [nodes[j] EXCEPT !.span = g]
        BY <3>1, <3>3, <1>4
      <3>5. g \in Span /\ g.rev = rev + 1 /\ m.rev = rev + 1
        BY <3>2, <1>1, <1>3, MapSpanType DEF m
      <3>6. g.start - m.start = f.start - s.start /\ g.end - m.start = f.end - s.start
        BY <3>2, <1>1, <1>3, InnerSpansFollow DEF e, m
      <3> HIDE DEF g, j
      <3>7. nodes'[j].span = g /\ nodes'[j].ctx = nodes[j].ctx
        BY <3>2, <3>4 DEF Node
      <3>8. /\ a.children[i].span = f /\ a.children[i].ctx = nodes[j].ctx
            /\ b.children[i] \in Region
        <4>1. a.children[i] = [span |-> f, ctx |-> nodes[j].ctx]
          BY <2>3 DEF RegionOf, j
        <4>2. b.children[i] \in Region
          BY <2>2, <2>3 DEF SameButMoved
        <4> QED
          BY <4>1, <4>2
      <3> DEFINE h == b.children[i].span
      <3>9. /\ h \in Span /\ h.rev = m.rev /\ b.children[i].ctx = nodes[j].ctx
            /\ f.start - s.start = h.start - m.start
            /\ f.end - s.start = h.end - m.start
            /\ b.children[i] = [span |-> h, ctx |-> b.children[i].ctx]
        BY <2>2, <2>3, <3>8 DEF SameButMoved, Region
      <3> HIDE DEF h, f
      <3>10. h = g
        <4>1. /\ f.start \in Int /\ f.end \in Int /\ s.start \in Int
              /\ m.start \in Int /\ g.start \in Int /\ g.end \in Int
              /\ h.start \in Int /\ h.end \in Int
          BY <3>2, <3>5, <3>9, <1>3, <1>7 DEF Span
        <4>2. \A x, y, z \in Int : x - z = y - z => x = y
          OBVIOUS
        <4>3. g.start - m.start = h.start - m.start /\ g.end - m.start = h.end - m.start
          BY <3>6, <3>9, Zenon
        <4>4. g.start = h.start /\ g.end = h.end
          BY <4>1, <4>2, <4>3, Zenon
        <4>5. g.rev = h.rev
          BY <3>5, <3>9, Zenon
        <4> QED
          BY <4>4, <4>5, <3>5, <3>9 DEF Span
      <3> QED
        BY <3>7, <3>9, <3>10 DEF RegionOf, j
    <2>5. b.children = [i \in DOMAIN kids |-> RegionOf(nodes', kids[i])]
      <3>1. b.children \in Seq(Region)
        BY <2>2, OutcomeChildren DEF SameButMoved
      <3> QED
        BY <3>1, <2>3, <2>4
    <2> QED
      BY <2>5, <1>6 DEF b
  <1>14. nodes'[n].status = "Failed" => nodes'[n].attempts > 0
    BY <1>6 DEF NodeFits
  <1> QED
    BY <1>6, <1>11, <1>12, <1>13, <1>14 DEF NodeFits

(* Typing keeps every node true to the text: those it touches are reset.    *)
LEMMA TypeKeepsCurrent ==
  ASSUME IInv, Tracked, EveryNodeIsCurrent,
         NEW first \in 0 .. Len(text), NEW typed \in Typed,
         NEW last \in first .. Len(text), Type(first, last, typed)
  PROVE  EveryNodeIsCurrent'
  <1> DEFINE e == EditOfSplice(first, last, typed)
  <1>1. /\ e \in Edit /\ EditText(e) /\ nodes' = EditTree(nodes, e, rev + 1)
        /\ rev + 1 \in Nat
    BY TypeFacts DEF EditText, IInv, TypeOK
  <1> HIDE DEF e
  <1>2. language' = language /\ outcomes' = outcomes /\ DOMAIN outcomes = {}
    BY <1>1 DEF Type, EditText, Resting, IInv, Quiet
  <1>3. ASSUME NEW n \in Live(nodes')
        PROVE  NodeFits(language, text', nodes', n)
    <2>1. n \in Live(nodes) /\ nodes'[n] = EditNode(nodes[n], e, rev + 1)
      <3>1. n \in DOMAIN nodes
        BY <1>1 DEF Live, EditTree
      <3>2. nodes'[n] = IF nodes[n].alive THEN EditNode(nodes[n], e, rev + 1)
                        ELSE nodes[n]
        BY <1>1, <3>1 DEF EditTree
      <3> QED
        BY <3>1, <3>2 DEF Live
    <2>2. nodes[n] \in Node /\ nodes[n].attempts <= nodes[n].depth
      BY <2>1, IInvFacts DEF Live, Homed
    <2>3. CASE Touches(e, nodes[n].span)
      <3>1. /\ nodes'[n].status = "Unparsed" /\ nodes'[n].attempts = 0
            /\ nodes'[n].depth \in Nat
        BY <2>1, <2>2, <2>3, <1>1, EditNodeType DEF Node
      <3> QED
        BY <3>1, ResetFits
    <2>4. CASE ~Touches(e, nodes[n].span)
      <3>1. NodeFits(language, text, nodes, n)
        BY <2>1, CurrentIsFits
      <3> QED
        BY <2>1, <2>4, <3>1, UntouchedNodeFits DEF e
    <2> QED
      BY <2>3, <2>4
  <1>4. AnswersFit(language', text', nodes', round', outcomes')
    BY <1>2 DEF AnswersFit
  <1> QED
    BY <1>2, <1>3, <1>4, CurrentIsFitsNext

(* Merging an answer to the text keeps them so too: the node is as the      *)
(* answer says, its new children are reset, and no other node changes.      *)
LEMMA MergeKeepsCurrent ==
  ASSUME IInv, Tracked, EveryNodeIsCurrent, NEW id \in DOMAIN outcomes,
         MergeJob(id), UNCHANGED <<text, language>>
  PROVE  EveryNodeIsCurrent'
  <1> DEFINE o == outcomes[id]
             Ans(p) == AnswerIn(language, text, p, nodes[id].span, nodes[id].ctx)
  <1>1. /\ IsArena(nodes) /\ WellShaped(nodes) /\ Homed(nodes)
        /\ Root \in DOMAIN nodes /\ round \in Nat
        /\ \A n \in DOMAIN nodes : nodes[n] \in Node
    BY IInvFacts
  <1>2. /\ Merges(nodes, nodes', id, round) /\ id \in Live(nodes) /\ id \in DOMAIN nodes
        /\ nodes[id].depth = round /\ IInv'
    BY MergeKeepsIInv DEF Live
  <1>3. /\ \A n \in Live(nodes) : NodeFits(language, text, nodes, n)
        /\ AnswersFit(language, text, nodes, round, outcomes)
    BY CurrentIsFits
  <1>4. o = Ans(round) /\ o \in Outcome
    BY <1>3 DEF AnswersFit, IInv, TypeOK
  <1>5. /\ nodes' = Apply(nodes, id, o, round, EnforceShrink)
        /\ round' = round /\ DOMAIN outcomes' \subseteq DOMAIN outcomes
        /\ \A n \in DOMAIN outcomes' : outcomes'[n] = outcomes[n]
    BY DEF MergeJob
  <1> HIDE DEF o
  <1>6. /\ DOMAIN nodes \subseteq DOMAIN nodes'
        /\ \A n \in DOMAIN nodes : /\ nodes'[n].span = nodes[n].span
                                  /\ nodes'[n].ctx = nodes[n].ctx
                                  /\ RegionOf(nodes', n) = RegionOf(nodes, n)
        /\ \A n \in DOMAIN nodes \ {id} :
             nodes'[n].alive => nodes'[n] = nodes[n] /\ nodes[n].alive
    BY <1>2 DEF Merges, RegionOf
  <1>7. AnswersFit(language', text', nodes', round', outcomes')
    <2>1. DOMAIN outcomes \subseteq DOMAIN nodes
      BY DEF IInv, TypeOK
    <2> QED
      BY <2>1, <1>3, <1>5, <1>6 DEF AnswersFit
  <1>8. ASSUME NEW n \in DOMAIN nodes \ {id}, nodes'[n].alive
        PROVE  NodeFits(language, text, nodes', n)
    <2>1. n \in Live(nodes) /\ nodes'[n] = nodes[n]
      BY <1>6, <1>8 DEF Live
    <2>2. \A i \in DOMAIN nodes[n].children : nodes[n].children[i] \in DOMAIN nodes
      BY <1>1 DEF WellShaped, KidsPointBack, Live
    <2> QED
      BY <2>1, <2>2, <1>3, <1>6, SameNodeFits
  <1>9. /\ \A p \in Home(nodes[id]) .. (round - 1) :
             Applied(nodes', id, Ans(p), EnforceShrink) = "Failed"
        /\ Applied(nodes', id, Ans(round), EnforceShrink)
             = Applied(nodes, id, o, EnforceShrink)
    <2>1. \A q : Applied(nodes', id, q, EnforceShrink)
                   = Applied(nodes, id, q, EnforceShrink)
      BY <1>2, <1>6 DEF Applied, Breaches
    <2>2. \A p \in Home(nodes[id]) .. (round - 1) :
            Applied(nodes, id, Ans(p), EnforceShrink) = "Failed"
      BY <1>2, <1>3 DEF NodeFits
    <2> QED
      BY <2>1, <2>2, <1>4
  <1> HIDE DEF Ans
  <1>10. CASE Applied(nodes, id, o, EnforceShrink) = "Done"
    <2>1. nodes' = Accept(nodes, id)
      BY <1>5, <1>10 DEF Apply
    <2>2. /\ nodes'[id].status = "Done" /\ nodes'[id].depth = round
          /\ DOMAIN nodes' = DOMAIN nodes /\ Home(nodes'[id]) = Home(nodes[id])
      BY <2>1, <1>1, <1>2, AcceptSettles DEF Settles, Home
    <2>3. NodeFits(language, text, nodes', id)
      BY <2>2, <1>2, <1>6, <1>9, <1>10 DEF NodeFits, Ans
    <2> QED
      BY <2>2, <2>3, <1>7, <1>8, CurrentIsFitsNext DEF Live
  <1>11. CASE Applied(nodes, id, o, EnforceShrink) = "Failed"
    <2>1. nodes' = Fail(nodes, id, round)
      BY <1>5, <1>11 DEF Apply
    <2>2. /\ nodes'[id].status = "Failed" /\ nodes'[id].depth = round + 1
          /\ DOMAIN nodes' = DOMAIN nodes /\ Home(nodes'[id]) = Home(nodes[id])
          /\ nodes'[id] \in Node
      BY <2>1, <1>1, <1>2, FailSettles DEF Settles, Home
    <2>3. nodes'[id].attempts > 0 /\ Home(nodes[id]) \in Nat
      BY <2>2, <1>1, <1>2 DEF Home, Node, Homed
    <2>4. \A p \in Home(nodes'[id]) .. (nodes'[id].depth - 1) :
            Applied(nodes', id, Ans(p), EnforceShrink) = "Failed"
      <3> TAKE p \in Home(nodes'[id]) .. (nodes'[id].depth - 1)
      <3>1. p \in Home(nodes[id]) .. (round - 1) \/ p = round
        BY <2>2, <2>3, <1>1
      <3> QED
        BY <3>1, <1>9, <1>11
    <2>5. NodeFits(language, text, nodes', id)
      BY <2>2, <2>3, <2>4, <1>2, <1>6 DEF NodeFits, Ans
    <2> QED
      BY <2>2, <2>5, <1>7, <1>8, CurrentIsFitsNext DEF Live
  <1>12. CASE Applied(nodes, id, o, EnforceShrink) = "Expanded"
    <2> DEFINE kids == o.children
               ids == ChildIds(nodes, id, kids)
               top == Size(nodes) + Cardinality(FreshSlots(nodes, id, kids))
    <2>1. nodes' = Expand(nodes, id, kids, round) /\ kids \in Seq(Region)
      BY <1>4, <1>5, <1>12, OutcomeChildren DEF Apply
    <2> HIDE DEF kids
    <2>2. Expands(nodes, nodes', id, kids, round)
      BY <2>1, <1>1, <1>2, ExpandFields
    <2>3. /\ nodes'[id].status = "Expanded" /\ nodes'[id].children = ids
          /\ nodes'[id].depth = round /\ Home(nodes'[id]) = Home(nodes[id])
      <3>1. nodes'[id] = ExpandedNode(nodes[id], ids) /\ ids \in Seq(Nat)
        BY <2>2 DEF Expands
      <3> QED
        BY <3>1, <1>1, <1>2, ExpandedType DEF Home
    <2>4. /\ DOMAIN nodes' = 0 .. (top - 1) /\ top \in Nat
          /\ \A n \in Size(nodes) .. (top - 1) : \E s \in DOMAIN kids :
               /\ ChildId(nodes, id, kids, s) = n
               /\ nodes'[n] = NewNode(kids[s], round + 1, id)
      BY <2>2 DEF Expands
    <2>5. DOMAIN nodes = 0 .. (Size(nodes) - 1) /\ Size(nodes) \in Nat
      BY <1>1, ArenaFacts DEF IsArena
    <2>6. ASSUME NEW n \in DOMAIN nodes' \ DOMAIN nodes
          PROVE  NodeFits(language, text, nodes', n)
      <3>1. n \in Size(nodes) .. (top - 1)
        BY <2>4, <2>5
      <3>2. PICK s \in DOMAIN kids : nodes'[n] = NewNode(kids[s], round + 1, id)
        BY <2>4, <3>1
      <3>3. kids[s] \in Region /\ id \in Nat /\ round + 1 \in Nat
        BY <2>1, <2>5, <1>1, <1>2
      <3>4. /\ nodes'[n].status = "Unparsed" /\ nodes'[n].attempts = 0
            /\ nodes'[n].depth \in Nat
        BY <3>2, <3>3, NewNodeType
      <3> QED
        BY <3>4, ResetFits
    <2>7. \A s \in DOMAIN kids : RegionOf(nodes', ChildId(nodes, id, kids, s)) = kids[s]
      BY <2>1, <1>1, <1>2, ExpandRegions
    <2>8. [i \in DOMAIN ids |-> RegionOf(nodes', ids[i])] = kids
      <3>1. /\ DOMAIN ids = DOMAIN kids
            /\ \A i \in DOMAIN kids : ids[i] = ChildId(nodes, id, kids, i)
        BY DEF ChildIds
      <3>2. kids = [i \in DOMAIN kids |-> kids[i]]
        BY <2>1
      <3> HIDE DEF ids
      <3> QED
        BY <3>1, <3>2, <2>7
    <2>9. NodeFits(language, text, nodes', id)
      <3>1. Ans(round).children = kids
        BY <1>4 DEF kids
      <3> QED
        BY <2>3, <2>8, <3>1, <1>2, <1>6, <1>9, <1>12 DEF NodeFits, Ans
    <2> QED
      BY <2>6, <2>9, <1>7, <1>8, CurrentIsFitsNext DEF Live
  <1> QED
    BY <1>10, <1>11, <1>12 DEF Applied

(* No other step touches the tree, the text or an answer it has.            *)
LEMMA OtherStepsKeepCurrent ==
  ASSUME IInv, Tracked, EveryNodeIsCurrent,
         UNCHANGED <<nodes, text, language>>,
         \/ \E id \in todo : ParseJob(id)
         \/ /\ UNCHANGED outcomes
            /\ round' = round \/ DOMAIN outcomes = {}
         \/ StartRun
  PROVE  EveryNodeIsCurrent'
  <1>1. /\ \A n \in Live(nodes) : NodeFits(language, text, nodes, n)
        /\ AnswersFit(language, text, nodes, round, outcomes)
    BY CurrentIsFits
  <1>2. \A n \in Live(nodes') : NodeFits(language', text', nodes', n)
    BY <1>1
  <1>3. AnswersFit(language', text', nodes', round', outcomes')
    <2>1. ASSUME NEW id \in todo, ParseJob(id)
          PROVE  AnswersFit(language', text', nodes', round', outcomes')
      <3>1. /\ round' = round
            /\ outcomes' = [n \in DOMAIN outcomes \union {id} |->
                              IF n = id THEN Said(round, id) ELSE outcomes[n]]
        BY <2>1 DEF ParseJob
      <3>2. Said(round, id)
              = AnswerIn(language, text, round, nodes[id].span, nodes[id].ctx)
        BY DEF Said, AnswerIn
      <3> QED
        BY <3>1, <3>2, <1>1 DEF AnswersFit
    <2>2. CASE UNCHANGED outcomes /\ (round' = round \/ DOMAIN outcomes = {})
      BY <2>2, <1>1 DEF AnswersFit
    <2>3. CASE StartRun
      BY <2>3 DEF StartRun, NoOutcomes, AnswersFit
    <2> QED
      BY <2>1, <2>2, <2>3
  <1> QED
    BY <1>2, <1>3, CurrentIsFitsNext

(* Every step keeps every node true to the text.                            *)
LEMMA NextCurrent ==
  ASSUME IInv, Tracked, EveryNodeIsCurrent, [NextText]_allVars
  PROVE  EveryNodeIsCurrent'
  <1>1. ASSUME NEW first \in 0 .. Len(text), NEW typed \in Typed,
               NEW last \in first .. Len(text), Type(first, last, typed)
        PROVE  EveryNodeIsCurrent'
    BY <1>1, TypeKeepsCurrent
  <1>2. ASSUME NEW id \in DOMAIN outcomes, MergeJob(id), UNCHANGED <<text, language>>
        PROVE  EveryNodeIsCurrent'
    BY <1>2, MergeKeepsCurrent
  <1>3. ASSUME NEW id \in todo, ParseJob(id)
        PROVE  EveryNodeIsCurrent'
    <2>1. UNCHANGED <<nodes, text, language>>
      BY <1>3 DEF ParseJob, treeVars
    <2> QED
      BY <1>3, <2>1, OtherStepsKeepCurrent
  <1>4. CASE UNCHANGED allVars
    <2>1. UNCHANGED <<nodes, text, language, outcomes, round>>
      BY <1>4 DEF allVars, vars, treeVars, runVars
    <2> QED
      BY <2>1, OtherStepsKeepCurrent
  <1>5. CASE StartRun /\ UNCHANGED <<text, language>>
    <2>1. UNCHANGED nodes
      BY <1>5 DEF StartRun, treeVars
    <2> QED
      BY <1>5, <2>1, OtherStepsKeepCurrent
  <1>6. CASE /\ \/ RoundsExhausted \/ NothingReady \/ CollectJobs
                \/ FinishBatch \/ EndRound
             /\ UNCHANGED <<text, language>>
    <2>1. UNCHANGED nodes /\ UNCHANGED outcomes
      BY <1>6 DEF RoundsExhausted, NothingReady, CollectJobs, FinishBatch, StopBatch,
         EndRound, Return, treeVars
    <2>2. round' = round \/ DOMAIN outcomes = {}
      BY <1>6 DEF RoundsExhausted, NothingReady, CollectJobs, FinishBatch, StopBatch,
         EndRound, Return, IInv, Quiet
    <2> QED
      BY <1>6, <2>1, <2>2, OtherStepsKeepCurrent
  <1> QED
    BY <1>1, <1>2, <1>3, <1>4, <1>5, <1>6, TextSteps

(* The session opens with one node that says nothing.                       *)
LEMMA InitCurrent ==
  ASSUME InitText
  PROVE  IInv /\ Tracked /\ EveryNodeIsCurrent
  <1>1. IInv
    BY InitIInv DEF InitText
  <1>2. Tracked
    BY TextAssumption, BoundsAssumption DEF InitText, Init, Tracked, TextTypeOK
  <1>3. ASSUME NEW n \in Live(nodes) PROVE NodeFits(language, text, nodes, n)
    <2>1. /\ nodes[n].status = "Unparsed" /\ nodes[n].attempts = 0
          /\ nodes[n].depth \in Nat
      BY DEF InitText, Init, NewTree, NewNode, Live
    <2> QED
      BY <2>1, ResetFits
  <1>4. AnswersFit(language, text, nodes, round, outcomes)
    BY DEF InitText, Init, NoOutcomes, AnswersFit
  <1> QED
    BY <1>1, <1>2, <1>3, <1>4, CurrentIsFits

TInv == IInv /\ Tracked /\ EveryNodeIsCurrent

(* In every reachable state the engine's invariant holds, the session knows *)
(* its text and the tree agrees with it; the three together are inductive.  *)
THEOREM TextInvariance == SpecText => []TInv
  <1>1. InitText => TInv
    BY InitCurrent DEF TInv
  <1>2. TInv /\ [NextText]_allVars => TInv'
    BY StepsAreTheEngines, NextIInv, NextTracked, NextCurrent DEF TInv
  <1> QED
    BY <1>1, <1>2, PTL DEF SpecText

(* The session always knows how long its text is, and of which revision.    *)
THEOREM TextIsTracked == SpecText => []TextTypeOK
  BY TextInvariance, PTL DEF TInv, Tracked

(* A session with a text is a session of the engine: what is proved of      *)
(* every step of Engine holds of it.                                       *)
THEOREM IncrementalIsAnEngine == SpecText => Init /\ [][Next]_vars
  <1>1. InitText => Init
    BY DEF InitText
  <1>2. TInv /\ [NextText]_allVars => [Next]_vars
    BY StepsAreTheEngines DEF TInv
  <1> QED
    BY <1>1, <1>2, TextInvariance, PTL DEF SpecText

(* The live nodes are one tree whose spans lie in the text, whatever the    *)
(* passes of the language find in it.                                       *)
THEOREM TextTreeIsATree == SpecText => [](TreeShape /\ SpansNested)
  BY TextInvariance, PTL DEF TInv, IInv

(* Nothing the tree says is about an older text: what a run carries over    *)
(* is what the passes would find again.                                     *)
THEOREM NodesStayCurrent == SpecText => []EveryNodeIsCurrent
  BY TextInvariance, PTL DEF TInv

----------------------------------------------------------------------------
(* What a merge carries over.                                              *)

Copies(t, p, g) == {k \in Kids(t, p) : RegionOf(t, k) = g}

(* Of the copies of a region among the old children and the new ones, the   *)
(* k-th are paired; so all of the shorter list are.                         *)
LEMMA ExpandCarriesOver ==
  ASSUME NEW t, IsArena(t), WellShaped(t), Homed(t), NEW id \in Live(t),
         NEW kids \in Seq(Region), NEW r \in Nat, t[id].depth = r,
         NEW u, u = Expand(t, id, kids, r), NEW g
  PROVE  \/ Copies(t, id, g) \subseteq Copies(u, id, g)
         \/ Copies(u, id, g) \subseteq Copies(t, id, g)
  <1> DEFINE old == t[id].children
             M == {q \in DOMAIN old : t[old[q]].alive /\ RegionOf(t, old[q]) = g}
             S == {v \in DOMAIN kids : kids[v] = g}
  <1>1. /\ id \in DOMAIN t /\ t[id] \in Node /\ old \in Seq(Nat)
        /\ \A q \in DOMAIN old : old[q] \in Live(t)
        /\ \A q, p \in DOMAIN old : old[q] = old[p] => q = p
    BY ArenaFacts DEF Live, Node, WellShaped, KidsPointBack
  <1>2. /\ \A n \in DOMAIN t : RegionOf(u, n) = RegionOf(t, n)
        /\ u[id].children = ChildIds(t, id, kids)
    <2>1. Merges(t, u, id, r)
      BY ExpandMerges
    <2>2. u[id] = ExpandedNode(t[id], ChildIds(t, id, kids))
          /\ ChildIds(t, id, kids) \in Seq(Nat)
      BY ExpandFields DEF Expands
    <2> QED
      BY <2>1, <2>2, <1>1, ExpandedType DEF Merges, RegionOf
  <1>3. /\ \A s \in DOMAIN kids : RegionOf(u, ChildId(t, id, kids, s)) = kids[s]
        /\ Kids(u, id) = {ChildId(t, id, kids, s) : s \in DOMAIN kids}
    BY <1>2, ExpandRegions DEF Kids, ChildIds
  <1>4. /\ M \in SUBSET Nat /\ IsFiniteSet(M) /\ S \in SUBSET Nat /\ IsFiniteSet(S)
        /\ Cardinality(M) \in Nat /\ Cardinality(S) \in Nat
    <2>1. DOMAIN old = 1 .. Len(old) /\ Len(old) \in Nat
      BY <1>1
    <2>2. DOMAIN kids = 1 .. Len(kids) /\ Len(kids) \in Nat
      OBVIOUS
    <2> HIDE DEF old
    <2>3. /\ IsFiniteSet(DOMAIN old) /\ IsFiniteSet(DOMAIN kids)
          /\ DOMAIN old \subseteq Nat /\ DOMAIN kids \subseteq Nat
      <3>1. \A n \in Nat : IsFiniteSet(1 .. n) /\ 1 .. n \subseteq Nat
        BY FS_Interval
      <3> QED
        BY <2>1, <2>2, <3>1, Zenon
    <2>4. M \subseteq DOMAIN old /\ S \subseteq DOMAIN kids
      OBVIOUS
    <2>5. IsFiniteSet(M) /\ IsFiniteSet(S)
      BY <2>3, <2>4, FS_Subset
    <2> QED
      BY <2>3, <2>4, <2>5, FS_CardinalityType
  <1>5. ASSUME NEW s \in S, NEW q \in M, Rank(S, s) = Rank(M, q)
        PROVE  Keeps(t, id, kids, s, q)
    <2>1. Matches(t, id, kids, s) = M
      BY DEF Matches
    <2>2. {v \in DOMAIN kids : kids[v] = kids[s]} = S
      OBVIOUS
    <2> HIDE DEF M, S
    <2> QED
      BY <1>5, <2>1, <2>2 DEF Keeps
  <1>6. ASSUME NEW s \in DOMAIN kids, NEW q \in DOMAIN old, Keeps(t, id, kids, s, q)
        PROVE  s \notin FreshSlots(t, id, kids) /\ old[q] \notin Orphans(t, id, kids)
    BY <1>1, <1>6 DEF FreshSlots, Orphans
  <1>7. /\ \A s \in DOMAIN kids \ FreshSlots(t, id, kids) :
             ChildId(t, id, kids, s) \in Kids(t, id) \ Orphans(t, id, kids)
        /\ \A n \in Kids(t, id) \ Orphans(t, id, kids) :
             \E s \in DOMAIN kids : ChildId(t, id, kids, s) = n
    <2>1. id \in DOMAIN t
      BY <1>1
    <2> HIDE DEF M, S, old
    <2> QED
      BY <2>1, ChildIdFacts, Zenon
  <1>8. \A n \in Kids(t, id) : n \in DOMAIN t /\ \E q \in DOMAIN old : n = old[q]
    BY <1>1 DEF Kids, Live
  <1>9. CASE Cardinality(M) <= Cardinality(S)
    <2> SUFFICES ASSUME NEW n \in Copies(t, id, g)
                 PROVE  n \in Copies(u, id, g)
      OBVIOUS
    <2>1. n \in Kids(t, id) /\ RegionOf(t, n) = g
      BY DEF Copies
    <2>2. PICK q \in M : n = old[q]
      BY <2>1, <1>1, <1>8 DEF Live
    <2>3. Rank(M, q) \in 0 .. (Cardinality(M) - 1)
      <3> HIDE DEF M
      <3> QED BY <1>4, RankFacts
    <2>4. PICK s \in S : Rank(S, s) = Rank(M, q)
      <3> HIDE DEF M, S
      <3>1. Rank(M, q) \in 0 .. (Cardinality(S) - 1)
        BY <2>3, <1>4, <1>9
      <3> QED
        BY <3>1, <1>4, RankFacts
    <2>5. n \notin Orphans(t, id, kids)
      BY <2>2, <2>4, <1>5, <1>6
    <2>6. n \in Kids(u, id)
      BY <2>1, <2>5, <1>3, <1>7
    <2>7. RegionOf(u, n) = g
      BY <2>1, <1>2, <1>8
    <2> QED
      BY <2>6, <2>7 DEF Copies
  <1>10. CASE Cardinality(S) <= Cardinality(M)
    <2> SUFFICES ASSUME NEW n \in Copies(u, id, g)
                 PROVE  n \in Copies(t, id, g)
      OBVIOUS
    <2>1. n \in Kids(u, id) /\ RegionOf(u, n) = g
      BY DEF Copies
    <2>2. PICK s \in S : n = ChildId(t, id, kids, s)
      BY <2>1, <1>3
    <2>3. Rank(S, s) \in 0 .. (Cardinality(S) - 1)
      <3> HIDE DEF S
      <3> QED BY <1>4, RankFacts
    <2>4. PICK q \in M : Rank(M, q) = Rank(S, s)
      <3> HIDE DEF M, S
      <3>1. Rank(S, s) \in 0 .. (Cardinality(M) - 1)
        BY <2>3, <1>4, <1>10
      <3> QED
        BY <3>1, <1>4, RankFacts
    <2>5. s \notin FreshSlots(t, id, kids)
      BY <2>4, <1>5, <1>6
    <2>6. n \in Kids(t, id)
      BY <2>2, <2>5, <1>7
    <2>7. RegionOf(t, n) = g
      BY <2>1, <2>6, <1>2, <1>8
    <2> QED
      BY <2>6, <2>7 DEF Copies
  <1>11. Cardinality(M) <= Cardinality(S) \/ Cardinality(S) <= Cardinality(M)
    <2> HIDE DEF M, S
    <2> QED BY <1>4
  <1> QED
    BY <1>9, <1>10, <1>11

(* A merge keeps as many children of a region as the old list of its node   *)
(* and the new one have in common, whatever the text and the language.      *)
THEOREM ReuseIsMaximal == SpecText => CarriedOver
  <1> DEFINE Carried ==
        \A p \in Live(nodes) : rev' = rev /\ nodes'[p].alive =>
          \A k \in Kids(nodes, p) :
            LET g == RegionOf(nodes, k) IN
            \/ Copies(nodes, p, g) \subseteq Copies(nodes', p, g)
            \/ Copies(nodes', p, g) \subseteq Copies(nodes, p, g)
  <1>1. ASSUME IInv, [Next]_vars
        PROVE  Carried
    <2>0. /\ IsArena(nodes) /\ WellShaped(nodes) /\ Homed(nodes) /\ round \in Nat
          /\ rev \in Nat
      BY <1>1, IInvFacts DEF IInv, TypeOK
    <2>1. CASE UNCHANGED treeVars
      BY <2>1 DEF treeVars, Copies
    <2>2. ASSUME NEW e \in EditsOf(textLen), EditText(e) PROVE rev' # rev
      BY <2>0, <2>2 DEF EditText
    <2>3. ASSUME NEW id \in DOMAIN outcomes, MergeJob(id) PROVE Carried
      <3> SUFFICES ASSUME NEW p \in Live(nodes), nodes'[p].alive, NEW g
                   PROVE  \/ Copies(nodes, p, g) \subseteq Copies(nodes', p, g)
                          \/ Copies(nodes', p, g) \subseteq Copies(nodes, p, g)
        OBVIOUS
      <3> DEFINE o == outcomes[id]
      <3>1. /\ Merges(nodes, nodes', id, round) /\ id \in Live(nodes)
            /\ nodes[id].depth = round
        BY <1>1, <2>3, MergeKeepsIInv
      <3>2. nodes' = Apply(nodes, id, o, round, EnforceShrink) /\ o \in Outcome
        BY <1>1, <2>3 DEF MergeJob, IInv, TypeOK
      <3> HIDE DEF o
      <3>3. CASE p # id
        <4>1. nodes'[p] = nodes[p] /\ Kids(nodes', p) = Kids(nodes, p)
          BY <3>1, <3>3 DEF Merges, Live, Kids
        <4>2. \A k \in Kids(nodes, p) : k \in DOMAIN nodes
          BY <2>0 DEF Live, WellShaped, KidsPointBack, Kids
        <4>3. \A k \in Kids(nodes, p) : RegionOf(nodes', k) = RegionOf(nodes, k)
          BY <3>1, <4>2 DEF Merges, RegionOf
        <4> QED
          BY <4>1, <4>3 DEF Copies
      <3>4. CASE p = id /\ Applied(nodes, id, o, EnforceShrink) # "Expanded"
        <4>1. nodes' = Accept(nodes, id) \/ nodes' = Fail(nodes, id, round)
          BY <3>2, <3>4 DEF Apply, Applied
        <4>2. nodes'[id].children = <<>>
          BY <4>1, <3>1, <2>0, AcceptSettles, FailSettles DEF Settles
        <4>3. Kids(nodes', id) = {}
          BY <4>2 DEF Kids
        <4> QED
          BY <4>3, <3>4 DEF Copies
      <3>5. CASE p = id /\ Applied(nodes, id, o, EnforceShrink) = "Expanded"
        <4>1. nodes' = Expand(nodes, id, o.children, round)
              /\ o.children \in Seq(Region)
          BY <3>2, <3>5, OutcomeChildren DEF Apply
        <4> QED
          BY <4>1, <3>1, <3>5, <2>0, ExpandCarriesOver
      <3> QED
        BY <3>3, <3>4, <3>5
    <2> QED
      BY <1>1, <2>1, <2>2, <2>3, TreeSteps
  <1>2. ASSUME TInv, [NextText]_allVars
        PROVE  Carried
    BY <1>1, <1>2, StepsAreTheEngines DEF TInv
  <1>3. Carried =>
          \A p \in Live(nodes) :
            LET Kin(t, g) == {k \in Kids(t, p) : RegionOf(t, k) = g} IN
            rev' = rev /\ nodes'[p].alive =>
              \A k \in Kids(nodes, p) :
                LET g == RegionOf(nodes, k) IN
                \/ Kin(nodes, g) \subseteq Kin(nodes', g)
                \/ Kin(nodes', g) \subseteq Kin(nodes, g)
    BY DEF Copies
  <1> HIDE DEF Carried
  <1> QED
    BY <1>2, <1>3, TextInvariance, PTL DEF SpecText, CarriedOver

----------------------------------------------------------------------------
(* No node is forgotten.                                                    *)

(* A context, expanded in this round by a pass of the schedule.             *)
RoundOf(l, p, c) == p \in 0 .. (NumPasses - 1) /\ CanExpand(l, p, c)

(* A node was made by its parent in the round before its own.               *)
HomesFit ==
  \A n \in Live(nodes) \ {Root} :
    RoundOf(language, Home(nodes[n]) - 1, nodes[nodes[n].parent].ctx)

(* A reset node has no failures; a settled one was parsed in a round.        *)
IsPlain(node) ==
  /\ node.status = "Unparsed" => node.attempts = 0
  /\ node.status \in {"Done", "Expanded"} => node.depth < MaxRounds

AllPlain == \A n \in Live(nodes) : IsPlain(nodes[n])

RootKnown == nodes[Root].ctx = RootCtx

Due(n) == nodes[n].depth = round \/ (pc = "merge" /\ nodes[n].depth = round + 1)

(* Whoever waits in a round of the schedule has its turn in this round or    *)
(* the next, or waits for its parent to have one.                          *)
Attended(n) ==
  \/ Running /\ Due(n)
  \/ /\ nodes[n].status = "Unparsed"
     /\ IF n = Root THEN pc = "idle" ELSE IsPending(nodes, nodes[n].parent, MaxRounds)

Tight ==
  \A n \in Pending(nodes, MaxRounds) : nodes[n].depth < MaxRounds => Attended(n)

BatchesAreFull == pc = "merge" => todo = {}

SInv == HomesFit /\ AllPlain /\ RootKnown /\ Tight /\ BatchesAreFull

(* The tree of a text that no run has seen is in order.                     *)
LEMMA InitSInv ==
  ASSUME InitText
  PROVE  SInv
<1>1. /\ DOMAIN nodes = {Root} /\ nodes[Root].ctx = RootCtx /\ pc = "idle"
      /\ nodes[Root].status = "Unparsed" /\ nodes[Root].attempts = 0
  BY DEF InitText, Init, NewTree, NewNode
<1> QED
  BY <1>1 DEF SInv, HomesFit, AllPlain, IsPlain, RootKnown, Tight, Attended,
     BatchesAreFull, Live, Pending

(* An edit resets with a node everything above it.                         *)
LEMMA TypeKeepsSInv ==
  ASSUME IInv, Tracked, SInv, NEW first \in 0 .. Len(text), NEW typed \in Typed,
         NEW last \in first .. Len(text), Type(first, last, typed)
  PROVE  SInv'
<1> DEFINE e == EditOfSplice(first, last, typed)
<1>1. /\ e \in EditsOf(textLen) /\ e \in Edit /\ EditText(e)
      /\ nodes' = EditTree(nodes, e, rev + 1) /\ rev + 1 \in Nat
      /\ pc' = "idle" /\ pc \in {"idle", "done"} /\ language' = language
  <2>1. e \in EditsOf(textLen) /\ e \in Edit /\ EditText(e)
    BY TypeFacts
  <2>2. language' = language /\ rev \in Nat
    BY DEF Type, IInv, TypeOK
  <2> HIDE DEF e
  <2> QED
    BY <2>1, <2>2 DEF EditText, Resting
<1> HIDE DEF e
<1>2. /\ DOMAIN nodes' = DOMAIN nodes /\ Live(nodes') = Live(nodes)
      /\ \A n \in DOMAIN nodes :
           /\ nodes'[n].ctx = nodes[n].ctx /\ nodes'[n].parent = nodes[n].parent
           /\ nodes'[n].alive = nodes[n].alive
           /\ nodes'[n].depth <= nodes[n].depth
           /\ nodes'[n].status \in {nodes[n].status, "Unparsed"}
      /\ \A n \in Live(nodes) \ {Root} :
           ~OnlyMoved(nodes[n], nodes'[n]) => nodes'[nodes[n].parent].status = "Unparsed"
  BY <1>1, EditStep DEF Live
<1>3. ASSUME NEW n \in Live(nodes)
      PROVE  /\ Home(nodes'[n]) = Home(nodes[n])
             /\ \/ nodes'[n].status = "Unparsed" /\ nodes'[n].attempts = 0
                \/ /\ nodes'[n].status = nodes[n].status
                   /\ nodes'[n].attempts = nodes[n].attempts
                   /\ nodes'[n].depth = nodes[n].depth
             /\ nodes[n] \in Node /\ nodes'[n] \in Node
             /\ Touches(e, nodes[n].span) => nodes'[n].status = "Unparsed"
  <2>1. /\ n \in DOMAIN nodes /\ nodes'[n] = EditNode(nodes[n], e, rev + 1)
        /\ nodes[n] \in Node /\ nodes[n].attempts <= nodes[n].depth
    BY <1>1, IInvFacts DEF Live, EditTree, Homed
  <2> QED
    BY <1>1, <2>1, EditNodeType DEF Home
<1>4. HomesFit'
  <2>1. \A n \in Live(nodes) \ {Root} : nodes[n].parent \in DOMAIN nodes /\ n \in DOMAIN nodes
    BY WalkFacts DEF Live
  <2> QED
    BY <1>1, <1>2, <1>3, <2>1 DEF SInv, HomesFit
<1>5. AllPlain'
  BY <1>2, <1>3 DEF SInv, AllPlain, IsPlain
<1>6. RootKnown'
  BY <1>2, WalkFacts DEF SInv, RootKnown, Live
<1>7. ASSUME NEW n \in Live(nodes), IsPending(nodes, n, MaxRounds)
      PROVE  IsPending(nodes', n, MaxRounds)
  <2>1. /\ nodes[n].depth \in Nat /\ nodes'[n].depth \in Nat /\ MaxRounds \in Nat
        /\ n \in DOMAIN nodes
    BY <1>3, MaxRoundsIsNat DEF Node, Live
  <2> QED
    BY <1>2, <1>7, <2>1 DEF IsPending
<1>8. ASSUME NEW n \in Pending(nodes', MaxRounds), nodes'[n].depth < MaxRounds
      PROVE  Attended(n)'
  <2>1. n \in Live(nodes) /\ n \in DOMAIN nodes
    BY <1>2 DEF Pending, IsPending, Live
  <2>2. CASE n = Root
    <3>1. nodes'[Root].status = "Unparsed"
      BY <1>1, EditStep
    <3> QED
      BY <1>1, <2>2, <3>1 DEF Attended
  <2>3. CASE n # Root /\ ~OnlyMoved(nodes[n], nodes'[n])
    <3> DEFINE p == nodes[n].parent
    <3>1. p \in Live(nodes) /\ p \in DOMAIN nodes
      BY <2>1, <2>3, WalkFacts DEF Live
    <3>2. nodes'[p].status = "Unparsed" /\ nodes'[p].alive
      BY <1>2, <2>1, <2>3, <3>1 DEF Live
    <3>3. IsPending(nodes', nodes'[n].parent, MaxRounds)
      BY <1>2, <2>1, <3>2 DEF IsPending
    <3>4. nodes'[n].status = "Unparsed"
      <4>1. nodes[n].alive /\ nodes'[n] = EditNode(nodes[n], e, rev + 1)
        BY <1>1, <2>1 DEF EditTree, Live
      <4>2. ~Touches(e, nodes[n].span) => OnlyMoved(nodes[n], nodes'[n])
        <5> SUFFICES ASSUME ~Touches(e, nodes[n].span)
                     PROVE  OnlyMoved(nodes[n], nodes'[n])
          OBVIOUS
        <5>1. nodes'[n] = [nodes[n] EXCEPT !.span = MapSpan(e, nodes[n].span, rev + 1)]
          BY <4>1 DEF EditNode
        <5>2. nodes[n] \in Node
          BY <1>3, <2>1
        <5>3. nodes'[n].span = MapSpan(e, nodes[n].span, rev + 1)
          BY <5>1, <5>2 DEF Node
        <5> QED
          BY <5>1, <5>3 DEF OnlyMoved
      <4>3. Touches(e, nodes[n].span) => nodes'[n].status = "Unparsed"
        BY <1>3, <2>1
      <4> QED
        BY <2>3, <4>2, <4>3
    <3> QED
      BY <2>3, <3>3, <3>4 DEF Attended
  <2>4. CASE n # Root /\ OnlyMoved(nodes[n], nodes'[n])
    <3>1. nodes'[n].status = nodes[n].status /\ nodes'[n].depth = nodes[n].depth
      <4>1. nodes'[n] = [nodes[n] EXCEPT !.span = nodes'[n].span]
        BY <2>4 DEF OnlyMoved
      <4>2. nodes[n] \in Node
        BY <1>3, <2>1
      <4> DEFINE m == nodes'[n].span
      <4>3. nodes'[n] = [nodes[n] EXCEPT !.span = m]
        BY <4>1
      <4> HIDE DEF m
      <4> QED
        BY <4>2, <4>3 DEF Node
    <3>2. n \in Pending(nodes, MaxRounds) /\ nodes[n].depth < MaxRounds
      BY <1>8, <2>1, <3>1 DEF Pending, IsPending, Live
    <3>3. Attended(n)
      BY <3>2 DEF SInv, Tight
    <3>4. nodes[n].status = "Unparsed" /\ IsPending(nodes, nodes[n].parent, MaxRounds)
      BY <1>1, <2>4, <3>3 DEF Attended, Running
    <3>5. nodes[n].parent \in Live(nodes)
      BY <2>1, <2>4, WalkFacts
    <3>6. IsPending(nodes', nodes'[n].parent, MaxRounds)
      BY <1>2, <1>7, <2>1, <3>4, <3>5
    <3> QED
      BY <2>4, <3>1, <3>4, <3>6 DEF Attended
  <2> QED
    BY <2>2, <2>3, <2>4
<1>9. Tight'
  BY <1>8 DEF Tight
<1>10. BatchesAreFull'
  BY <1>1 DEF BatchesAreFull
<1> QED
  BY <1>4, <1>5, <1>6, <1>9, <1>10 DEF SInv

(* A node that is expanded is in the round of its context.                  *)
LEMMA ExpandedInRound ==
  ASSUME NEW l, NEW x \in Text, NEW p \in Nat, NEW t, NEW n,
         t[n].span \in SpansIn(x),
         LET o == AnswerIn(l, x, p, t[n].span, t[n].ctx) IN
           o \in Outcome /\ Applied(t, n, o, EnforceShrink) = "Expanded"
  PROVE  RoundOf(l, p, t[n].ctx)
<1> DEFINE o == AnswerIn(l, x, p, t[n].span, t[n].ctx)
<1>1. o \in Outcome /\ o.kind # "Failed" /\ o.children # <<>>
  BY DEF Applied
<1>2. p < NumPasses
  BY <1>1 DEF AnswerIn
<1>3. o = Lang(l, p, x, t[n].span, t[n].ctx)
  BY <1>2 DEF AnswerIn
<1> HIDE DEF o
<1>4. o.kind = "Expand"
  <2>1. o.kind # "Done"
    <3>1. o.kind = "Done" => o.children = <<>>
      BY <1>1 DEF Outcome
    <3> QED
      BY <1>1, <3>1
  <2> QED
    BY <1>1, <2>1 DEF Outcome
<1>5. CanExpand(l, p, t[n].ctx)
  BY <1>1, <1>3, <1>4 DEF CanExpand
<1> QED
  BY <1>2, <1>5, ScheduleAssumption DEF RoundOf

(* What a merge makes, beside what Merges says of it.                       *)
MadeBy(t, u, id, r, l) ==
  /\ u[id] \in Node /\ u[id].alive
  /\ u[id].depth - u[id].attempts = t[id].depth - t[id].attempts
  /\ u[id].status = "Expanded" => RoundOf(l, r, t[id].ctx)
  /\ \A n \in DOMAIN u \ DOMAIN t :
       /\ u[n].status = "Unparsed" /\ u[n].attempts = 0
       /\ u[n].depth = r + 1 /\ u[n].parent = id
       /\ u[id].status = "Expanded"

(* What a merge makes of a node, and which nodes it adds.                   *)
LEMMA MergeMakes ==
  ASSUME IInv, Tracked, EveryNodeIsCurrent, NEW id \in DOMAIN outcomes, MergeJob(id)
  PROVE  MadeBy(nodes, nodes', id, round, language)
<1> DEFINE o == outcomes[id]
<1>1. /\ IsArena(nodes) /\ WellShaped(nodes) /\ Homed(nodes)
      /\ round \in Nat /\ \A n \in DOMAIN nodes : nodes[n] \in Node
  BY IInvFacts
<1>2. id \in Live(nodes) /\ id \in DOMAIN nodes /\ nodes[id].depth = round
  BY MergeKeepsIInv DEF Live
<1>3. /\ o = AnswerIn(language, text, round, nodes[id].span, nodes[id].ctx)
      /\ o \in Outcome
  <2>1. AnswersFit(language, text, nodes, round, outcomes)
    BY CurrentIsFits
  <2> QED
    BY <2>1 DEF AnswersFit, IInv, TypeOK
<1>4. nodes' = Apply(nodes, id, o, round, EnforceShrink)
  BY DEF MergeJob
<1> HIDE DEF o
<1>5. CASE Applied(nodes, id, o, EnforceShrink) = "Done"
  <2>1. nodes' = Accept(nodes, id)
    BY <1>4, <1>5 DEF Apply
  <2>2. Settles(nodes, nodes', id) /\ nodes'[id].status = "Done"
    BY <2>1, <1>1, <1>2, AcceptSettles
  <2> QED
    BY <2>2, <1>2 DEF Settles, MadeBy
<1>6. CASE Applied(nodes, id, o, EnforceShrink) = "Failed"
  <2>1. nodes' = Fail(nodes, id, round)
    BY <1>4, <1>6 DEF Apply
  <2>2. Settles(nodes, nodes', id) /\ nodes'[id].status = "Failed"
    BY <2>1, <1>1, <1>2, FailSettles
  <2> QED
    BY <2>2, <1>2 DEF Settles, MadeBy
<1>7. CASE Applied(nodes, id, o, EnforceShrink) = "Expanded"
  <2> DEFINE kids == o.children
             ids == ChildIds(nodes, id, kids)
             top == Size(nodes) + Cardinality(FreshSlots(nodes, id, kids))
  <2>1. nodes' = Expand(nodes, id, kids, round) /\ kids \in Seq(Region)
    BY <1>3, <1>4, <1>7, OutcomeChildren DEF Apply
  <2> HIDE DEF kids
  <2>2. Expands(nodes, nodes', id, kids, round)
    BY <2>1, <1>1, <1>2, ExpandFields
  <2>3. /\ nodes'[id] \in Node /\ nodes'[id].alive
        /\ nodes'[id].status = "Expanded"
        /\ nodes'[id].depth - nodes'[id].attempts = nodes[id].depth - nodes[id].attempts
    <3>1. nodes'[id] = ExpandedNode(nodes[id], ids) /\ ids \in Seq(Nat)
      BY <2>2 DEF Expands
    <3> QED
      BY <3>1, <1>1, <1>2, ExpandedType DEF Live
  <2>4. /\ DOMAIN nodes' = 0 .. (top - 1) /\ top \in Nat
        /\ \A n \in Size(nodes) .. (top - 1) : \E s \in DOMAIN kids :
             nodes'[n] = NewNode(kids[s], round + 1, id)
    BY <2>2 DEF Expands
  <2>5. DOMAIN nodes = 0 .. (Size(nodes) - 1) /\ Size(nodes) \in Nat
    BY <1>1, ArenaFacts DEF IsArena
  <2>6. ASSUME NEW n \in DOMAIN nodes' \ DOMAIN nodes
        PROVE  /\ nodes'[n].status = "Unparsed" /\ nodes'[n].attempts = 0
               /\ nodes'[n].depth = round + 1 /\ nodes'[n].parent = id
    <3>1. n \in Size(nodes) .. (top - 1)
      BY <2>4, <2>5
    <3>2. PICK s \in DOMAIN kids : nodes'[n] = NewNode(kids[s], round + 1, id)
      BY <2>4, <3>1
    <3>3. kids[s] \in Region /\ id \in Nat /\ round + 1 \in Nat
      BY <2>1, <2>5, <1>1, <1>2
    <3> QED
      BY <3>2, <3>3, NewNodeType
  <2>7. RoundOf(language, round, nodes[id].ctx)
    BY <1>1, <1>2, <1>3, <1>7, ExpandedInRound, LiveFacts, TrackedFacts
  <2> QED
    BY <2>3, <2>6, <2>7 DEF MadeBy
<1> QED
  BY <1>5, <1>6, <1>7 DEF Applied

(* A child that waits for its parent is one of the round the parent is in:   *)
(* with the parent it has had its turn, or is next.                        *)
LEMMA MergeKeepsSInv ==
  ASSUME IInv, Tracked, EveryNodeIsCurrent, SInv, NEW id \in DOMAIN outcomes,
         MergeJob(id), UNCHANGED <<text, language>>
  PROVE  SInv'
<1>1. /\ IsArena(nodes) /\ WellShaped(nodes) /\ Homed(nodes)
      /\ round \in Nat /\ \A n \in DOMAIN nodes : nodes[n] \in Node
  BY IInvFacts
<1>2. /\ IInv' /\ id \in Live(nodes) /\ id \in DOMAIN nodes /\ nodes[id].depth = round
      /\ round < MaxRounds /\ pc = "merge" /\ pc' = "merge" /\ round' = round
      /\ todo' = todo /\ language' = language
  BY MergeKeepsIInv DEF Live, MergeJob, IInv, InRound
<1>3. /\ DOMAIN nodes \subseteq DOMAIN nodes'
      /\ \A n \in DOMAIN nodes : /\ nodes'[n].ctx = nodes[n].ctx
                                /\ nodes'[n].parent = nodes[n].parent
      /\ \A n \in DOMAIN nodes \ {id} :
           nodes'[n].alive => nodes'[n] = nodes[n] /\ n \in Live(nodes)
  <2>1. Merges(nodes, nodes', id, round)
    BY MergeKeepsIInv
  <2> QED
    BY <2>1 DEF Merges, Live
<1>4. /\ \/ nodes'[id].status \in {"Done", "Expanded"} /\ nodes'[id].depth = round
         \/ nodes'[id].status = "Failed" /\ nodes'[id].depth = round + 1
      /\ nodes'[id].alive /\ Home(nodes'[id]) = Home(nodes[id])
      /\ nodes'[id].status = "Expanded" => RoundOf(language, round, nodes[id].ctx)
  <2>1. Merges(nodes, nodes', id, round) /\ MadeBy(nodes, nodes', id, round, language)
    BY MergeKeepsIInv, MergeMakes
  <2> QED
    BY <2>1 DEF Merges, MadeBy, Home
<1>5. \A n \in DOMAIN nodes' \ DOMAIN nodes :
        /\ nodes'[n].status = "Unparsed" /\ nodes'[n].attempts = 0
        /\ nodes'[n].depth = round + 1 /\ nodes'[n].parent = id
        /\ nodes'[id].status = "Expanded"
  BY MergeMakes DEF MadeBy
<1>6. /\ Root \in DOMAIN nodes
      /\ \A n \in Live(nodes) \ {Root} :
           n \in DOMAIN nodes /\ nodes[n].parent \in DOMAIN nodes
  BY WalkFacts DEF Live
<1>7. HomesFit'
  <2>1. ASSUME NEW n \in Live(nodes') \ {Root}
        PROVE  RoundOf(language, Home(nodes'[n]) - 1, nodes'[nodes'[n].parent].ctx)
    <3>1. n \in DOMAIN nodes' /\ nodes'[n].alive /\ n # Root
      BY DEF Live
    <3>2. CASE n \in DOMAIN nodes
      <4>1. n \in Live(nodes) /\ Home(nodes'[n]) = Home(nodes[n])
        BY <1>2, <1>3, <1>4, <3>1, <3>2
      <4>2. nodes'[nodes'[n].parent].ctx = nodes[nodes[n].parent].ctx
        BY <1>3, <1>6, <3>1, <4>1
      <4> QED
        BY <3>1, <4>1, <4>2 DEF SInv, HomesFit
    <3>3. CASE n \notin DOMAIN nodes
      <4>1. Home(nodes'[n]) - 1 = round /\ nodes'[nodes'[n].parent].ctx = nodes[id].ctx
        <5>1. nodes'[n].attempts = 0 /\ nodes'[n].depth = round + 1 /\ nodes'[n].parent = id
          BY <1>5, <3>1, <3>3
        <5> QED
          BY <1>1, <1>2, <1>3, <5>1 DEF Home
      <4> QED
        BY <1>4, <1>5, <3>1, <3>3, <4>1
    <3> QED
      BY <3>2, <3>3
  <2> QED
    BY <1>2, <2>1 DEF HomesFit
<1>8. AllPlain'
  <2>1. ASSUME NEW n \in Live(nodes')
        PROVE  IsPlain(nodes'[n])
    <3>1. n \in DOMAIN nodes' /\ nodes'[n].alive
      BY DEF Live
    <3>2. CASE n \in DOMAIN nodes \ {id}
      BY <1>3, <3>1, <3>2 DEF SInv, AllPlain
    <3>3. CASE n = id
      BY <1>2, <1>4, <3>3 DEF IsPlain
    <3>4. CASE n \notin DOMAIN nodes
      BY <1>5, <3>1, <3>4 DEF IsPlain
    <3> QED
      BY <3>2, <3>3, <3>4
  <2> QED
    BY <2>1 DEF AllPlain
<1>9. RootKnown'
  BY <1>3, <1>6 DEF SInv, RootKnown
<1>10. ASSUME NEW n \in Pending(nodes', MaxRounds), nodes'[n].depth < MaxRounds
       PROVE  Attended(n)'
  <2>1. n \in DOMAIN nodes' /\ nodes'[n].alive /\ IsPending(nodes', n, MaxRounds)
    BY DEF Pending, IsPending
  <2>2. nodes'[n].depth = round + 1 => Attended(n)'
    BY <1>2 DEF Attended, Due, Running
  <2>3. CASE n = id
    <3>1. nodes'[id].status = "Failed"
      BY <1>4, <2>1, <2>3 DEF IsPending
    <3> QED
      BY <1>4, <2>2, <2>3, <3>1
  <2>4. CASE n \notin DOMAIN nodes
    BY <1>5, <2>1, <2>2, <2>4
  <2>5. CASE n \in DOMAIN nodes \ {id}
    <3>1. n \in Live(nodes) /\ nodes'[n] = nodes[n]
      BY <1>3, <2>1, <2>5
    <3>2. n \in Pending(nodes, MaxRounds) /\ nodes[n].depth < MaxRounds
      BY <1>10, <2>1, <2>5, <3>1 DEF Pending, IsPending
    <3>3. Attended(n)
      BY <3>2 DEF SInv, Tight
    <3>4. CASE Running /\ Due(n)
      BY <1>2, <3>1, <3>4 DEF Attended, Running, Due
    <3>5. CASE nodes[n].status = "Unparsed" /\ n # Root
               /\ IsPending(nodes, nodes[n].parent, MaxRounds)
      <4> DEFINE p == nodes[n].parent
      <4>1. n \in Live(nodes') \ {Root}
        BY <2>1, <3>5 DEF Live
      <4>2. p \in DOMAIN nodes /\ nodes'[p].alive /\ n \in Kids(nodes', p)
        <5>1. WellShaped(nodes') /\ nodes'[n].parent = p
          BY <1>2, <3>1 DEF IInv, TreeShape
        <5>2. p \in Live(nodes') /\ n \in Kids(nodes', p)
          BY <4>1, <5>1 DEF WellShaped, ParentsListTheirKids
        <5> QED
          BY <1>6, <3>1, <3>5, <5>2 DEF Live
      <4>3. CASE p # id
        <5>1. nodes'[p] = nodes[p]
          BY <1>3, <4>2, <4>3
        <5>2. IsPending(nodes', nodes'[n].parent, MaxRounds)
          BY <3>1, <3>5, <5>1 DEF IsPending
        <5> QED
          BY <3>1, <3>5, <5>2 DEF Attended
      <4>4. CASE p = id
        <5>1. nodes'[id].status = "Expanded"
          <6>1. OnlyLiveNodesHaveKids(nodes')
            BY <1>2 DEF IInv, TreeShape, WellShaped
          <6>2. nodes'[id].status \in {"Unparsed", "Expanded"}
            BY <1>2, <1>3, <4>2, <4>4, <6>1 DEF OnlyLiveNodesHaveKids
          <6> QED
            BY <1>4, <6>2
        <5>2. RoundOf(language, round, nodes[id].ctx)
          BY <1>4, <5>1
        <5>3. RoundOf(language, Home(nodes[n]) - 1, nodes[id].ctx)
          BY <3>1, <3>5, <4>4 DEF SInv, HomesFit
        <5>4. Home(nodes[n]) - 1 = round
          <6>1. nodes[id].ctx \in Ctx /\ language \in Language
            BY <1>2, LiveFacts, TrackedFacts
          <6> QED
            BY <5>2, <5>3, <6>1, OneRoundAssumption DEF RoundOf
        <5>5. nodes[n].attempts = 0 /\ nodes[n].depth \in Nat
          BY <1>1, <3>1, <3>5 DEF SInv, AllPlain, IsPlain, Live, Node
        <5>6. nodes'[n].depth = round + 1
          BY <1>1, <3>1, <5>4, <5>5 DEF Home
        <5> QED
          BY <2>2, <5>6
      <4> QED
        BY <4>3, <4>4
    <3> QED
      BY <1>2, <3>3, <3>4, <3>5 DEF Attended
  <2> QED
    BY <2>3, <2>4, <2>5
<1>11. Tight'
  BY <1>10 DEF Tight
<1>12. BatchesAreFull'
  BY <1>2 DEF SInv, BatchesAreFull
<1> QED
  BY <1>7, <1>8, <1>9, <1>11, <1>12 DEF SInv

(* The steps that leave the tree alone: who had its turn had it, and the     *)
(* next round is for those who wait for it.                                *)
LEMMA OtherStepsKeepSInv ==
  ASSUME IInv, Tracked, SInv, UNCHANGED <<nodes, text, language>>,
         \/ \E id \in todo : ParseJob(id)
         \/ StartRun \/ RoundsExhausted \/ NothingReady \/ CollectJobs
         \/ FinishBatch \/ EndRound
         \/ UNCHANGED allVars
  PROVE  SInv'
<1>1. HomesFit' /\ AllPlain' /\ RootKnown'
  BY DEF SInv, HomesFit, AllPlain, RootKnown
<1>2. /\ round \in Nat /\ MaxRounds \in Nat
      /\ \A n \in DOMAIN nodes : nodes[n].depth \in Nat
  BY IInvFacts DEF Node
<1>3. /\ Pending(nodes', MaxRounds) = Pending(nodes, MaxRounds) /\ nodes' = nodes
      /\ Pending(nodes, MaxRounds) \subseteq Live(nodes)
      /\ Live(nodes) \subseteq DOMAIN nodes
  BY DEF Pending, IsPending, Live
<1> DEFINE Waits(n) == /\ nodes[n].status = "Unparsed" /\ n # Root
                       /\ IsPending(nodes, nodes[n].parent, MaxRounds)
           Late == {n \in Pending(nodes, MaxRounds) : nodes[n].depth < MaxRounds}
<1>4. \A n \in Late :
        \/ Running /\ Due(n)
        \/ nodes[n].status = "Unparsed" /\ n = Root /\ pc = "idle"
        \/ Waits(n)
  BY DEF SInv, Tight, Attended
<1>5. /\ Tight' <=> \A n \in Late : Attended(n)'
      /\ \A n : Waits(n) => Attended(n)'
  BY <1>3 DEF Tight, Attended
<1> HIDE DEF Late, Waits
<1>6. CASE StartRun
  <2>1. pc' = "check" /\ round' = 0 /\ pc \in {"idle", "done"}
    BY <1>6 DEF StartRun, Resting
  <2>2. ASSUME NEW n \in Late PROVE Attended(n)'
    <3>1. CASE nodes[n].status = "Unparsed" /\ n = Root /\ pc = "idle"
      <4>1. nodes[Root].depth = 0
        <5>1. Root \in Live(nodes) /\ nodes[Root].depth = nodes[Root].attempts
          BY WalkFacts, IInvFacts DEF Homed
        <5> QED
          BY <3>1, <5>1 DEF SInv, AllPlain, IsPlain
      <4> QED
        BY <2>1, <3>1, <4>1, <1>3 DEF Attended, Running, Due
    <3> QED
      BY <1>4, <1>5, <2>1, <3>1 DEF Running
  <2>3. BatchesAreFull'
    BY <2>1 DEF BatchesAreFull
  <2> QED
    BY <1>1, <1>5, <2>2, <2>3 DEF SInv
<1>7. CASE RoundsExhausted \/ NothingReady
  <2>1. pc' = "done" /\ pc = "check"
    BY <1>7 DEF RoundsExhausted, NothingReady, Return
  <2>2. ASSUME NEW n \in Late, Due(n) PROVE FALSE
    <3>1. nodes[n].depth = round
      BY <2>1, <2>2 DEF Due
    <3>2. n \in Pending(nodes, MaxRounds) /\ nodes[n].depth < MaxRounds
      BY <2>2 DEF Late
    <3>3. n \in ReadyJobs(nodes, round)
      BY <3>1, <3>2 DEF ReadyJobs, Pending, IsPending, Live
    <3>4. CASE RoundsExhausted
      BY <1>2, <3>1, <3>2, <3>4 DEF RoundsExhausted
    <3>5. CASE NothingReady
      BY <3>3, <3>5 DEF NothingReady
    <3> QED
      BY <1>7, <3>4, <3>5
  <2>3. \A n \in Late : Attended(n)'
    BY <1>4, <1>5, <2>1, <2>2
  <2>4. BatchesAreFull'
    BY <2>1 DEF BatchesAreFull
  <2> QED
    BY <1>1, <1>5, <2>3, <2>4 DEF SInv
<1>8. CASE EndRound
  <2>1. /\ pc = "merge" /\ DOMAIN outcomes = {} /\ todo = {}
        /\ pc' = "check" /\ round' = round + 1
    BY <1>8 DEF EndRound, SInv, BatchesAreFull
  <2>2. ASSUME NEW n \in Late, Due(n) PROVE Attended(n)'
    <3>1. n \in Pending(nodes, MaxRounds) /\ n \in DOMAIN nodes
      BY <1>3, <2>2 DEF Late
    <3>2. nodes[n].depth > round
      BY <2>1, <3>1 DEF IInv, NothingLeftBehind
    <3>3. nodes[n].depth = round + 1
      BY <1>2, <2>2, <3>1, <3>2 DEF Due
    <3> QED
      BY <1>3, <2>1, <3>3 DEF Attended, Running, Due
  <2>3. \A n \in Late : Attended(n)'
    BY <1>4, <1>5, <2>1, <2>2
  <2>4. BatchesAreFull'
    BY <2>1 DEF BatchesAreFull
  <2> QED
    BY <1>1, <1>5, <2>3, <2>4 DEF SInv
<1>9. CASE (\E id \in todo : ParseJob(id)) \/ CollectJobs \/ FinishBatch
           \/ UNCHANGED allVars
  <2>1. /\ round' = round
        /\ \/ pc' = pc /\ (todo' = todo \/ pc = "execute")
           \/ pc = "check" /\ pc' = "execute"
           \/ pc = "execute" /\ pc' = "merge" /\ todo' = {}
    BY <1>9 DEF ParseJob, CollectJobs, FinishBatch, StopBatch, allVars, vars, runVars
  <2>2. ASSUME NEW n \in Late PROVE Attended(n)'
    <3>1. CASE Running /\ Due(n)
      BY <1>3, <2>1, <3>1 DEF Attended, Running, Due
    <3>2. CASE nodes[n].status = "Unparsed" /\ n = Root /\ pc = "idle"
      BY <1>3, <2>1, <3>2 DEF Attended
    <3> QED
      BY <1>4, <1>5, <3>1, <3>2
  <2>3. BatchesAreFull'
    BY <2>1 DEF SInv, BatchesAreFull
  <2> QED
    BY <1>1, <1>5, <2>2, <2>3 DEF SInv
<1> QED
  BY <1>6, <1>7, <1>8, <1>9

(* Every step keeps it.                                                     *)
LEMMA NextSInv ==
  ASSUME IInv, Tracked, EveryNodeIsCurrent, SInv, [NextText]_allVars
  PROVE  SInv'
<1>1. ASSUME NEW first \in 0 .. Len(text), NEW typed \in Typed,
             NEW last \in first .. Len(text), Type(first, last, typed)
      PROVE  SInv'
  BY <1>1, TypeKeepsSInv
<1>2. ASSUME NEW id \in DOMAIN outcomes, MergeJob(id), UNCHANGED <<text, language>>
      PROVE  SInv'
  BY <1>2, MergeKeepsSInv
<1>3. ASSUME NEW id \in todo, ParseJob(id)
      PROVE  SInv'
  <2>1. UNCHANGED <<nodes, text, language>>
    BY <1>3 DEF ParseJob, treeVars
  <2> QED
    BY <1>3, <2>1, OtherStepsKeepSInv
<1>4. CASE UNCHANGED allVars
  <2>1. UNCHANGED <<nodes, text, language>>
    BY <1>4 DEF allVars, vars, treeVars
  <2> QED
    BY <1>4, <2>1, OtherStepsKeepSInv
<1>5. CASE /\ \/ StartRun \/ RoundsExhausted \/ NothingReady \/ CollectJobs
              \/ FinishBatch \/ EndRound
           /\ UNCHANGED <<text, language>>
  <2>1. UNCHANGED nodes
    BY <1>5 DEF StartRun, RoundsExhausted, NothingReady, CollectJobs, FinishBatch,
       StopBatch, EndRound, Return, treeVars
  <2> QED
    BY <1>5, <2>1, OtherStepsKeepSInv
<1> QED
  BY <1>1, <1>2, <1>3, <1>4, <1>5, TextSteps

(* When a run returns, no pass of the schedule has anything left to do: a    *)
(* waiting node nearest to the root would wait for its parent.             *)
Finished == \A n \in Pending(nodes, MaxRounds) : nodes[n].depth >= MaxRounds

(* A run that returns leaves nothing to a round that exists.                *)
LEMMA RunsFinish ==
  ASSUME IInv, SInv, pc = "done"
  PROVE  Finished
<1> DEFINE S == {n \in Pending(nodes, MaxRounds) : nodes[n].depth < MaxRounds}
<1>1. ASSUME S # {} PROVE FALSE
  <2>1. S \subseteq Live(nodes) /\ S \subseteq DOMAIN nodes
    BY DEF Pending, IsPending, Live
  <2>2. \A n \in DOMAIN nodes : Deep[n] \in Nat /\ Deep[n] = nodes[n].depth
    BY WalkFacts, RankTypes DEF Deep
  <2>3. PICK n \in S : \A m \in S : Deep[n] <= Deep[m]
    <3>1. \A x \in S : Deep[x] \in Nat
      BY <2>1, <2>2
    <3> HIDE DEF S
    <3> QED
      BY <1>1, <3>1, LeastRanked
  <2>4. n \in Live(nodes) /\ n \in DOMAIN nodes
    BY <2>1
  <2>5. Attended(n)
    BY DEF SInv, Tight
  <2> DEFINE p == nodes[n].parent
  <2>6. n # Root /\ IsPending(nodes, p, MaxRounds)
    BY <2>5 DEF Attended, Running
  <2>7. p \in Live(nodes) /\ p \in DOMAIN nodes /\ nodes[n].depth > nodes[p].depth
    BY <2>4, <2>6, WalkFacts DEF Live
  <2>8. nodes[n].depth < MaxRounds
    OBVIOUS
  <2>9. p \in Pending(nodes, MaxRounds)
    BY <2>6, <2>7 DEF Pending
  <2>10. Deep[p] < Deep[n] /\ Deep[p] \in Nat /\ Deep[n] \in Nat
         /\ nodes[p].depth < MaxRounds
    BY <2>2, <2>4, <2>7, <2>8, MaxRoundsIsNat
  <2>11. p \in S
    BY <2>9, <2>10
  <2> HIDE DEF S, p
  <2> QED
    BY <2>3, <2>10, <2>11
<1>2. \A n \in Pending(nodes, MaxRounds) : nodes[n].depth \in Nat
  BY IInvFacts DEF Pending, Node
<1> QED
  BY <1>1, <1>2, MaxRoundsIsNat DEF Finished

----------------------------------------------------------------------------
(* The two walks that list the regions of a parse, unfolded once.          *)

Line == [region : Region, status : Status, level : Nat]

Listing == [Nat -> Seq(Line)]

IsView(f) ==
  f = [n \in DOMAIN nodes |-> [level \in Nat |->
         Entry(RegionOf(nodes, n), nodes[n].status, level)
           \o Sq!FlattenSeq([i \in DOMAIN nodes[n].children |->
                               f[nodes[n].children[i]][level + 1]])]]

IsParse(f) ==
  f = [p \in Nat |-> [r \in RegionsIn(text) |-> [level \in Nat |->
         LET o == ReplyIn(p, r) IN
         IF p >= MaxRounds THEN Entry(r, "Unparsed", level)
         ELSE IF Refused(r, o)
              THEN IF p + 1 = MaxRounds THEN Entry(r, "Failed", level)
                   ELSE f[p + 1][r][level]
         ELSE IF o.children = <<>> THEN Entry(r, "Done", level)
         ELSE Entry(r, "Expanded", level)
                \o Sq!FlattenSeq([k \in DOMAIN o.children |->
                                    f[p + 1][o.children[k]][level + 1]])]]]

(* An entry is one line.                                                    *)
LEMMA EntryType ==
  ASSUME NEW r \in Region, NEW status \in Status, NEW level \in Nat
  PROVE  Entry(r, status, level) \in Seq(Line)
<1>1. [region |-> r, status |-> status, level |-> level] \in Line
  BY DEF Line
<1> QED
  BY <1>1 DEF Entry

(* An entry, followed by lists of entries, is a list of entries.            *)
LEMMA EntryAndMore ==
  ASSUME NEW r \in Region, NEW status \in Status, NEW level \in Nat,
         NEW n \in Nat, NEW seqs \in [1 .. n -> Seq(Line)]
  PROVE  Entry(r, status, level) \o Sq!FlattenSeq(seqs) \in Seq(Line)
<1>1. Entry(r, status, level) \in Seq(Line)
  BY EntryType
<1>2. Sq!FlattenSeq(seqs) \in Seq(Line)
  BY FlattenType
<1> QED
  BY <1>1, <1>2, ConcatProperties

(* ... and alone when the lists are none.                                   *)
LEMMA EntryAlone ==
  ASSUME NEW r \in Region, NEW status \in Status, NEW level \in Nat, NEW seqs,
         DOMAIN seqs = {}, seqs = [i \in DOMAIN seqs |-> seqs[i]]
  PROVE  Entry(r, status, level) \o Sq!FlattenSeq(seqs) = Entry(r, status, level)
<1>1. seqs \in [1 .. 0 -> Seq(Line)]
  OBVIOUS
<1>2. seqs \in Seq(Seq(Line))
  BY <1>1, SeqDef
<1>3. Len(seqs) = 0 /\ seqs = <<>>
  BY <1>2, LenProperties
<1>4. Sq!FlattenSeq(seqs) = <<>>
  BY <1>3 DEF Sq!FlattenSeq
<1>5. Entry(r, status, level) \in Seq(Line)
  BY EntryType
<1> QED
  BY <1>4, <1>5

(* What is shown of a subtree: its entry, then its parts.                   *)
LEMMA ViewUnfolds ==
  ASSUME IInv
  PROVE  \E view : IsView(view) /\ Shown = view[Root][0]
<1> DEFINE D == DOMAIN nodes
           Kid(n, i) == nodes[n].children[i]
           Mine(n, level) == Entry(RegionOf(nodes, n), nodes[n].status, level)
           Theirs(n, level, f) == [i \in DOMAIN nodes[n].children |-> f[Kid(n, i)][level + 1]]
           Step == [n \in D |-> [f \in [D -> Listing] |-> [level \in Nat |->
                      Mine(n, level) \o Sq!FlattenSeq(Theirs(n, level, f))]]]
<1>1. ASSUME NEW n \in D
      PROVE  /\ RegionOf(nodes, n) \in Region /\ nodes[n].status \in Status
             /\ \E m \in Nat : DOMAIN nodes[n].children = 1 .. m
             /\ \A i \in DOMAIN nodes[n].children : Kid(n, i) \in D /\ Above[Kid(n, i)] < Above[n]
  <2>1. nodes[n] \in Node
    BY IInvFacts
  <2>2. RegionOf(nodes, n) \in Region /\ nodes[n].status \in Status
    BY <2>1 DEF Node, RegionOf, Region
  <2>3. nodes[n].children \in Seq(Nat)
    BY <2>1 DEF Node
  <2>4. DOMAIN nodes[n].children = 1 .. Len(nodes[n].children) /\ Len(nodes[n].children) \in Nat
    BY <2>3, LenProperties
  <2>5. \A i \in DOMAIN nodes[n].children : Kid(n, i) \in Kids(nodes, n)
    BY DEF Kids
  <2> QED
    BY <2>2, <2>4, <2>5, RankTypes
<1>2. Step \in [D -> [[D -> Listing] -> Listing]]
  <2>1. ASSUME NEW n \in D, NEW f \in [D -> Listing], NEW level \in Nat
        PROVE  Mine(n, level) \o Sq!FlattenSeq(Theirs(n, level, f)) \in Seq(Line)
    <3>1. PICK m \in Nat : DOMAIN nodes[n].children = 1 .. m
      BY <1>1
    <3>2. \A i \in 1 .. m : f[Kid(n, i)][level + 1] \in Seq(Line)
      <4>1. \A i \in 1 .. m : f[Kid(n, i)] \in Listing
        BY <1>1, <3>1
      <4>2. level + 1 \in Nat
        OBVIOUS
      <4> HIDE DEF D
      <4> QED
        BY <4>1, <4>2 DEF Listing
    <3>3. Theirs(n, level, f) \in [1 .. m -> Seq(Line)]
      BY <3>1, <3>2
    <3> HIDE DEF D, Theirs
    <3> QED
      BY <1>1, <2>1, <3>3, EntryAndMore
  <2> HIDE DEF D, Mine, Theirs
  <2> QED
    BY <2>1 DEF Listing
<1>3. LooksDown(D, Listing, Above, Step)
  <2>1. ASSUME NEW x \in D, NEW f \in [D -> Listing], NEW g \in [D -> Listing],
               \A y \in D : Above[y] < Above[x] => f[y] = g[y]
        PROVE  Step[x][f] = Step[x][g]
    <3>1. \A i \in DOMAIN nodes[x].children : f[Kid(x, i)] = g[Kid(x, i)]
      BY <1>1, <2>1
    <3>2. \A level \in Nat : Theirs(x, level, f) = Theirs(x, level, g)
      BY <3>1
    <3> HIDE DEF D, Mine, Theirs
    <3> QED
      BY <3>2
  <2> HIDE DEF D, Step
  <2> QED
    BY <2>1 DEF LooksDown
<1>4. \E f \in [D -> Listing] : Solves(f, D, Step)
  <2>1. Above \in [D -> 0 .. MaxRounds]
    BY RankTypes
  <2>2. [n \in D |-> [level \in Nat |-> <<>>]] \in [D -> Listing]
    BY DEF Listing
  <2> HIDE DEF Step, D
  <2> QED
    BY <1>2, <1>3, <2>1, <2>2, MaxRoundsIsNat, Recursion
<1>5. PICK f \in [D -> Listing] : \A x \in D : f[x] = Step[x][f]
  BY <1>4 DEF Solves
<1>6. IsView(f)
  <2>1. \A x \in D : f[x] = [level \in Nat |-> Mine(x, level) \o Sq!FlattenSeq(Theirs(x, level, f))]
    <3> HIDE DEF D, Mine, Theirs
    <3> QED
      BY <1>5
  <2>2. f = [x \in D |-> f[x]]
    OBVIOUS
  <2> QED
    BY <2>1, <2>2 DEF IsView
<1> DEFINE c == CHOOSE g : IsView(g)
<1>7. IsView(c)
  BY <1>6
<1>8. Shown = c[Root][0]
  BY DEF Shown, IsView
<1> QED
  BY <1>7, <1>8

(* Children that are not refused are regions of the text.                   *)
LEMMA GoodChildren ==
  ASSUME Tracked, NEW p \in Nat, NEW r \in RegionsIn(text), ~Refused(r, ReplyIn(p, r))
  PROVE  LET o == ReplyIn(p, r) IN
         /\ o \in Outcome
         /\ \A k \in DOMAIN o.children : o.children[k] \in RegionsIn(text)
<1> DEFINE o == ReplyIn(p, r)
<1>1. r.span \in SpansIn(text) /\ r.ctx \in Ctx /\ r = [span |-> r.span, ctx |-> r.ctx]
  BY DEF RegionsIn
<1>2. o \in Outcome
  <2>1. o = AnswerIn(language, text, p, r.span, r.ctx)
    BY DEF ReplyIn, AnswerIn
  <2> QED
    BY <1>1, <2>1, AnswerIsAnOutcome, TrackedFacts
<1>3. ASSUME NEW k \in DOMAIN o.children
      PROVE  o.children[k] \in RegionsIn(text)
  <2> DEFINE c == o.children[k]
  <2>1. ViolationKind(r.span, c.span, EnforceShrink) = "None"
    BY DEF Refused
  <2>2. c \in Region
    BY <1>2, OutcomeChildren
  <2> HIDE DEF c
  <2>3. c.span.rev = r.span.rev /\ Contains(r.span, c.span)
    BY <2>1 DEF ViolationKind
  <2>4. c.span \in Span /\ c.ctx \in Ctx /\ c = [span |-> c.span, ctx |-> c.ctx]
    BY <2>2 DEF Region
  <2>5. Len(text) \in Nat
    BY TrackedFacts, LenProperties
  <2>6. c.span \in SpansIn(text)
    BY <1>1, <2>3, <2>4, <2>5 DEF SpansIn, Span, Contains
  <2>7. c \in RegionsIn(text)
    BY <2>4, <2>6 DEF RegionsIn
  <2> QED
    BY <2>7 DEF c
<1> QED
  BY <1>2, <1>3

(* The regions of a text are regions of the tree.                           *)
LEMMA RegionsAreRegions ==
  ASSUME Tracked PROVE RegionsIn(text) \subseteq Region
<1>1. SpansIn(text) \subseteq Span
  <2>1. Len(text) \in Nat
    BY TrackedFacts, LenProperties
  <2> QED
    BY <2>1, BoundsAssumption DEF SpansIn, Span
<1> QED
  BY <1>1 DEF RegionsIn, Region

(* The parse from scratch, one region at a time.                            *)
LEMMA FreshUnfolds ==
  ASSUME Tracked
  PROVE  \E parse :
           /\ IsParse(parse)
           /\ Fresh = parse[0][[span |-> SpanOf(0, Len(text), rev), ctx |-> RootCtx]][0]
<1> DEFINE R == RegionsIn(text)
           V == [R -> Listing]
           Row(o, p, level, f) ==
             [k \in DOMAIN o.children |-> f[p + 1][o.children[k]][level + 1]]
           Value(p, r, level, f) ==
             LET o == ReplyIn(p, r) IN
             IF p >= MaxRounds THEN Entry(r, "Unparsed", level)
             ELSE IF Refused(r, o)
                  THEN IF p + 1 = MaxRounds THEN Entry(r, "Failed", level)
                       ELSE f[p + 1][r][level]
             ELSE IF o.children = <<>> THEN Entry(r, "Done", level)
             ELSE Entry(r, "Expanded", level) \o Sq!FlattenSeq(Row(o, p, level, f))
           Step == [p \in Nat |-> [f \in [Nat -> V] |-> [r \in R |-> [level \in Nat |->
                      Value(p, r, level, f)]]]]
           rank == [p \in Nat |-> IF p < MaxRounds THEN MaxRounds - p ELSE 0]
<1>1. ASSUME NEW p \in Nat, NEW f \in [Nat -> V], NEW r \in R, NEW level \in Nat
      PROVE  Value(p, r, level, f) \in Seq(Line)
  <2>0. r \in Region /\ {"Unparsed", "Failed", "Done", "Expanded"} \subseteq Status
    BY RegionsAreRegions DEF Status
  <2>1. \A status \in Status : Entry(r, status, level) \in Seq(Line)
    BY <2>0, EntryType
  <2>2. \A q \in R, j \in Nat : f[p + 1][q][j] \in Seq(Line)
    <3>1. f[p + 1] \in V
      OBVIOUS
    <3> HIDE DEF R
    <3> QED
      BY <3>1 DEF Listing
  <2> DEFINE o == ReplyIn(p, r)
  <2>3. ASSUME ~Refused(r, o)
        PROVE  Entry(r, "Expanded", level) \o Sq!FlattenSeq(Row(o, p, level, f)) \in Seq(Line)
    <3>1. o \in Outcome /\ \A k \in DOMAIN o.children : o.children[k] \in R
      BY <2>3, GoodChildren
    <3>2. DOMAIN o.children = 1 .. Len(o.children) /\ Len(o.children) \in Nat
      <4>1. o.children \in Seq(Region)
        BY <3>1, OutcomeChildren
      <4> QED
        BY <4>1, LenProperties
    <3>3. Row(o, p, level, f) \in [1 .. Len(o.children) -> Seq(Line)]
      <4>1. level + 1 \in Nat
        OBVIOUS
      <4> HIDE DEF o, R, V
      <4> QED
        BY <2>2, <3>1, <3>2, <4>1
    <3> HIDE DEF o, Row
    <3> QED
      BY <2>0, <3>2, <3>3, EntryAndMore
  <2> HIDE DEF Row, R, V
  <2> QED
    BY <2>0, <2>1, <2>2, <2>3
<1>2. Step \in [Nat -> [[Nat -> V] -> V]]
  <2> HIDE DEF R, Value
  <2> QED
    BY <1>1 DEF Listing
<1>3. LooksDown(Nat, V, rank, Step)
  <2>1. ASSUME NEW p \in Nat, NEW f \in [Nat -> V], NEW g \in [Nat -> V],
               \A y \in Nat : rank[y] < rank[p] => f[y] = g[y]
        PROVE  Step[p][f] = Step[p][g]
    <3>1. p < MaxRounds => f[p + 1] = g[p + 1]
      <4>1. p < MaxRounds => rank[p + 1] < rank[p] /\ p + 1 \in Nat
        BY MaxRoundsIsNat
      <4> HIDE DEF rank
      <4> QED
        BY <2>1, <4>1
    <3>2. ASSUME NEW r \in R, NEW level \in Nat
          PROVE  Value(p, r, level, f) = Value(p, r, level, g)
      <4>1. CASE p >= MaxRounds
        BY <4>1
      <4>2. CASE p < MaxRounds
        BY <3>1, <4>2
      <4> QED
        BY <4>1, <4>2, MaxRoundsIsNat
    <3> HIDE DEF R, V, Value
    <3> QED
      BY <2>1, <3>2
  <2> HIDE DEF V, Step, rank
  <2> QED
    BY <2>1 DEF LooksDown
<1>4. \E f \in [Nat -> V] : Solves(f, Nat, Step)
  <2>1. rank \in [Nat -> 0 .. MaxRounds]
    BY MaxRoundsIsNat
  <2>2. [p \in Nat |-> [r \in R |-> [level \in Nat |-> <<>>]]] \in [Nat -> V]
    BY DEF Listing
  <2> HIDE DEF Step, V, rank
  <2> QED
    BY <1>2, <1>3, <2>1, <2>2, MaxRoundsIsNat, Recursion
<1>5. PICK f \in [Nat -> V] : \A x \in Nat : f[x] = Step[x][f]
  BY <1>4 DEF Solves
<1>6. IsParse(f)
  <2>1. \A x \in Nat : f[x] = [r \in R |-> [level \in Nat |-> Value(x, r, level, f)]]
    <3> HIDE DEF R, V, Value
    <3> QED
      BY <1>5
  <2>2. f = [x \in Nat |-> f[x]]
    OBVIOUS
  <2>3. f = [x \in Nat |-> [r \in R |-> [level \in Nat |-> Value(x, r, level, f)]]]
    <3> HIDE DEF R, V, Value
    <3> QED
      BY <2>1, <2>2
  <2> QED
    BY <2>3 DEF IsParse
<1> DEFINE c == CHOOSE g : IsParse(g)
<1>7. IsParse(c)
  BY <1>6
<1>8. Fresh = c[0][[span |-> SpanOf(0, Len(text), rev), ctx |-> RootCtx]][0]
  BY DEF Fresh, IsParse
<1> QED
  BY <1>7, <1>8

(* ... as they are used: an entry of each, for one node and one region.      *)
LEMMA ViewAt ==
  ASSUME NEW view, IsView(view), NEW n \in DOMAIN nodes, NEW level \in Nat
  PROVE  view[n][level] =
           Entry(RegionOf(nodes, n), nodes[n].status, level)
             \o Sq!FlattenSeq([i \in DOMAIN nodes[n].children |->
                                 view[nodes[n].children[i]][level + 1]])
<1> DEFINE Made(m, j) ==
             Entry(RegionOf(nodes, m), nodes[m].status, j)
               \o Sq!FlattenSeq([i \in DOMAIN nodes[m].children |->
                                   view[nodes[m].children[i]][j + 1]])
<1>1. view = [m \in DOMAIN nodes |-> [j \in Nat |-> Made(m, j)]]
  BY DEF IsView
<1>2. view[n][level] = Made(n, level)
  <2> HIDE DEF Made
  <2> QED
    BY <1>1
<1> QED
  BY <1>2

(* One region in one round of it.                                           *)
LEMMA ParseAt ==
  ASSUME NEW parse, IsParse(parse), NEW p \in Nat, NEW r \in RegionsIn(text),
         NEW level \in Nat
  PROVE  parse[p][r][level] =
           LET o == ReplyIn(p, r) IN
           IF p >= MaxRounds THEN Entry(r, "Unparsed", level)
           ELSE IF Refused(r, o)
                THEN IF p + 1 = MaxRounds THEN Entry(r, "Failed", level)
                     ELSE parse[p + 1][r][level]
           ELSE IF o.children = <<>> THEN Entry(r, "Done", level)
           ELSE Entry(r, "Expanded", level)
                  \o Sq!FlattenSeq([k \in DOMAIN o.children |->
                                      parse[p + 1][o.children[k]][level + 1]])
<1> DEFINE Made(q, g, j) ==
             LET o == ReplyIn(q, g) IN
             IF q >= MaxRounds THEN Entry(g, "Unparsed", j)
             ELSE IF Refused(g, o)
                  THEN IF q + 1 = MaxRounds THEN Entry(g, "Failed", j)
                       ELSE parse[q + 1][g][j]
             ELSE IF o.children = <<>> THEN Entry(g, "Done", j)
             ELSE Entry(g, "Expanded", j)
                    \o Sq!FlattenSeq([k \in DOMAIN o.children |->
                                        parse[q + 1][o.children[k]][j + 1]])
<1>1. parse = [q \in Nat |-> [g \in RegionsIn(text) |-> [j \in Nat |-> Made(q, g, j)]]]
  BY DEF IsParse
<1>2. parse[p][r][level] = Made(p, r, level)
  <2> HIDE DEF Made
  <2> QED
    BY <1>1
<1> QED
  BY <1>2

(* A refused region is tried again in the next round.                       *)
LEMMA RefusedRoundPasses ==
  ASSUME NEW parse, IsParse(parse), NEW r \in RegionsIn(text), NEW level \in Nat,
         NEW p \in Nat, ~(p >= MaxRounds), p + 1 # MaxRounds, Refused(r, ReplyIn(p, r))
  PROVE  parse[p][r][level] = parse[p + 1][r][level]
  BY ParseAt

(* A region refused in the rounds from h on is what it is in the round after *)
(* them, if there is one.                                                  *)
LEMMA RefusedRoundsPass ==
  ASSUME NEW parse, IsParse(parse), NEW r \in RegionsIn(text), NEW level \in Nat,
         NEW h \in Nat, NEW d \in Nat, h <= d, d < MaxRounds,
         \A p \in h .. (d - 1) : Refused(r, ReplyIn(p, r))
  PROVE  parse[h][r][level] = parse[d][r][level]
<1> DEFINE S == {e \in h .. d : parse[h][r][level] # parse[e][r][level]}
<1>1. ASSUME S # {} PROVE FALSE
  <2>1. PICK e \in S : \A g \in S : e <= g
    <3>1. S \in SUBSET Nat
      OBVIOUS
    <3> HIDE DEF S
    <3> QED
      BY <1>1, <3>1, LeastNatural
  <2>2. e \in h .. d /\ parse[h][r][level] # parse[e][r][level]
    OBVIOUS
  <2>3. e # h
    BY <2>2
  <2> DEFINE b == e - 1
  <2>4. b \in h .. d /\ b \in h .. (d - 1) /\ b \in Nat /\ b + 1 = e /\ ~(e <= b)
    BY <2>2, <2>3
  <2>5. b < MaxRounds /\ b + 1 # MaxRounds
    BY <2>4, <2>2, MaxRoundsIsNat
  <2> HIDE DEF b
  <2>6. b \notin S
    <3> HIDE DEF S
    <3> QED
      BY <2>1, <2>4
  <2>7. parse[h][r][level] = parse[b][r][level]
    BY <2>4, <2>6
  <2>8. ~(b >= MaxRounds) /\ Refused(r, ReplyIn(b, r))
    BY <2>4, <2>5, MaxRoundsIsNat
  <2>9. parse[b][r][level] = parse[b + 1][r][level]
    BY <2>4, <2>5, <2>8, RefusedRoundPasses
  <2> QED
    BY <2>2, <2>4, <2>7, <2>9
<1>2. d \in h .. d
  OBVIOUS
<1> QED
  BY <1>1, <1>2

(* What a node's own record says of its region is what a parse from nothing  *)
(* does with the region, up to the children.                               *)
AsFresh(parse, n, level) ==
  LET r == RegionOf(nodes, n)
      d == nodes[n].depth
      o == ReplyIn(d, r)
  IN  /\ r \in RegionsIn(text) /\ Home(nodes[n]) \in Nat /\ d \in Nat
      /\ nodes[n].status = "Expanded" =>
           /\ RoundOf(language, d, r.ctx)
           /\ o.children =
                [i \in DOMAIN nodes[n].children |-> RegionOf(nodes, nodes[n].children[i])]
           /\ parse[Home(nodes[n])][r][level] =
                Entry(r, "Expanded", level)
                  \o Sq!FlattenSeq([k \in DOMAIN o.children |->
                                      parse[d + 1][o.children[k]][level + 1]])
      /\ nodes[n].status # "Expanded" =>
           /\ DOMAIN nodes[n].children = {}
           /\ parse[Home(nodes[n])][r][level] = Entry(r, nodes[n].status, level)

(* A subtree shows what the parse from scratch makes of its region.         *)
LEMMA NodeAsFresh ==
  ASSUME IInv, Tracked, EveryNodeIsCurrent, SInv, Finished,
         NEW parse, IsParse(parse), NEW n \in Live(nodes), NEW level \in Nat
  PROVE  AsFresh(parse, n, level)
<1> DEFINE r == RegionOf(nodes, n)
           d == nodes[n].depth
           h == Home(nodes[n])
           kids == nodes[n].children
           Reply(p) == AnswerIn(language, text, p, nodes[n].span, nodes[n].ctx)
<1>1. /\ n \in DOMAIN nodes /\ nodes[n] \in Node /\ nodes[n].alive
      /\ nodes[n].span \in SpansIn(text) /\ nodes[n].ctx \in Ctx
      /\ r.span = nodes[n].span /\ r.ctx = nodes[n].ctx
  BY LiveFacts DEF RegionOf, Live
<1>2. r \in RegionsIn(text)
  BY <1>1 DEF RegionsIn, RegionOf
<1>3. /\ d \in Nat /\ d <= MaxRounds /\ nodes[n].attempts \in Nat
      /\ h \in Nat /\ h <= d /\ MaxRounds \in Nat
      /\ nodes[n].attempts = 0 => h = d
      /\ nodes[n].attempts > 0 => h < d
  <2>1. /\ nodes[n].attempts \in Nat /\ d \in Nat /\ nodes[n].attempts <= d
        /\ d <= MaxRounds
    BY <1>1, IInvFacts DEF Node, Homed
  <2> QED
    BY <2>1, MaxRoundsIsNat DEF Home
<1>4. /\ nodes[n].status \in Status
      /\ DOMAIN kids # {} => nodes[n].status \in {"Unparsed", "Expanded"}
      /\ \A k \in Kids(nodes, n) : k \in DOMAIN nodes /\ nodes[k].depth > d
      /\ \A i \in DOMAIN kids : kids[i] \in Kids(nodes, n)
  <2>1. OnlyLiveNodesHaveKids(nodes)
    BY DEF IInv, TreeShape, WellShaped
  <2>2. \A i \in DOMAIN kids : kids[i] \in Kids(nodes, n)
    BY DEF Kids
  <2> QED
    BY <1>1, <2>1, <2>2, WalkFacts DEF OnlyLiveNodesHaveKids, Node, Live
<1>5. /\ \A p : Reply(p) = ReplyIn(p, r)
      /\ \A o : Applied(nodes, n, o, EnforceShrink) = "Failed" <=> Refused(r, o)
  <2>1. \A p : Reply(p) = ReplyIn(p, r)
    BY <1>1 DEF AnswerIn, ReplyIn
  <2>2. ASSUME NEW o
        PROVE  Applied(nodes, n, o, EnforceShrink) = "Failed" <=> Refused(r, o)
    BY <1>1 DEF Applied, Refused, Breaches
  <2> QED
    BY <2>1, <2>2
<1>6. /\ NodeFits(language, text, nodes, n) /\ IsPlain(nodes[n])
      /\ IsPending(nodes, n, MaxRounds) => d >= MaxRounds
  BY <1>1, CurrentIsFits DEF SInv, AllPlain, Finished, Pending
<1>7. \A p \in h .. (d - 1) : Refused(r, ReplyIn(p, r))
  BY <1>5, <1>6 DEF NodeFits
<1>8. /\ nodes[n].status = "Failed" => nodes[n].attempts > 0
      /\ nodes[n].status \in {"Done", "Expanded"} =>
           Applied(nodes, n, ReplyIn(d, r), EnforceShrink) = nodes[n].status
      /\ nodes[n].status = "Expanded" =>
           [i \in DOMAIN kids |-> RegionOf(nodes, kids[i])] = ReplyIn(d, r).children
  BY <1>5, <1>6 DEF NodeFits
<1> HIDE DEF r, d, h, kids, Reply
<1>9. CASE nodes[n].status = "Unparsed"
  <2>1. d = MaxRounds /\ h = d
    BY <1>1, <1>3, <1>6, <1>9 DEF IsPlain, IsPending
  <2>2. DOMAIN kids = {}
    <3>1. ASSUME NEW i \in DOMAIN kids PROVE FALSE
      <4>1. kids[i] \in DOMAIN nodes /\ nodes[kids[i]].depth > d
        BY <1>4
      <4>2. nodes[kids[i]].depth \in Nat /\ nodes[kids[i]].depth <= MaxRounds
        BY <4>1, IInvFacts DEF Node
      <4> QED
        BY <1>3, <2>1, <4>1, <4>2
    <3> QED
      BY <3>1
  <2>3. parse[h][r][level] = Entry(r, "Unparsed", level)
    <3>1. h >= MaxRounds
      BY <1>3, <2>1
    <3> QED
      BY <1>2, <1>3, <3>1, ParseAt
  <2> QED
    BY <1>2, <1>3, <1>9, <2>2, <2>3 DEF AsFresh, r, d, h, kids
<1>10. CASE nodes[n].status = "Failed"
  <2>1. d = MaxRounds /\ h < d
    BY <1>1, <1>3, <1>6, <1>8, <1>10 DEF IsPending, d
  <2>2. DOMAIN kids = {}
    BY <1>4, <1>10
  <2> DEFINE b == d - 1
  <2>3. /\ b \in Nat /\ h <= b /\ b < MaxRounds /\ b + 1 = MaxRounds
        /\ b \in h .. (d - 1) /\ \A p \in h .. (b - 1) : p \in h .. (d - 1)
        /\ ~(b >= MaxRounds)
    BY <1>3, <2>1
  <2> HIDE DEF b
  <2>4. parse[h][r][level] = parse[b][r][level]
    BY <1>2, <1>3, <1>7, <2>3, RefusedRoundsPass
  <2>5. parse[b][r][level] = Entry(r, "Failed", level)
    <3>1. Refused(r, ReplyIn(b, r))
      BY <1>7, <2>3
    <3> QED
      BY <1>2, <2>3, <3>1, ParseAt
  <2> QED
    BY <1>2, <1>3, <1>10, <2>2, <2>4, <2>5 DEF AsFresh, r, d, h, kids
<1>11. CASE nodes[n].status \in {"Done", "Expanded"}
  <2>1. d < MaxRounds /\ ~(d >= MaxRounds)
    BY <1>3, <1>6, <1>11 DEF IsPlain, d
  <2>2. parse[h][r][level] = parse[d][r][level]
    BY <1>2, <1>3, <1>7, <2>1, RefusedRoundsPass
  <2> DEFINE o == ReplyIn(d, r)
             more == [k \in DOMAIN o.children |-> parse[d + 1][o.children[k]][level + 1]]
  <2>3. ~Refused(r, o)
    BY <1>5, <1>8, <1>11
  <2>4. (o.children = <<>>) <=> nodes[n].status = "Done"
    BY <1>8, <1>11 DEF Applied
  <2>5. parse[d][r][level] =
          IF o.children = <<>> THEN Entry(r, "Done", level)
          ELSE Entry(r, "Expanded", level) \o Sq!FlattenSeq(more)
    BY <1>2, <1>3, <2>1, <2>3, ParseAt
  <2> HIDE DEF more
  <2>6. CASE nodes[n].status = "Done"
    <3>1. DOMAIN kids = {}
      BY <1>4, <2>6
    <3> QED
      BY <1>2, <1>3, <2>2, <2>4, <2>5, <2>6, <3>1 DEF AsFresh, r, d, h, kids
  <2>7. CASE nodes[n].status = "Expanded"
    <3>1. RoundOf(language, d, r.ctx)
      <4>1. Reply(d) \in Outcome
        BY <1>1, <1>3, AnswerIsAnOutcome, TrackedFacts DEF Reply
      <4>2. Applied(nodes, n, Reply(d), EnforceShrink) = "Expanded"
        BY <1>5, <1>8, <2>7
      <4>3. RoundOf(language, d, nodes[n].ctx)
        BY <1>1, <1>3, <4>1, <4>2, ExpandedInRound, TrackedFacts DEF Reply
      <4> QED
        BY <1>1, <4>3
    <3>2. o.children = [i \in DOMAIN kids |-> RegionOf(nodes, kids[i])]
      BY <1>8, <2>7
    <3>3. parse[h][r][level] = Entry(r, "Expanded", level) \o Sq!FlattenSeq(more)
      BY <2>2, <2>4, <2>5, <2>7
    <3> QED
      BY <1>2, <1>3, <2>7, <3>1, <3>2, <3>3 DEF AsFresh, more, r, d, h, kids
  <2> QED
    BY <1>11, <2>6, <2>7
<1> QED
  BY <1>4, <1>9, <1>10, <1>11 DEF Status

(* From the last round up: what hangs below a node is what a parse from      *)
(* nothing makes of its region.                                            *)
LEMMA TreeAsFresh ==
  ASSUME IInv, Tracked, EveryNodeIsCurrent, SInv, Finished,
         NEW parse, IsParse(parse), NEW view, IsView(view)
  PROVE  \A n \in Live(nodes), level \in Nat :
           view[n][level] = parse[Home(nodes[n])][RegionOf(nodes, n)][level]
<1> DEFINE Same(n) == \A level \in Nat :
                        view[n][level] = parse[Home(nodes[n])][RegionOf(nodes, n)][level]
           S == {n \in Live(nodes) : ~Same(n)}
<1>1. ASSUME S # {} PROVE FALSE
  <2>1. \A x \in Live(nodes) : x \in DOMAIN nodes /\ Above[x] \in Nat
    BY RankTypes DEF Live
  <2>2. PICK n \in S : \A m \in S : Above[n] <= Above[m]
    <3>1. \A x \in S : Above[x] \in Nat
      BY <2>1
    <3> HIDE DEF S
    <3> QED
      BY <1>1, <3>1, LeastRanked
  <2>3. n \in Live(nodes) /\ n \in DOMAIN nodes /\ ~Same(n)
    BY <2>1
  <2> DEFINE r == RegionOf(nodes, n)
             d == nodes[n].depth
             h == Home(nodes[n])
             kids == nodes[n].children
             o == ReplyIn(d, r)
  <2>4. ASSUME NEW i \in DOMAIN kids
        PROVE  /\ kids[i] \in Live(nodes) \ {Root} /\ nodes[kids[i]].parent = n
               /\ Same(kids[i])
    <3>1. kids[i] \in Kids(nodes, n)
      BY DEF Kids
    <3>2. /\ kids[i] \in Live(nodes) \ {Root} /\ nodes[kids[i]].parent = n
          /\ Above[kids[i]] < Above[n]
      BY <2>3, <3>1, WalkFacts, RankTypes
    <3>3. kids[i] \notin S
      <4>1. Above[n] \in Nat /\ Above[kids[i]] \in Nat
        BY <2>1, <2>3, <3>2
      <4> HIDE DEF S, kids
      <4> QED
        BY <2>2, <3>2, <4>1
    <3> QED
      BY <3>2, <3>3
  <2> HIDE DEF S
  <2>5. ASSUME NEW level \in Nat
        PROVE  view[n][level] = parse[h][r][level]
    <3>a. AsFresh(parse, n, level)
      BY <2>3, NodeAsFresh, Zenon
    <3>0. view[n][level] =
            Entry(r, nodes[n].status, level)
              \o Sq!FlattenSeq([i \in DOMAIN kids |-> view[kids[i]][level + 1]])
      BY <2>3, ViewAt
    <3>1. CASE nodes[n].status # "Expanded"
      <4>1. DOMAIN kids = {} /\ parse[h][r][level] = Entry(r, nodes[n].status, level)
        BY <3>a, <3>1 DEF AsFresh
      <4>2. r \in Region /\ nodes[n].status \in Status
        <5>1. nodes[n] \in Node
          BY <2>3, IInvFacts
        <5> QED
          BY <5>1 DEF Node, RegionOf, Region
      <4> DEFINE none == [i \in DOMAIN kids |-> view[kids[i]][level + 1]]
      <4>3. DOMAIN none = {} /\ none = [i \in DOMAIN none |-> none[i]]
        BY <4>1
      <4> HIDE DEF none, r, kids
      <4>4. Entry(r, nodes[n].status, level) \o Sq!FlattenSeq(none)
              = Entry(r, nodes[n].status, level)
        BY <4>2, <4>3, EntryAlone
      <4> QED
        BY <3>0, <4>1, <4>4 DEF none
    <3>2. CASE nodes[n].status = "Expanded"
      <4>1. /\ RoundOf(language, d, r.ctx) /\ d \in Nat
            /\ o.children = [i \in DOMAIN kids |-> RegionOf(nodes, kids[i])]
            /\ parse[h][r][level] =
                 Entry(r, "Expanded", level)
                   \o Sq!FlattenSeq([k \in DOMAIN o.children |->
                                       parse[d + 1][o.children[k]][level + 1]])
        BY <3>a, <3>2 DEF AsFresh
      <4>2. ASSUME NEW i \in DOMAIN kids
            PROVE  view[kids[i]][level + 1] = parse[d + 1][RegionOf(nodes, kids[i])][level + 1]
        <5>1. RoundOf(language, Home(nodes[kids[i]]) - 1, r.ctx)
          BY <2>4 DEF SInv, HomesFit, RegionOf
        <5>2. Home(nodes[kids[i]]) - 1 = d
          <6>1. r.ctx \in Ctx /\ language \in Language
            BY <2>3, LiveFacts, TrackedFacts DEF RegionOf
          <6> HIDE DEF r, d, kids
          <6> QED
            BY <4>1, <5>1, <6>1, OneRoundAssumption DEF RoundOf
        <5>3. Home(nodes[kids[i]]) = d + 1
          <6>1. Home(nodes[kids[i]]) \in Nat
            <7>1. kids[i] \in Live(nodes)
              BY <2>4
            <7> HIDE DEF kids
            <7>2. AsFresh(parse, kids[i], level)
              BY <7>1, NodeAsFresh, Zenon
            <7> QED
              BY <7>2 DEF AsFresh
          <6>2. \A a, b \in Nat : a - 1 = b => a = b + 1
            OBVIOUS
          <6>3. d \in Nat
            BY <4>1
          <6> HIDE DEF d, kids
          <6> QED
            BY <5>2, <6>1, <6>2, <6>3, Zenon
        <5> QED
          BY <2>4, <5>3
      <4> DEFINE seen == [i \in DOMAIN kids |-> view[kids[i]][level + 1]]
                 found == [k \in DOMAIN o.children |->
                             parse[d + 1][o.children[k]][level + 1]]
      <4>3. seen = found
        <5> HIDE DEF o, r, d, kids
        <5> QED
          BY <4>1, <4>2
      <4> QED
        BY <3>0, <3>2, <4>1, <4>3
    <3> QED
      BY <3>1, <3>2
  <2> QED
    BY <2>3, <2>5
<1> QED
  BY <1>1

FInv == TInv /\ SInv

(* Both invariants, and with them that no run leaves work behind.           *)
LEMMA TextRunsInvariance == SpecText => []FInv
<1>1. InitText => FInv
  BY InitCurrent, InitSInv DEF TInv, FInv
<1>2. FInv /\ [NextText]_allVars => FInv'
  BY StepsAreTheEngines, NextIInv, NextTracked, NextCurrent, NextSInv DEF TInv, FInv
<1> QED
  BY <1>1, <1>2, PTL DEF SpecText

(* A session that was opened, typed in and run any number of times holds     *)
(* after each run the tree a parse of its text from nothing builds: the same *)
(* regions, with the same contexts and verdicts, in the same order and at    *)
(* the same levels, though untouched ones were never parsed again.          *)
THEOREM IncrementalIsFresh == SpecText => []SameAsFresh
<1>1. FInv => SameAsFresh
  <2> SUFFICES ASSUME FInv, pc = "done" PROVE Shown = Fresh
    BY DEF SameAsFresh
  <2>1. IInv /\ Tracked /\ EveryNodeIsCurrent /\ SInv /\ Finished
    BY RunsFinish DEF FInv, TInv
  <2>2. PICK view : IsView(view) /\ Shown = view[Root][0]
    BY <2>1, ViewUnfolds
  <2>3. PICK parse :
          /\ IsParse(parse)
          /\ Fresh = parse[0][[span |-> SpanOf(0, Len(text), rev), ctx |-> RootCtx]][0]
    BY <2>1, FreshUnfolds
  <2>4. view[Root][0] = parse[Home(nodes[Root])][RegionOf(nodes, Root)][0]
    BY <2>1, <2>2, <2>3, TreeAsFresh, WalkFacts
  <2>5. Home(nodes[Root]) = 0
    BY <2>1, IInvFacts DEF Homed, Home, Node
  <2>6. RegionOf(nodes, Root) = [span |-> SpanOf(0, Len(text), rev), ctx |-> RootCtx]
    BY <2>1, TrackedFacts DEF IInv, SpansNested, SInv, RootKnown, RegionOf
  <2> QED
    BY <2>2, <2>3, <2>4, <2>5, <2>6
<1> QED
  BY <1>1, TextRunsInvariance, PTL

----------------------------------------------------------------------------
(* What the tree shows, line by line.                                      *)

(* The line of a node: its region, its status and its level.               *)
LineOf == [n \in Live(nodes) |->
  [region |-> RegionOf(nodes, n), status |-> nodes[n].status, level |-> Level(n)]]

Lines == [n \in Live(nodes) |-> <<LineOf[n]>>]

(* What the tree shows is the lines of its nodes, in their order.          *)
ShowsLines(order) ==
  /\ order[Root] \in Seq(Live(nodes)) /\ Lists(order[Root], Live(nodes))
  /\ Shown \in Seq(Line) /\ Len(Shown) = Len(order[Root])
  /\ \A k \in 1 .. Len(Shown) :
       order[Root][k] \in Live(nodes) /\ Shown[k] = LineOf[order[Root][k]]
  /\ Sq!ToSet(Shown) = {LineOf[n] : n \in Live(nodes)}

(* So does the tree, in any order there is.                                *)
LEMMA ShownInOrder ==
  ASSUME IInv, NEW order, IsOrder(order)
  PROVE  ShowsLines(order)
<1>1. PICK view : IsView(view) /\ Shown = view[Root][0]
  BY ViewUnfolds
<1> DEFINE D == Live(nodes)
           F == [n \in D |-> view[n][Level(n)]]
<1>2. ASSUME NEW n \in D
      PROVE  LineOf[n] \in Line
  <2>1. nodes[n] \in Node
    BY IInvFacts DEF Live
  <2> QED
    BY <2>1, LevelFacts DEF LineOf, Line, Node, RegionOf, Region
<1>3. Takes(Lines, D, Line)
  <2> SUFFICES ASSUME NEW n \in D PROVE Lines[n] \in Seq(Line)
    BY DEF Takes
  <2> DEFINE l == LineOf[n]
  <2>1. l \in Line /\ Lines[n] = <<l>>
    BY <1>2 DEF Lines
  <2> HIDE DEF l
  <2>2. <<l>> \in Seq(Line)
    BY <2>1
  <2> QED
    BY <2>1, <2>2
<1>4. ASSUME NEW n \in D
      PROVE  Gathers(F, Lines, n)
  <2>1. n \in DOMAIN nodes /\ Level(n) \in Nat
    BY LevelFacts DEF Live
  <2> DEFINE kid(i) == nodes[n].children[i]
             seen == [i \in DOMAIN nodes[n].children |-> view[kid(i)][Level(n) + 1]]
             told == [i \in DOMAIN nodes[n].children |-> F[kid(i)]]
  <2>2. view[n][Level(n)] =
          Entry(RegionOf(nodes, n), nodes[n].status, Level(n)) \o Sq!FlattenSeq(seen)
    <3> DEFINE j == Level(n)
    <3>1. j \in Nat
      BY <2>1
    <3> HIDE DEF j
    <3>2. view[n][j] =
            Entry(RegionOf(nodes, n), nodes[n].status, j)
              \o Sq!FlattenSeq([i \in DOMAIN nodes[n].children |->
                                  view[nodes[n].children[i]][j + 1]])
      BY <1>1, <2>1, <3>1, ViewAt
    <3> QED
      BY <3>2 DEF j
  <2>3. \A i \in DOMAIN nodes[n].children :
          kid(i) \in D /\ Level(kid(i)) = Level(n) + 1
    BY <2>1, ChildLists, WalkFacts, LevelFacts
  <2>4. seen = told
    <3> HIDE DEF kid
    <3> QED
      BY <2>3
  <2>5. Entry(RegionOf(nodes, n), nodes[n].status, Level(n)) = Lines[n]
    BY DEF Entry, Lines, LineOf
  <2>6. F[n] = Lines[n] \o Sq!FlattenSeq(told)
    <3> HIDE DEF seen, told
    <3> QED
      BY <2>2, <2>4, <2>5
  <2> QED
    BY <2>6 DEF Gathers
<1>5. Root \in D /\ Level(Root) = 0
  BY WalkFacts, LevelFacts
<1>6. Shown = F[Root]
  BY <1>1, <1>5
<1> HIDE DEF F
<1>7. F[Root] = FilterMap(order[Root], Lines)
  BY <1>3, <1>4, <1>5, GatheredInOrder
<1> DEFINE s == order[Root]
<1>8. s \in Seq(D) /\ Lists(s, Live(nodes))
  <2>1. \A m \in Live(nodes) : Root \in Up(m)
    BY UpFacts DEF WellAbove
  <2>2. AtOrUnder(Root) = Live(nodes)
    BY <2>1 DEF AtOrUnder
  <2>3. Lists(s, AtOrUnder(Root))
    BY <1>5, OrderLists
  <2> QED
    BY <1>5, <2>2, <2>3 DEF IsOrder
<1> HIDE DEF s, D
<1>9. /\ FilterMap(s, Lines) \in Seq(Line) /\ Len(FilterMap(s, Lines)) = Len(s)
      /\ \A k \in 1 .. Len(s) : FilterMap(s, Lines)[k] = LineOf[s[k]]
  <2>1. \A n \in D : LineOf[n] \in Line /\ Lines[n] = <<LineOf[n]>>
    BY <1>2 DEF Lines, D
  <2> QED
    BY <1>8, <2>1, FilterMapOnes
<1>10. \A k \in 1 .. Len(s) : s[k] \in D
  BY <1>8, ElementOfSeq
<1>11. Sq!ToSet(FilterMap(s, Lines)) = {LineOf[n] : n \in D}
  <2> DEFINE t == FilterMap(s, Lines)
  <2>1. DOMAIN t = 1 .. Len(s) /\ DOMAIN s = 1 .. Len(s)
    BY <1>8, <1>9, LenProperties
  <2>2. Sq!ToSet(s) = D
    BY <1>8 DEF Lists, D
  <2> QED
    BY <1>9, <2>1, <2>2 DEF Sq!ToSet
<1> QED
  BY <1>6, <1>7, <1>8, <1>9, <1>10, <1>11 DEF ShowsLines, s, D

(* What is made of the lines that are shown is made of their nodes.         *)
LEMMA ShownMap ==
  ASSUME IInv, NEW order, ShowsLines(order), NEW X, NEW f, Takes(f, Live(nodes), X),
         NEW g, \A n \in Live(nodes) : g[LineOf[n]] = f[n]
  PROVE  FilterMap(Shown, g) = FilterMap(order[Root], f)
<1> DEFINE D == Live(nodes)
           V == {LineOf[n] : n \in D}
           s == Shown
           t == order[Root]
<1>1. /\ s \in Seq(Line) /\ t \in Seq(D) /\ Len(s) = Len(t)
      /\ \A k \in 1 .. Len(s) : t[k] \in D /\ s[k] = LineOf[t[k]]
  BY DEF ShowsLines
<1>2. Takes(g, V, X)
  BY DEF Takes
<1>3. Takes(f, D, X)
  OBVIOUS
<1> HIDE DEF s, t
<1>4. s \in Seq(V)
  <2>1. Len(s) \in Nat /\ s = [k \in 1 .. Len(s) |-> s[k]]
    BY <1>1, LenProperties, SeqDef
  <2>2. \A k \in 1 .. Len(s) : s[k] \in V
    BY <1>1
  <2> HIDE DEF V
  <2>3. s \in [1 .. Len(s) -> V]
    BY <2>1, <2>2
  <2> QED
    BY <2>1, <2>3, SeqDef
<1>5. GiveAlike(s, g, t, f)
  BY <1>1 DEF GiveAlike
<1> HIDE DEF V, D
<1>6. FilterMap(s, g) = FilterMap(t, f)
  BY <1>1, <1>2, <1>3, <1>4, <1>5, FilterMapSame
<1> QED
  BY <1>6 DEF s, t

(* The nodes of the arena that are alive.                                  *)
LEMMA NodesType ==
  ASSUME IInv
  PROVE  /\ Arena(nodes) \in Seq(DOMAIN nodes) /\ Lists(Arena(nodes), DOMAIN nodes)
         /\ Nodes(nodes) \in Seq(Live(nodes))
<1> DEFINE s == Arena(nodes)
           n == Size(nodes)
<1>1. n \in Nat /\ DOMAIN nodes = 0 .. (n - 1) /\ s = [k \in 1 .. n |-> k - 1]
  BY DEF IInv, TypeOK, IsArena, Arena
<1> HIDE DEF n, s
<1>2. \A k \in 1 .. n : k - 1 \in 0 .. (n - 1) /\ k - 1 \in Nat
  BY <1>1
<1>3. s \in [1 .. n -> 0 .. (n - 1)] /\ s \in [1 .. n -> Nat]
  BY <1>1, <1>2
<1>4. s \in Seq(0 .. (n - 1)) /\ s \in Seq(Nat)
  BY <1>1, <1>3, SeqDef
<1>5. Sq!ToSet(s) = 0 .. (n - 1)
  <2>1. \A k \in 0 .. (n - 1) : k + 1 \in 1 .. n /\ s[k + 1] = k
    BY <1>1
  <2>2. \A k \in DOMAIN s : s[k] \in 0 .. (n - 1)
    BY <1>3
  <2>3. \A k \in 0 .. (n - 1) : \E j \in DOMAIN s : s[j] = k
    BY <1>3, <2>1
  <2> QED
    BY <2>2, <2>3 DEF Sq!ToSet
<1>6. Sq!IsInjective(s)
  BY <1>1 DEF Sq!IsInjective
<1> DEFINE own == [m \in DOMAIN nodes |-> IF nodes[m].alive THEN <<m>> ELSE <<>>]
           L == Live(nodes)
<1>7. \A m \in DOMAIN nodes : own[m] \in Seq(L)
  BY DEF Live
<1>8. Nodes(nodes) = FilterMap(s, own)
  BY DEF Nodes, s
<1> HIDE DEF own, L
<1>9. FilterMap(s, own) \in Seq(L)
  BY <1>1, <1>4, <1>7, FilterMapType
<1> QED
  BY <1>1, <1>4, <1>5, <1>6, <1>8, <1>9 DEF Lists, s, L

(* What is made of the nodes in the order of the arena.                     *)
LEMMA NodesMap ==
  ASSUME IInv, NEW X, NEW f, OneOrNone(f, Live(nodes), X)
  PROVE  /\ Sq!ToSet(FilterMap(Nodes(nodes), f)) = WhatIsGiven(f, Live(nodes))
         /\ Len(FilterMap(Nodes(nodes), f)) = Cardinality(GivenBy(f, Live(nodes)))
<1> DEFINE A == DOMAIN nodes
           B == Live(nodes)
           s == Arena(nodes)
           own == [n \in A |-> IF nodes[n].alive THEN <<n>> ELSE <<>>]
           both == [n \in A |-> FilterMap(own[n], f)]
<1>1. s \in Seq(A) /\ Lists(s, A) /\ Nodes(nodes) = FilterMap(s, own)
  BY NodesType DEF Nodes
<1>2. /\ \A n \in A : own[n] = IF n \in B THEN <<n>> ELSE <<>>
      /\ \A n \in A : own[n] \in Seq(B)
      /\ B \subseteq A
  <2>1. \A n \in A : n \in B <=> nodes[n].alive
    BY DEF Live
  <2>2. \A n \in A : own[n] = IF n \in B THEN <<n>> ELSE <<>>
    BY <2>1
  <2>3. \A n \in B : <<n>> \in Seq(B)
    OBVIOUS
  <2> HIDE DEF own
  <2>4. \A n \in A : own[n] \in Seq(B)
    BY <2>2, <2>3, EmptySeq
  <2> QED
    BY <2>2, <2>4 DEF Live
<1>3. \A n \in B : f[n] \in Seq(X)
  <2> SUFFICES ASSUME NEW n \in B PROVE f[n] \in Seq(X)
    OBVIOUS
  <2>1. f[n] = <<>> \/ \E x \in X : f[n] = <<x>>
    BY DEF OneOrNone
  <2>2. \A x \in X : <<x>> \in Seq(X)
    OBVIOUS
  <2> QED
    BY <2>1, <2>2, EmptySeq
<1> HIDE DEF own, A, B
<1>4. FilterMap(FilterMap(s, own), f) = FilterMap(s, both)
  <2>1. Takes(own, A, B) /\ Takes(f, B, X) /\ Composes(both, own, f, A)
    BY <1>2, <1>3 DEF Takes, Composes
  <2> HIDE DEF s, both
  <2> QED
    BY <1>1, <2>1, FilterMapTwice
<1>5. \A n \in A : both[n] = IF n \in B THEN f[n] ELSE <<>>
  <2>1. \A n \in B : FilterMap(<<n>>, f) = f[n]
    BY <1>3, FilterMapOne
  <2>2. FilterMap(<<>>, f) = <<>>
    BY <1>3, FilterMapNone, Zenon
  <2>3. \A n \in A : both[n] = FilterMap(own[n], f)
    OBVIOUS
  <2> QED
    BY <1>2, <2>1, <2>2, <2>3
<1> HIDE DEF both
<1>6. OneOrNone(both, A, X)
  BY <1>5 DEF OneOrNone, B
<1>7. /\ FilterMap(s, both) \in Seq(X)
      /\ Sq!ToSet(FilterMap(s, both)) = WhatIsGiven(both, A)
      /\ Len(FilterMap(s, both)) = Cardinality(GivenBy(both, A))
  <2> HIDE DEF s
  <2> QED
    BY <1>1, <1>6, FilterMapOfList
<1>8. WhatIsGiven(both, A) = WhatIsGiven(f, B)
  <2>1. Sq!ToSet(<<>>) = {}
    BY EmptySeq DEF Sq!ToSet
  <2> QED
    BY <1>2, <1>5, <2>1 DEF WhatIsGiven
<1>9. GivenBy(both, A) = GivenBy(f, B)
  BY <1>2, <1>5 DEF GivenBy
<1> QED
  BY <1>1, <1>4, <1>7, <1>8, <1>9 DEF B

(* Arena order or text order: the outline has the same in it, as often.     *)
LEMMA OutlineByNodes ==
  ASSUME IInv, NEW X, NEW f, OneOrNone(f, Live(nodes), X),
         NEW g, \A n \in Live(nodes) : g[LineOf[n]] = f[n]
  PROVE  /\ Sq!ToSet(FilterMap(Nodes(nodes), f)) = Sq!ToSet(FilterMap(Shown, g))
         /\ Len(FilterMap(Nodes(nodes), f)) = Len(FilterMap(Shown, g))
<1>1. PICK order : ShowsLines(order)
  BY OrderExists, ShownInOrder
<1>2. Takes(f, Live(nodes), X)
  <2> SUFFICES ASSUME NEW n \in Live(nodes) PROVE f[n] \in Seq(X)
    BY DEF Takes
  <2>1. f[n] = <<>> \/ \E x \in X : f[n] = <<x>>
    BY DEF OneOrNone
  <2>2. \A x \in X : <<x>> \in Seq(X)
    OBVIOUS
  <2> QED
    BY <2>1, <2>2, EmptySeq
<1> DEFINE s == order[Root]
<1>3. FilterMap(Shown, g) = FilterMap(s, f)
  BY <1>1, <1>2, ShownMap
<1>4. Lists(s, Live(nodes))
  BY <1>1 DEF ShowsLines
<1> HIDE DEF s
<1>5. /\ FilterMap(s, f) \in Seq(X)
      /\ Sq!ToSet(FilterMap(s, f)) = WhatIsGiven(f, Live(nodes))
      /\ Len(FilterMap(s, f)) = Cardinality(GivenBy(f, Live(nodes)))
  BY <1>4, FilterMapOfList
<1> QED
  BY <1>3, <1>5, NodesMap

----------------------------------------------------------------------------
(* The outline.                                                            *)

NodeSymbols ==
  [n \in Live(nodes) |->
     IF nodes[n].ctx.kind # "Function" THEN <<>> ELSE <<SymbolOf(RegionOf(nodes, n))>>]

AllSymbols == {SymbolOf(RegionOf(nodes, n)) : n \in Live(nodes)}

(* A node has one symbol or none.                                          *)
LEMMA NodeSymbolsType ==
  /\ OneOrNone(NodeSymbols, Live(nodes), AllSymbols)
  /\ \A n \in Live(nodes) : NodeSymbols[n] \in Seq(AllSymbols)
<1>1. OneOrNone(NodeSymbols, Live(nodes), AllSymbols)
  BY DEF OneOrNone, NodeSymbols, AllSymbols
<1>2. ASSUME NEW n \in Live(nodes)
      PROVE  NodeSymbols[n] \in Seq(AllSymbols)
  <2>1. NodeSymbols[n] = <<>> \/ \E x \in AllSymbols : NodeSymbols[n] = <<x>>
    BY <1>1 DEF OneOrNone
  <2>2. \A x \in AllSymbols : <<x>> \in Seq(AllSymbols)
    OBVIOUS
  <2> QED
    BY <2>1, <2>2, EmptySeq
<1> QED
  BY <1>1, <1>2

(* Both hooks of SimpleLanguage make the same outline.                     *)
LEMMA OutlineHooks ==
  ASSUME IInv
  PROVE  /\ FunctionSymbols(nodes) = FilterMap(Nodes(nodes), NodeSymbols)
         /\ LabelSymbols(nodes) = FilterMap(Nodes(nodes), NodeSymbols)
<1> DEFINE L == Live(nodes)
           Y == AllSymbols
           s == Nodes(nodes)
           f == [n \in DOMAIN nodes |->
                   IF nodes[n].ctx.kind # "Function" THEN <<>> ELSE <<SymbolOf(RegionOf(nodes, n))>>]
           g == [n \in DOMAIN nodes |->
                   IF Label(nodes[n].ctx) = <<>> THEN <<>> ELSE <<SymbolOf(RegionOf(nodes, n))>>]
           h == NodeSymbols
<1>1. FunctionSymbols(nodes) = FilterMap(s, f) /\ LabelSymbols(nodes) = FilterMap(s, g)
  BY DEF FunctionSymbols, LabelSymbols
<1>2. s \in Seq(L) /\ \A n \in L : h[n] \in Seq(Y)
  BY NodesType, NodeSymbolsType
<1>3. \A n \in L : f[n] = h[n]
  BY DEF NodeSymbols, Live
<1>4. \A n \in L : g[n] = h[n]
  <2>1. \A c : Label(c) = <<>> <=> c.kind # "Function"
    BY DEF Label
  <2> QED
    BY <2>1 DEF NodeSymbols, Live
<1> HIDE DEF s, f, g, h, L, Y
<1>5. \A k \in 1 .. Len(s) : s[k] \in L
  BY <1>2, ElementOfSeq
<1>6. FilterMap(s, f) = FilterMap(s, h)
  <2>1. Takes(f, L, Y) /\ Takes(h, L, Y)
    BY <1>2, <1>3 DEF Takes
  <2>2. GiveAlike(s, f, s, h)
    BY <1>3, <1>5 DEF GiveAlike
  <2> QED
    BY <1>2, <2>1, <2>2, FilterMapSame
<1>7. FilterMap(s, g) = FilterMap(s, h)
  <2>1. Takes(g, L, Y) /\ Takes(h, L, Y)
    BY <1>2, <1>4 DEF Takes
  <2>2. GiveAlike(s, g, s, h)
    BY <1>4, <1>5 DEF GiveAlike
  <2> QED
    BY <1>2, <2>1, <2>2, FilterMapSame
<1> QED
  BY <1>1, <1>6, <1>7 DEF s, h

(* The outline drawn from the nodes is the one of what the tree shows.     *)
LEMMA OutlineIsShown ==
  ASSUME IInv
  PROVE  OutlineShows(Shown, FilterMap(Nodes(nodes), NodeSymbols))
<1> DEFINE g == [v \in Sq!ToSet(Shown) |->
                   IF v.region.ctx.kind # "Function" THEN <<>> ELSE <<SymbolOf(v.region)>>]
<1>1. PICK order : ShowsLines(order)
  BY OrderExists, ShownInOrder
<1>2. \A n \in Live(nodes) : g[LineOf[n]] = NodeSymbols[n]
  <2> SUFFICES ASSUME NEW n \in Live(nodes) PROVE g[LineOf[n]] = NodeSymbols[n]
    OBVIOUS
  <2>1. LineOf[n] \in Sq!ToSet(Shown)
    BY <1>1 DEF ShowsLines
  <2>2. LineOf[n].region = RegionOf(nodes, n) /\ LineOf[n].region.ctx = nodes[n].ctx
    BY DEF LineOf, RegionOf
  <2> QED
    BY <2>1, <2>2 DEF NodeSymbols
<1> HIDE DEF g
<1>3. /\ Sq!ToSet(FilterMap(Nodes(nodes), NodeSymbols)) = Sq!ToSet(FilterMap(Shown, g))
      /\ Len(FilterMap(Nodes(nodes), NodeSymbols)) = Len(FilterMap(Shown, g))
  BY <1>2, NodeSymbolsType, OutlineByNodes
<1> QED
  BY <1>3 DEF OutlineShows, g

(* Of an array of tables that lack nothing, nothing is passed over.         *)
LEMMA SymbolsFromTables ==
  ASSUME NEW B, NEW items \in Seq(B), NEW X, NEW r, NEW g,
         \A b \in B : b.is = "table" /\ b.label # <<>> /\ HasRange(b),
         \A b \in B : /\ g[b] = <<[label |-> b.label[1], span |-> SpanOf(b.start, b.end, r)]>>
                      /\ g[b] \in Seq(X)
  PROVE  SymbolsFrom(Answer("table", items), r) = FilterMap(items, g)
<1> DEFINE C == {items[k] : k \in DOMAIN items}
           f == [item \in C |->
                   IF item.label = <<>> \/ ~HasRange(item) THEN <<>>
                   ELSE <<[label |-> item.label[1],
                           span  |-> SpanOf(item.start, item.end, r)]>>]
<1>1. /\ DOMAIN items = 1 .. Len(items) /\ Len(items) \in Nat
      /\ \A k \in DOMAIN items : items[k] \in B
  BY LenProperties, ElementOfSeq
<1>2. Sequence(items) = items
  <2>1. {i \in DOMAIN items : items[i].is = "nil"} = {}
    BY <1>1
  <2> QED
    BY <2>1 DEF Sequence
<1>3. {i \in DOMAIN items : ~IsTable(items[i])} = {}
  BY <1>1 DEF IsTable
<1>4. SymbolsFrom(Answer("table", items), r) = FilterMap(items, f)
  BY <1>2, <1>3 DEF SymbolsFrom, Answer
<1>5. items \in Seq(C) /\ C \subseteq B
  <2>1. items = [k \in 1 .. Len(items) |-> items[k]]
    BY SeqDef
  <2>2. \A k \in 1 .. Len(items) : items[k] \in C
    BY <1>1
  <2> HIDE DEF C
  <2>3. items \in [1 .. Len(items) -> C]
    BY <2>1, <2>2
  <2> QED
    BY <1>1, <2>3, SeqDef DEF C
<1>6. \A c \in C : f[c] = g[c] /\ f[c] \in Seq(X)
  BY <1>5
<1> HIDE DEF f, C
<1>7. GiveAlike(items, f, items, g)
  BY <1>1, <1>5, <1>6, ElementOfSeq DEF GiveAlike
<1>8. Takes(f, C, X) /\ Takes(g, B, X)
  BY <1>6 DEF Takes
<1>9. FilterMap(items, f) = FilterMap(items, g)
  BY <1>5, <1>7, <1>8, FilterMapSame
<1> QED
  BY <1>4, <1>9

(* The outline of the Lua script is the same again.                         *)
LEMMA OutlineOfLua ==
  ASSUME IInv, Tracked
  PROVE  LuaOutline(nodes) = FilterMap(Nodes(nodes), NodeSymbols)
<1> DEFINE L == Live(nodes)
           Y == AllSymbols
           s == Nodes(nodes)
           h == NodeSymbols
           snaps == [k \in DOMAIN s |-> Snapshot(nodes, s[k])]
           A == {snaps[k] : k \in DOMAIN snaps}
           Itemized(a) == [is |-> "table", start |-> a.start, end |-> a.end,
                           label |-> <<[name |-> a.ctx.name, detail |-> a.ctx.params]>>]
           hook == [a \in A |-> IF a.ctx.kind # "Function" THEN <<>> ELSE <<Itemized(a)>>]
           B == {Itemized(a) : a \in {x \in A : x.ctx.kind = "Function"}}
           g == [b \in B |-> <<[label |-> b.label[1], span |-> SpanOf(b.start, b.end, rev)]>>]
           both == [a \in A |-> FilterMap(hook[a], g)]
<1>1. /\ s \in Seq(L) /\ DOMAIN s = 1 .. Len(s) /\ Len(s) \in Nat
      /\ \A k \in 1 .. Len(s) : s[k] \in L
  BY NodesType, LenProperties, ElementOfSeq
<1>2. LuaOutline(nodes) = SymbolsFrom(Answer("table", FilterMap(snaps, hook)), rev)
  BY DEF LuaOutline, LuaSymbolsHook
<1> HIDE DEF s
<1>3. snaps \in Seq(A) /\ Len(snaps) = Len(s) /\ DOMAIN snaps = 1 .. Len(s)
      /\ \A k \in 1 .. Len(s) : snaps[k] = Snapshot(nodes, s[k]) /\ snaps[k] \in A
  <2>1. /\ DOMAIN snaps = 1 .. Len(s)
        /\ \A k \in 1 .. Len(s) : snaps[k] = Snapshot(nodes, s[k]) /\ snaps[k] \in A
        /\ snaps = [k \in 1 .. Len(s) |-> snaps[k]]
    BY <1>1
  <2> HIDE DEF A, snaps
  <2>2. snaps \in [1 .. Len(s) -> A]
    BY <2>1
  <2>3. snaps \in Seq(A)
    BY <1>1, <2>2, SeqDef
  <2> QED
    BY <1>1, <2>1, <2>3, LenProperties
<1>4. ASSUME NEW a \in A
      PROVE  \E n \in L : /\ a.start = nodes[n].span.start /\ a.end = nodes[n].span.end
                          /\ a.ctx = nodes[n].ctx
  <2>1. PICK k \in DOMAIN snaps : a = snaps[k]
    OBVIOUS
  <2>2. s[k] \in L /\ a = Snapshot(nodes, s[k])
    BY <1>1, <1>3, <2>1
  <2> QED
    BY <2>2 DEF Snapshot
<1> HIDE DEF snaps, A
<1>5. ASSUME NEW a \in A
      PROVE  /\ a.ctx.kind = "Function" => Itemized(a) \in B
             /\ hook[a] = IF a.ctx.kind = "Function" THEN <<Itemized(a)>> ELSE <<>>
  OBVIOUS
<1>6. ASSUME NEW b \in B
      PROVE  /\ b.is = "table" /\ b.label # <<>> /\ HasRange(b)
             /\ g[b] = <<[label |-> b.label[1], span |-> SpanOf(b.start, b.end, rev)]>>
             /\ [label |-> b.label[1], span |-> SpanOf(b.start, b.end, rev)] \in Y
             /\ g[b] \in Seq(Y)
  <2>1. PICK a \in A : a.ctx.kind = "Function" /\ b = Itemized(a)
    OBVIOUS
  <2>2. PICK n \in L : /\ a.start = nodes[n].span.start /\ a.end = nodes[n].span.end
                       /\ a.ctx = nodes[n].ctx
    BY <1>4
  <2>3. /\ b.is = "table" /\ b.start = a.start /\ b.end = a.end
        /\ b.label = <<[name |-> a.ctx.name, detail |-> a.ctx.params]>>
    BY <2>1
  <2>4. /\ nodes[n].span \in Span /\ nodes[n].span.rev = rev
    BY LiveFacts
  <2>5. b.start \in Nat /\ b.end \in Nat /\ SpanOf(b.start, b.end, rev) = nodes[n].span
    BY <2>2, <2>3, <2>4 DEF Span, SpanOf
  <2> DEFINE y == [label |-> b.label[1], span |-> SpanOf(b.start, b.end, rev)]
  <2>6. y = SymbolOf(RegionOf(nodes, n))
    <3>1. Label(nodes[n].ctx) = <<[name |-> nodes[n].ctx.name, detail |-> nodes[n].ctx.params]>>
      BY <2>1, <2>2 DEF Label
    <3>2. b.label[1] = Label(nodes[n].ctx)[1]
      BY <2>2, <2>3, <3>1
    <3> QED
      BY <2>5, <3>2 DEF SymbolOf, RegionOf
  <2>7. y \in Y
    BY <2>6 DEF AllSymbols
  <2>8. g[b] = <<y>>
    <3> HIDE DEF B
    <3> QED
      OBVIOUS
  <2>9. b.label # <<>>
    BY <2>3
  <2>10. HasRange(b)
    BY <2>5 DEF HasRange, Missing
  <2> HIDE DEF Y, g, y
  <2>11. <<y>> \in Seq(Y)
    BY <2>7
  <2>12. g[b] \in Seq(Y)
    BY <2>8, <2>11
  <2> QED
    BY <2>3, <2>7, <2>8, <2>9, <2>10, <2>12 DEF y
<1>7. \A a \in A : hook[a] \in Seq(B)
  <2> SUFFICES ASSUME NEW a \in A PROVE hook[a] \in Seq(B)
    OBVIOUS
  <2>1. CASE a.ctx.kind = "Function"
    <3> DEFINE i == Itemized(a)
    <3>1. i \in B /\ hook[a] = <<i>>
      BY <1>5, <2>1
    <3> HIDE DEF i, B, hook
    <3>2. <<i>> \in Seq(B)
      BY <3>1
    <3> QED
      BY <3>1, <3>2
  <2>2. CASE a.ctx.kind # "Function"
    <3>1. hook[a] = <<>>
      BY <1>5, <2>2
    <3> HIDE DEF B, hook
    <3> QED
      BY <3>1, EmptySeq
  <2> QED
    BY <2>1, <2>2
<1>8. \A k \in 1 .. Len(s) : both[snaps[k]] = h[s[k]]
  <2> SUFFICES ASSUME NEW k \in 1 .. Len(s) PROVE both[snaps[k]] = h[s[k]]
    OBVIOUS
  <2> DEFINE a == snaps[k]
             n == s[k]
  <2>1. a \in A /\ a = Snapshot(nodes, n) /\ n \in L
    BY <1>1, <1>3
  <2> HIDE DEF a, n
  <2>2. a.ctx = nodes[n].ctx /\ a.start = nodes[n].span.start /\ a.end = nodes[n].span.end
    BY <2>1 DEF Snapshot
  <2>3. \A b \in B : g[b] \in Seq(Y)
    BY <1>6
  <2>4. both[a] = FilterMap(hook[a], g)
    <3> HIDE DEF hook, g
    <3> QED
      BY <2>1
  <2>5. CASE a.ctx.kind = "Function"
    <3> DEFINE b == Itemized(a)
    <3>1. b \in B /\ hook[a] = <<b>>
      BY <1>5, <2>1, <2>5
    <3>2. /\ b.start = a.start /\ b.end = a.end
          /\ b.label[1] = [name |-> a.ctx.name, detail |-> a.ctx.params]
      OBVIOUS
    <3> HIDE DEF b
    <3>3. FilterMap(<<b>>, g) = g[b]
      <4> HIDE DEF B, g, Y
      <4> QED
        BY <2>3, <3>1, FilterMapOne
    <3>4. g[b] = <<[label |-> b.label[1], span |-> SpanOf(b.start, b.end, rev)]>>
      BY <1>6, <3>1
    <3>5. SpanOf(b.start, b.end, rev) = nodes[n].span
      <4>1. nodes[n].span \in Span /\ nodes[n].span.rev = rev
        BY <2>1, LiveFacts
      <4> QED
        BY <2>2, <3>2, <4>1 DEF Span, SpanOf
    <3>6. b.label[1] = Label(nodes[n].ctx)[1]
      <4>1. Label(nodes[n].ctx)
              = <<[name |-> nodes[n].ctx.name, detail |-> nodes[n].ctx.params]>>
        BY <2>2, <2>5 DEF Label
      <4> QED
        BY <2>2, <3>2, <4>1
    <3>7. h[n] = <<SymbolOf(RegionOf(nodes, n))>>
      BY <2>1, <2>2, <2>5 DEF NodeSymbols
    <3> HIDE DEF g, hook, both, h
    <3> QED
      BY <2>4, <3>1, <3>3, <3>4, <3>5, <3>6, <3>7 DEF SymbolOf, RegionOf, a, n
  <2>6. CASE a.ctx.kind # "Function"
    <3>1. hook[a] = <<>>
      BY <1>5, <2>1, <2>6
    <3>2. FilterMap(<<>>, g) = <<>>
      <4> HIDE DEF B, g, Y
      <4> QED
        BY <2>3, FilterMapNone, Zenon
    <3>3. h[n] = <<>>
      BY <2>1, <2>2, <2>6 DEF NodeSymbols
    <3> HIDE DEF g, hook, both, h
    <3> QED
      BY <2>4, <3>1, <3>2, <3>3 DEF a, n
  <2> QED
    BY <2>5, <2>6
<1>9. /\ FilterMap(snaps, hook) \in Seq(B)
      /\ FilterMap(FilterMap(snaps, hook), g) = FilterMap(snaps, both)
      /\ Takes(both, A, Y)
  <2>1. \A b \in B : g[b] \in Seq(Y)
    BY <1>6
  <2>2. \A a \in A : both[a] = FilterMap(hook[a], g)
    <3> HIDE DEF hook, g
    <3> QED
      OBVIOUS
  <2> HIDE DEF hook, g, B, Y
  <2>3. FilterMap(snaps, hook) \in Seq(B)
    BY <1>3, <1>7, FilterMapType
  <2>4. Takes(hook, A, B) /\ Takes(g, B, Y) /\ Composes(both, hook, g, A)
    BY <1>7, <2>1, <2>2 DEF Takes, Composes
  <2> HIDE DEF both
  <2>5. FilterMap(FilterMap(snaps, hook), g) = FilterMap(snaps, both) /\ Takes(both, A, Y)
    BY <1>3, <2>4, FilterMapTwice
  <2> QED
    BY <2>3, <2>5
<1>10. SymbolsFrom(Answer("table", FilterMap(snaps, hook)), rev)
         = FilterMap(FilterMap(snaps, hook), g)
  <2> DEFINE items == FilterMap(snaps, hook)
  <2>1. items \in Seq(B)
    BY <1>9
  <2>2. /\ \A b \in B : b.is = "table" /\ b.label # <<>> /\ HasRange(b)
        /\ \A b \in B : /\ g[b] = <<[label |-> b.label[1], span |-> SpanOf(b.start, b.end, rev)]>>
                        /\ g[b] \in Seq(Y)
    BY <1>6
  <2> HIDE DEF items, B, g, Y
  <2>3. SymbolsFrom(Answer("table", items), rev) = FilterMap(items, g)
    BY <2>1, <2>2, SymbolsFromTables
  <2> QED
    BY <2>3 DEF items
<1>11. FilterMap(snaps, both) = FilterMap(s, h)
  <2>1. Takes(h, L, Y)
    BY NodeSymbolsType DEF Takes
  <2>2. GiveAlike(snaps, both, s, h)
    <3> HIDE DEF both
    <3> QED
      BY <1>3, <1>8 DEF GiveAlike
  <2> HIDE DEF both, h, L, Y
  <2> QED
    BY <1>1, <1>3, <1>9, <2>1, <2>2, FilterMapSame
<1> HIDE DEF hook, g, both, h
<1> QED
  BY <1>2, <1>9, <1>10, <1>11 DEF s, h

----------------------------------------------------------------------------
(* The diagnostics.                                                        *)

(* After a run, nothing hangs below what has failed or was not parsed.      *)
LEMMA FailuresAreLeaves ==
  ASSUME IInv, Tracked, EveryNodeIsCurrent, SInv, Finished,
         NEW n \in Live(nodes), Failing(nodes, n)
  PROVE  DOMAIN nodes[n].children = {}
<1>1. PICK parse : IsParse(parse)
  BY FreshUnfolds
<1>2. AsFresh(parse, n, 0)
  BY <1>1, NodeAsFresh
<1>3. nodes[n].status # "Expanded"
  BY DEF Failing
<1> QED
  BY <1>2, <1>3 DEF AsFresh

Failures == [n \in Live(nodes) |-> IF Failing(nodes, n) THEN <<n>> ELSE <<>>]

(* So the walk of diagnostics, which passes over what is below a failure,    *)
(* meets every failure.                                                    *)
LEMMA OfferedInOrder ==
  ASSUME IInv, Tracked, EveryNodeIsCurrent, SInv, Finished, NEW order, IsOrder(order)
  PROVE  Offered(nodes, FALSE) = FilterMap(order[Root], Failures)
<1>1. PICK f : IsWalk(f, FALSE) /\ Offered(nodes, FALSE) = f[Root][FALSE]
  BY WalkUnfolds
<1> DEFINE D == Live(nodes)
           F == [n \in D |-> f[n][FALSE]]
<1>2. Takes(Failures, D, D)
  <2> SUFFICES ASSUME NEW n \in D PROVE Failures[n] \in Seq(D)
    BY DEF Takes
  <2>1. Failures[n] = <<n>> \/ Failures[n] = <<>>
    BY DEF Failures
  <2> HIDE DEF D
  <2>2. <<n>> \in Seq(D) /\ <<>> \in Seq(D)
    OBVIOUS
  <2> QED
    BY <2>1, <2>2
<1>3. ASSUME NEW n \in D
      PROVE  Gathers(F, Failures, n)
  <2> DEFINE kids == nodes[n].children
             next == UnderFailure(FALSE, Failing(nodes, n), FALSE)
             seen == [i \in DOMAIN kids |-> f[kids[i]][next]]
             told == [i \in DOMAIN kids |-> F[kids[i]]]
  <2>1. n \in DOMAIN nodes
    BY DEF Live
  <2>2. f[n][FALSE] = Offers(f, n, FALSE, FALSE)
    BY <1>1, <2>1 DEF IsWalk
  <2>3. OwnOffer(n, FALSE, FALSE) = Failures[n]
    BY DEF OwnOffer, Failures
  <2>4. \A i \in DOMAIN kids : kids[i] \in D
    BY <2>1, ChildLists, WalkFacts
  <2>5. seen = told
    <3>1. CASE Failing(nodes, n)
      <4>1. DOMAIN kids = {}
        BY <3>1, FailuresAreLeaves
      <4> QED
        BY <4>1
    <3>2. CASE ~Failing(nodes, n)
      <4>1. next = FALSE
        BY <3>2 DEF UnderFailure
      <4>2. \A i \in DOMAIN kids : F[kids[i]] = f[kids[i]][FALSE]
        BY <2>4
      <4> HIDE DEF next, F, kids
      <4> QED
        BY <4>1, <4>2
    <3> QED
      BY <3>1, <3>2
  <2>6. F[n] = Failures[n] \o Sq!FlattenSeq(told)
    <3>1. f[n][FALSE] = OwnOffer(n, FALSE, FALSE) \o Sq!FlattenSeq(seen)
      BY <2>2 DEF Offers
    <3>2. F[n] = f[n][FALSE]
      OBVIOUS
    <3> HIDE DEF seen, told, F
    <3> QED
      BY <2>3, <2>5, <3>1, <3>2
  <2> QED
    BY <2>6 DEF Gathers
<1>4. Root \in D
  BY WalkFacts
<1>5. Offered(nodes, FALSE) = F[Root]
  BY <1>1, <1>4
<1> HIDE DEF F
<1>6. F[Root] = FilterMap(order[Root], Failures)
  BY <1>2, <1>3, <1>4, GatheredInOrder
<1> QED
  BY <1>5, <1>6

(* A complaint about a node, and of each of them.                           *)
Complaint(n) ==
  IF nodes[n].ctx.kind # "Return" THEN <<>>
  ELSE <<[about |-> nodes[n].ctx.name, span |-> nodes[n].span]>>

Complaints == {[about |-> nodes[n].ctx.name, span |-> nodes[n].span] : n \in Live(nodes)}

Complains(g) == \A n \in Live(nodes) : g[n] = Complaint(n)

(* Of complaints about nodes, the ones of what the tree shows remain.      *)
LEMMA DiagnosticsByNodes ==
  ASSUME IInv, Tracked, EveryNodeIsCurrent, SInv, Finished, NEW g, Complains(g)
  PROVE  DiagnosticsShow(Shown, FilterMap(Offered(nodes, FALSE), g))
<1>1. PICK order : IsOrder(order) /\ ShowsLines(order)
  BY OrderExists, ShownInOrder
<1> DEFINE D == Live(nodes)
           X == Complaints
           s == order[Root]
           both == [n \in D |-> FilterMap(Failures[n], g)]
           e == [v \in Sq!ToSet(Shown) |->
                  IF v.status \notin {"Failed", "Unparsed"} \/ v.region.ctx.kind # "Return" THEN <<>>
                  ELSE <<[about |-> v.region.ctx.name, span |-> v.region.span]>>]
<1>2. Offered(nodes, FALSE) = FilterMap(s, Failures)
  BY <1>1, OfferedInOrder
<1>3. s \in Seq(D)
  BY <1>1 DEF ShowsLines
<1>4. Takes(Failures, D, D)
  <2> SUFFICES ASSUME NEW n \in D PROVE Failures[n] \in Seq(D)
    BY DEF Takes
  <2>1. Failures[n] = <<n>> \/ Failures[n] = <<>>
    BY DEF Failures
  <2> HIDE DEF D
  <2>2. <<n>> \in Seq(D) /\ <<>> \in Seq(D)
    OBVIOUS
  <2> QED
    BY <2>1, <2>2
<1>5. \A n \in D : g[n] \in Seq(X)
  <2> SUFFICES ASSUME NEW n \in D PROVE g[n] \in Seq(X)
    OBVIOUS
  <2> DEFINE x == [about |-> nodes[n].ctx.name, span |-> nodes[n].span]
  <2>1. x \in X /\ (g[n] = <<>> \/ g[n] = <<x>>)
    BY DEF Complains, Complaint, Complaints
  <2> HIDE DEF X, x
  <2>2. <<x>> \in Seq(X) /\ <<>> \in Seq(X)
    BY <2>1
  <2> QED
    BY <2>1, <2>2
<1>6. \A n \in D : e[LineOf[n]] = both[n]
  <2> SUFFICES ASSUME NEW n \in D PROVE e[LineOf[n]] = both[n]
    OBVIOUS
  <2>1. LineOf[n] \in Sq!ToSet(Shown)
    BY <1>1 DEF ShowsLines
  <2>2. /\ LineOf[n].region = RegionOf(nodes, n) /\ LineOf[n].region.ctx = nodes[n].ctx
        /\ LineOf[n].region.span = nodes[n].span /\ LineOf[n].status = nodes[n].status
    BY DEF LineOf, RegionOf
  <2>3. e[LineOf[n]] = IF ~Failing(nodes, n) THEN <<>> ELSE Complaint(n)
    BY <2>1, <2>2 DEF Failing, Complaint
  <2>4. both[n] = FilterMap(Failures[n], g)
    OBVIOUS
  <2> HIDE DEF both, e, X
  <2>5. CASE Failing(nodes, n)
    <3>1. Failures[n] = <<n>>
      BY <2>5 DEF Failures
    <3>2. FilterMap(<<n>>, g) = g[n]
      BY <1>5, FilterMapOne
    <3> QED
      BY <2>3, <2>4, <2>5, <3>1, <3>2 DEF Complains
  <2>6. CASE ~Failing(nodes, n)
    <3>1. Failures[n] = <<>>
      BY <2>6 DEF Failures
    <3>2. FilterMap(<<>>, g) = <<>>
      BY <1>5, FilterMapNone, Zenon
    <3> QED
      BY <2>3, <2>4, <2>6, <3>1, <3>2
  <2> QED
    BY <2>5, <2>6
<1> HIDE DEF e, X, s
<1>7. FilterMap(FilterMap(s, Failures), g) = FilterMap(s, both) /\ Takes(both, D, X)
  <2>1. Takes(g, D, X) /\ Composes(both, Failures, g, D)
    BY <1>5 DEF Takes, Composes
  <2> HIDE DEF both, D
  <2> QED
    BY <1>3, <1>4, <2>1, FilterMapTwice
<1> HIDE DEF both
<1>8. FilterMap(Shown, e) = FilterMap(s, both)
  BY <1>1, <1>6, <1>7, ShownMap DEF s
<1> QED
  BY <1>2, <1>7, <1>8 DEF DiagnosticsShow, e

(* The complaints of SimpleLanguage and of the Lua script are such.        *)
LEMMA DiagnosticsAreShown ==
  ASSUME IInv, Tracked, EveryNodeIsCurrent, SInv, Finished
  PROVE  /\ DiagnosticsShow(Shown, Diagnosed(nodes))
         /\ DiagnosticsShow(Shown, LuaDiagnosed(nodes))
<1> DEFINE f == [n \in DOMAIN nodes |-> Placed(Complain(nodes[n].ctx), nodes[n].span)]
           g == [n \in DOMAIN nodes |->
                  Placed(DiagnosticFrom(LuaDiagnosticHook(Snapshot(nodes, n))), nodes[n].span)]
<1>1. Complains(f)
  BY DEF Complains, Complain, Placed, Complaint, Live
<1>2. Complains(g)
  <2> SUFFICES ASSUME NEW n \in Live(nodes) PROVE g[n] = Complaint(n)
    BY DEF Complains
  <2>1. Snapshot(nodes, n).ctx = nodes[n].ctx
    BY DEF Snapshot
  <2>2. DiagnosticFrom(LuaDiagnosticHook(Snapshot(nodes, n))) = Complain(nodes[n].ctx)
    BY <2>1 DEF DiagnosticFrom, LuaDiagnosticHook, Complain
  <2>3. g[n] = Placed(Complain(nodes[n].ctx), nodes[n].span)
    BY <2>2 DEF Live
  <2> HIDE DEF g
  <2> QED
    BY <2>3 DEF Complain, Placed, Complaint
<1>3. /\ Diagnosed(nodes) = FilterMap(Offered(nodes, FALSE), f)
      /\ LuaDiagnosed(nodes) = FilterMap(Offered(nodes, FALSE), g)
  BY DEF Diagnosed, LuaDiagnosed
<1> HIDE DEF f, g
<1> QED
  BY <1>1, <1>2, <1>3, DiagnosticsByNodes

(* Every outline there is, whichever hooks draw it.                        *)
LEMMA OutlinesAreShown ==
  ASSUME IInv, Tracked, NEW hooks, Supports(hooks, "symbols")
  PROVE  OutlineShows(Shown, Symbols(nodes, hooks)) /\ OutlineShows(Shown, LuaOutline(nodes))
<1>1. OutlineShows(Shown, FilterMap(Nodes(nodes), NodeSymbols))
  BY OutlineIsShown
<1>2. Symbols(nodes, hooks) \in {FunctionSymbols(nodes), LabelSymbols(nodes)}
  <2>1. hooks \cap {"symbols", "label"} # {}
    BY DEF Supports
  <2>2. CASE "symbols" \in hooks
    BY <2>2 DEF Symbols
  <2>3. CASE "symbols" \notin hooks
    <3>1. {"symbols", "label"} \cap hooks = {"label"}
      BY <2>1, <2>3
    <3> QED
      BY <2>3, <3>1 DEF Symbols
  <2> QED
    BY <2>2, <2>3
<1> QED
  BY <1>1, <1>2, OutlineHooks, OutlineOfLua

----------------------------------------------------------------------------
(* The hover.                                                              *)

(* After a run, siblings do not overlap.                                    *)
LEMMA SiblingsLieApart ==
  ASSUME IInv, Tracked, EveryNodeIsCurrent, SInv, Finished
  PROVE  SiblingsDisjoint(nodes)
<1>1. PICK parse : IsParse(parse)
  BY FreshUnfolds
<1> SUFFICES ASSUME NEW m \in Live(nodes) \ {Root}, NEW n \in Live(nodes) \ {Root},
                    m # n, nodes[m].parent = nodes[n].parent
             PROVE  ~Overlaps(nodes[m].span, nodes[n].span)
  BY DEF SiblingsDisjoint
<1> DEFINE p == nodes[m].parent
           kids == nodes[p].children
           r == RegionOf(nodes, p)
           d == nodes[p].depth
           o == ReplyIn(d, r)
<1>2. p \in Live(nodes) /\ m \in Kids(nodes, p) /\ n \in Kids(nodes, p)
  BY WalkFacts
<1>3. PICK i \in DOMAIN kids, j \in DOMAIN kids : kids[i] = m /\ kids[j] = n
  BY <1>2 DEF Kids
<1>4. AsFresh(parse, p, 0)
  BY <1>1, <1>2, NodeAsFresh
<1>5. nodes[p].status = "Expanded"
  BY <1>3, <1>4 DEF AsFresh
<1>6. /\ RoundOf(language, d, r.ctx)
      /\ o.children = [k \in DOMAIN kids |-> RegionOf(nodes, kids[k])]
  BY <1>4, <1>5 DEF AsFresh
<1>7. /\ d \in 0 .. (NumPasses - 1) /\ d < NumPasses
      /\ o = Lang(language, d, text, r.span, r.ctx)
  <2>1. d \in 0 .. (NumPasses - 1) /\ NumPasses \in Nat
    BY <1>6, ScheduleAssumption DEF RoundOf
  <2> HIDE DEF d
  <2> QED
    BY <2>1 DEF ReplyIn
<1>8. /\ language \in Language /\ text \in Text /\ r.ctx \in Ctx /\ r.span \in SpansIn(text)
  BY <1>2, LiveFacts, TrackedFacts DEF RegionOf
<1>9. o.children[i].span = nodes[m].span /\ o.children[j].span = nodes[n].span
      /\ i \in DOMAIN o.children /\ j \in DOMAIN o.children /\ i # j
  <2>1. DOMAIN o.children = DOMAIN kids
        /\ \A k \in DOMAIN kids : o.children[k] = RegionOf(nodes, kids[k])
    <3> HIDE DEF o, kids
    <3> QED
      BY <1>6
  <2>2. /\ o.children[i] = RegionOf(nodes, m) /\ o.children[j] = RegionOf(nodes, n)
        /\ i \in DOMAIN o.children /\ j \in DOMAIN o.children /\ i # j
    <3> HIDE DEF o, kids
    <3> QED
      BY <1>3, <2>1
  <2> HIDE DEF o, kids
  <2> QED
    BY <2>2 DEF RegionOf
<1> HIDE DEF d, r, o, kids, p
<1> QED
  BY <1>7, <1>8, <1>9, ApartAssumption

(* Of the nodes around an offset the one that NodeAt finds is the deepest,   *)
(* and the only one at its level.                                          *)
LEMMA FoundIsDeepest ==
  ASSUME IInv, Tracked, EveryNodeIsCurrent, SInv, Finished,
         NEW offset \in 0 .. Len(text)
  PROVE  LET found == NodeAt(nodes, offset) IN
         IF offset = Len(text) THEN found = NoNode /\ \A n : ~Holds(n, offset)
         ELSE /\ Holds(found, offset)
              /\ \A n : Holds(n, offset) => n = found \/ Level(n) < Level(found)
<1> DEFINE found == NodeAt(nodes, offset)
<1>1. textLen = Len(text) /\ offset \in 0 .. textLen
  BY TrackedFacts
<1>2. CASE offset = Len(text)
  <2>1. found = NoNode
    BY <1>1, <1>2, NodeAtFacts
  <2>2. ASSUME NEW n, Holds(n, offset) PROVE FALSE
    <3>1. nodes[n].span \in Span /\ nodes[n].span.end <= Len(text) /\ offset < nodes[n].span.end
      BY <2>2, LiveFacts DEF Holds, ContainsOffset
    <3>2. Len(text) \in Nat /\ nodes[n].span.end \in Nat
      BY <3>1, TrackedFacts, LenProperties DEF Span
    <3> QED
      BY <1>2, <3>1, <3>2
  <2> QED
    BY <1>2, <2>1, <2>2
<1>3. CASE offset # Len(text)
  <2>1. Holds(found, offset) /\ \A n : Holds(n, offset) => n \in Up(found)
    BY <1>1, <1>3, SiblingsLieApart, NodeAtFacts
  <2>2. found \in Live(nodes)
    BY <2>1 DEF Holds
  <2>3. \A x \in Up(found) : x = found \/ Level(x) < Level(found)
    BY <2>2, LevelFacts
  <2> QED
    BY <1>3, <2>1, <2>3
<1> QED
  BY <1>2, <1>3

(* Hover describes the innermost region of what the tree shows.            *)
LEMMA HoverIsShown ==
  ASSUME IInv, Tracked, EveryNodeIsCurrent, SInv, Finished,
         NEW offset \in 0 .. Len(text)
  PROVE  HoverShows(Shown, offset)
<1>1. PICK order : ShowsLines(order)
  BY OrderExists, ShownInOrder
<1> DEFINE fresh == Shown
           s == order[Root]
           found == NodeAt(nodes, offset)
           holding == {k \in DOMAIN fresh : ContainsOffset(fresh[k].region.span, offset)}
           IsInmost(k) == \A j \in holding : fresh[j].level <= fresh[k].level
           top == CHOOSE k \in holding : IsInmost(k)
           inmost == fresh[top].region
<1>2. /\ DOMAIN fresh = 1 .. Len(fresh)
      /\ \A k \in DOMAIN fresh : /\ s[k] \in Live(nodes)
                                 /\ fresh[k].region = RegionOf(nodes, s[k])
                                 /\ fresh[k].level = Level(s[k])
      /\ \A n \in Live(nodes) : \E k \in DOMAIN fresh : s[k] = n
  <2>1. DOMAIN fresh = 1 .. Len(fresh) /\ DOMAIN s = 1 .. Len(s) /\ Len(s) = Len(fresh)
    BY <1>1, LenProperties DEF ShowsLines
  <2>2. \A k \in DOMAIN fresh : s[k] \in Live(nodes) /\ fresh[k] = LineOf[s[k]]
    BY <1>1, <2>1 DEF ShowsLines
  <2>3. ASSUME NEW k \in DOMAIN fresh
        PROVE  fresh[k].region = RegionOf(nodes, s[k]) /\ fresh[k].level = Level(s[k])
    <3> DEFINE n == s[k]
    <3>1. n \in Live(nodes) /\ fresh[k] = LineOf[n]
      BY <2>2
    <3> HIDE DEF n
    <3>2. LineOf[n].region = RegionOf(nodes, n) /\ LineOf[n].level = Level(n)
      BY <3>1 DEF LineOf
    <3> HIDE DEF fresh
    <3> QED
      BY <3>1, <3>2 DEF n
  <2>4. \A n \in Live(nodes) : \E k \in DOMAIN s : s[k] = n
    BY <1>1 DEF ShowsLines, Lists, Sq!ToSet
  <2> QED
    BY <2>1, <2>2, <2>3, <2>4
<1>3. \A k : k \in holding <=> k \in DOMAIN fresh /\ Holds(s[k], offset)
  <2> SUFFICES ASSUME NEW k \in DOMAIN fresh
               PROVE  k \in holding <=> Holds(s[k], offset)
    OBVIOUS
  <2>1. s[k] \in Live(nodes) /\ fresh[k].region.span = nodes[s[k]].span
    <3>1. s[k] \in Live(nodes) /\ fresh[k].region = RegionOf(nodes, s[k])
      BY <1>2
    <3>2. RegionOf(nodes, s[k]).span = nodes[s[k]].span
      BY DEF RegionOf
    <3> HIDE DEF fresh, s
    <3> QED
      BY <3>1, <3>2
  <2> QED
    BY <2>1 DEF Holds
<1>4. CASE offset = Len(text)
  <2>1. found = NoNode /\ holding = {}
    BY <1>3, <1>4, FoundIsDeepest
  <2> QED
    BY <2>1 DEF HoverShows, Hover
<1>5. CASE offset # Len(text)
  <2>1. /\ Holds(found, offset)
        /\ \A n : Holds(n, offset) => n = found \/ Level(n) < Level(found)
    BY <1>5, FoundIsDeepest
  <2>2. found \in Live(nodes) /\ found # NoNode
    <3>1. found \in Live(nodes)
      BY <2>1 DEF Holds
    <3>2. found \in Nat
      BY <3>1, WalkFacts DEF Live
    <3>3. \A x \in Nat : x # -1
      OBVIOUS
    <3> HIDE DEF found
    <3> QED
      BY <3>1, <3>2, <3>3 DEF NoNode
  <2>3. \A n \in Live(nodes) : Level(n) \in Nat
    BY LevelFacts
  <2> HIDE DEF found
  <2>4. PICK f \in DOMAIN fresh : s[f] = found
    BY <1>2, <2>2
  <2>5. f \in holding
    BY <1>3, <2>1, <2>4
  <2>6. \A j \in holding : /\ j \in DOMAIN fresh /\ s[j] \in Live(nodes)
                           /\ s[j] = found \/ Level(s[j]) < Level(found)
    BY <1>2, <1>3, <2>1
  <2>7. IsInmost(f)
    BY <1>2, <2>2, <2>3, <2>4, <2>6
  <2>8. top \in holding /\ IsInmost(top)
    BY <2>5, <2>7
  <2> HIDE DEF top
  <2>9. fresh[f].level <= fresh[top].level
    BY <2>5, <2>8
  <2>10. s[top] = found
    BY <1>2, <2>2, <2>3, <2>4, <2>6, <2>8, <2>9
  <2>11. inmost = RegionOf(nodes, found) /\ holding # {}
    BY <1>2, <2>6, <2>8, <2>10
  <2>12. inmost.ctx = nodes[found].ctx /\ inmost.span = nodes[found].span
    BY <2>11 DEF RegionOf
  <2>13. HoverShows(Shown, offset) <=>
           Hover(nodes, offset) = IF holding = {} \/ Describe(inmost.ctx) = <<>> THEN <<>>
                                  ELSE <<[says |-> inmost.ctx, span |-> inmost.span]>>
    BY DEF HoverShows, top
  <2>14. Hover(nodes, offset) = IF found = NoNode \/ Describe(nodes[found].ctx) = <<>> THEN <<>>
                                ELSE <<[says |-> Describe(nodes[found].ctx)[1],
                                        span |-> nodes[found].span]>>
    BY DEF Hover, found
  <2>15. \A c : Describe(c) # <<>> => Describe(c)[1] = c
    BY DEF Describe
  <2> HIDE DEF inmost, holding, fresh
  <2> QED
    BY <2>2, <2>11, <2>12, <2>13, <2>14, <2>15
<1> QED
  BY <1>4, <1>5

(* What an editor asks of the tree after a run is answered as a parse of its *)
(* text from nothing would answer it: each of its functions once in the     *)
(* outline, whichever hooks draw it, the innermost region in the hover at    *)
(* any offset, and the failed and the unreached returns in text order.       *)
THEOREM EditorIsFresh == SpecText => []EditorShowsTheText
<1>1. FInv /\ SameAsFresh => EditorShowsTheText
  <2> SUFFICES ASSUME FInv, SameAsFresh, pc = "done" PROVE EditorShows(Fresh)
    BY DEF EditorShowsTheText
  <2>1. IInv /\ Tracked /\ EveryNodeIsCurrent /\ SInv /\ Finished /\ Shown = Fresh
    BY RunsFinish DEF FInv, TInv, SameAsFresh
  <2>2. \A hooks \in Hooks :
          Supports(hooks, "symbols") => OutlineShows(Shown, Symbols(nodes, hooks))
    BY <2>1, OutlinesAreShown
  <2>3. \A offset \in 0 .. Len(text) : HoverShows(Shown, offset)
    BY <2>1, HoverIsShown
  <2>4. DiagnosticsShow(Shown, Diagnosed(nodes)) /\ DiagnosticsShow(Shown, LuaDiagnosed(nodes))
    BY <2>1, DiagnosticsAreShown
  <2>5. OutlineShows(Shown, LuaOutline(nodes))
    BY <2>1, OutlineIsShown, OutlineOfLua
  <2> QED
    BY <2>1, <2>2, <2>3, <2>4, <2>5 DEF EditorShows
<1> QED
  BY <1>1, TextRunsInvariance, IncrementalIsFresh, PTL

============================================================================
