------------------------------- MODULE Spans -------------------------------
(***************************************************************************)
(* Byte ranges of the source text and how a text edit moves them           *)
(* (crates/increparse/src/span.rs and session.rs).                         *)
(*                                                                         *)
(* A span is the half-open range [start, end) of one revision of the text. *)
(* An edit replaces the old range [start, oldEnd) by the new range         *)
(* [start, newEnd); start = oldEnd is a pure insertion.                    *)
(***************************************************************************)
EXTENDS Integers

Span == {s \in [start : Nat, end : Nat, rev : Nat] : s.start <= s.end}

SpanOf(first, last, rev) == [start |-> first, end |-> last, rev |-> rev]

SpanLen(s) == s.end - s.start

(* s.contains(t): revisions are not compared.                              *)
Contains(s, t) == s.start <= t.start /\ t.end <= s.end

(* Half-open: a zero-width span contains no offset (the slip: closed).      *)
ContainsClosed(s, offset) == s.start <= offset /\ offset <= s.end

ContainsOffset(s, offset) == s.start <= offset /\ offset < s.end

Overlaps(s, t) == s.start < t.end /\ t.start < s.end

----------------------------------------------------------------------------

Edit == {e \in [start : Nat, oldEnd : Nat, newEnd : Nat] :
           e.start <= e.oldEnd /\ e.start <= e.newEnd}

IsInsertion(e) == e.start = e.oldEnd

(* Where a span's first byte goes.                                         *)
MapPos(e, pos) ==
  IF pos <= e.start THEN pos
  ELSE IF pos >= e.oldEnd THEN e.newEnd + (pos - e.oldEnd)
  ELSE e.newEnd

(* Where a span's end goes: as MapPos, but a span that ends at an insertion *)
(* point absorbs the inserted bytes. Forgetting that is the plausible slip  *)
(* MapEndAsPos makes.                                                       *)
MapEndAsPos(e, pos) == MapPos(e, pos)

MapEnd(e, pos) ==
  IF IsInsertion(e) /\ pos >= e.start THEN e.newEnd + (pos - e.oldEnd)
  ELSE MapPos(e, pos)

(* Can the edit change the text s covers? Replacements overlap half-open,   *)
(* insertions touch every span whose closed range holds the point.          *)
TouchesHalfOpen(e, s) == s.start < e.oldEnd /\ e.start < s.end

Touches(e, s) ==
  IF IsInsertion(e)
  THEN s.start <= e.start /\ e.start <= s.end
  ELSE s.start < e.oldEnd /\ e.start < s.end

MapSpan(e, s, rev) == SpanOf(MapPos(e, s.start), MapEnd(e, s.end), rev)

============================================================================
