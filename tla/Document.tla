------------------------------ MODULE Document ------------------------------
(***************************************************************************)
(* One open document (crates/increparse-lsp/src/document.rs) and the client *)
(* that edits it. The client changes its text step by step and sends the    *)
(* changes in batches (didChange); the document applies the changes of a    *)
(* batch one by one, each against the text, and the line index, that the    *)
(* one before left, and hands each to the session as an edit.               *)
(*                                                                         *)
(* Of the session's tree the module keeps the root and, for every stretch of *)
(* the text a run may have made a region, that region and the characters it  *)
(* covered: Engine has the rest, and the run that ends a batch.              *)
(***************************************************************************)
EXTENDS Positions, Spans

CONSTANTS
  Enc,         \* The document's position encoding.
  Texts,       \* The texts a document may be opened with,
  Inserts,     \* and the texts a change may put in.
  Overshoot,   \* How far past the end of a line the client's columns are.
  MaxChanges   \* Bound: the changes the client makes.

ASSUME EncAssumption    == Enc \in Encoding /\ Texts \union Inserts \subseteq Seq(Char)
ASSUME BoundsAssumption == Overshoot \in Nat /\ MaxChanges \in Nat

VARIABLES
  client,   \* The client's text.
  sent,     \* Changes the client made and the document has not applied.
  text,     \* The document's text, line index and version,
  index,
  version,
  root,     \* the root's span,
  regions,  \* and regions: span, the characters covered, touched or not.
  changes   \* Bounded counter: changes the client made.

docVars == <<text, index, version, root, regions>>
vars    == <<client, sent, docVars, changes>>

Places(s) == 0 .. Len(s)

Whole == [all |-> TRUE]   \* The range of a change that replaces the whole text.

Replace(s, from, to, new) == SubSeq(s, 1, from) \o new \o SubSeq(s, to + 1, Len(s))

----------------------------------------------------------------------------
(* The client: it counts lines and columns in its own text, and may send a  *)
(* column past the end of a line for the end of it.                        *)

EndsLine(s, p) == p = Len(s) \/ s[p + 1] = "lf"

ClientPosition(s, p) ==
  LET before == {q \in 1 .. p : s[q] = "lf"}
      start  == IF before = {} THEN 0 ELSE CHOOSE q \in before : \A r \in before : r <= q
  IN  [line      |-> Cardinality(before),
       character |-> Units(Enc, s, start, p) + IF EndsLine(s, p) THEN Overshoot ELSE 0]

RangesFor(s, from, to) ==
  {[start |-> ClientPosition(s, from), end |-> ClientPosition(s, to)]} \union
  (IF from = 0 /\ to = Len(s) THEN {Whole} ELSE {})

(* Document::open.                                                         *)
Init ==
  /\ client \in Texts /\ sent = <<>> /\ changes = 0
  /\ text = client /\ index = LineIndex(client) /\ version = 0
  /\ root = SpanOf(0, ByteLen(client), 0)
  /\ regions = UNION {{[span    |-> SpanOf(ByteAt(client, from), ByteAt(client, to), 0),
                        chars   |-> SubSeq(client, from + 1, to),
                        touched |-> FALSE] : to \in from .. Len(client)} :
                      from \in Places(client)}

(* A change; "last" ends a batch and sends it, which the bound forces.       *)
ClientEdit(from, to, new, last) ==
  /\ from <= to
  /\ changes < MaxChanges /\ (changes + 1 = MaxChanges => last)
  /\ client' = Replace(client, from, to, new)
  /\ \E range \in RangesFor(client, from, to) :
       sent' = Append(sent, [range |-> range, new |-> new, last |-> last])
  /\ changes' = changes + 1
  /\ UNCHANGED docVars

----------------------------------------------------------------------------
(* Document::apply_changes.                                                *)

Change == Head(sent)

Larger(m, n) == IF m >= n THEN m ELSE n

(* The byte range a change replaces: an inverted range is empty.            *)
StartOf(change) ==
  IF change.range = Whole THEN 0 ELSE Offset(index, text, change.range.start, Enc)

EndOf(change) ==
  IF change.range = Whole THEN ByteLen(text)
  ELSE Larger(StartOf(change), Offset(index, text, change.range.end, Enc))

(* What the session is told (the slip: the new end in old coordinates).     *)
EditInOldCoordinates(change) ==
  [start |-> StartOf(change), oldEnd |-> EndOf(change), newEnd |-> EndOf(change)]

EditOf(change) ==
  LET start == StartOf(change)
  IN  [start |-> start, oldEnd |-> EndOf(change), newEnd |-> start + ByteLen(change.new)]

(* The line index of the new text (the slip: left for the end of the batch). *)
IndexAtTheEnd(old, new) == IF Change.last THEN LineIndex(new) ELSE old

IndexAfter(old, new) == LineIndex(new)

(* One change of a batch that has arrived.                                 *)
ApplyChange ==
  /\ \E i \in 1 .. Len(sent) : sent[i].last
  /\ LET e == EditOf(Change) IN
       /\ text' = Replace(text, PlaceAt(text, e.start), PlaceAt(text, e.oldEnd), Change.new)
       /\ root' = MapSpan(e, root, root.rev + 1)
       /\ regions' = {[r EXCEPT !.span    = MapSpan(e, @, @.rev + 1),
                                !.touched = @ \/ Touches(e, r.span)] : r \in regions}
  /\ index' = IndexAfter(index, text')
  /\ version' = IF Change.last THEN version + 1 ELSE version
  /\ sent' = Tail(sent)
  /\ UNCHANGED <<client, changes>>

Next ==
  \/ \E from, to \in Places(client), new \in Inserts, last \in BOOLEAN :
       ClientEdit(from, to, new, last)
  \/ ApplyChange

Spec == Init /\ [][Next]_vars

----------------------------------------------------------------------------
(* Texts are texts, spans are spans, and the line starts the index holds    *)
(* are offsets of the text it is kept for.                                 *)
TypeOK ==
  /\ {client, text} \subseteq Seq(Char)
  /\ \A i \in 1 .. Len(sent) : sent[i].new \in Inserts /\ sent[i].last \in BOOLEAN
  /\ index.len \in Nat /\ index.starts \subseteq 0 .. ByteLen(text)
  /\ version \in 0 .. MaxChanges /\ changes \in 0 .. MaxChanges
  /\ root \in Span
  /\ regions \subseteq [span : Span, chars : Seq(Char), touched : BOOLEAN]

(* Once the changes it sent are applied the document holds the client's     *)
(* text, whatever columns the client used and however the changes of a      *)
(* batch moved one another's text (apply_changes re-indexes after each       *)
(* change; line_end and offset_of_units clamp).                            *)
DocumentFollowsClient == sent = <<>> => text = client

(* The edits the document hands the session describe what it did to the     *)
(* text: the root spans the text at all times, between the changes of a     *)
(* batch too, and a region no edit touched covers the very characters it    *)
(* covered before, so that reusing it is sound (Session::edit, Span::map).  *)
SpansFollowTheText ==
  /\ root.start = 0 /\ root.end = ByteLen(text)
  /\ \A r \in regions :
       ~r.touched =>
         SubSeq(text, PlaceAt(text, r.span.start) + 1, PlaceAt(text, r.span.end)) = r.chars

(* String::replace_range panics on an offset inside a character: the range  *)
(* a change names, resolved against the text and index the change before it *)
(* left, starts and ends between characters and inside the text.           *)
ReplaceOnBoundaries ==
  sent # <<>> => IsBoundary(text, StartOf(Change)) /\ IsBoundary(text, EndOf(Change))

(* A run slices the source by the spans of pending regions, which panics    *)
(* inside a character: whatever edits a region lived through, touched or    *)
(* not, its span starts and ends between characters of the present text.    *)
RegionsOnBoundaries ==
  \A r \in regions : IsBoundary(text, r.span.start) /\ IsBoundary(text, r.span.end)

(* LineIndex::position and LineIndex::offset are inverse on every character *)
(* boundary, in every encoding: a range published for a span names that     *)
(* span, and a client that echoes it back (hover, definition) finds it.     *)
(* (Every text a document can have is one it has with no change in flight.)  *)
RoundTrip == sent = <<>> =>
  \A enc \in Encoding, p \in Places(text) :
    LET b == ByteAt(text, p) IN
    Offset(index, text, Position(index, text, b, enc), enc) = b

(* A column, however far past the end of its line, stays on that line (it   *)
(* never swallows the line feed), and a larger column never resolves to a   *)
(* smaller offset, so that an ordered LSP range is an ordered byte range.   *)
ColumnsStayOnTheirLine == sent = <<>> =>
  \A enc \in Encoding, line \in 0 .. LineCount(index) - 1 :
    LET At(column) == Offset(index, text, [line |-> line, character |-> column], enc)
    IN  \A column \in 0 .. ByteLen(text) + 1 :
          /\ Position(index, text, At(column), enc).line = line
          /\ At(column) <= At(column + 1)

============================================================================
