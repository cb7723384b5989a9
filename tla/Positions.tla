----------------------------- MODULE Positions -----------------------------
(***************************************************************************)
(* Byte offsets and the positions of the language server protocol          *)
(* (crates/increparse-lsp/src/line_index.rs, encoding.rs).                 *)
(*                                                                         *)
(* A text is a sequence of characters. Characters differ in what the        *)
(* conversions tell apart: their width in each encoding, and whether they   *)
(* end a line. A place in a text is the number p of characters before it.   *)
(***************************************************************************)
EXTENDS Integers, Sequences, FiniteSets

Char == {"lf", "ascii", "accent", "emoji"}

Encoding == {"utf8", "utf16", "utf32"}

(* Code units of a character: one, two or four.                            *)
Width == [utf8  |-> [lf |-> 1, ascii |-> 1, accent |-> 2, emoji |-> 4],
          utf16 |-> [lf |-> 1, ascii |-> 1, accent |-> 1, emoji |-> 2],
          utf32 |-> [lf |-> 1, ascii |-> 1, accent |-> 1, emoji |-> 1]]

(* Code units of the characters between two places.                        *)
Units(enc, s, from, to) ==
  LET AtLeast(w) == Cardinality({i \in (from + 1) .. to : Width[enc][s[i]] >= w})
  IN  (to - from) + AtLeast(2) + 2 * AtLeast(4)

(* The byte offset of a place, and the last place at or before an offset.   *)
ByteAt(s, p) == Units("utf8", s, 0, p)

ByteLen(s) == ByteAt(s, Len(s))

PlaceAt(s, offset) ==
  CHOOSE p \in 0 .. Len(s) :
    /\ ByteAt(s, p) <= offset
    /\ p < Len(s) => ByteAt(s, p + 1) > offset

IsBoundary(s, offset) == \E p \in 0 .. Len(s) : ByteAt(s, p) = offset

----------------------------------------------------------------------------
(* The line index: where lines start, in bytes, and the length.            *)

LineIndex(s) ==
  [starts |-> {0} \union {ByteAt(s, p) : p \in {q \in 1 .. Len(s) : s[q] = "lf"}},
   len    |-> ByteLen(s)]

LineCount(ix) == Cardinality(ix.starts)

LineStart(ix, line) ==
  CHOOSE b \in ix.starts : Cardinality({c \in ix.starts : c < b}) = line

NextStart(ix, line) ==
  IF line + 1 < LineCount(ix) THEN LineStart(ix, line + 1) ELSE ix.len

(* Is the byte before an offset a line feed?                               *)
LfBefore(s, offset) == \E p \in 1 .. Len(s) : s[p] = "lf" /\ ByteAt(s, p) = offset

(* The end of a line, without its terminator (the slip: with it).           *)
LineEndWithLf(ix, s, line) == NextStart(ix, line)

LineEnd(ix, s, line) ==
  LET next == NextStart(ix, line) IN
  IF next > LineStart(ix, line) /\ LfBefore(s, next) THEN next - 1 ELSE next

----------------------------------------------------------------------------

Lesser(m, n) == IF m <= n THEN m ELSE n

(* Bytes of a line before a column. A column inside a character rounds up,   *)
(* one past the end of the line stops there. UTF-8 columns are bytes and    *)
(* are only cut off.                                                       *)
OffsetOfUnits(enc, s, from, to, units) ==
  LET reached == {p \in from .. to : Units(enc, s, from, p) >= units}
      first   == CHOOSE p \in reached : \A q \in reached : p <= q
  IN  IF enc = "utf8" THEN Lesser(Units(enc, s, from, to), units)
      ELSE Units("utf8", s, from, IF reached = {} THEN to ELSE first)

Offset(ix, s, pos, enc) ==
  LET line  == Lesser(pos.line, LineCount(ix) - 1)
      start == LineStart(ix, line)
  IN  start + OffsetOfUnits(enc, s, PlaceAt(s, start),
                            PlaceAt(s, LineEnd(ix, s, line)), pos.character)

(* Offsets past the end clamp; one inside a character rounds down. (The      *)
(* slip: a line start counted with the line before it.)                    *)
PositionBeforeTheStart(ix, s, offset, enc) ==
  LET at   == Lesser(offset, ix.len)
      line == Cardinality({b \in ix.starts : b < at} \union {0}) - 1
  IN  [line |-> line,
       character |-> Units(enc, s, PlaceAt(s, LineStart(ix, line)), PlaceAt(s, at))]

Position(ix, s, offset, enc) ==
  LET at   == Lesser(offset, ix.len)
      line == Cardinality({b \in ix.starts : b <= at}) - 1
  IN  [line |-> line,
       character |-> Units(enc, s, PlaceAt(s, LineStart(ix, line)), PlaceAt(s, at))]

============================================================================
