------------------------------ MODULE MCEngine ------------------------------
(* Small instances for TLC: two contexts, texts of a few bytes, and passes   *)
(* that divide, wrap, duplicate, refuse and misbehave.                      *)
EXTENDS TreeQueries

CONSTANTS a, b

MCCtx == {a, b}

Plain(kind) == [kind |-> kind, children |-> <<>>]
Into(kids) == [kind |-> "Expand", children |-> kids]
Piece(first, last, s, ctx) == [span |-> SpanOf(first, last, s.rev), ctx |-> ctx]

(* First byte and rest; the rest twice; the region itself, re-tagged.       *)
Divisions(s) ==
  LET mid == IF SpanLen(s) = 0 THEN s.start ELSE s.start + 1
      hd  == Piece(s.start, mid, s, a)
      tl  == Piece(mid, s.end, s, b)
  IN  {Into(<<hd, tl>>), Into(<<tl, tl>>), Into(<<tl>>)}

Wrapping(s) == {Into(<<Piece(s.start, s.end, s, b)>>)}

(* Children a pass must not produce, beside one it may, which an earlier run *)
(* may have made as well.                                                  *)
Misbehaving(s) ==
  LET hd == Piece(s.start, IF SpanLen(s) = 0 THEN s.start ELSE s.start + 1, s, a)
  IN  {Into(<<hd, Piece(s.start, s.end + 1, s, a)>>),
       Into(<<[span |-> SpanOf(s.start, s.start, s.rev + 1), ctx |-> a], hd>>)}

Terminal == {Plain("Done"), Plain("Failed"), Into(<<>>)}

(* Every kind of outcome in two passes.                                    *)
ParseSmall(pass, s, ctx) ==
  IF pass = 0 THEN Divisions(s) \union {Plain("Failed")} \union Wrapping(s)
  ELSE Terminal \union Wrapping(s) \union (IF ctx = a THEN Divisions(s) ELSE {})

(* Three levels of nesting: the middle pass divides regions tagged b.       *)
ParseDeep(pass, s, ctx) ==
  CASE pass = 0 -> Divisions(s) \union {Plain("Failed")}
    [] pass = 1 -> {Plain("Done")} \union (IF ctx = b THEN Wrapping(s) ELSE {})
    [] OTHER    -> {Plain("Done"), Plain("Failed")}

(* Every kind of outcome, and passes that break the contract.               *)
ParseWild(pass, s, ctx) == ParseSmall(pass, s, ctx) \union Misbehaving(s)

============================================================================
