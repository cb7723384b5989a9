------------------------------ MODULE MiniLang ------------------------------
(***************************************************************************)
(* The mini language of the examples, scanned by hand                      *)
(* (crates/increparse/examples/mini_lang.rs):                              *)
(*                                                                         *)
(*   def add(a, b) { return a + b; }                                       *)
(*                                                                         *)
(* A text is a sequence of tokens, each one offset wide: the keywords, some *)
(* letters, two spaces, the punctuation. Letters and keywords that touch   *)
(* make one identifier, as characters do.                                  *)
(***************************************************************************)
EXTENDS Spans, Sequences, FiniteSets

LOCAL Ext == INSTANCE SequencesExt

Spaces == {"sp", "nl"}
Marks  == {"(", ")", "{", "}", ",", ";"}

FileCtx              == [kind |-> "File", name |-> <<>>, params |-> <<>>]
FunctionCtx(n, args) == [kind |-> "Function", name |-> n, params |-> args]
ReturnCtx(n)         == [kind |-> "Return", name |-> n, params |-> <<>>]

Fails       == [kind |-> "Failed", children |-> <<>>]
Succeeds    == [kind |-> "Done", children |-> <<>>]
Splits(kids) == [kind |-> "Expand", children |-> kids]

----------------------------------------------------------------------------
(* Reading a text at an offset.                                            *)

NoPlace == -1

Earliest(S, otherwise) ==
  IF S = {} THEN otherwise ELSE CHOOSE i \in S : \A j \in S : i <= j

Slice(text, first, last) == SubSeq(text, first + 1, last)

IsAt(text, i, token) == i \in 0 .. (Len(text) - 1) /\ text[i + 1] = token

SpaceAt(text, i) == i \in 0 .. (Len(text) - 1) /\ text[i + 1] \in Spaces

WordAt(text, i) ==
  i \in 0 .. (Len(text) - 1) /\ text[i + 1] \notin Spaces \union Marks

Find(text, first, last, token) ==
  Earliest({i \in first .. (last - 1) : IsAt(text, i, token)}, NoPlace)

(* The end of the space at i (the slip: of its first line).                 *)
SkipBlanks(text, i) ==
  Earliest({j \in i .. (Len(text) - 1) : ~IsAt(text, j, "sp")},
           IF i < Len(text) THEN Len(text) ELSE i)

SkipWs(text, i) ==
  Earliest({j \in i .. (Len(text) - 1) : ~SpaceAt(text, j)},
           IF i < Len(text) THEN Len(text) ELSE i)

(* The end of the identifier at i; i itself when there is none.            *)
IdentEnd(text, i) ==
  Earliest({j \in i .. (Len(text) - 1) : ~WordAt(text, j)},
           IF i < Len(text) THEN Len(text) ELSE i)

Trim(s) ==
  LET solid == {i \in DOMAIN s : s[i] \notin Spaces}
      last  == CHOOSE i \in solid : \A j \in solid : j <= i
  IN  IF solid = {} THEN <<>> ELSE SubSeq(s, Earliest(solid, 0), last)

(* The brace that closes the one at open, before limit.                    *)
MatchBrace(text, open, limit) ==
  LET Count(i, token) == Cardinality({j \in open .. i : IsAt(text, j, token)})
  IN  Earliest({i \in open .. (limit - 1) : Count(i, "{") = Count(i, "}")}, NoPlace)

(* What stands between the commas, trimmed; parse_params skips empty parts. *)
AllParts(text, first, last) ==
  LET commas == {i \in first .. (last - 1) : IsAt(text, i, ",")}
      starts == Ext!SetToSortSeq({first} \union {i + 1 : i \in commas}, <)
  IN  [k \in DOMAIN starts |->
         Trim(Slice(text, starts[k],
                    Earliest({i \in commas : i >= starts[k]}, last)))]

Parts(text, first, last) ==
  SelectSeq(AllParts(text, first, last), LAMBDA part : part # <<>>)

(* Is a part one whole identifier?                                         *)
IsIdent(part) == IdentEnd(part, 0) = Len(part)

----------------------------------------------------------------------------
(* The scanning loop: each turn looks at one place and says where to go on  *)
(* and what it found there.                                                *)

GoOn(i) == [next |-> i, found |-> <<>>]

Found(first, last, rev, ctx) ==
  [next |-> last, found |-> <<[span |-> SpanOf(first, last, rev), ctx |-> ctx]>>]

Scan(Turn(_), first, limit) ==
  LET from[i \in Nat] ==
        IF i >= limit THEN <<>>
        ELSE LET turn == Turn(i) IN turn.found \o from[turn.next]
  IN  from[first]

(* Round 0. Each way a definition can be malformed resumes somewhere else;  *)
(* an unclosed body ends the scan.                                          *)
FunctionAt(text, s, at) ==
  LET i       == SkipWs(text, at)
      kwEnd   == IdentEnd(text, i)
      name    == SkipWs(text, kwEnd)
      nameEnd == IdentEnd(text, name)
      open    == SkipWs(text, nameEnd)
      lineEnd == Earliest({j \in open .. (s.end - 1) : IsAt(text, j, "nl")}, s.end)
      close   == Find(text, open + 1, lineEnd, ")")
      params  == Parts(text, open + 1, close)
      brace   == SkipWs(text, close + 1)
      end     == MatchBrace(text, brace, s.end)
  IN  IF ~WordAt(text, i) THEN GoOn(i + 1)
      ELSE IF \/ Slice(text, i, kwEnd) # <<"def">>
              \/ ~WordAt(text, name)
              \/ open >= s.end \/ ~IsAt(text, open, "(") THEN GoOn(kwEnd)
      ELSE IF close = NoPlace THEN GoOn(lineEnd + 1)
      ELSE IF \/ \E k \in DOMAIN params : ~IsIdent(params[k])
              \/ brace >= s.end \/ ~IsAt(text, brace, "{") THEN GoOn(close + 1)
      ELSE IF end = NoPlace THEN GoOn(s.end)
      ELSE Found(i, end + 1, s.rev, FunctionCtx(Slice(text, name, nameEnd), params))

FunctionsPass(text, s, ctx) ==
  IF ctx.kind # "File" THEN Fails
  ELSE Splits(Scan(LAMBDA i : FunctionAt(text, s, i), s.start, s.end))

(* Round 1: each `return` up to its semicolon, anywhere in the definition.  *)
ReturnAt(text, s, name, at) ==
  LET i    == SkipWs(text, at)
      semi == Find(text, i, s.end, ";")
  IN  IF ~IsAt(text, i, "return") THEN GoOn(i + 1)
      ELSE IF semi = NoPlace THEN GoOn(s.end)
      ELSE Found(i, semi + 1, s.rev, ReturnCtx(name))

BodyPass(text, s, ctx) ==
  IF ctx.kind # "Function" THEN Fails
  ELSE Splits(Scan(LAMBDA i : ReturnAt(text, s, ctx.name, i), s.start, s.end))

(* Round 2: something must stand between `return` and the semicolon.        *)
ReturnPass(text, s, ctx) ==
  LET body == Trim(Slice(text, s.start, s.end)) IN
  IF /\ ctx.kind = "Return"
     /\ Len(body) >= 2 /\ body[1] = "return" /\ body[Len(body)] = ";"
     /\ Trim(SubSeq(body, 2, Len(body) - 1)) # <<>>
  THEN Succeeds ELSE Fails

(* The schedule of make_engine.                                            *)
HandWritten(pass, text, s, ctx) ==
  CASE pass = 0 -> FunctionsPass(text, s, ctx)
    [] pass = 1 -> BodyPass(text, s, ctx)
    [] pass = 2 -> ReturnPass(text, s, ctx)

============================================================================
