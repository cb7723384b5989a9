------------------------------ MODULE LuaLang -------------------------------
(***************************************************************************)
(* The mini language as a Lua script                                       *)
(* (crates/increparse-lua/examples/minilang.lua), as the language server     *)
(* runs it. The script sees the whole text and answers in its offsets.      *)
(***************************************************************************)
EXTENDS MiniLang, LuaPasses

LOCAL Ext == INSTANCE SequencesExt

Item(first, last, ctx) == [is |-> "table", start |-> first, end |-> last, ctx |-> ctx]

(* The words between two offsets: gmatch("[%w_]+").                         *)
Words(text, first, last) ==
  LET starts == Ext!SetToSortSeq({i \in first .. (last - 1) :
                                   WordAt(text, i) /\ (i = first \/ ~WordAt(text, i - 1))}, <)
  IN  [k \in DOMAIN starts |-> Slice(text, starts[k], IdentEnd(text, starts[k]))]

FoundItem(first, last, ctx) == [next |-> last, found |-> <<Item(first, last, ctx)>>]

(* Round 0. The parameter list is the next one anywhere, the body the next  *)
(* braces anywhere after it; without a "(" or with an unclosed body the     *)
(* scan ends, without a ")" on its line it goes on at the next line.        *)
LuaFunctionAt(text, s, at) ==
  LET i       == SkipWs(text, at)
      name    == SkipWs(text, i + 1)
      nameEnd == IdentEnd(text, name)
      open    == Find(text, i, Len(text), "(")
      nl      == Find(text, open, Len(text), "nl")
      lineEnd == IF nl = NoPlace THEN s.end ELSE nl
      close   == Find(text, open + 1, Len(text), ")")
      params  == Words(text, open + 1, close)
      brace   == Find(text, close + 1, Len(text), "{")
      end     == MatchBrace(text, brace, s.end)
  IN  IF i >= s.end THEN GoOn(i)
      ELSE IF ~(IsAt(text, i, "def") /\ SpaceAt(text, i + 1) /\ WordAt(text, name))
           THEN GoOn(i + 1)
      ELSE IF open = NoPlace THEN GoOn(s.end)
      ELSE IF close = NoPlace \/ close >= lineEnd THEN GoOn(lineEnd)
      ELSE IF brace = NoPlace THEN GoOn(close + 1)
      ELSE IF end = NoPlace THEN GoOn(s.end)
      ELSE FoundItem(i, end + 1, FunctionCtx(Slice(text, name, nameEnd), params))

LuaFunctions(text, s, ctx) ==
  IF ctx.kind # "File" THEN Answer("failed", <<>>)
  ELSE Answer("expand", Scan(LAMBDA i : LuaFunctionAt(text, s, i), s.start, s.end))

(* Round 1: the next `return` and its semicolon, while both are inside.     *)
LuaReturnAt(text, s, name, at) ==
  LET i    == Find(text, at, Len(text), "return")
      semi == Find(text, i + 1, Len(text), ";")
  IN  IF i = NoPlace \/ i >= s.end \/ semi = NoPlace \/ semi >= s.end
      THEN GoOn(s.end)
      ELSE FoundItem(i, semi + 1, ReturnCtx(name))

LuaBody(text, s, ctx) ==
  IF ctx.kind # "Function" THEN Answer("failed", <<>>)
  ELSE Answer("expand",
              Scan(LAMBDA i : LuaReturnAt(text, s, ctx.name, i), s.start, s.end))

(* Round 2: ^return%s*(.-)%s*;$ must match with something in the middle.    *)
LuaReturn(text, s, ctx) ==
  LET body == Slice(text, s.start, s.end) IN
  IF /\ ctx.kind = "Return"
     /\ Len(body) >= 2 /\ body[1] = "return" /\ body[Len(body)] = ";"
     /\ Trim(SubSeq(body, 2, Len(body) - 1)) # <<>>
  THEN Answer("done", <<>>) ELSE Answer("failed", <<>>)

LuaAnswer(pass, text, s, ctx) ==
  CASE pass = 0 -> LuaFunctions(text, s, ctx)
    [] pass = 1 -> LuaBody(text, s, ctx)
    [] pass = 2 -> LuaReturn(text, s, ctx)

WithLua(pass, text, s, ctx) == TryParse(LuaAnswer(pass, text, s, ctx), s)

----------------------------------------------------------------------------
(* The script's hooks.                                                     *)

LuaDiagnosticHook(node) ==
  IF node.ctx.kind = "Return" THEN [is |-> "table", message |-> <<node.ctx.name>>]
  ELSE [is |-> "nil", message |-> <<>>]

LuaSymbolsHook(snapshots) ==
  Answer("table", FilterMap(snapshots, [n \in {snapshots[k] : k \in DOMAIN snapshots} |->
    IF n.ctx.kind # "Function" THEN <<>>
    ELSE <<[is |-> "table", start |-> n.start, end |-> n.end,
            label |-> <<[name |-> n.ctx.name, detail |-> n.ctx.params]>>]>>]))

============================================================================
