--------------------------- MODULE EditorFeatures ---------------------------
(***************************************************************************)
(* What an editor is told of the text of the Incremental module: outline,  *)
(* hover and diagnostics, drawn from the tree by SimpleLanguage             *)
(* (crates/increparse-lsp/src/simple.rs), by the hand-written server         *)
(* (examples/manual_server.rs) and by LuaLanguage                           *)
(* (crates/increparse-lua/src/lib.rs). Ranges are spans; Document has their  *)
(* conversion to positions.                                                *)
(*                                                                         *)
(* A hook says nothing, <<>>, or one thing, <<x>>.                          *)
(***************************************************************************)
EXTENDS FreshParse, LuaLang

CONSTANT Hooks   \* The sets of SimpleLanguage's hooks that are explored.

(* As the languages of the examples do, a pass splits a region into children *)
(* that do not overlap: where they do, hover describes the first.           *)
ASSUME ApartAssumption ==
  \A l \in Language, p \in 0 .. (NumPasses - 1), t \in Text, c \in Ctx :
    \A s \in SpansIn(t) :
      LET kids == Lang(l, p, t, s, c).children IN
      \A i, j \in DOMAIN kids : i # j => ~Overlaps(kids[i].span, kids[j].span)

(* The passes of mini_lang_server (manual_server has them once more) are    *)
(* copies of the hand-written ones.                                        *)
MiniLangServer(pass, t, s, ctx) == HandWritten(pass, t, s, ctx)

----------------------------------------------------------------------------
(* The hooks of mini_lang_server.                                          *)

Label(ctx) ==
  IF ctx.kind = "Function" THEN <<[name |-> ctx.name, detail |-> ctx.params]>> ELSE <<>>

Complain(ctx) == IF ctx.kind = "Return" THEN <<ctx.name>> ELSE <<>>

Describe(ctx) == IF ctx.kind = "File" THEN <<>> ELSE <<ctx>>

Arena(t) == [k \in 1 .. Size(t) |-> k - 1]

(* tree.nodes(), in the order of the arena (the slip: all of it).           *)
NodesEvenDead(t) == Arena(t)

Nodes(t) ==
  FilterMap(Arena(t), [n \in DOMAIN t |-> IF t[n].alive THEN <<n>> ELSE <<>>])

SymbolOf(r) == [label |-> Label(r.ctx)[1], span |-> r.span]

(* Every node the hook names, with its range.                              *)
LabelSymbols(t) ==
  FilterMap(Nodes(t), [n \in DOMAIN t |->
    IF Label(t[n].ctx) = <<>> THEN <<>> ELSE <<SymbolOf(RegionOf(t, n))>>])

(* symbols_fn of mini_lang_server, document_symbols of manual_server: the   *)
(* functions, read off the tree.                                           *)
FunctionSymbols(t) ==
  FilterMap(Nodes(t), [n \in DOMAIN t |->
    IF t[n].ctx.kind # "Function" THEN <<>> ELSE <<SymbolOf(RegionOf(t, n))>>])

(* SimpleLanguage: full control wins over the convenient hook.              *)
Supports(hooks, feature) ==
  CASE feature = "symbols" -> hooks \cap {"symbols", "label"} # {}
    [] feature = "hover"   -> hooks \cap {"hover", "describe"} # {}
    [] OTHER               -> feature \in hooks

Symbols(t, hooks) ==
  CASE "symbols" \in hooks                -> FunctionSymbols(t)
    [] {"symbols", "label"} \cap hooks = {"label"} -> LabelSymbols(t)
    [] OTHER                              -> <<>>

(* The description of the node under the cursor; no other node is tried.    *)
Hover(t, offset) ==
  LET n == NodeAt(t, offset) IN
  IF n = NoNode \/ Describe(t[n].ctx) = <<>> THEN <<>>
  ELSE <<[says |-> Describe(t[n].ctx)[1], span |-> t[n].span]>>

(* The complaint about a node, if there is one: without a range of its own  *)
(* it gets the node's.                                                     *)
Placed(complaint, s) ==
  IF complaint = <<>> THEN <<>> ELSE <<[about |-> complaint[1], span |-> s]>>

(* The walk of diagnostics.                                                *)
Diagnosed(t) ==
  FilterMap(Offered(t, FALSE), [n \in DOMAIN t |-> Placed(Complain(t[n].ctx), t[n].span)])

----------------------------------------------------------------------------
(* LuaLanguage: the hooks are called with snapshots of nodes.               *)

Snapshot(t, n) ==
  [start |-> t[n].span.start, end |-> t[n].span.end,
   status |-> StatusName[t[n].status], ctx |-> t[n].ctx]

LuaOutline(t) ==
  SymbolsFrom(LuaSymbolsHook([k \in DOMAIN Nodes(t) |-> Snapshot(t, Nodes(t)[k])]), rev)

LuaDiagnosed(t) ==
  FilterMap(Offered(t, FALSE), [n \in DOMAIN t |->
    Placed(DiagnosticFrom(LuaDiagnosticHook(Snapshot(t, n))), t[n].span)])

----------------------------------------------------------------------------
(* The outline lists each function of the text once, whatever was edited,   *)
(* dropped or kept on the way (in the order of the arena, not of the text). *)
OutlineShows(fresh, outline) ==
  LET expected == FilterMap(fresh, [v \in Sq!ToSet(fresh) |->
        IF v.region.ctx.kind # "Function" THEN <<>> ELSE <<SymbolOf(v.region)>>])
  IN  Sq!ToSet(outline) = Sq!ToSet(expected) /\ Len(outline) = Len(expected)

(* Hover describes the innermost region of the text at the cursor.          *)
HoverShows(fresh, offset) ==
  LET holding == {k \in DOMAIN fresh : ContainsOffset(fresh[k].region.span, offset)}
      inmost  == fresh[CHOOSE k \in holding :
                         \A j \in holding : fresh[j].level <= fresh[k].level].region
  IN  Hover(nodes, offset) =
        IF holding = {} \/ Describe(inmost.ctx) = <<>> THEN <<>>
        ELSE <<[says |-> inmost.ctx, span |-> inmost.span]>>

(* Every return that is wrong (without an expression), or that the rounds   *)
(* of the schedule did not get to, is complained of, in text order.         *)
DiagnosticsShow(fresh, diagnosed) ==
  diagnosed = FilterMap(fresh, [v \in Sq!ToSet(fresh) |->
    IF v.status \notin {"Failed", "Unparsed"} \/ v.region.ctx.kind # "Return" THEN <<>>
    ELSE <<[about |-> v.region.ctx.name, span |-> v.region.span]>>])

EditorShows(fresh) ==
  /\ \A hooks \in Hooks :
       Supports(hooks, "symbols") => OutlineShows(fresh, Symbols(nodes, hooks))
  /\ \A offset \in 0 .. Len(text) : HoverShows(fresh, offset)
  /\ DiagnosticsShow(fresh, Diagnosed(nodes))
  /\ language = "lua" => /\ OutlineShows(fresh, LuaOutline(nodes))
                         /\ DiagnosticsShow(fresh, LuaDiagnosed(nodes))

(* What the editor shows after a change is true of the text as it is: its   *)
(* functions, the region under the cursor, the returns that are wrong.      *)
EditorShowsTheText == pc = "done" => EditorShows(Fresh)

----------------------------------------------------------------------------
(* The mini language as the examples describe it, of a text that is clean:  *)
(* functions, between them space; in the body no more than one return.      *)

Defs(t) == {i \in 0 .. (Len(t) - 1) : IsAt(t, i, "def")}

NextAt(t, i, token) == Find(t, i, Len(t), token)

FunctionEnd(t, i) == NextAt(t, i, "}") + 1

Body(t, i) == Trim(Slice(t, NextAt(t, i, "{") + 1, FunctionEnd(t, i) - 1))

IsClean(t, i) ==
  LET open   == NextAt(t, i, "(")
      close  == NextAt(t, i, ")")
      brace  == NextAt(t, i, "{")
      Word(w) == w # <<>> /\ \A k \in DOMAIN w : w[k] \notin Spaces \union Marks \union {"def"}
      Inner(w) == \A k \in 2 .. (Len(w) - 1) : w[k] \notin Marks \union {"return", "def"}
      arg    == Slice(t, open + 1, close)
      body   == Body(t, i)
  IN  /\ NoPlace \notin {open, close, brace, NextAt(t, i, "}")}
      /\ open < close /\ close < brace /\ brace < FunctionEnd(t, i)
      /\ SpaceAt(t, i + 1) /\ Word(Trim(Slice(t, i + 1, open)))
      /\ Trim(Slice(t, close + 1, brace)) = <<>>
      /\ arg = <<>> \/ Word(arg)
      /\ body = <<>> \/ /\ body[1] = "return" /\ body[Len(body)] = ";" /\ Inner(body)
                        /\ Len(body) > 2 => body[2] \in Spaces

Clean(t) ==
  /\ \A i \in Defs(t) : IsClean(t, i)
  /\ \A k \in 0 .. (Len(t) - 1) :
       SpaceAt(t, k) \/ \E i \in Defs(t) : i <= k /\ k < FunctionEnd(t, i)

View(first, last, ctx, status, level) ==
  [region |-> [span |-> SpanOf(first, last, rev), ctx |-> ctx],
   status |-> status, level |-> level]

(* What there is to find from the definition at i.                         *)
ProgramAt(t, i) ==
  LET open == NextAt(t, i, "(")
      arg  == Slice(t, open + 1, NextAt(t, i, ")"))
      name == Trim(Slice(t, i + 1, open))
      ret  == NextAt(t, i, "return")
      body == Body(t, i)
      whole == View(i, FunctionEnd(t, i),
                    FunctionCtx(name, IF arg = <<>> THEN <<>> ELSE <<arg>>),
                    IF body = <<>> THEN "Done" ELSE "Expanded", 1)
  IN  IF body = <<>> THEN <<whole>>
      ELSE <<whole, View(ret, ret + Len(body), ReturnCtx(name),
                         IF Trim(SubSeq(body, 2, Len(body) - 1)) = <<>>
                         THEN "Failed" ELSE "Done", 2)>>

Program(t) ==
  <<View(0, Len(t), FileCtx, IF Defs(t) = {} THEN "Done" ELSE "Expanded", 0)>>
    \o Sq!FlattenSeq([k \in DOMAIN Sq!SetToSortSeq(Defs(t), <) |->
                        ProgramAt(t, Sq!SetToSortSeq(Defs(t), <)[k])])

(* The four ways to write the first round find the same program in a clean  *)
(* text, the one that is there: scanning by bytes, parsing a slice with     *)
(* combinators and moving the result back, matching Lua patterns.           *)
SkeletonsFindTheProgram == pc = "idle" /\ Clean(text) => Fresh = Program(text)

============================================================================
