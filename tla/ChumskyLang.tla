---------------------------- MODULE ChumskyLang -----------------------------
(***************************************************************************)
(* The mini language with chumsky combinators for its first round          *)
(* (crates/increparse-chumsky/examples/mini_lang_chumsky.rs). Offsets are    *)
(* those of the slice the parser sees.                                     *)
(***************************************************************************)
EXTENDS MiniLang, Adapters

(* ident.padded().separated_by(','), trailing comma allowed: nothing at all *)
(* or identifiers between commas, an empty part only after the last one.    *)
ParamsOk(text, first, last) ==
  LET parts == AllParts(text, first, last)
  IN  \/ first = last
      \/ /\ parts[1] # <<>>
         /\ \A k \in DOMAIN parts : parts[k] = <<>> => k = Len(parts)
         /\ \A k \in DOMAIN parts : IsIdent(parts[k])

(* The parser of one definition at i, surrounding space included: the list  *)
(* of parameters may span lines, the body ends at the first "}". A place    *)
(* where it does not succeed costs one token.                              *)
ChumskyFunctionAt(text, i) ==
  LET def     == SkipWs(text, i)
      name    == SkipWs(text, def + 1)
      nameEnd == IdentEnd(text, name)
      open    == SkipWs(text, nameEnd)
      close   == Find(text, open + 1, Len(text), ")")
      brace   == SkipWs(text, close + 1)
      end     == Find(text, brace + 1, Len(text), "}")
  IN  IF /\ IsAt(text, def, "def") /\ WordAt(text, name) /\ IsAt(text, open, "(")
         /\ close # NoPlace /\ ParamsOk(text, open + 1, close)
         /\ IsAt(text, brace, "{") /\ end # NoPlace
      THEN Found(def, end + 1, 0,
                 FunctionCtx(Slice(text, name, nameEnd), Parts(text, open + 1, close)))
      ELSE GoOn(i + 1)

ChumskyFunctions(text) ==
  [ok |-> TRUE,
   children |-> Scan(LAMBDA i : ChumskyFunctionAt(text, i), 0, Len(text))]

ChumskyFunctionsPass(text, s, ctx) ==
  IF ctx.kind # "File" THEN Fails
  ELSE ChumskyPass(ChumskyFunctions(Slice(text, s.start, s.end)), s)

(* Rounds 1 and 2 are the hand-written passes, but for where the space      *)
(* before a `return` stops being skipped: at the end of the region.         *)
ChumskyReturnAt(text, s, name, at) ==
  LET i    == Earliest({j \in at .. (s.end - 1) : ~SpaceAt(text, j)}, s.end)
      semi == Find(text, i, s.end, ";")
  IN  IF ~IsAt(text, i, "return") THEN GoOn(i + 1)
      ELSE IF semi = NoPlace THEN GoOn(s.end)
      ELSE Found(i, semi + 1, s.rev, ReturnCtx(name))

ChumskyBodyPass(text, s, ctx) ==
  IF ctx.kind # "Function" THEN Fails
  ELSE Splits(Scan(LAMBDA i : ChumskyReturnAt(text, s, ctx.name, i), s.start, s.end))

ChumskyReturnPass(text, s, ctx) == ReturnPass(text, s, ctx)

WithChumsky(pass, text, s, ctx) ==
  CASE pass = 0 -> ChumskyFunctionsPass(text, s, ctx)
    [] pass = 1 -> ChumskyBodyPass(text, s, ctx)
    [] pass = 2 -> ChumskyReturnPass(text, s, ctx)

============================================================================
