------------------------------ MODULE NomLang -------------------------------
(***************************************************************************)
(* The mini language with nom combinators for its first round              *)
(* (crates/increparse-nom/examples/mini_lang_nom.rs). Offsets are those of  *)
(* the slice the parser sees.                                              *)
(***************************************************************************)
EXTENDS MiniLang, Adapters

(* param_list wants an identifier at the start of a part, and no more.      *)
BeginsWithIdent(part) == WordAt(part, 0)

(* function_def at i: "def" need not end there, one ";" may follow the      *)
(* parameters, whatever is malformed costs one token.                      *)
NomFunctionAt(text, i) ==
  LET name    == SkipWs(text, i + 1)
      nameEnd == IdentEnd(text, name)
      open    == SkipWs(text, nameEnd)
      close   == Earliest({j \in (open + 1) .. (Len(text) - 1) :
                             IsAt(text, j, ")") \/ IsAt(text, j, "nl")}, Len(text))
      params  == Parts(text, open + 1, close)
      after   == SkipWs(text, close + 1)
      brace   == IF IsAt(text, after, ";") THEN after + 1 ELSE after
      end     == MatchBrace(text, brace, Len(text))
  IN  IF /\ IsAt(text, i, "def") /\ WordAt(text, name) /\ IsAt(text, open, "(")
         /\ \A k \in DOMAIN params : BeginsWithIdent(params[k])
         /\ IsAt(text, close, ")") /\ IsAt(text, brace, "{") /\ end # NoPlace
      THEN Found(i, end + 1, 0, FunctionCtx(Slice(text, name, nameEnd), params))
      ELSE GoOn(i + 1)

NomFunctions(text) ==
  [ok |-> TRUE,
   children |-> Scan(LAMBDA i : NomFunctionAt(text, i), 0, Len(text))]

NomFunctionsPass(text, s, ctx) ==
  IF ctx.kind # "File" THEN Fails
  ELSE NomPass(NomFunctions(Slice(text, s.start, s.end)), s)

(* Rounds 1 and 2 are copies of the hand-written passes.                    *)
NomBodyPass(text, s, ctx) == BodyPass(text, s, ctx)

NomReturnPass(text, s, ctx) == ReturnPass(text, s, ctx)

WithNom(pass, text, s, ctx) ==
  CASE pass = 0 -> NomFunctionsPass(text, s, ctx)
    [] pass = 1 -> NomBodyPass(text, s, ctx)
    [] pass = 2 -> NomReturnPass(text, s, ctx)

============================================================================
