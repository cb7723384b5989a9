---------------------------- MODULE MCIncremental ----------------------------
(* The mini language in its four skeletons, over one function with each     *)
(* token added or taken away, and beside, before and inside another one.    *)
EXTENDS EditorFeatures, ChumskyLang, NomLang

MCLang(l, pass, t, s, ctx) ==
  CASE l = "hand"    -> MiniLangServer(pass, t, s, ctx)
    [] l = "nom"     -> WithNom(pass, t, s, ctx)
    [] l = "chumsky" -> WithChumsky(pass, t, s, ctx)
    [] l = "lua"     -> WithLua(pass, t, s, ctx)

AnyOutcome(pass, s, ctx) == Outcome

f == <<"def", "sp", "f", "(", ")", "{", "return", "sp", "x", ";", "}">>
g == <<"def", "sp", "f", "(", ")", "{", "}">>

Put(t, i, typed) == SubSeq(t, 1, i) \o typed \o SubSeq(t, i + 1, Len(t))
Without(t, i) == SubSeq(t, 1, i) \o SubSeq(t, i + 2, Len(t))

MCTyped == {<<>>, <<"x">>, <<"}">>, <<"nl">>, g}

MCText == {f, g \o f, f \o g, f \o f, Put(f, 6, g), [f EXCEPT ![3] = "x"]}
          \union {Put(f, i, <<"x">>) : i \in {0, 4, 6, 9, 11}}
          \union {Put(f, i, <<"}">>) : i \in {7, 10}}
          \union {Put(f, i, <<"nl">>) : i \in {2, 4, 7}}
          \union {Without(f, i) : i \in {2, 3, 5, 6, 8, 9, 10}}

MCOpened == {f, f \o f}

MCHooks == {{"label"}, {"label", "symbols"}}

Names == {<<"f">>, <<"x">>}

MCCtx == {FileCtx} \union {ReturnCtx(n) : n \in Names}
         \union {FunctionCtx(n, args) : n \in Names, args \in {<<>>, <<<<"x">>>>}}

==============================================================================
