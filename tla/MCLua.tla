-------------------------------- MODULE MCLua --------------------------------
(* Configurations, contexts of two fields and answers of up to three items.  *)
EXTENDS LuaLanguage

Fine == [is |-> "table", name |-> "string", passes |-> <<"function">>,
         diagnostic |-> "nil", symbols |-> "function"]

MCConfigs ==
  {Fine, [Fine EXCEPT !.is = "other"], [Fine EXCEPT !.name = "nil"],
   [Fine EXCEPT !.passes = <<>>], [Fine EXCEPT !.passes = <<"nil", "function">>],
   [Fine EXCEPT !.passes = <<"function", "other">>],
   [Fine EXCEPT !.symbols = "other"], [Fine EXCEPT !.diagnostic = "other"]}

(* The largest integer, which is rounded up to a float that is none.         *)
Largest == Scalar("integer", "2^63-1")
Rounded == Scalar("number", "2^63")

MCAsFloat(x) == IF x = "2^63-1" THEN "2^63" ELSE x

MCKeys == {Scalar("string", "name"), Largest, Rounded}

Named(value) == TableOf(<<[key |-> Scalar("string", "name"), value |-> value]>>)

MCValues ==
  {Scalar("integer", "1"), Scalar("number", "1"), Largest, Rounded,
   Scalar("number", "nan"), Scalar("function", ""),
   Named(Scalar("integer", "1")), Named(Scalar("number", "1")), Nil}

At(first, last) == [is |-> "table", start |-> first, end |-> last, ctx |-> Nil]

MCItems ==
  {At(0, 1), At(1, 2), At(2, 1), At(Missing, 1), At(1, Missing),
   [At(0, 1) EXCEPT !.is = "nil"], [At(0, 1) EXCEPT !.is = "number"]}

MCRegion == SpanOf(0, 2, 3)
==============================================================================
