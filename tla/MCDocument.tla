----------------------------- MODULE MCDocument -----------------------------
(***************************************************************************)
(* A document with two lines and a character of each width, and changes     *)
(* that join and split lines and shift columns.                            *)
(***************************************************************************)
EXTENDS Document

MCTexts == {<<>>, <<"lf", "accent">>, <<"emoji", "lf", "ascii">>}

MCInserts == {<<>>, <<"lf">>, <<"emoji">>}

============================================================================
