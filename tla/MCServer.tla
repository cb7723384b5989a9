------------------------------ MODULE MCServer ------------------------------
(***************************************************************************)
(* One request the language supports and one it does not.                   *)
(***************************************************************************)
EXTENDS Server

MCMethod == {"hover", "definition"}

MCSupported == {"hover"}

============================================================================
