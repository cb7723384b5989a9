------------------------------ MODULE Listings ------------------------------
(***************************************************************************)
(* What queries and hooks make of a list, element by element.               *)
(***************************************************************************)
EXTENDS Naturals, Sequences

(* Iterator::filter_map: f has nothing, <<>>, for an element of s, or one    *)
(* thing, <<x>>.                                                           *)
FilterMap(s, f) ==
  LET upto[k \in 0 .. Len(s)] ==
        IF k = 0 THEN <<>> ELSE upto[k - 1] \o f[s[k]]
  IN  upto[Len(s)]

============================================================================
