------------------------------ MODULE Adapters ------------------------------
(***************************************************************************)
(* The adapters for combinator parsers (crates/increparse-nom/src/lib.rs,  *)
(* crates/increparse-chumsky/src/lib.rs). A parser sees only the text of    *)
(* its region and answers [ok, children] in offsets of that slice; the      *)
(* adapter turns the answer into the outcome of a pass.                    *)
(***************************************************************************)
EXTENDS Spans, Sequences

(* A child of a slice, in the offsets and on the revision of the region     *)
(* (the slip: on the slice's own revision, 0).                             *)
Unstamped(child, s) ==
  [span |-> SpanOf(s.start + child.span.start, s.start + child.span.end, 0),
   ctx  |-> child.ctx]

Rebase(child, s) ==
  [span |-> SpanOf(s.start + child.span.start, s.start + child.span.end, s.rev),
   ctx  |-> child.ctx]

RebaseAll(children, s) == [k \in DOMAIN children |-> Rebase(children[k], s)]

Answered(parsed, s) ==
  IF ~parsed.ok THEN [kind |-> "Failed", children |-> <<>>]
  ELSE IF parsed.children = <<>> THEN [kind |-> "Done", children |-> <<>>]
  ELSE [kind |-> "Expand", children |-> RebaseAll(parsed.children, s)]

NomPass(parsed, s) == Answered(parsed, s)

ChumskyPass(parsed, s) == Answered(parsed, s)

============================================================================
