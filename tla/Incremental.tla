---------------------------- MODULE Incremental -----------------------------
(***************************************************************************)
(* A text, the session that follows it and the language that parses it, the *)
(* way every client of the crate puts them together                        *)
(* (crates/increparse/examples/mini_lang.rs, Document::apply_changes,        *)
(* incremental_tests.rs): the text is spliced and the session told of the   *)
(* edit, then Session::run parses the new text with the serial executor     *)
(* and a token nobody cancels.                                             *)
(*                                                                         *)
(* Engine knows nothing of what a pass answers. Here it is a function of    *)
(* the text: Lang(language, pass, text, span, ctx).                         *)
(***************************************************************************)
EXTENDS Engine

CONSTANTS
  Language,           \* The languages a client may run.
  Lang(_, _, _, _, _),\* What the pass of a language answers for a region.
  Text,               \* Bounds: the texts explored, those a session opens
  Opened,             \* with, and what is typed at once.
  Typed

VARIABLES
  text,       \* The current text, a sequence of tokens one offset wide.
  language    \* The language of the session; never changes.

allVars == <<vars, text, language>>

Token == UNION {{t[i] : i \in DOMAIN t} : t \in Text \union Typed}

Slice0(t, s) == SubSeq(t, s.start + 1, s.end)

SpansIn(t) ==
  {s \in [start : 0 .. Len(t), end : 0 .. Len(t), rev : 0 .. MaxEdits] :
     s.start <= s.end}

Whole(t) == SpanOf(0, Len(t), 0)

(* An outcome for a slice, moved to where the slice is in the text.         *)
MovedTo(s, o) ==
  [kind     |-> o.kind,
   children |-> [k \in DOMAIN o.children |->
                   LET kid == o.children[k].span IN
                   [span |-> SpanOf(s.start + kid.start, s.start + kid.end, s.rev),
                    ctx  |-> o.children[k].ctx]]]

(* A pass answers with an outcome, and its answer depends on nothing but    *)
(* the text of the region, the context and, by translation, the place: the  *)
(* reuse of untouched regions is sound for such passes only. (Pass::parse   *)
(* hands a pass the whole source; pass.rs only asks that it be pure.)       *)
ASSUME TextAssumption ==
  /\ Text \union Typed \subseteq Seq(Token)
  /\ Opened \subseteq Text
  /\ \A t \in Opened : Len(t) <= MaxLen
ASSUME LocalAssumption ==
  \A l \in Language, p \in 0 .. (NumPasses - 1), t \in Text, c \in Ctx :
    \A s \in SpansIn(t) :
      LET o == Lang(l, p, Slice0(t, s), Whole(Slice0(t, s)), c) IN
        /\ o \in Outcome
        /\ Lang(l, p, t, s, c) = MovedTo(s, o)
        /\ Lang(l, p, t, s, c) \in Parse(p, s, c) \cap Outcome

----------------------------------------------------------------------------

(* The answer of pass p for node n (execute_job: no such pass, failure).    *)
Said(p, n) ==
  IF p < NumPasses THEN Lang(language, p, text, nodes[n].span, nodes[n].ctx)
  ELSE [kind |-> "Failed", children |-> <<>>]

(* What applying that answer makes of the node.                            *)
Verdict(p, n) == Applied(nodes, n, Said(p, n), EnforceShrink)

InitText ==
  /\ Init
  /\ language \in Language
  /\ text \in Opened /\ textLen = Len(text)

(* What the client puts in the place of a range (the slip: beside it).      *)
SpliceBeside(t, first, last, typed) ==
  SubSeq(t, 1, last) \o typed \o SubSeq(t, last + 1, Len(t))

Splice(t, first, last, typed) ==
  SubSeq(t, 1, first) \o typed \o SubSeq(t, last + 1, Len(t))

(* The client splices the text and tells the session.                      *)
Type(first, last, typed) ==
  /\ Splice(text, first, last, typed) \in Text
  /\ EditText([start |-> first, oldEnd |-> last, newEnd |-> first + Len(typed)])
  /\ text' = Splice(text, first, last, typed)
  /\ UNCHANGED language

(* The executor runs the first job of the batch on the current text.        *)
ParseJob(id) ==
  /\ pc = "execute" /\ ~cancel
  /\ IsFirst(id, todo)
  /\ outcomes' = [n \in DOMAIN outcomes \union {id} |->
                    IF n = id THEN Said(round, id) ELSE outcomes[n]]
  /\ todo' = todo \ {id}
  /\ UNCHANGED <<treeVars, cancel, counters, pc, round, report, text, language>>

FinishBatch == StopBatch /\ todo = {}

RunStep ==
  \/ RoundsExhausted
  \/ NothingReady
  \/ CollectJobs
  \/ FinishBatch
  \/ \E id \in DOMAIN outcomes : MergeJob(id)
  \/ EndRound

NextText ==
  \/ /\ Resting
     /\ \E first \in 0 .. Len(text), typed \in Typed :
          \E last \in first .. Len(text) : Type(first, last, typed)
  \/ StartRun /\ UNCHANGED <<text, language>>
  \/ RunStep /\ UNCHANGED <<text, language>>
  \/ \E id \in todo : ParseJob(id)

SpecText == InitText /\ [][NextText]_allVars

(***************************************************************************)
(* Properties.                                                             *)
(***************************************************************************)

TextTypeOK ==
  /\ text \in Text /\ language \in Language
  /\ textLen = Len(text) /\ rev = edits /\ ~cancel

(* The rounds in which a node was parsed since its last reset.              *)
Home(node) == node.depth - node.attempts

(* Nothing the tree says is about an older text: every pass a node has been *)
(* through would fail it again on the text as it is now, an accepted node   *)
(* would be accepted again, an expanded one into just the regions its       *)
(* children have, and what waits to be merged is what the pass says today.  *)
(* Reset nodes and reused ones included, through any edits and runs.        *)
NodeIsCurrent(n) ==
  /\ \A p \in Home(nodes[n]) .. (nodes[n].depth - 1) : Verdict(p, n) = "Failed"
  /\ nodes[n].status = "Failed" => nodes[n].attempts > 0
  /\ nodes[n].status \in {"Done", "Expanded"} =>
       Verdict(nodes[n].depth, n) = nodes[n].status
  /\ nodes[n].status = "Expanded" =>
       [i \in DOMAIN nodes[n].children |-> RegionOf(nodes, nodes[n].children[i])]
         = Said(nodes[n].depth, n).children

EveryNodeIsCurrent ==
  /\ \A n \in Live(nodes) : NodeIsCurrent(n)
  /\ \A n \in DOMAIN outcomes : outcomes[n] = Said(round, n)

(* README: everything an edit did not touch is carried over. A merge keeps  *)
(* as many children of a region as its old list and its new one have in     *)
(* common, wherever in the list they went.                                 *)
CarriedOver ==
  [][\A p \in Live(nodes) :
       LET Copies(t, g) == {k \in Kids(t, p) : RegionOf(t, k) = g} IN
       rev' = rev /\ nodes'[p].alive =>
         \A k \in Kids(nodes, p) :
           LET g == RegionOf(nodes, k) IN
           \/ Copies(nodes, g) \subseteq Copies(nodes', g)
           \/ Copies(nodes', g) \subseteq Copies(nodes, g)]_allVars

============================================================================
