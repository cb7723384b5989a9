----------------------------- MODULE FreshParse -----------------------------
(***************************************************************************)
(* What the incremental parse of the Incremental module is measured by: the *)
(* parse of the same text from nothing, without a tree, and the tree read    *)
(* in the same form.                                                       *)
(***************************************************************************)
EXTENDS Incremental, TreeQueries

RegionsIn(t) == [span : SpansIn(t), ctx : Ctx]

(* Does some region of this context expand in this round?                   *)
CanExpand(l, p, c) ==
  \E t \in Text : \E s \in SpansIn(t) :
    LET o == Lang(l, p, t, s, c) IN o.kind = "Expand" /\ o.children # <<>>

(* A context has its round: regions of it expand in no other. (A child that *)
(* is carried over keeps its round, also when its parent expands in another  *)
(* one: see EditedNodesAreReparsed in Engine.)                             *)
ASSUME OneRoundAssumption ==
  \A l \in Language, c \in Ctx : \A p, q \in 0 .. (NumPasses - 1) :
    CanExpand(l, p, c) /\ CanExpand(l, q, c) => p = q

----------------------------------------------------------------------------

ReplyIn(p, r) ==
  IF p < NumPasses THEN Lang(language, p, text, r.span, r.ctx)
  ELSE [kind |-> "Failed", children |-> <<>>]

Refused(r, o) ==
  \/ o.kind = "Failed"
  \/ \E k \in DOMAIN o.children :
       ViolationKind(r.span, o.children[k].span, EnforceShrink) # "None"

Entry(r, status, level) == <<[region |-> r, status |-> status, level |-> level]>>

(* A parse of the text from nothing, without a tree: what becomes of a      *)
(* region first parsed in round p, itself first, at its level.              *)
Fresh ==
  LET parse[p \in Nat] ==
        [r \in RegionsIn(text) |-> [level \in Nat |->
           LET o == ReplyIn(p, r) IN
           IF p >= MaxRounds THEN Entry(r, "Unparsed", level)
           ELSE IF Refused(r, o)
                THEN IF p + 1 = MaxRounds THEN Entry(r, "Failed", level)
                     ELSE parse[p + 1][r][level]
           ELSE IF o.children = <<>> THEN Entry(r, "Done", level)
           ELSE Entry(r, "Expanded", level)
                  \o Sq!FlattenSeq([k \in DOMAIN o.children |->
                                      parse[p + 1][o.children[k]][level + 1]])]]
  IN  parse[0][[span |-> SpanOf(0, Len(text), rev), ctx |-> RootCtx]][0]

(* The tree, each node before those below it.                              *)
Shown ==
  LET view[n \in DOMAIN nodes] ==
        [level \in Nat |->
           Entry(RegionOf(nodes, n), nodes[n].status, level)
             \o Sq!FlattenSeq([i \in DOMAIN nodes[n].children |->
                                 view[nodes[n].children[i]][level + 1]])]
  IN  view[Root][0]

(* session.rs, README: a run after any sequence of edits ends with the tree *)
(* a parse of the new text from nothing would build, region by region.      *)
SameAsFresh == pc = "done" => Shown = Fresh

============================================================================
