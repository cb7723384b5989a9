---------------------------- MODULE LuaLanguage -----------------------------
(***************************************************************************)
(* A language defined by a Lua file (crates/increparse-lua/src/lib.rs):     *)
(* its configuration is accepted or not; then its passes answer whatever a  *)
(* script can build, item by item, and attach contexts whose tables are     *)
(* filled field by field, in any order `pairs` may later list them. An old  *)
(* region is reused when its context and the new one are deep-equal.        *)
(***************************************************************************)
EXTENDS LuaPasses, LuaValues

CONSTANTS
  Configs,     \* What configuration files evaluate to.
  Items,       \* What scripts list as children.
  Region,      \* The span a pass is called on.
  MaxFields,   \* Bounds: fields of a table, items of an answer.
  MaxItems

(* An offset that does not convert is Missing.                             *)
ASSUME AnswersAssumption ==
  /\ Region \in Span
  /\ \A item \in Items : {item.start, item.end} \subseteq Nat \union {Missing}

VARIABLES
  config,      \* The evaluated configuration.
  phase,       \* loading, rejected, serving, matching or parsing
  old, new,    \* The contexts of an old child and of the one produced now.
  answer       \* What the pass returns.

vars == <<config, phase, old, new, answer>>

Functions(c) ==
  LET nils == {i \in DOMAIN c.passes : c.passes[i] = "nil"}
  IN  IF nils = {} THEN c.passes
      ELSE SubSeq(c.passes, 1, (CHOOSE i \in nils : \A j \in nils : i <= j) - 1)

(* from_config: each field in turn, the first that is wrong rejects it.     *)
Accepted(c) ==
  /\ c.is = "table" /\ c.name \in {"string", "integer", "number"}
  /\ Functions(c) # <<>> /\ \A i \in DOMAIN Functions(c) : Functions(c)[i] = "function"
  /\ c.diagnostic \in {"nil", "function"} /\ c.symbols \in {"nil", "function"}

Init ==
  /\ config \in Configs /\ phase = "loading"
  /\ old = TableOf(<<>>) /\ new = TableOf(<<>>)
  /\ answer = Answer("nil", <<>>)

Load ==
  /\ phase = "loading"
  /\ phase' = IF Accepted(config) THEN "serving" ELSE "rejected"
  /\ UNCHANGED <<config, old, new, answer>>

(* table[key] = value: nil removes the entry, another value replaces it     *)
(* where it is; a new entry may be listed anywhere.                        *)
WithField(table, key, value, at) ==
  LET entries == table.pairs
      entry   == [key |-> key, value |-> value]
      there   == {i \in DOMAIN entries : entries[i].key = key}
      i       == CHOOSE i \in there : TRUE
  IN  TableOf(CASE value.type = "nil" /\ there = {} -> entries
                [] value.type = "nil" /\ there # {} ->
                     SubSeq(entries, 1, i - 1) \o SubSeq(entries, i + 1, Len(entries))
                [] value.type # "nil" /\ there # {} -> [entries EXCEPT ![i] = entry]
                [] value.type # "nil" /\ there = {} ->
                     SubSeq(entries, 1, at) \o <<entry>>
                       \o SubSeq(entries, at + 1, Len(entries)))

SetField(key, value) ==
  /\ phase \in {"serving", "matching"} /\ phase' = "matching"
  /\ \/ /\ UNCHANGED new
        /\ \E at \in 0 .. Len(old.pairs) : old' = WithField(old, key, value, at)
        /\ Len(old'.pairs) <= MaxFields
     \/ /\ UNCHANGED old
        /\ \E at \in 0 .. Len(new.pairs) : new' = WithField(new, key, value, at)
        /\ Len(new'.pairs) <= MaxFields
  /\ UNCHANGED <<config, answer>>

Say(is) ==
  /\ phase = "serving" /\ phase' = "parsing"
  /\ answer' = Answer(is, <<>>)
  /\ UNCHANGED <<config, old, new>>

ListItem(item) ==
  /\ phase = "parsing" /\ answer.is = "expand" /\ Len(answer.items) < MaxItems
  /\ answer' = Answer("expand", Append(answer.items, item))
  /\ UNCHANGED <<config, phase, old, new>>

Next ==
  \/ Load
  \/ \E key \in Keys, value \in Values : SetField(key, value)
  \/ \E is \in {"nil", "done", "failed", "error", "other", "expand"} : Say(is)
  \/ \E item \in Items : ListItem(item)

Spec == Init /\ [][Next]_vars

(***************************************************************************)
(* Properties.                                                             *)
(***************************************************************************)

(* lib.rs:65-68: contexts that are the same data match, so that their region *)
(* is reused; and those that match are the same data, so that it is reused   *)
(* only under the context it would be parsed with, as long as no number in   *)
(* them changes when it is rounded to a float. Nested tables included, and   *)
(* whatever the order in which their fields were set.                       *)
ReuseMatchesSameData ==
  /\ IsData(old) /\ DataOf(old) = DataOf(new) => DeepEq(old, new)
  /\ DeepEq(old, new) /\ Exact(old) /\ Exact(new) =>
       IsData(old) /\ DataOf(old) = DataOf(new)

(* lib.rs:66-68 as it stands: two contexts match only if they are            *)
(* structurally identical.                                                 *)
MatchingContextsAreIdentical ==
  DeepEq(old, new) => IsData(old) /\ DataOf(old) = DataOf(new)

(* Whatever a script answers is an outcome the engine can take; and no      *)
(* region it lists is lost alone: there is a child for each item, in order,  *)
(* or the region fails, for a later pass to retry, and is reported.          *)
AnswersAreTakenWhole ==
  LET o == TryParse(answer, Region) IN
  /\ \A k \in DOMAIN o.children : o.children[k].span \in Span
  /\ o.kind = "Expand" =>
       /\ Len(o.children) = Len(Sequence(answer.items))
       /\ \A k \in DOMAIN o.children :
            /\ o.children[k].span.rev = Region.rev
            /\ o.children[k].span.start = answer.items[k].start
  /\ o.kind # "Expand" => o.children = <<>>

============================================================================
