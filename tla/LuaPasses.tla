----------------------------- MODULE LuaPasses ------------------------------
(***************************************************************************)
(* Passes and hooks written in Lua (crates/increparse-lua/src/lib.rs):      *)
(* what a Lua function may answer and what the adapter makes of it.        *)
(*                                                                         *)
(* An answer is [is, items]: `is` names the value (an error that was thrown *)
(* included), `items` the elements of the array it holds. An item is        *)
(* [is, start, end, ctx]; Missing stands for a field that is absent or that *)
(* does not convert to an offset.                                          *)
(***************************************************************************)
EXTENDS Spans, Listings

Missing == -1

Answer(is, items) == [is |-> is, items |-> items]

(* sequence_values stops at the first nil.                                 *)
Sequence(items) ==
  LET nils == {i \in DOMAIN items : items[i].is = "nil"}
  IN  IF nils = {} THEN items
      ELSE SubSeq(items, 1, (CHOOSE i \in nils : \A j \in nils : i <= j) - 1)

IsTable(item) == item.is = "table"

HasRange(item) == item.start # Missing /\ item.end # Missing

(* try_parse, and parse around it: whatever is wrong with an answer, the    *)
(* whole of it fails (the slip: what is wrong with an item only costs it,   *)
(* as in `symbols`).                                                       *)
Usable(item) == IsTable(item) /\ HasRange(item) /\ item.start <= item.end

Children(items, s) ==
  [k \in DOMAIN items |->
     [span |-> SpanOf(items[k].start, items[k].end, s.rev), ctx |-> items[k].ctx]]

TryParseSkipping(answer, s) ==
  CASE answer.is = "done" -> [kind |-> "Done", children |-> <<>>]
    [] answer.is = "expand" ->
         [kind |-> "Expand",
          children |-> Children(SelectSeq(Sequence(answer.items), Usable), s)]
    [] OTHER -> [kind |-> "Failed", children |-> <<>>]

TryParse(answer, s) ==
  LET items == Sequence(answer.items)
  IN  CASE answer.is = "done" -> [kind |-> "Done", children |-> <<>>]
        [] answer.is = "expand" /\ \A i \in DOMAIN items : Usable(items[i]) ->
             [kind |-> "Expand", children |-> Children(items, s)]
        [] OTHER -> [kind |-> "Failed", children |-> <<>>]

----------------------------------------------------------------------------
(* The hooks.                                                              *)

StatusName ==
  [Unparsed |-> "unparsed", Expanded |-> "expanded", Done |-> "done", Failed |-> "failed"]

(* LuaLanguage::diagnostic: a table with a message, or silence.             *)
DiagnosticFrom(answer) ==
  IF answer.is = "table" /\ answer.message # <<>> THEN answer.message ELSE <<>>

(* LuaLanguage::symbols: up to the first item that is no table; those that   *)
(* lack a name or a range are passed over.                                 *)
SymbolsFrom(answer, rev) ==
  LET items  == Sequence(answer.items)
      others == {i \in DOMAIN items : ~IsTable(items[i])}
      tables == IF others = {} THEN items
                ELSE SubSeq(items, 1, (CHOOSE i \in others : \A j \in others : i <= j) - 1)
  IN  IF answer.is # "table" THEN <<>>
      ELSE FilterMap(tables, [item \in {tables[k] : k \in DOMAIN tables} |->
             IF item.label = <<>> \/ ~HasRange(item) THEN <<>>
             ELSE <<[label |-> item.label[1],
                     span  |-> SpanOf(item.start, item.end, rev)]>>])

============================================================================
