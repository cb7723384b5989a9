----------------------------- MODULE LuaValues ------------------------------
(***************************************************************************)
(* The contexts of Lua passes (crates/increparse-lua/src/lib.rs): Lua       *)
(* values, and when two of them are taken for the same.                    *)
(*                                                                         *)
(* A value is [type, scalar, pairs]; pairs lists the entries of a table in  *)
(* the order `pairs` yields them.                                          *)
(***************************************************************************)
EXTENDS Naturals, Sequences

CONSTANTS
  Keys,        \* The fields scripts set,
  Values,      \* what they put there, tables included,
  MaxNesting,  \* and, a bound, how deep these tables nest.
  AsFloat(_)   \* The float a number is rounded to.

Nil       == [type |-> "nil", scalar |-> "", pairs |-> <<>>]
Scalar(type, x) == [type |-> type, scalar |-> x, pairs |-> <<>>]
TableOf(entries) == [type |-> "table", scalar |-> "", pairs |-> entries]

Entry == [key : Keys, value : Values]
Table == [type : {"table"}, scalar : {""}, pairs : Seq(Entry)]
Value == Keys \union Values \union Table

Entries(v) == {v.pairs[i] : i \in DOMAIN v.pairs}

OneEntryPerKey(v) ==
  \A i, j \in DOMAIN v.pairs : v.pairs[i].key = v.pairs[j].key => i = j

Numeric == {"integer", "number"}

(* "function" stands for every kind of value that is not data.              *)
Type == {"nil", "boolean", "string", "table", "function"} \union Numeric

(* A number's scalar is the number itself, whichever way it is held: the    *)
(* integer 1 and the float 1.0 have the scalar "1", both zeros have "0".     *)
IsNaN(v) == v.type = "number" /\ v.scalar = "nan"

(* Two of a kind by value, not-a-number never; an integer is rounded to be   *)
(* compared with a float.                                                  *)
SameScalar(a, b) ==
  \/ /\ a.type = b.type /\ a.type \in {"nil", "boolean", "string"} \union Numeric
     /\ a.scalar = b.scalar /\ ~IsNaN(a)
  \/ a.type = "integer" /\ b.type = "number" /\ AsFloat(a.scalar) = b.scalar
  \/ a.type = "number" /\ b.type = "integer" /\ AsFloat(b.scalar) = a.scalar

(* Floats are what integers are rounded to, and none is rounded to nothing.  *)
ASSUME FloatAssumption ==
  \A v \in Keys \union Values :
    /\ v.type = "number" => AsFloat(v.scalar) = v.scalar
    /\ v.type = "integer" => AsFloat(v.scalar) # "nan"

(* Fields are named by scalars that equal themselves, and a number that can  *)
(* be held as an integer names a field only so.                            *)
ASSUME KeysAssumption ==
  /\ \A k \in Keys : /\ k.type \in {"boolean", "string"} \union Numeric
                     /\ ~IsNaN(k) /\ k.pairs = <<>>
  /\ \A k, l \in Keys :
       k.scalar = l.scalar /\ (k.type = l.type \/ {k.type, l.type} \subseteq Numeric) => k = l

(* A table has one entry for a key and is not part of itself.               *)
ASSUME ValuesAssumption ==
  /\ MaxNesting \in Nat
  /\ \A v \in Values :
       /\ v.type \in Type
       /\ IF v.type = "table" THEN v \in Table /\ OneEntryPerKey(v) ELSE v.pairs = <<>>
  /\ \E rank \in [Values -> 0 .. MaxNesting] :
       \A v \in Values : \A e \in Entries(v) : rank[e.value] < rank[v]

(* The slip: entries only one of two tables has are not counted.            *)
Uncounted(a, b) == TRUE

SameSize(a, b) == Len(a.pairs) = Len(b.pairs)

(* deep_eq: tables by looking every entry of one up in the other; functions  *)
(* and the like never match.                                               *)
DeepEq(a, b) ==
  LET deepEq[x \in Value] ==
        [y \in Value |->
           \/ SameScalar(x, y)
           \/ /\ x.type = "table" /\ y.type = "table" /\ SameSize(x, y)
              /\ \A i \in DOMAIN x.pairs : \E j \in DOMAIN y.pairs :
                   /\ deepEq[x.pairs[i].key][y.pairs[j].key]
                   /\ deepEq[x.pairs[i].value][y.pairs[j].value]]
  IN  deepEq[a][b]

----------------------------------------------------------------------------
(* What deep_eq is measured by: the data in a value, which is what there is  *)
(* to read along every path of keys, whatever the order of the entries. A    *)
(* number is one whether it is held as an integer or as a float; functions,  *)
(* and not-a-number, which is nothing one could compare, are opaque.         *)

Leaf(v) ==
  <<IF v.type = "function" \/ IsNaN(v) THEN "opaque"
    ELSE IF v.type \in Numeric THEN "number" ELSE v.type,
    v.scalar>>

Here(v) == [path |-> <<>>, leaf |-> Leaf(v)]

Under(key, data) == {[path |-> <<Leaf(key)>> \o d.path, leaf |-> d.leaf] : d \in data}

DataOf(v) ==
  LET data[x \in Value] ==
        {Here(x)} \union UNION {Under(e.key, data[e.value]) : e \in Entries(x)}
  IN  data[v]

(* Nothing opaque can be read anywhere in it.                               *)
IsData(v) == \A d \in DataOf(v) : d.leaf[1] # "opaque"

(* The numbers in it, those that name fields included, survive rounding.     *)
ExactLeaf(leaf) == leaf[1] = "number" => AsFloat(leaf[2]) = leaf[2]

Exact(v) ==
  \A d \in DataOf(v) : /\ ExactLeaf(d.leaf)
                       /\ \A i \in DOMAIN d.path : ExactLeaf(d.path[i])

============================================================================
