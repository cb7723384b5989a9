----------------------------- MODULE LuaProofs ------------------------------
(***************************************************************************)
(* Contexts that are the same data match, whatever tables scripts build;     *)
(* those that match are the same data, as far as their numbers survive       *)
(* rounding; and the answers of passes are taken whole.                     *)
(***************************************************************************)
EXTENDS LuaLanguage, SpansProofs, FiniteSetTheorems, SequenceTheorems

----------------------------------------------------------------------------
(* Values.                                                                 *)

(* The types of values: tables hold entries, keys are no tables.            *)
LEMMA ValueFacts ==
  ASSUME NEW v \in Value
  PROVE  /\ v.type = "table" => v \in Table /\ v \notin Keys
         /\ v.type # "table" => v.pairs = <<>>
         /\ v \notin Table => v.type # "table"
         /\ v \in Keys \union Values => OneEntryPerKey(v)
         /\ v \in Keys => v.type # "function" /\ ~IsNaN(v)
         /\ v.type \in Type
         /\ v.type = "number" => AsFloat(v.scalar) = v.scalar
         /\ v.type = "integer" => AsFloat(v.scalar) # "nan"
<1>1. CASE v \in Keys
  <2>1. v.type \in {"boolean", "string"} \union Numeric /\ v.pairs = <<>> /\ ~IsNaN(v)
    BY <1>1, KeysAssumption
  <2>2. v.type # "table" /\ v.type # "function" /\ v.type \in Type
    BY <2>1 DEF Numeric, Type
  <2>3. DOMAIN v.pairs = {}
    BY <2>1
  <2> QED
    BY <1>1, <2>1, <2>2, <2>3, FloatAssumption DEF Table, OneEntryPerKey
<1>2. CASE v \in Table
  <2>1. v.type = "table"
    BY <1>2 DEF Table
  <2>2. v \notin Keys
    BY <2>1, KeysAssumption DEF Numeric
  <2>3. v \in Values => OneEntryPerKey(v)
    BY <2>1, ValuesAssumption
  <2> QED
    BY <1>2, <2>1, <2>2, <2>3 DEF Type
<1>3. CASE v \in Values \ (Keys \union Table)
  <2>1. v.type # "table" /\ v.pairs = <<>> /\ v.type \in Type
    BY <1>3, ValuesAssumption
  <2> QED
    BY <1>3, <2>1, FloatAssumption DEF OneEntryPerKey
<1> QED
  BY <1>1, <1>2, <1>3 DEF Value

(* What a table holds.                                                      *)
LEMMA EntryFacts ==
  ASSUME NEW v \in Value
  PROVE  /\ v.pairs \in Seq(Entry)
         /\ Entries(v) \subseteq Entry
         /\ \A i \in DOMAIN v.pairs :
              /\ v.pairs[i] \in Entries(v)
              /\ v.pairs[i].key \in Keys /\ v.pairs[i].value \in Values
              /\ v.pairs[i].key \in Value /\ v.pairs[i].value \in Value
         /\ Entries(v) # {} => v.type = "table"
<1>1. v.pairs \in Seq(Entry)
  <2>1. CASE v.type = "table"
    BY <2>1, ValueFacts DEF Table
  <2>2. CASE v.type # "table"
    <3>1. v.pairs = <<>>
      BY <2>2, ValueFacts
    <3>2. <<>> \in Seq(Entry)
      OBVIOUS
    <3> QED
      BY <3>1, <3>2
  <2> QED
    BY <2>1, <2>2
<1>2. \A i \in DOMAIN v.pairs : v.pairs[i] \in Entry
  BY <1>1
<1>3. v.type # "table" => DOMAIN v.pairs = {}
  BY ValueFacts
<1> QED
  BY <1>1, <1>2, <1>3 DEF Entries, Entry, Value

(* Parts of a value rank lower than the value.                              *)
Nested(rank) ==
  \A v \in Value : \A e \in Entries(v) :
    rank[e.key] < rank[v] /\ rank[e.value] < rank[v]

(* Tables nest finitely deep: a rank to recur on.                           *)
LEMMA NestingFacts ==
  \E rank \in [Value -> 0 .. (MaxNesting + 2)] : Nested(rank)
<1>1. PICK r \in [Values -> 0 .. MaxNesting] :
        \A v \in Values : \A e \in Entries(v) : r[e.value] < r[v]
  BY ValuesAssumption
<1> DEFINE rank == [v \in Value |-> IF v \in Keys THEN 0
                                    ELSE IF v \in Values THEN r[v] + 1
                                    ELSE MaxNesting + 2]
<1>2. MaxNesting \in Nat /\ \A v \in Values : r[v] \in Nat /\ r[v] <= MaxNesting
  BY ValuesAssumption
<1>3. rank \in [Value -> 0 .. (MaxNesting + 2)]
  BY <1>2
<1>4. ASSUME NEW v \in Value, NEW e \in Entries(v)
      PROVE  rank[e.key] < rank[v] /\ rank[e.value] < rank[v]
  <2>1. e.key \in Keys /\ e.value \in Values /\ e.key \in Value /\ e.value \in Value
    BY EntryFacts DEF Entry, Value
  <2>2. v \notin Keys
    BY EntryFacts, ValueFacts
  <2>3. /\ rank[e.key] = 0 /\ rank[e.value] \in {0, r[e.value] + 1}
        /\ rank[v] = IF v \in Values THEN r[v] + 1 ELSE MaxNesting + 2
    BY <2>1, <2>2
  <2>4. v \in Values => r[e.value] < r[v]
    BY <1>1
  <2> HIDE DEF rank
  <2> QED
    BY <1>2, <2>1, <2>3, <2>4
<1> QED
  BY <1>3, <1>4 DEF Nested

----------------------------------------------------------------------------
(* The recursive definitions hold as they are written.                      *)

TablesMatch(a, b) ==
  /\ a.type = "table" /\ b.type = "table" /\ SameSize(a, b)
  /\ \A i \in DOMAIN a.pairs : \E j \in DOMAIN b.pairs :
       /\ DeepEq(a.pairs[i].key, b.pairs[j].key)
       /\ DeepEq(a.pairs[i].value, b.pairs[j].value)

(* deep_eq: one scalar, or two tables that match.                           *)
LEMMA DeepEqUnfolds ==
  ASSUME NEW a \in Value, NEW b \in Value
  PROVE  DeepEq(a, b) <=> SameScalar(a, b) \/ TablesMatch(a, b)
<1> DEFINE V == [Value -> BOOLEAN]
           Body(x, f) == [y \in Value |->
             \/ SameScalar(x, y)
             \/ /\ x.type = "table" /\ y.type = "table" /\ SameSize(x, y)
                /\ \A i \in DOMAIN x.pairs : \E j \in DOMAIN y.pairs :
                     /\ f[x.pairs[i].key][y.pairs[j].key]
                     /\ f[x.pairs[i].value][y.pairs[j].value]]
           Step == [x \in Value |-> [f \in [Value -> V] |-> Body(x, f)]]
           start == [x \in Value |-> [y \in Value |-> FALSE]]
           IsEq(f) == f = [x \in Value |-> Body(x, f)]
<1>1. PICK rank \in [Value -> 0 .. (MaxNesting + 2)] : Nested(rank)
  BY NestingFacts
<1>2. \A x \in Value : \A f : Body(x, f) \in V
  OBVIOUS
<1>3. Step \in [Value -> [[Value -> V] -> V]] /\ start \in [Value -> V]
  <2> HIDE DEF Body
  <2>1. Step \in [Value -> [[Value -> V] -> V]]
    <3> HIDE DEF V
    <3> QED
      BY <1>2
  <2> QED
    BY <2>1
<1>4. LooksDown(Value, V, rank, Step)
  <2> SUFFICES ASSUME NEW x \in Value, NEW f \in [Value -> V], NEW g \in [Value -> V],
                      \A y \in Value : rank[y] < rank[x] => f[y] = g[y]
               PROVE  Step[x][f] = Step[x][g]
    BY DEF LooksDown
  <2>1. \A i \in DOMAIN x.pairs : /\ f[x.pairs[i].key] = g[x.pairs[i].key]
                                  /\ f[x.pairs[i].value] = g[x.pairs[i].value]
    BY <1>1, EntryFacts DEF Nested
  <2>2. Body(x, f) = Body(x, g)
    BY <2>1
  <2> HIDE DEF Body, V
  <2> QED
    BY <2>2
<1>5. PICK f \in [Value -> V] : Solves(f, Value, Step)
  <2> HIDE DEF Step, V, start
  <2>1. MaxNesting + 2 \in Nat
    BY ValuesAssumption
  <2> QED
    BY <1>3, <1>4, <2>1, Recursion
<1>6. IsEq(f)
  <2> HIDE DEF Body, V
  <2>1. \A x \in Value : f[x] = Body(x, f)
    BY <1>5 DEF Solves
  <2> QED
    BY <2>1
<1> DEFINE g == CHOOSE h : IsEq(h)
<1>7. IsEq(g)
  <2> HIDE DEF IsEq
  <2> QED
    BY <1>6
<1>8. \A x, y : DeepEq(x, y) = g[x][y]
  BY DEF DeepEq
<1> HIDE DEF g
<1>9. g[a] = Body(a, g)
  BY <1>7
<1>10. g[a][b] <=>
         \/ SameScalar(a, b)
         \/ /\ a.type = "table" /\ b.type = "table" /\ SameSize(a, b)
            /\ \A i \in DOMAIN a.pairs : \E j \in DOMAIN b.pairs :
                 /\ g[a.pairs[i].key][b.pairs[j].key]
                 /\ g[a.pairs[i].value][b.pairs[j].value]
  BY <1>9
<1> QED
  BY <1>8, <1>10 DEF TablesMatch

(* A place to read and what is read there.                                  *)
Datum == [path : Seq({Leaf(k) : k \in Keys}), leaf : {Leaf(v) : v \in Value}]

(* Data below a key is data.                                                *)
LEMMA UnderType ==
  ASSUME NEW key \in Keys, NEW data \in SUBSET Datum
  PROVE  Under(key, data) \in SUBSET Datum
<1> DEFINE L == {Leaf(k) : k \in Keys}
<1>1. ASSUME NEW d \in data
      PROVE  [path |-> <<Leaf(key)>> \o d.path, leaf |-> d.leaf] \in Datum
  <2>1. Leaf(key) \in L /\ d.path \in Seq(L) /\ d.leaf \in {Leaf(v) : v \in Value}
    BY DEF Datum
  <2>2. <<Leaf(key)>> \o d.path \in Seq(L)
    <3> HIDE DEF L
    <3>1. <<Leaf(key)>> \in Seq(L)
      BY <2>1
    <3> QED
      BY <2>1, <3>1, ConcatProperties
  <2> QED
    BY <2>1, <2>2 DEF Datum
<1> QED
  BY <1>1 DEF Under

(* The data of a value: itself, and what is below its keys.                 *)
LEMMA DataUnfolds ==
  ASSUME NEW v \in Value
  PROVE  /\ DataOf(v) \in SUBSET Datum
         /\ DataOf(v) = {Here(v)} \union
                          UNION {Under(e.key, DataOf(e.value)) : e \in Entries(v)}
<1> DEFINE V == SUBSET Datum
           Body(x, f) == {Here(x)} \union UNION {Under(e.key, f[e.value]) : e \in Entries(x)}
           Step == [x \in Value |-> [f \in [Value -> V] |-> Body(x, f)]]
           start == [x \in Value |-> {}]
           IsData1(f) == f = [x \in Value |-> Body(x, f)]
<1>1. PICK rank \in [Value -> 0 .. (MaxNesting + 2)] : Nested(rank)
  BY NestingFacts
<1>2. ASSUME NEW x \in Value, NEW f, \A y \in Values : f[y] \in V
      PROVE  Body(x, f) \in V
  <2>1. Here(x) \in Datum
    BY DEF Here, Datum
  <2>2. ASSUME NEW e \in Entries(x) PROVE Under(e.key, f[e.value]) \in V
    <3>1. e.key \in Keys /\ e.value \in Values
      BY EntryFacts DEF Entry
    <3> QED
      BY <1>2, <3>1, UnderType
  <2> HIDE DEF V
  <2>3. UNION {Under(e.key, f[e.value]) : e \in Entries(x)} \in V
    BY <2>2 DEF V
  <2> QED
    BY <2>1, <2>3 DEF V
<1>3. Step \in [Value -> [[Value -> V] -> V]] /\ start \in [Value -> V]
  <2>1. start \in [Value -> V]
    OBVIOUS
  <2>2. \A x \in Value, f \in [Value -> V] : Body(x, f) \in V
    <3> HIDE DEF V, Body
    <3> QED
      BY <1>2 DEF Value
  <2> HIDE DEF V, Body, start
  <2> QED
    BY <2>1, <2>2
<1>4. LooksDown(Value, V, rank, Step)
  <2> SUFFICES ASSUME NEW x \in Value, NEW f \in [Value -> V], NEW g \in [Value -> V],
                      \A y \in Value : rank[y] < rank[x] => f[y] = g[y]
               PROVE  Step[x][f] = Step[x][g]
    BY DEF LooksDown
  <2>1. \A e \in Entries(x) : f[e.value] = g[e.value]
    BY <1>1, EntryFacts DEF Nested, Entry, Value
  <2>2. Body(x, f) = Body(x, g)
    BY <2>1
  <2> HIDE DEF Body, V
  <2> QED
    BY <2>2
<1>5. PICK f \in [Value -> V] : Solves(f, Value, Step)
  <2> HIDE DEF Step, V, start
  <2>1. MaxNesting + 2 \in Nat
    BY ValuesAssumption
  <2> QED
    BY <1>3, <1>4, <2>1, Recursion
<1>6. IsData1(f)
  <2> HIDE DEF Body, V
  <2>1. \A x \in Value : f[x] = Body(x, f)
    BY <1>5 DEF Solves
  <2> QED
    BY <2>1
<1> DEFINE g == CHOOSE h : IsData1(h)
<1>7. IsData1(g)
  <2> HIDE DEF IsData1
  <2> QED
    BY <1>6
<1>8. \A x : DataOf(x) = g[x]
  BY DEF DataOf
<1> HIDE DEF g
<1>9. \A x \in Value : g[x] = Body(x, g)
  BY <1>7
<1>10. \A x \in Value : DataOf(x) = {Here(x)} \union
                          UNION {Under(e.key, DataOf(e.value)) : e \in Entries(x)}
  BY <1>8, <1>9
<1>11. \A x \in Value : DataOf(x) \in V
  <2> DEFINE S == {x \in Value : DataOf(x) \notin V}
  <2>1. ASSUME S # {} PROVE FALSE
    <3>1. PICK x \in S : \A y \in S : rank[x] <= rank[y]
      <4>1. \A x \in S : rank[x] \in Nat
        OBVIOUS
      <4> HIDE DEF S
      <4> QED
        BY <2>1, <4>1, LeastRanked
    <3>2. x \in Value /\ DataOf(x) \notin V
      OBVIOUS
    <3>3. ASSUME NEW e \in Entries(x) PROVE DataOf(e.value) \in V /\ e.key \in Keys
      <4>1. e.key \in Keys /\ e.value \in Value
        BY <3>2, EntryFacts DEF Entry, Value
      <4>2. rank[e.value] < rank[x] /\ rank[e.value] \in Nat /\ rank[x] \in Nat
        BY <1>1, <3>2, <4>1 DEF Nested
      <4>3. e.value \notin S
        <5> HIDE DEF S
        <5> QED
          BY <3>1, <4>2
      <4> QED
        BY <4>1, <4>3
    <3>4. UNION {Under(e.key, DataOf(e.value)) : e \in Entries(x)} \in V
      <4>1. \A e \in Entries(x) : Under(e.key, DataOf(e.value)) \in V
        BY <3>3, UnderType
      <4> QED
        BY <4>1
    <3>5. Here(x) \in Datum
      BY <3>2 DEF Here, Datum
    <3>6. DataOf(x) \in V
      BY <1>10, <3>2, <3>4, <3>5
    <3> QED
      BY <3>2, <3>6
  <2> QED
    BY <2>1
<1> QED
  BY <1>10, <1>11

----------------------------------------------------------------------------
(* What can be read in a value.                                             *)

(* Scalars that are the same data match; those that match are the same data  *)
(* as far as their numbers survive rounding.                               *)
LEMMA LeafFacts ==
  /\ \A k, l \in Keys : Leaf(k) = Leaf(l) => k = l
  /\ \A k \in Keys : SameScalar(k, k)
  /\ \A a, b \in Value :
       Leaf(a) = Leaf(b) /\ Leaf(a)[1] # "opaque" /\ a.type # "table" => SameScalar(a, b)
  /\ \A a, b \in Value : SameScalar(a, b) =>
       /\ a.type # "table" /\ b.type # "table" /\ Leaf(a)[1] # "opaque"
       /\ ExactLeaf(Leaf(a)) /\ ExactLeaf(Leaf(b)) => Leaf(a) = Leaf(b)
  /\ \A a, b : Leaf(a) = Leaf(b) => (a.type = "table" <=> b.type = "table")
  /\ \A a : a.type = "table" => Leaf(a)[1] = "table"
<1>1. ASSUME NEW k \in Keys, NEW l \in Keys, Leaf(k) = Leaf(l)
      PROVE  k = l
  <2>1. /\ k.type \in {"boolean", "string"} \union Numeric /\ ~IsNaN(k)
        /\ l.type \in {"boolean", "string"} \union Numeric /\ ~IsNaN(l)
    BY KeysAssumption
  <2>2. k.scalar = l.scalar /\ (k.type = l.type \/ {k.type, l.type} \subseteq Numeric)
    BY <1>1, <2>1 DEF Leaf, Numeric
  <2> QED
    BY <2>2, KeysAssumption
<1>2. ASSUME NEW k \in Keys PROVE SameScalar(k, k)
  <2>1. k.type \in {"boolean", "string"} \union Numeric /\ ~IsNaN(k)
    BY KeysAssumption
  <2> QED
    BY <2>1 DEF SameScalar, Numeric
<1>3. ASSUME NEW a \in Value, NEW b \in Value,
             Leaf(a) = Leaf(b), Leaf(a)[1] # "opaque", a.type # "table"
      PROVE  SameScalar(a, b)
  <2>1. /\ a.type \in Type /\ (a.type = "number" => AsFloat(a.scalar) = a.scalar)
        /\ b.type \in Type /\ (b.type = "number" => AsFloat(b.scalar) = b.scalar)
    BY ValueFacts
  <2>2. a.scalar = b.scalar /\ a.type # "function" /\ ~IsNaN(a)
    BY <1>3 DEF Leaf
  <2>3. \/ a.type = b.type
        \/ a.type \in Numeric /\ b.type \in Numeric
    BY <1>3, <2>1, <2>2 DEF Leaf, Type, Numeric
  <2> QED
    BY <1>3, <2>1, <2>2, <2>3 DEF SameScalar, Type, Numeric
<1>4. ASSUME NEW a \in Value, NEW b \in Value, SameScalar(a, b)
      PROVE  /\ a.type # "table" /\ b.type # "table" /\ Leaf(a)[1] # "opaque"
             /\ ExactLeaf(Leaf(a)) /\ ExactLeaf(Leaf(b)) => Leaf(a) = Leaf(b)
  <2>1. CASE a.type = b.type /\ a.scalar = b.scalar
    BY <1>4, <2>1 DEF SameScalar, Leaf, IsNaN, Numeric
  <2>2. CASE a.type = "integer" /\ b.type = "number" /\ AsFloat(a.scalar) = b.scalar
    <3>1. ~IsNaN(b) /\ ~IsNaN(a)
      BY <2>2, ValueFacts DEF IsNaN
    <3> QED
      BY <2>2, <3>1 DEF Leaf, ExactLeaf, Numeric
  <2>3. CASE a.type = "number" /\ b.type = "integer" /\ AsFloat(b.scalar) = a.scalar
    <3>1. ~IsNaN(b) /\ ~IsNaN(a)
      BY <2>3, ValueFacts DEF IsNaN
    <3> QED
      BY <2>3, <3>1 DEF Leaf, ExactLeaf, Numeric
  <2> QED
    BY <1>4, <2>1, <2>2, <2>3 DEF SameScalar
<1>5. ASSUME NEW a, NEW b, Leaf(a) = Leaf(b)
      PROVE  a.type = "table" <=> b.type = "table"
  BY <1>5 DEF Leaf, IsNaN, Numeric
<1>6. ASSUME NEW a, a.type = "table" PROVE Leaf(a)[1] = "table"
  BY <1>6 DEF Leaf, IsNaN, Numeric
<1> QED
  BY <1>1, <1>2, <1>3, <1>4, <1>5, <1>6

(* A path with one more key in front.                                       *)
LEMMA PathFacts ==
  ASSUME NEW L, NEW x \in L, NEW p \in Seq(L)
  PROVE  /\ <<x>> \o p # <<>>
         /\ Head(<<x>> \o p) = x
         /\ Tail(<<x>> \o p) = p
<1> DEFINE q == <<x>> \o p
<1>1. /\ q \in Seq(L) /\ Len(q) = 1 + Len(p) /\ Len(p) \in Nat
      /\ \A i \in 1 .. 1 + Len(p) : q[i] = IF i <= 1 THEN x ELSE p[i - 1]
  BY ConcatProperties
<1> HIDE DEF q
<1>2. q # <<>> /\ q[1] = x
  BY <1>1
<1>3. /\ Tail(q) \in Seq(L) /\ Len(Tail(q)) = Len(p)
      /\ \A i \in 1 .. Len(p) : Tail(q)[i] = p[i]
  BY <1>1, <1>2
<1>4. Tail(q) = p
  BY <1>1, <1>3
<1> QED
  BY <1>2, <1>4 DEF q

(* The entry of a table at a key, as far as it can be read.                 *)
Below(key, data) ==
  {[path |-> Tail(d.path), leaf |-> d.leaf] :
     d \in {x \in data : x.path # <<>> /\ Head(x.path) = Leaf(key)}}

(* What is read along a path that enters an entry.                          *)
LEMMA UnderFacts ==
  ASSUME NEW key \in Keys, NEW data \in SUBSET Datum
  PROVE  /\ \A d \in Under(key, data) :
              /\ d.path # <<>> /\ Head(d.path) = Leaf(key)
              /\ [path |-> Tail(d.path), leaf |-> d.leaf] \in data
         /\ \A d \in data : \E u \in Under(key, data) :
              d = [path |-> Tail(u.path), leaf |-> u.leaf]
<1> DEFINE L == {Leaf(k) : k \in Keys}
           Into(x) == [path |-> <<Leaf(key)>> \o x.path, leaf |-> x.leaf]
<1>1. ASSUME NEW x \in data
      PROVE  /\ Into(x).path # <<>> /\ Head(Into(x).path) = Leaf(key)
             /\ x = [path |-> Tail(Into(x).path), leaf |-> Into(x).leaf]
  <2>1. x.path \in Seq(L) /\ Leaf(key) \in L /\ x = [path |-> x.path, leaf |-> x.leaf]
    BY DEF Datum
  <2> HIDE DEF L
  <2> QED
    BY <2>1, PathFacts
<1>2. Under(key, data) = {Into(x) : x \in data}
  BY DEF Under
<1> HIDE DEF Into
<1> QED
  BY <1>1, <1>2

(* Only the value itself is at the empty path.                              *)
LEMMA HereFacts ==
  ASSUME NEW v \in Value
  PROVE  /\ Here(v) \in DataOf(v)
         /\ \A d \in DataOf(v) :
              \/ d = Here(v)
              \/ d.path # <<>> /\ \E e \in Entries(v) : d \in Under(e.key, DataOf(e.value))
         /\ Here(v).path = <<>>
<1>1. ASSUME NEW e \in Entries(v), NEW d \in Under(e.key, DataOf(e.value))
      PROVE  d.path # <<>>
  <2>1. e.key \in Keys /\ e.value \in Value
    BY EntryFacts DEF Entry, Value
  <2>2. DataOf(e.value) \in SUBSET Datum
    BY <2>1, DataUnfolds
  <2> QED
    BY <2>1, <2>2, UnderFacts
<1>2. DataOf(v) = {Here(v)} \union
                    UNION {Under(e.key, DataOf(e.value)) : e \in Entries(v)}
  BY DataUnfolds
<1>3. Here(v).path = <<>>
  BY DEF Here
<1> QED
  BY <1>1, <1>2, <1>3

(* An entry can be read through the table that has it, and nothing else can  *)
(* be read under its key.                                                  *)
LEMMA ReadEntry ==
  ASSUME NEW v \in Value, OneEntryPerKey(v), NEW e \in Entries(v)
  PROVE  Below(e.key, DataOf(v)) = DataOf(e.value)
<1>1. \A x \in Entries(v) : x.key \in Keys /\ x.value \in Value /\ DataOf(x.value) \in SUBSET Datum
  BY EntryFacts, DataUnfolds DEF Entry, Value
<1>2. \A x \in Entries(v) : x.key = e.key => x = e
  BY DEF Entries, OneEntryPerKey
<1>3. ASSUME NEW d \in DataOf(v), d.path # <<>>, Head(d.path) = Leaf(e.key)
      PROVE  [path |-> Tail(d.path), leaf |-> d.leaf] \in DataOf(e.value)
  <2>1. PICK x \in Entries(v) : d \in Under(x.key, DataOf(x.value))
    BY <1>3, HereFacts
  <2>2. /\ Head(d.path) = Leaf(x.key)
        /\ [path |-> Tail(d.path), leaf |-> d.leaf] \in DataOf(x.value)
    BY <1>1, <2>1, UnderFacts
  <2>3. x.key = e.key
    BY <1>1, <1>3, <2>2, LeafFacts
  <2> QED
    BY <1>2, <2>2, <2>3
<1>4. ASSUME NEW d \in DataOf(e.value)
      PROVE  d \in Below(e.key, DataOf(v))
  <2>0. e.key \in Keys /\ DataOf(e.value) \in SUBSET Datum
    BY <1>1
  <2>1. PICK u \in Under(e.key, DataOf(e.value)) :
          d = [path |-> Tail(u.path), leaf |-> u.leaf]
    BY <2>0, UnderFacts
  <2>2. u \in DataOf(v)
    BY DataUnfolds
  <2>3. u.path # <<>> /\ Head(u.path) = Leaf(e.key)
    BY <2>0, <2>1, UnderFacts
  <2> QED
    BY <2>1, <2>2, <2>3 DEF Below
<1> QED
  BY <1>3, <1>4 DEF Below

(* The data of a table are those of its entries.                            *)
LEMMA IsDataBelow ==
  ASSUME NEW v \in Value
  PROVE  IsData(v) <=> Leaf(v)[1] # "opaque" /\ \A e \in Entries(v) : IsData(e.value)
<1>1. \A x \in Entries(v) : x.key \in Keys /\ x.value \in Value /\ DataOf(x.value) \in SUBSET Datum
  BY EntryFacts, DataUnfolds DEF Entry, Value
<1>2. Here(v).leaf = Leaf(v)
  BY DEF Here
<1>3. ASSUME IsData(v)
      PROVE  Leaf(v)[1] # "opaque" /\ \A e \in Entries(v) : IsData(e.value)
  <2>1. Leaf(v)[1] # "opaque"
    BY <1>2, <1>3, HereFacts DEF IsData
  <2>2. ASSUME NEW e \in Entries(v), NEW d \in DataOf(e.value)
        PROVE  d.leaf[1] # "opaque"
    <3>0. e.key \in Keys /\ DataOf(e.value) \in SUBSET Datum
      BY <1>1
    <3>1. PICK u \in Under(e.key, DataOf(e.value)) : d = [path |-> Tail(u.path), leaf |-> u.leaf]
      BY <3>0, UnderFacts
    <3>2. u \in DataOf(v) /\ d.leaf = u.leaf
      BY <3>1, DataUnfolds
    <3> QED
      BY <1>3, <3>2 DEF IsData
  <2> QED
    BY <2>1, <2>2 DEF IsData
<1>4. ASSUME Leaf(v)[1] # "opaque", \A e \in Entries(v) : IsData(e.value)
      PROVE  IsData(v)
  <2>1. ASSUME NEW d \in DataOf(v) PROVE d.leaf[1] # "opaque"
    <3>1. CASE d = Here(v)
      BY <1>2, <1>4, <3>1
    <3>2. CASE d # Here(v)
      <4>1. PICK e \in Entries(v) : d \in Under(e.key, DataOf(e.value))
        BY <3>2, HereFacts
      <4>0. e.key \in Keys /\ DataOf(e.value) \in SUBSET Datum
        BY <1>1
      <4>2. [path |-> Tail(d.path), leaf |-> d.leaf] \in DataOf(e.value)
        BY <4>0, <4>1, UnderFacts
      <4>3. IsData(e.value)
        BY <1>4
      <4>4. [path |-> Tail(d.path), leaf |-> d.leaf].leaf[1] # "opaque"
        BY <4>2, <4>3 DEF IsData
      <4> QED
        BY <4>4
    <3> QED
      BY <3>1, <3>2
  <2> QED
    BY <2>1 DEF IsData
<1> QED
  BY <1>3, <1>4

(* What survives rounding does so at every depth.                           *)
LEMMA ExactBelow ==
  ASSUME NEW v \in Value, Exact(v)
  PROVE  /\ ExactLeaf(Leaf(v))
         /\ \A e \in Entries(v) : ExactLeaf(Leaf(e.key)) /\ Exact(e.value)
<1>1. ExactLeaf(Leaf(v))
  BY HereFacts DEF Here, Exact
<1>2. ASSUME NEW e \in Entries(v), NEW d \in DataOf(e.value)
      PROVE  /\ ExactLeaf(Leaf(e.key)) /\ ExactLeaf(d.leaf)
             /\ \A i \in DOMAIN d.path : ExactLeaf(d.path[i])
  <2>1. e.key \in Keys /\ e.value \in Value /\ DataOf(e.value) \in SUBSET Datum
    BY EntryFacts, DataUnfolds DEF Entry, Value
  <2>2. PICK u \in Under(e.key, DataOf(e.value)) :
          d = [path |-> Tail(u.path), leaf |-> u.leaf]
    BY <2>1, UnderFacts
  <2>3. u \in DataOf(v) /\ u \in Datum
    BY DataUnfolds
  <2>4. u.path # <<>> /\ Head(u.path) = Leaf(e.key)
    BY <2>1, UnderFacts
  <2>5. u.path \in Seq({Leaf(k) : k \in Keys})
    BY <2>3 DEF Datum
  <2>6. /\ 1 \in DOMAIN u.path /\ u.path[1] = Leaf(e.key)
        /\ \A i \in DOMAIN Tail(u.path) :
             i + 1 \in DOMAIN u.path /\ Tail(u.path)[i] = u.path[i + 1]
    BY <2>4, <2>5
  <2>7. ExactLeaf(u.leaf) /\ \A i \in DOMAIN u.path : ExactLeaf(u.path[i])
    BY <2>3 DEF Exact
  <2> QED
    BY <2>2, <2>6, <2>7
<1>3. ASSUME NEW e \in Entries(v) PROVE ExactLeaf(Leaf(e.key)) /\ Exact(e.value)
  <2>1. e.value \in Value
    BY EntryFacts DEF Entry, Value
  <2>2. Here(e.value) \in DataOf(e.value)
    BY <2>1, HereFacts
  <2> QED
    BY <1>2, <2>2 DEF Exact
<1> QED
  BY <1>1, <1>3

----------------------------------------------------------------------------
(* Matching.                                                               *)

KeysOf(v) == {e.key : e \in Entries(v)}

(* A table has as many keys as entries.                                     *)
LEMMA CountKeys ==
  ASSUME NEW v \in Value, OneEntryPerKey(v)
  PROVE  IsFiniteSet(KeysOf(v)) /\ Cardinality(KeysOf(v)) = Len(v.pairs)
<1> DEFINE n == Len(v.pairs)
           f == [i \in 1 .. n |-> v.pairs[i].key]
<1>1. n \in Nat /\ DOMAIN v.pairs = 1 .. n
  BY EntryFacts, LenProperties
<1>2. IsFiniteSet(1 .. n) /\ Cardinality(1 .. n) = n
  BY <1>1, FS_Interval
<1>3. f \in Bijection(1 .. n, KeysOf(v))
  <2>1. f \in [1 .. n -> KeysOf(v)]
    BY <1>1 DEF KeysOf, Entries
  <2>2. \A i, j \in 1 .. n : f[i] = f[j] => i = j
    BY <1>1 DEF OneEntryPerKey
  <2>3. \A k \in KeysOf(v) : \E i \in 1 .. n : f[i] = k
    BY <1>1 DEF KeysOf, Entries
  <2> HIDE DEF f
  <2> QED
    BY <2>1, <2>2, <2>3 DEF Bijection, Injection, Surjection, IsInjective
<1>4. ExistsBijection(1 .. n, KeysOf(v))
  <2> HIDE DEF f
  <2> QED
    BY <1>3 DEF ExistsBijection
<1> QED
  BY <1>2, <1>4, FS_Bijection

(* Keys match themselves, and no other key unless one is rounded.           *)
LEMMA KeysMatch ==
  ASSUME NEW k \in Keys, NEW l \in Keys
  PROVE  /\ DeepEq(k, k)
         /\ DeepEq(k, l) /\ ExactLeaf(Leaf(k)) /\ ExactLeaf(Leaf(l)) => k = l
<1>1. k \in Value /\ l \in Value /\ k.type # "table"
  BY ValueFacts DEF Value, Table
<1>2. (DeepEq(k, l) <=> SameScalar(k, l)) /\ (DeepEq(k, k) <=> SameScalar(k, k))
  BY <1>1, DeepEqUnfolds DEF TablesMatch
<1> QED
  BY <1>1, <1>2, LeafFacts

(* Each entry of a is one of b.                                             *)
EntriesIn(a, b) ==
  \A e \in Entries(a) : \E d \in Entries(b) :
    d.key = e.key /\ DeepEq(e.value, d.value)

(* Tables match when they are as long and one has all of the other; and only *)
(* then if none of their keys is rounded.                                   *)
LEMMA TablesMatchFacts ==
  ASSUME NEW a \in Value, NEW b \in Value
  PROVE  /\ a.type = "table" /\ b.type = "table" /\ Len(a.pairs) = Len(b.pairs)
            /\ EntriesIn(a, b) => TablesMatch(a, b)
         /\ TablesMatch(a, b) /\ Exact(a) /\ Exact(b) =>
              Len(a.pairs) = Len(b.pairs) /\ EntriesIn(a, b)
<1>1. /\ \A i \in DOMAIN a.pairs : a.pairs[i].key \in Keys /\ a.pairs[i] \in Entries(a)
      /\ \A i \in DOMAIN b.pairs : b.pairs[i].key \in Keys /\ b.pairs[i] \in Entries(b)
  BY EntryFacts
<1>2. EntriesIn(a, b) <=>
        \A i \in DOMAIN a.pairs : \E j \in DOMAIN b.pairs :
          b.pairs[j].key = a.pairs[i].key /\ DeepEq(a.pairs[i].value, b.pairs[j].value)
  BY DEF EntriesIn, Entries
<1>3. ASSUME a.type = "table", b.type = "table", Len(a.pairs) = Len(b.pairs), EntriesIn(a, b)
      PROVE  TablesMatch(a, b)
  <2>1. ASSUME NEW i \in DOMAIN a.pairs
        PROVE  \E j \in DOMAIN b.pairs : /\ DeepEq(a.pairs[i].key, b.pairs[j].key)
                                         /\ DeepEq(a.pairs[i].value, b.pairs[j].value)
    <3>1. PICK j \in DOMAIN b.pairs :
            b.pairs[j].key = a.pairs[i].key /\ DeepEq(a.pairs[i].value, b.pairs[j].value)
      BY <1>2, <1>3
    <3>2. DeepEq(a.pairs[i].key, a.pairs[i].key)
      BY <1>1, KeysMatch
    <3> QED
      BY <3>1, <3>2
  <2> QED
    BY <1>3, <2>1 DEF TablesMatch, SameSize
<1>4. ASSUME TablesMatch(a, b), Exact(a), Exact(b)
      PROVE  Len(a.pairs) = Len(b.pairs) /\ EntriesIn(a, b)
  <2>1. ASSUME NEW i \in DOMAIN a.pairs, NEW j \in DOMAIN b.pairs,
               DeepEq(a.pairs[i].key, b.pairs[j].key)
        PROVE  b.pairs[j].key = a.pairs[i].key
    <3>1. ExactLeaf(Leaf(a.pairs[i].key)) /\ ExactLeaf(Leaf(b.pairs[j].key))
      BY <1>1, <1>4, ExactBelow
    <3> QED
      BY <1>1, <2>1, <3>1, KeysMatch
  <2> QED
    BY <1>2, <1>4, <2>1 DEF TablesMatch, SameSize
<1> QED
  BY <1>3, <1>4

(* The same data match,                                                    *)
DataMatches(a, b) == IsData(a) /\ DataOf(a) = DataOf(b) => DeepEq(a, b)

(* and what matches is the same data, where nothing is rounded.             *)
MatchIsData(a, b) ==
  DeepEq(a, b) /\ Exact(a) /\ Exact(b) => IsData(a) /\ DataOf(a) = DataOf(b)

Means(a, b) == DataMatches(a, b) /\ MatchIsData(a, b)

(* Tables whose entries mean what they hold mean what they hold.            *)
LEMMA TablesMeanTheSame ==
  ASSUME NEW a \in Value, NEW b \in Value, OneEntryPerKey(a), OneEntryPerKey(b),
         a.type = "table", b.type = "table",
         \A e \in Entries(a), d \in Entries(b) : Means(e.value, d.value)
  PROVE  Means(a, b)
<1>1. /\ \A e \in Entries(a) : e.key \in Keys /\ e.value \in Value
      /\ \A e \in Entries(b) : e.key \in Keys /\ e.value \in Value
  BY EntryFacts DEF Entry, Value
<1>2. /\ \A d, e \in Entries(a) : d.key = e.key => d = e
      /\ \A d, e \in Entries(b) : d.key = e.key => d = e
  BY DEF Entries, OneEntryPerKey
<1>3. /\ DeepEq(a, b) /\ Exact(a) /\ Exact(b) => Len(a.pairs) = Len(b.pairs) /\ EntriesIn(a, b)
      /\ Len(a.pairs) = Len(b.pairs) /\ EntriesIn(a, b) => DeepEq(a, b)
  <2>1. ~SameScalar(a, b)
    BY LeafFacts
  <2> QED
    BY <2>1, DeepEqUnfolds, TablesMatchFacts
<1>4. /\ IsFiniteSet(KeysOf(a)) /\ Cardinality(KeysOf(a)) = Len(a.pairs)
      /\ IsFiniteSet(KeysOf(b)) /\ Cardinality(KeysOf(b)) = Len(b.pairs)
  BY CountKeys
<1>5. ASSUME DeepEq(a, b), Exact(a), Exact(b)
      PROVE  IsData(a) /\ DataOf(a) = DataOf(b)
  <2>1. EntriesIn(a, b) /\ Len(a.pairs) = Len(b.pairs)
    BY <1>3, <1>5
  <2>2. KeysOf(a) = KeysOf(b)
    <3>1. KeysOf(a) \subseteq KeysOf(b)
      BY <2>1 DEF EntriesIn, KeysOf
    <3> QED
      BY <1>4, <2>1, <3>1, FS_Subset
  <2>3. ASSUME NEW e \in Entries(a)
        PROVE  \E d \in Entries(b) : /\ d.key = e.key /\ DataOf(d.value) = DataOf(e.value)
                                     /\ IsData(e.value)
    <3>1. PICK d \in Entries(b) : d.key = e.key /\ DeepEq(e.value, d.value)
      BY <2>1 DEF EntriesIn
    <3>2. Exact(e.value) /\ Exact(d.value)
      BY <1>5, ExactBelow
    <3> QED
      BY <3>1, <3>2 DEF Means, MatchIsData
  <2>4. ASSUME NEW d \in Entries(b)
        PROVE  \E e \in Entries(a) : d.key = e.key /\ DataOf(d.value) = DataOf(e.value)
    <3>1. PICK e \in Entries(a) : e.key = d.key
      BY <2>2 DEF KeysOf
    <3> QED
      BY <1>2, <2>3, <3>1
  <2>5. IsData(a)
    BY <2>3, LeafFacts, IsDataBelow
  <2>6. Here(a) = Here(b)
    <3>1. a \in Table /\ b \in Table
      BY ValueFacts
    <3>2. a.scalar = b.scalar
      BY <3>1 DEF Table
    <3> QED
      BY <3>2 DEF Here, Leaf, IsNaN
  <2>7. UNION {Under(e.key, DataOf(e.value)) : e \in Entries(a)}
          = UNION {Under(e.key, DataOf(e.value)) : e \in Entries(b)}
    <3>1. \A e \in Entries(a) : \E d \in Entries(b) :
            Under(d.key, DataOf(d.value)) = Under(e.key, DataOf(e.value))
      BY <2>3
    <3>2. \A d \in Entries(b) : \E e \in Entries(a) :
            Under(d.key, DataOf(d.value)) = Under(e.key, DataOf(e.value))
      BY <2>4
    <3> QED
      BY <3>1, <3>2
  <2> QED
    BY <2>5, <2>6, <2>7, DataUnfolds
<1>6. ASSUME IsData(a), DataOf(a) = DataOf(b)
      PROVE  DeepEq(a, b)
  <2>1. ASSUME NEW e \in Entries(a)
        PROVE  \E d \in Entries(b) : d.key = e.key
    <3>1. e.value \in Value /\ e.key \in Keys /\ DataOf(e.value) \in SUBSET Datum
      BY <1>1, DataUnfolds
    <3>2. PICK u \in Under(e.key, DataOf(e.value)) : u.path # <<>> /\ Head(u.path) = Leaf(e.key)
      BY <3>1, HereFacts, UnderFacts
    <3>3. u \in DataOf(b) /\ u # Here(b)
      BY <1>6, <3>2, DataUnfolds, HereFacts
    <3>4. PICK d \in Entries(b) : u \in Under(d.key, DataOf(d.value))
      BY <3>3, HereFacts
    <3>5. d.key \in Keys /\ DataOf(d.value) \in SUBSET Datum
      BY <1>1, DataUnfolds
    <3>6. Leaf(d.key) = Leaf(e.key)
      BY <3>2, <3>4, <3>5, UnderFacts
    <3> QED
      BY <3>1, <3>5, <3>6, LeafFacts
  <2>2. ASSUME NEW d \in Entries(b)
        PROVE  \E e \in Entries(a) : d.key = e.key
    <3>1. d.value \in Value /\ d.key \in Keys /\ DataOf(d.value) \in SUBSET Datum
      BY <1>1, DataUnfolds
    <3>2. PICK u \in Under(d.key, DataOf(d.value)) : u.path # <<>> /\ Head(u.path) = Leaf(d.key)
      BY <3>1, HereFacts, UnderFacts
    <3>3. u \in DataOf(a) /\ u # Here(a)
      BY <1>6, <3>2, DataUnfolds, HereFacts
    <3>4. PICK e \in Entries(a) : u \in Under(e.key, DataOf(e.value))
      BY <3>3, HereFacts
    <3>5. e.key \in Keys /\ DataOf(e.value) \in SUBSET Datum
      BY <1>1, DataUnfolds
    <3>6. Leaf(e.key) = Leaf(d.key)
      BY <3>2, <3>4, <3>5, UnderFacts
    <3> QED
      BY <3>1, <3>5, <3>6, LeafFacts
  <2>3. KeysOf(a) = KeysOf(b)
    BY <2>1, <2>2 DEF KeysOf
  <2>4. ASSUME NEW e \in Entries(a), NEW d \in Entries(b), d.key = e.key
        PROVE  DeepEq(e.value, d.value)
    <3>1. DataOf(e.value) = Below(e.key, DataOf(a)) /\ DataOf(d.value) = Below(d.key, DataOf(b))
      BY ReadEntry
    <3>2. IsData(e.value)
      BY <1>6, IsDataBelow
    <3> QED
      BY <1>6, <2>4, <3>1, <3>2 DEF Means, DataMatches
  <2> QED
    BY <1>3, <1>4, <2>1, <2>3, <2>4 DEF EntriesIn
<1> QED
  BY <1>5, <1>6 DEF Means, DataMatches, MatchIsData

(* Of two values one of which is a scalar or a function.                    *)
LEMMA LeavesMeanTheSame ==
  ASSUME NEW a \in Value, NEW b \in Value, ~(a.type = "table" /\ b.type = "table")
  PROVE  Means(a, b)
<1>1. DeepEq(a, b) <=> SameScalar(a, b)
  BY DeepEqUnfolds DEF TablesMatch
<1>2. ASSUME NEW v \in Value, v.type # "table"
      PROVE  DataOf(v) = {Here(v)} /\ (IsData(v) <=> Leaf(v)[1] # "opaque")
  <2>1. Entries(v) = {}
    BY <1>2, EntryFacts
  <2> QED
    BY <2>1, DataUnfolds, IsDataBelow
<1>3. ASSUME SameScalar(a, b), Exact(a), Exact(b)
      PROVE  IsData(a) /\ DataOf(a) = DataOf(b)
  <2>1. /\ Leaf(a) = Leaf(b) /\ a.type # "table" /\ b.type # "table"
        /\ Leaf(a)[1] # "opaque"
    BY <1>3, LeafFacts, ExactBelow
  <2> QED
    BY <1>2, <2>1 DEF Here
<1>4. ASSUME IsData(a), DataOf(a) = DataOf(b)
      PROVE  SameScalar(a, b)
  <2>1. Here(a) = Here(b)
    BY <1>4, HereFacts
  <2>2. Leaf(a) = Leaf(b)
    <3>1. Here(a).leaf = Leaf(a) /\ Here(b).leaf = Leaf(b)
      BY DEF Here
    <3> QED
      BY <2>1, <3>1
  <2>3. a.type # "table" /\ Leaf(a)[1] # "opaque"
    BY <1>2, <1>4, <2>2, LeafFacts
  <2> QED
    BY <2>2, <2>3, LeafFacts
<1> QED
  BY <1>1, <1>3, <1>4 DEF Means, DataMatches, MatchIsData

(* deep_eq is equality of data at every depth, but for the rounding.         *)
LEMMA DeepEqMeansSameData ==
  ASSUME NEW a \in Value, NEW b \in Value, OneEntryPerKey(a), OneEntryPerKey(b)
  PROVE  Means(a, b)
<1> DEFINE Right(x) == \A y \in Value : OneEntryPerKey(y) => Means(x, y)
           S == {x \in Value : OneEntryPerKey(x) /\ ~Right(x)}
<1>1. ASSUME S # {} PROVE FALSE
  <2>1. PICK rank \in [Value -> 0 .. (MaxNesting + 2)] : Nested(rank)
    BY NestingFacts
  <2>2. PICK x \in S : \A y \in S : rank[x] <= rank[y]
    <3>1. \A y \in S : rank[y] \in Nat
      OBVIOUS
    <3> HIDE DEF S
    <3> QED
      BY <1>1, <3>1, LeastRanked
  <2>3. x \in Value /\ OneEntryPerKey(x) /\ ~Right(x)
    OBVIOUS
  <2>4. ASSUME NEW e \in Entries(x) PROVE Right(e.value)
    <3>1. e.value \in Value /\ OneEntryPerKey(e.value)
      BY <2>3, EntryFacts, ValueFacts DEF Entry, Value
    <3>2. rank[e.value] < rank[x] /\ rank[e.value] \in Nat /\ rank[x] \in Nat
      BY <2>1, <2>3, <3>1 DEF Nested
    <3>3. e.value \notin S
      <4> HIDE DEF S
      <4> QED
        BY <2>2, <3>2
    <3> QED
      BY <3>1, <3>3
  <2>5. ASSUME NEW y \in Value, OneEntryPerKey(y) PROVE Means(x, y)
    <3>1. CASE x.type = "table" /\ y.type = "table"
      <4>1. \A e \in Entries(x), d \in Entries(y) : Means(e.value, d.value)
        <5>1. \A d \in Entries(y) : d.value \in Value /\ OneEntryPerKey(d.value)
          BY EntryFacts, ValueFacts DEF Entry, Value
        <5> QED
          BY <2>4, <5>1
      <4> HIDE DEF S, Right
      <4> QED
        BY <2>3, <2>5, <3>1, <4>1, TablesMeanTheSame
    <3>2. CASE ~(x.type = "table" /\ y.type = "table")
      BY <2>3, <3>2, LeavesMeanTheSame
    <3> QED
      BY <3>1, <3>2
  <2> QED
    BY <2>3, <2>5
<1> QED
  BY <1>1

----------------------------------------------------------------------------
(* The state machine.                                                       *)

ContextType == {v \in Table : OneEntryPerKey(v)}

LuaInv ==
  /\ old \in ContextType /\ new \in ContextType
  /\ answer.items \in Seq(Items)

(* A table made of entries with distinct keys is a context.                 *)
LEMMA TableOfType ==
  ASSUME NEW entries \in Seq(Entry),
         \A i, j \in DOMAIN entries : entries[i].key = entries[j].key => i = j
  PROVE  TableOf(entries) \in ContextType
  BY DEF TableOf, ContextType, Table, OneEntryPerKey

(* A table that is filled keeps one entry for a key.                        *)
LEMMA WithFieldType ==
  ASSUME NEW table \in ContextType, NEW key \in Keys, NEW value \in Values,
         NEW at \in 0 .. Len(table.pairs)
  PROVE  WithField(table, key, value, at) \in ContextType
<1> DEFINE entries == table.pairs
           entry   == [key |-> key, value |-> value]
           there   == {i \in DOMAIN entries : entries[i].key = key}
           i       == CHOOSE k \in there : TRUE
           n       == Len(entries)
<1>1. /\ entries \in Seq(Entry) /\ n \in Nat /\ DOMAIN entries = 1 .. n
      /\ \A k, l \in 1 .. n : entries[k].key = entries[l].key => k = l
      /\ entry \in Entry /\ at \in 0 .. n
  <2>1. entries \in Seq(Entry) /\ OneEntryPerKey(table)
    BY DEF ContextType, Table
  <2>2. n \in Nat /\ DOMAIN entries = 1 .. n
    BY <2>1, LenProperties
  <2>3. entry \in Entry
    BY DEF Entry
  <2> QED
    BY <2>1, <2>2, <2>3 DEF OneEntryPerKey
<1>2. there # {} => i \in 1 .. n /\ entries[i].key = key
  BY <1>1
<1>3. \A k \in 1 .. n : entries[k].key = key => k \in there
  BY <1>1
<1> DEFINE removed  == SubSeq(entries, 1, i - 1) \o SubSeq(entries, i + 1, n)
           replaced == [entries EXCEPT ![i] = entry]
           inserted == SubSeq(entries, 1, at) \o <<entry>> \o SubSeq(entries, at + 1, n)
<1>4. WithField(table, key, value, at) =
        TableOf(CASE value.type = "nil" /\ there = {} -> entries
                  [] value.type = "nil" /\ there # {} -> removed
                  [] value.type # "nil" /\ there # {} -> replaced
                  [] value.type # "nil" /\ there = {} -> inserted)
  BY DEF WithField
<1> HIDE DEF i, there, entries, entry, n
<1>5. CASE value.type = "nil" /\ there = {}
  BY <1>1, <1>4, <1>5, TableOfType
<1>6. CASE value.type = "nil" /\ there # {}
  <2>1. /\ SubSeq(entries, 1, i - 1) \in Seq(Entry)
        /\ Len(SubSeq(entries, 1, i - 1)) = i - 1
        /\ \A k \in 1 .. i - 1 : SubSeq(entries, 1, i - 1)[k] = entries[k]
    BY <1>1, <1>2, <1>6, SubSeqProperties
  <2>2. /\ SubSeq(entries, i + 1, n) \in Seq(Entry)
        /\ Len(SubSeq(entries, i + 1, n)) = n - i
        /\ \A k \in 1 .. n - i : SubSeq(entries, i + 1, n)[k] = entries[i + k]
    BY <1>1, <1>2, <1>6, SubSeqProperties
  <2>3. /\ removed \in Seq(Entry) /\ Len(removed) = n - 1
        /\ \A k \in 1 .. n - 1 :
             removed[k] = entries[IF k < i THEN k ELSE k + 1]
    <3> DEFINE s == SubSeq(entries, 1, i - 1)
               t == SubSeq(entries, i + 1, n)
    <3>1. /\ s \o t \in Seq(Entry) /\ Len(s \o t) = Len(s) + Len(t)
          /\ \A k \in 1 .. Len(s) + Len(t) :
               (s \o t)[k] = IF k <= Len(s) THEN s[k] ELSE t[k - Len(s)]
      BY <2>1, <2>2, ConcatProperties
    <3>2. /\ Len(s) = i - 1 /\ \A k \in 1 .. i - 1 : s[k] = entries[k]
          /\ Len(t) = n - i /\ \A k \in 1 .. n - i : t[k] = entries[i + k]
          /\ removed = s \o t /\ i \in 1 .. n
      BY <1>2, <1>6, <2>1, <2>2
    <3> HIDE DEF s, t, removed
    <3>3. ASSUME NEW k \in 1 .. n - 1
          PROVE  removed[k] = entries[IF k < i THEN k ELSE k + 1]
      <4>1. CASE k < i
        BY <1>1, <3>1, <3>2, <4>1
      <4>2. CASE ~(k < i)
        <5>1. k - (i - 1) \in 1 .. n - i /\ i + (k - (i - 1)) = k + 1
          BY <1>1, <3>2, <4>2
        <5>2. removed[k] = t[k - (i - 1)]
          BY <1>1, <3>1, <3>2, <4>2
        <5> QED
          BY <3>2, <4>2, <5>1, <5>2
      <4> QED
        BY <4>1, <4>2
    <3>4. removed \in Seq(Entry) /\ Len(removed) = Len(s) + Len(t)
      BY <3>1, <3>2
    <3>5. Len(s) + Len(t) = n - 1
      BY <1>1, <3>2
    <3> QED
      BY <3>3, <3>4, <3>5
  <2> HIDE DEF removed
  <2>4. \A k, l \in DOMAIN removed : removed[k].key = removed[l].key => k = l
    BY <1>1, <1>2, <1>6, <2>3
  <2> QED
    BY <1>4, <1>6, <2>3, <2>4, TableOfType
<1>7. CASE value.type # "nil" /\ there # {}
  <2>1. /\ replaced \in Seq(Entry) /\ DOMAIN replaced = 1 .. n
        /\ \A k \in 1 .. n : replaced[k].key = entries[k].key
    BY <1>1, <1>2, <1>7 DEF entry
  <2> HIDE DEF replaced
  <2>2. \A k, l \in DOMAIN replaced : replaced[k].key = replaced[l].key => k = l
    BY <1>1, <2>1
  <2> QED
    BY <1>4, <1>7, <2>1, <2>2, TableOfType
<1>8. CASE value.type # "nil" /\ there = {}
  <2>1. /\ SubSeq(entries, 1, at) \in Seq(Entry)
        /\ Len(SubSeq(entries, 1, at)) = at
        /\ \A k \in 1 .. at : SubSeq(entries, 1, at)[k] = entries[k]
    BY <1>1, SubSeqProperties
  <2>2. /\ SubSeq(entries, at + 1, n) \in Seq(Entry)
        /\ Len(SubSeq(entries, at + 1, n)) = n - at
        /\ \A k \in 1 .. n - at : SubSeq(entries, at + 1, n)[k] = entries[at + k]
    BY <1>1, SubSeqProperties
  <2>3. /\ inserted \in Seq(Entry) /\ Len(inserted) = n + 1
        /\ inserted[at + 1] = entry
        /\ \A k \in 1 .. at : inserted[k] = entries[k]
        /\ \A k \in at + 2 .. n + 1 : inserted[k] = entries[k - 1]
    <3> DEFINE s == SubSeq(entries, 1, at)
               t == SubSeq(entries, at + 1, n)
               u == s \o <<entry>>
    <3>1. /\ u \in Seq(Entry) /\ Len(u) = at + 1 /\ u[at + 1] = entry
          /\ \A k \in 1 .. at : u[k] = entries[k]
      BY <1>1, <2>1
    <3>2. /\ u \o t \in Seq(Entry) /\ Len(u \o t) = Len(u) + Len(t)
          /\ \A k \in 1 .. Len(u) + Len(t) :
               (u \o t)[k] = IF k <= Len(u) THEN u[k] ELSE t[k - Len(u)]
      <4> HIDE DEF u
      <4> QED
        BY <2>2, <3>1, ConcatProperties
    <3>3. inserted = u \o t
      OBVIOUS
    <3> HIDE DEF u, t, inserted
    <3> QED
      BY <1>1, <2>2, <3>1, <3>2, <3>3 DEF t
  <2>4. \A k \in 1 .. n : entries[k].key # key
    BY <1>3, <1>8
  <2>5. entry.key = key
    BY DEF entry
  <2> HIDE DEF inserted
  <2> DEFINE From(k) == IF k <= at THEN k ELSE k - 1
  <2>6. ASSUME NEW k \in 1 .. n + 1, k # at + 1
        PROVE  From(k) \in 1 .. n /\ inserted[k] = entries[From(k)]
    <3>1. CASE k <= at
      BY <1>1, <2>3, <3>1
    <3>2. CASE ~(k <= at)
      <4>1. k \in at + 2 .. n + 1 /\ From(k) = k - 1
        BY <1>1, <2>6, <3>2
      <4> QED
        BY <1>1, <2>3, <4>1
    <3> QED
      BY <3>1, <3>2
  <2>7. ASSUME NEW k \in 1 .. n + 1, NEW l \in 1 .. n + 1, inserted[k].key = inserted[l].key
        PROVE  k = l
    <3>1. CASE k = at + 1 \/ l = at + 1
      <4>1. \A j \in 1 .. n + 1 : j # at + 1 => inserted[j].key # key
        <5> HIDE DEF From
        <5> QED
          BY <2>4, <2>6
      <4>2. inserted[at + 1].key = key
        BY <2>3, <2>5
      <4> QED
        BY <2>7, <3>1, <4>1, <4>2
    <3>2. CASE k # at + 1 /\ l # at + 1
      <4>1. From(k) = From(l)
        <5> HIDE DEF From
        <5> QED
          BY <1>1, <2>6, <2>7, <3>2
      <4> QED
        BY <1>1, <3>2, <4>1
    <3> QED
      BY <3>1, <3>2
  <2>8. \A k, l \in DOMAIN inserted : inserted[k].key = inserted[l].key => k = l
    BY <2>3, <2>7
  <2> QED
    BY <1>4, <1>8, <2>3, <2>8, TableOfType
<1> QED
  BY <1>5, <1>6, <1>7, <1>8

(* The tables of contexts have one entry for a key, and answers list items.  *)
LEMMA LuaInvariance == Spec => []LuaInv
<1>1. Init => LuaInv
  <2>1. TableOf(<<>>) \in ContextType
    <3>1. <<>> \in Seq(Entry) /\ DOMAIN <<>> = {}
      OBVIOUS
    <3> QED
      BY <3>1, TableOfType
  <2>2. <<>> \in Seq(Items)
    OBVIOUS
  <2> QED
    BY <2>1, <2>2 DEF Init, LuaInv, Answer
<1>2. LuaInv /\ [Next]_vars => LuaInv'
  <2> SUFFICES ASSUME LuaInv, [Next]_vars PROVE LuaInv'
    OBVIOUS
  <2>1. CASE Load
    BY <2>1 DEF Load, LuaInv
  <2>2. ASSUME NEW key \in Keys, NEW value \in Values, SetField(key, value) PROVE LuaInv'
    <3>1. \/ new' = new /\ \E at \in 0 .. Len(old.pairs) : old' = WithField(old, key, value, at)
          \/ old' = old /\ \E at \in 0 .. Len(new.pairs) : new' = WithField(new, key, value, at)
      BY <2>2 DEF SetField
    <3>2. old' \in ContextType /\ new' \in ContextType
      BY <3>1, WithFieldType DEF LuaInv
    <3> QED
      BY <2>2, <3>2 DEF SetField, LuaInv
  <2>3. ASSUME NEW is, Say(is) PROVE LuaInv'
    BY <2>3 DEF Say, LuaInv, Answer
  <2>4. ASSUME NEW item \in Items, ListItem(item) PROVE LuaInv'
    <3>1. Append(answer.items, item) \in Seq(Items)
      BY AppendProperties DEF LuaInv
    <3> QED
      BY <2>4, <3>1 DEF ListItem, LuaInv, Answer
  <2>5. CASE UNCHANGED vars
    BY <2>5 DEF vars, LuaInv
  <2> QED
    BY <2>1, <2>2, <2>3, <2>4, <2>5 DEF Next
<1> QED
  BY <1>1, <1>2, PTL DEF Spec

(* Contexts that are the same data match, however their tables were filled   *)
(* and in whatever order they list their fields; those that match are the    *)
(* same data, unless a number in them changes when it is rounded to a float.  *)
THEOREM ContextsMatchAsData == Spec => []ReuseMatchesSameData
<1>1. LuaInv => ReuseMatchesSameData
  <2> SUFFICES ASSUME LuaInv PROVE ReuseMatchesSameData
    OBVIOUS
  <2>1. /\ old \in Value /\ new \in Value
        /\ OneEntryPerKey(old) /\ OneEntryPerKey(new)
    BY DEF LuaInv, ContextType, Value
  <2> QED
    BY <2>1, DeepEqMeansSameData DEF Means, DataMatches, MatchIsData, ReuseMatchesSameData
<1> QED
  BY <1>1, LuaInvariance, PTL

----------------------------------------------------------------------------
(* Answers.                                                                *)

(* The sequence of a table: its items up to the first that is missing.      *)
LEMMA SequenceType ==
  ASSUME NEW items \in Seq(Items)
  PROVE  /\ Sequence(items) \in Seq(Items) /\ Len(Sequence(items)) <= Len(items)
         /\ \A k \in 1 .. Len(Sequence(items)) : Sequence(items)[k] = items[k]
<1> DEFINE nils == {i \in DOMAIN items : items[i].is = "nil"}
           first == CHOOSE i \in nils : \A j \in nils : i <= j
<1>1. Len(items) \in Nat /\ DOMAIN items = 1 .. Len(items)
  BY LenProperties
<1>2. CASE nils = {}
  BY <1>1, <1>2 DEF Sequence
<1>3. CASE nils # {}
  <2>1. first \in 1 .. Len(items)
    <3>1. nils \in SUBSET Nat
      BY <1>1
    <3>2. \E i \in nils : \A j \in nils : i <= j
      <4> HIDE DEF nils
      <4> QED
        BY <1>3, <3>1, LeastNatural
    <3>3. first \in nils
      <4> HIDE DEF nils
      <4> QED
        BY <3>2
    <3> QED
      BY <1>1, <3>3
  <2>2. Sequence(items) = SubSeq(items, 1, first - 1)
    BY <1>3 DEF Sequence
  <2> HIDE DEF first
  <2> QED
    BY <1>1, <2>1, <2>2, SubSeqProperties
<1> QED
  BY <1>2, <1>3

(* Whatever items a script lists, and wherever one of them is wrong, its     *)
(* answer becomes one child for each of them in order, or a failure.         *)
THEOREM AnswersStayWhole == Spec => []AnswersAreTakenWhole
<1>1. LuaInv => AnswersAreTakenWhole
  <2> SUFFICES ASSUME LuaInv PROVE AnswersAreTakenWhole
    OBVIOUS
  <2> DEFINE items == Sequence(answer.items)
             o == TryParse(answer, Region)
             kids == Children(items, Region)
  <2>1. /\ items \in Seq(Items) /\ Len(items) \in Nat /\ DOMAIN items = 1 .. Len(items)
        /\ \A k \in 1 .. Len(items) : items[k] = answer.items[k] /\ items[k] \in Items
    BY SequenceType, LenProperties, ElementOfSeq DEF LuaInv
  <2>2. \/ o.kind # "Expand" /\ o.children = <<>>
        \/ /\ o.kind = "Expand" /\ o.children = kids
           /\ \A k \in DOMAIN items : Usable(items[k])
    BY DEF TryParse
  <2> HIDE DEF items, o
  <2>3. /\ DOMAIN kids = 1 .. Len(items) /\ Len(kids) = Len(items)
        /\ \A k \in 1 .. Len(items) :
             kids[k].span = SpanOf(items[k].start, items[k].end, Region.rev)
    BY <2>1 DEF Children
  <2> HIDE DEF kids
  <2>4. ASSUME NEW k \in 1 .. Len(items), Usable(items[k])
        PROVE  /\ kids[k].span \in Span /\ kids[k].span.rev = Region.rev
               /\ kids[k].span.start = answer.items[k].start
    <3>1. /\ items[k].start \in Nat \union {Missing} /\ items[k].end \in Nat \union {Missing}
          /\ Region \in Span
      BY <2>1, AnswersAssumption
    <3>2. items[k].start \in Nat /\ items[k].end \in Nat /\ items[k].start <= items[k].end
      BY <2>4, <3>1 DEF Usable, HasRange
    <3>3. Region.rev \in Nat
      BY <3>1 DEF Span
    <3>4. SpanOf(items[k].start, items[k].end, Region.rev) \in Span
      BY <3>2, <3>3 DEF SpanOf, Span
    <3>5. kids[k].span = SpanOf(items[k].start, items[k].end, Region.rev)
      BY <2>3
    <3> QED
      BY <2>1, <3>4, <3>5 DEF SpanOf
  <2>5. CASE o.kind # "Expand" /\ o.children = <<>>
    BY <2>5 DEF AnswersAreTakenWhole, o
  <2>6. CASE /\ o.kind = "Expand" /\ o.children = kids
             /\ \A k \in DOMAIN items : Usable(items[k])
    <3>1. \A k \in 1 .. Len(items) :
            /\ o.children[k].span \in Span /\ o.children[k].span.rev = Region.rev
            /\ o.children[k].span.start = answer.items[k].start
      BY <2>1, <2>4, <2>6
    <3>2. DOMAIN o.children = 1 .. Len(items) /\ Len(o.children) = Len(items)
      BY <2>3, <2>6
    <3> QED
      BY <2>6, <3>1, <3>2 DEF AnswersAreTakenWhole, o, items
  <2> QED
    BY <2>2, <2>5, <2>6
<1> QED
  BY <1>1, LuaInvariance, PTL

============================================================================
