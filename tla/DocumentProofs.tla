--------------------------- MODULE DocumentProofs ---------------------------
(* A document follows its client, for every text, encoding and number of    *)
(* changes: the theorems about Document, and what they need of Positions.   *)
EXTENDS Document, SpansProofs, FiniteSetTheorems,
        SequenceTheorems

----------------------------------------------------------------------------
(* Code units.                                                             *)

(* The characters of a stretch that are at least w units wide.              *)
Wide(enc, s, w, from, to) == {i \in (from + 1) .. to : Width[enc][s[i]] >= w}

(* Characters of more than one unit, between two places: finitely many.     *)
LEMMA WideFinite ==
  ASSUME NEW enc, NEW s, NEW w, NEW a \in Nat, NEW b \in Nat
  PROVE  /\ IsFiniteSet(Wide(enc, s, w, a, b))
         /\ Cardinality(Wide(enc, s, w, a, b)) \in Nat
  <1>1. IsFiniteSet((a + 1) .. b)
    BY FS_Interval, a + 1 \in Int, b \in Int
  <1>2. Wide(enc, s, w, a, b) \in SUBSET ((a + 1) .. b)
    BY DEF Wide
  <1>3. IsFiniteSet(Wide(enc, s, w, a, b))
    BY <1>1, <1>2, FS_Subset, Zenon
  <1> QED
    BY <1>3, FS_CardinalityType

(* They add up over two stretches of text,                                  *)
LEMMA WideSplit ==
  ASSUME NEW enc, NEW s, NEW w, NEW a \in Nat, NEW b \in Nat, NEW c \in Nat,
         a <= b, b <= c
  PROVE  Cardinality(Wide(enc, s, w, a, c))
           = Cardinality(Wide(enc, s, w, a, b)) + Cardinality(Wide(enc, s, w, b, c))
  <1> DEFINE U == Wide(enc, s, w, a, b)
             V == Wide(enc, s, w, b, c)
  <1>1. Wide(enc, s, w, a, c) = U \cup V /\ U \cap V = {}
    BY DEF Wide
  <1>2. IsFiniteSet(U) /\ IsFiniteSet(V)
    BY WideFinite
  <1>3. Cardinality(U) \in Nat /\ Cardinality(V) \in Nat
    BY WideFinite
  <1> HIDE DEF U, V
  <1>4. Cardinality(U \cup V) = Cardinality(U) + Cardinality(V) - Cardinality(U \cap V)
    BY <1>2, FS_Union
  <1>5. Cardinality(U \cap V) = 0
    BY <1>1, FS_EmptySet
  <1>6. Cardinality(U \cup V) = Cardinality(U) + Cardinality(V)
    BY <1>3, <1>4, <1>5
  <1> QED
    BY <1>1, <1>6 DEF U, V

(* What s has between two places stands d places further in t.              *)
Carries(s, from, to, t, d) == \A i \in (from + 1) .. to : t[i + d] = s[i]

(* and stay as many where the text is moved.                                *)
LEMMA WideShift ==
  ASSUME NEW enc, NEW s, NEW t, NEW w, NEW a \in Nat, NEW b \in Nat, NEW d \in Int,
         Carries(s, a, b, t, d)
  PROVE  Cardinality(Wide(enc, t, w, a + d, b + d)) = Cardinality(Wide(enc, s, w, a, b))
  <1> DEFINE U == Wide(enc, s, w, a, b)
             V == Wide(enc, t, w, a + d, b + d)
             f == [i \in U |-> i + d]
  <1>1. U \subseteq Int
    BY DEF Wide
  <1>2. f \in [U -> V]
    BY DEF Wide, Carries
  <1>3. ASSUME NEW i \in U, NEW j \in U, f[i] = f[j] PROVE i = j
    <2>1. i \in Int /\ j \in Int
      BY <1>1
    <2>2. i + d = j + d
      BY <1>3
    <2> QED
      BY <2>1, <2>2
  <1>4. ASSUME NEW j \in V PROVE \E i \in U : f[i] = j
    <2>1. j \in (a + d + 1) .. (b + d) /\ Width[enc][t[j]] >= w
      BY DEF Wide
    <2>2. j - d \in (a + 1) .. b /\ (j - d) + d = j
      BY <2>1
    <2>3. t[j] = s[j - d]
      BY <2>2 DEF Carries
    <2>4. j - d \in U
      BY <2>1, <2>2, <2>3 DEF Wide
    <2> QED
      BY <2>2, <2>4
  <1>5. IsFiniteSet(U)
    BY WideFinite
  <1> HIDE DEF U, V, f
  <1>6. f \in Bijection(U, V)
    BY <1>2, <1>3, <1>4 DEF Bijection, Injection, Surjection, IsInjective
  <1>7. Cardinality(V) = Cardinality(U)
    BY <1>5, <1>6, FS_Bijection DEF ExistsBijection
  <1> QED
    BY <1>7 DEF U, V

(* The length of a stretch in units: one per character, and the rest.       *)
LEMMA UnitsIsSum ==
  ASSUME NEW enc, NEW s, NEW a, NEW b
  PROVE  Units(enc, s, a, b)
           = (b - a) + Cardinality(Wide(enc, s, 2, a, b))
                     + 2 * Cardinality(Wide(enc, s, 4, a, b))
  BY DEF Units, Wide

(* A stretch has a unit for each character at least,                        *)
LEMMA UnitsType ==
  ASSUME NEW enc, NEW s, NEW a \in Nat, NEW b \in Nat, a <= b
  PROVE  Units(enc, s, a, b) \in Nat /\ Units(enc, s, a, b) >= b - a
  BY UnitsIsSum, WideFinite

(* adds up with the stretch behind it,                                     *)
LEMMA UnitsAdd ==
  ASSUME NEW enc, NEW s, NEW a \in Nat, NEW b \in Nat, NEW c \in Nat,
         a <= b, b <= c
  PROVE  Units(enc, s, a, c) = Units(enc, s, a, b) + Units(enc, s, b, c)
  <1> DEFINE U(w, x, y) == Cardinality(Wide(enc, s, w, x, y))
  <1>1. /\ U(2, a, c) = U(2, a, b) + U(2, b, c)
        /\ U(4, a, c) = U(4, a, b) + U(4, b, c)
    BY WideSplit
  <1>2. /\ U(2, a, b) \in Nat /\ U(2, b, c) \in Nat
        /\ U(4, a, b) \in Nat /\ U(4, b, c) \in Nat
    BY WideFinite
  <1>3. /\ Units(enc, s, a, c) = (c - a) + U(2, a, c) + 2 * U(4, a, c)
        /\ Units(enc, s, a, b) = (b - a) + U(2, a, b) + 2 * U(4, a, b)
        /\ Units(enc, s, b, c) = (c - b) + U(2, b, c) + 2 * U(4, b, c)
    BY UnitsIsSum
  <1> HIDE DEF U
  <1> QED
    BY <1>1, <1>2, <1>3

(* has as many units wherever it stands,                                    *)
LEMMA UnitsMoved ==
  ASSUME NEW enc, NEW s, NEW t, NEW a \in Nat, NEW b \in Nat, NEW d \in Int,
         Carries(s, a, b, t, d)
  PROVE  Units(enc, t, a + d, b + d) = Units(enc, s, a, b)
  <1>1. /\ Cardinality(Wide(enc, t, 2, a + d, b + d)) = Cardinality(Wide(enc, s, 2, a, b))
        /\ Cardinality(Wide(enc, t, 4, a + d, b + d)) = Cardinality(Wide(enc, s, 4, a, b))
    BY WideShift
  <1>2. (b + d) - (a + d) = b - a
    OBVIOUS
  <1> QED
    BY <1>1, <1>2, UnitsIsSum

(* A text carried along keeps its length in units.                          *)
LEMMA UnitsFromZero ==
  ASSUME NEW enc, NEW s, NEW t, NEW n \in Nat, NEW d \in Nat,
         Carries(s, 0, n, t, d)
  PROVE  Units(enc, t, d, d + n) = Units(enc, s, 0, n)
  <1>1. ASSUME NEW z \in Nat, z = 0
        PROVE  Units(enc, t, z + d, n + d) = Units(enc, s, z, n)
    <2>1. Carries(s, z, n, t, d) /\ d \in Int
      BY <1>1
    <2> QED
      BY <2>1, UnitsMoved
  <1>2. ASSUME NEW z \in Nat, z = 0
        PROVE  z + d = d /\ n + d = d + n
    BY <1>2
  <1>3. 0 \in Nat
    OBVIOUS
  <1> QED
    BY <1>1, <1>2, <1>3, Zenon

(* and a line feed is one unit.                                            *)
LEMMA UnitsOfLf ==
  ASSUME NEW enc \in Encoding, NEW s, NEW p \in Nat, s[p + 1] = "lf"
  PROVE  Units(enc, s, p, p + 1) = 1
  <1>1. Width[enc]["lf"] = 1
    BY DEF Width, Encoding
  <1>2. \A i \in (p + 1) .. (p + 1) : Width[enc][s[i]] = 1
    BY <1>1
  <1>3. Wide(enc, s, 2, p, p + 1) = {} /\ Wide(enc, s, 4, p, p + 1) = {}
    BY <1>2 DEF Wide
  <1>4. Cardinality({}) = 0
    BY FS_EmptySet
  <1> QED
    BY <1>3, <1>4, UnitsIsSum

(* Hence more characters are more units.                                   *)
LEMMA UnitsGrow ==
  ASSUME NEW enc, NEW s, NEW a \in Nat, NEW b \in Nat, NEW c \in Nat,
         a <= b, b <= c
  PROVE  /\ Units(enc, s, a, c) >= Units(enc, s, a, b)
         /\ b < c => Units(enc, s, a, c) > Units(enc, s, a, b)
  <1>1. /\ Units(enc, s, a, c) = Units(enc, s, a, b) + Units(enc, s, b, c)
        /\ Units(enc, s, a, b) \in Nat
        /\ Units(enc, s, b, c) \in Nat /\ Units(enc, s, b, c) >= c - b
    BY UnitsAdd, UnitsType
  <1> QED
    BY <1>1

----------------------------------------------------------------------------
(* Places and byte offsets.                                                *)

(* A place is at a byte no smaller than its number,                         *)
LEMMA ByteAtType ==
  ASSUME NEW s, NEW p \in Nat
  PROVE  ByteAt(s, p) \in Nat /\ ByteAt(s, p) >= p
  BY UnitsType DEF ByteAt

(* the first at byte 0,                                                     *)
LEMMA ByteAtZero ==
  ASSUME NEW s
  PROVE  ByteAt(s, 0) = 0
  <1>1. Wide("utf8", s, 2, 0, 0) = {} /\ Wide("utf8", s, 4, 0, 0) = {}
    BY DEF Wide
  <1>2. Cardinality({}) = 0
    BY FS_EmptySet
  <1> QED
    BY <1>1, <1>2, UnitsIsSum DEF ByteAt

(* Byte offsets are ordered as the places they belong to.                   *)
LEMMA ByteAtOrder ==
  ASSUME NEW s, NEW p \in Nat, NEW q \in Nat
  PROVE  /\ p <= q <=> ByteAt(s, p) <= ByteAt(s, q)
         /\ p < q <=> ByteAt(s, p) < ByteAt(s, q)
         /\ p = q <=> ByteAt(s, p) = ByteAt(s, q)
  <1>1. \A a, b \in Nat : a < b => ByteAt(s, a) < ByteAt(s, b)
    BY UnitsGrow, UnitsType, 0 \in Nat DEF ByteAt
  <1>2. ByteAt(s, p) \in Nat /\ ByteAt(s, q) \in Nat
    BY ByteAtType
  <1>3. p < q \/ p = q \/ q < p
    OBVIOUS
  <1> QED
    BY <1>1, <1>2, <1>3

(* and the byte of a place leads back to the place.                         *)
LEMMA PlaceAtByte ==
  ASSUME NEW s, Len(s) \in Nat, NEW p \in 0 .. Len(s)
  PROVE  PlaceAt(s, ByteAt(s, p)) = p
  <1> DEFINE P(q) == /\ ByteAt(s, q) <= ByteAt(s, p)
                     /\ q < Len(s) => ByteAt(s, q + 1) > ByteAt(s, p)
  <1>1. P(p)
    BY ByteAtOrder, ByteAtType
  <1>2. ASSUME NEW q \in 0 .. Len(s), P(q) PROVE q = p
    <2>1. q <= p
      BY <1>2, ByteAtOrder
    <2>2. q < Len(s) => p < q + 1
      BY <1>2, ByteAtOrder, ByteAtType
    <2> QED
      BY <2>1, <2>2
  <1> HIDE DEF P
  <1>3. (CHOOSE q \in 0 .. Len(s) : P(q)) = p
    BY <1>1, <1>2
  <1> QED
    BY <1>3 DEF PlaceAt, P

(* A stretch of a line in bytes.                                           *)
LEMMA BytesBetween ==
  ASSUME NEW s, NEW p \in Nat, NEW q \in Nat, p <= q
  PROVE  ByteAt(s, q) = ByteAt(s, p) + Units("utf8", s, p, q)
  BY UnitsAdd, 0 \in Nat DEF ByteAt

----------------------------------------------------------------------------
(* Lines.                                                                  *)

(* The line feeds up to a place, the number of its line,                    *)
Lfs(s, p) == {q \in 1 .. p : s[q] = "lf"}

LineOf(s, p) == Cardinality(Lfs(s, p))

(* and where that line starts.                                             *)
StartsLine(s, p) == p = 0 \/ s[p] = "lf"

LineFrom(s, p) ==
  IF Lfs(s, p) = {} THEN 0 ELSE CHOOSE q \in Lfs(s, p) : \A r \in Lfs(s, p) : r <= q

(* Finitely many lines end before a place.                                  *)
LEMMA LfsFinite ==
  ASSUME NEW s, NEW p \in Nat
  PROVE  IsFiniteSet(Lfs(s, p)) /\ LineOf(s, p) \in Nat
  <1>1. IsFiniteSet(1 .. p)
    BY FS_Interval, 1 \in Int, p \in Int
  <1>2. Lfs(s, p) \in SUBSET (1 .. p)
    BY DEF Lfs
  <1>3. IsFiniteSet(Lfs(s, p))
    BY <1>1, <1>2, FS_Subset, Zenon
  <1> QED
    BY <1>3, FS_CardinalityType DEF LineOf

(* A non-empty set of naturals with an upper bound has a greatest element.  *)
LEMMA GreatestNatural ==
  ASSUME NEW n \in Nat, NEW S \in SUBSET (0 .. n), S # {}
  PROVE  \E x \in S : \A y \in S : y <= x
  <1> DEFINE T == {z \in Nat : z <= n /\ n - z \in S}
  <1>1. T \in SUBSET Nat
    OBVIOUS
  <1>2. PICK x \in S : TRUE
    OBVIOUS
  <1>3. n - x \in Nat /\ n - x <= n /\ n - (n - x) = x
    BY <1>2
  <1>4. n - x \in T
    BY <1>2, <1>3
  <1>5. \A y \in S : n - y \in Nat /\ n - y <= n /\ n - (n - y) = y
    OBVIOUS
  <1>6. \A y \in S : n - y \in T
    BY <1>5
  <1>7. PICK z \in T : \A y \in T : z <= y
    BY <1>1, <1>4, LeastNatural
  <1>8. n - z \in S /\ z \in Nat
    OBVIOUS
  <1>9. \A y \in S : y <= n - z
    BY <1>6, <1>7, <1>8
  <1> QED
    BY <1>8, <1>9

(* Where the line of a place starts.                                        *)
LEMMA LineFromFacts ==
  ASSUME NEW s, NEW p \in Nat
  PROVE  /\ LineFrom(s, p) \in 0 .. p
         /\ StartsLine(s, LineFrom(s, p))
         /\ Lfs(s, LineFrom(s, p)) = Lfs(s, p)
         /\ StartsLine(s, p) => LineFrom(s, p) = p
  <1> DEFINE L == Lfs(s, p)
             f == LineFrom(s, p)
  <1>1. CASE L = {}
    <2>1. f = 0
      BY <1>1 DEF LineFrom
    <2>2. StartsLine(s, p) => p = 0
      BY <1>1 DEF StartsLine, Lfs
    <2>3. Lfs(s, 0) = {}
      BY DEF Lfs
    <2> QED
      BY <1>1, <2>1, <2>2, <2>3 DEF StartsLine
  <1>2. CASE L # {}
    <2>1. L \in SUBSET (0 .. p)
      BY DEF Lfs
    <2>2. \E x \in L : \A y \in L : y <= x
      BY <1>2, <2>1, GreatestNatural
    <2>3. f = CHOOSE q \in L : \A r \in L : r <= q
      BY <1>2 DEF LineFrom
    <2>4. f \in L /\ \A r \in L : r <= f
      BY <2>2, <2>3
    <2>5. f \in 1 .. p /\ s[f] = "lf"
      BY <2>4 DEF Lfs
    <2>6. Lfs(s, f) = L
      BY <2>4, <2>5 DEF Lfs
    <2>7. StartsLine(s, p) => p \in L
      BY <1>2 DEF StartsLine, Lfs
    <2> HIDE DEF L, f
    <2>8. StartsLine(s, p) => f = p
      BY <2>4, <2>5, <2>7
    <2> QED
      BY <2>5, <2>6, <2>8 DEF StartsLine, L, f
  <1> QED
    BY <1>1, <1>2

(* The offsets in the index up to a place are its line's start and those of  *)
(* the lines before it; and as many up to any offset before the next line.   *)
NextLineAfter(s, p, b) == \A q \in (p + 1) .. Len(s) : s[q] = "lf" => ByteAt(s, q) > b

Starts(s) == LineIndex(s).starts

(* The line starts up to a byte in the line of a place: one per line.       *)
LEMMA StartsUpTo ==
  ASSUME NEW s, Len(s) \in Nat, NEW p \in 0 .. Len(s), NEW b \in Nat,
         ByteAt(s, p) <= b, NextLineAfter(s, p, b)
  PROVE  /\ IsFiniteSet({c \in Starts(s) : c <= b})
         /\ Cardinality({c \in Starts(s) : c <= b}) = LineOf(s, p) + 1
  <1> DEFINE L == Lfs(s, p)
             I == {c \in Starts(s) : c <= b} \ {0}
             f == [q \in L |-> ByteAt(s, q)]
  <1>1. Starts(s) = {0} \cup {ByteAt(s, q) : q \in {r \in 1 .. Len(s) : s[r] = "lf"}}
    BY DEF Starts, LineIndex
  <1>2. \A q \in L : q \in Nat /\ q > 0 /\ q <= p /\ q \in 1 .. Len(s) /\ s[q] = "lf"
    BY DEF Lfs
  <1>3. \A q \in L : ByteAt(s, q) \in Nat /\ ByteAt(s, q) # 0 /\ ByteAt(s, q) <= b
    <2> TAKE q \in L
    <2>1. ByteAt(s, q) \in Nat /\ ByteAt(s, q) >= q
      BY <1>2, ByteAtType
    <2>2. ByteAt(s, q) <= ByteAt(s, p) /\ ByteAt(s, p) \in Nat
      BY <1>2, ByteAtOrder, ByteAtType
    <2> QED
      BY <1>2, <2>1, <2>2
  <1>4. f \in [L -> I]
    BY <1>1, <1>2, <1>3
  <1>5. \A q, r \in L : f[q] = f[r] => q = r
    BY <1>2, ByteAtOrder
  <1>6. ASSUME NEW c \in I PROVE \E q \in L : f[q] = c
    <2>1. PICK q \in 1 .. Len(s) : s[q] = "lf" /\ c = ByteAt(s, q)
      BY <1>1
    <2>2. ~(q > p)
      BY <2>1, ByteAtType DEF NextLineAfter
    <2>3. q \in L
      BY <2>1, <2>2 DEF Lfs
    <2> QED
      BY <2>1, <2>3
  <1>7. IsFiniteSet(L)
    BY LfsFinite
  <1>8. {c \in Starts(s) : c <= b} = I \cup {0} /\ 0 \notin I
    BY <1>1
  <1> HIDE DEF L, I, f
  <1>9. f \in Bijection(L, I)
    BY <1>4, <1>5, <1>6 DEF Bijection, Injection, Surjection, IsInjective
  <1>10. IsFiniteSet(I) /\ Cardinality(I) = Cardinality(L)
    BY <1>7, <1>9, FS_Bijection DEF ExistsBijection
  <1>11. IsFiniteSet(I \cup {0}) /\ Cardinality(I \cup {0}) = Cardinality(I) + 1
    BY <1>8, <1>10, FS_AddElement
  <1> QED
    BY <1>8, <1>10, <1>11 DEF L, LineOf

(* Which offsets start a line.                                             *)
LEMMA StartsFacts ==
  ASSUME NEW s, Len(s) \in Nat
  PROVE  /\ 0 \in Starts(s)
         /\ \A c \in Starts(s) : c \in Nat /\ c <= ByteLen(s)
         /\ \A p \in 0 .. Len(s) : StartsLine(s, p) => ByteAt(s, p) \in Starts(s)
  <1>1. Starts(s) = {0} \cup {ByteAt(s, q) : q \in {r \in 1 .. Len(s) : s[r] = "lf"}}
    BY DEF Starts, LineIndex
  <1>2. ByteLen(s) \in Nat
    BY ByteAtType DEF ByteLen
  <1>3. ASSUME NEW c \in Starts(s) PROVE c \in Nat /\ c <= ByteLen(s)
    <2>1. CASE c = 0
      BY <1>2, <2>1
    <2>2. CASE c # 0
      <3>1. PICK q \in 1 .. Len(s) : c = ByteAt(s, q)
        BY <1>1, <2>2
      <3>2. q \in Nat /\ q <= Len(s)
        OBVIOUS
      <3> QED
        BY <3>1, <3>2, ByteAtOrder, ByteAtType DEF ByteLen
    <2> QED
      BY <2>1, <2>2
  <1>4. ASSUME NEW p \in 0 .. Len(s), StartsLine(s, p) PROVE ByteAt(s, p) \in Starts(s)
    <2>1. CASE p = 0
      BY <1>1, <2>1, ByteAtZero
    <2>2. CASE p # 0
      <3>1. p \in 1 .. Len(s) /\ s[p] = "lf"
        BY <1>4, <2>2 DEF StartsLine
      <3> QED
        BY <1>1, <3>1
    <2> QED
      BY <2>1, <2>2
  <1> QED
    BY <1>1, <1>3, <1>4

(* Two offsets that start lines have different numbers of lines before them. *)
LEMMA LinesAreCounted ==
  ASSUME NEW s, Len(s) \in Nat, IsFiniteSet(Starts(s)),
         NEW b \in Starts(s), NEW c \in Starts(s), b < c
  PROVE  Cardinality({d \in Starts(s) : d < b}) # Cardinality({d \in Starts(s) : d < c})
  <1> DEFINE B == {d \in Starts(s) : d < b}
             C == {d \in Starts(s) : d < c}
  <1>1. \A d \in Starts(s) : d \in Nat
    BY StartsFacts
  <1>2. B \cup {b} \subseteq C /\ b \notin B
    BY <1>1
  <1>3. IsFiniteSet(B) /\ IsFiniteSet(C)
    <2>1. B \in SUBSET Starts(s) /\ C \in SUBSET Starts(s)
      OBVIOUS
    <2> HIDE DEF B, C
    <2> QED
      BY <2>1, FS_Subset, Zenon
  <1> HIDE DEF B, C
  <1>4. Cardinality(B) \in Nat
    BY <1>3, FS_CardinalityType
  <1>5. Cardinality(B \cup {b}) = Cardinality(B) + 1
    BY <1>2, <1>3, FS_AddElement
  <1>6. Cardinality(B \cup {b}) <= Cardinality(C)
    BY <1>2, <1>3, FS_Subset
  <1>7. Cardinality(C) \in Nat
    BY <1>3, FS_CardinalityType
  <1>8. Cardinality(B) # Cardinality(C)
    BY <1>4, <1>5, <1>6, <1>7
  <1> QED
    BY <1>8 DEF B, C

(* There are as many line starts as lines.                                  *)
LEMMA StartsFinite ==
  ASSUME NEW s, Len(s) \in Nat
  PROVE  /\ IsFiniteSet(Starts(s))
         /\ LineCount(LineIndex(s)) = LineOf(s, Len(s)) + 1
  <1>1. \A c \in Starts(s) : c \in Nat /\ c <= ByteLen(s)
    BY StartsFacts
  <1>2. {c \in Starts(s) : c <= ByteLen(s)} = Starts(s)
    BY <1>1
  <1>3. ByteLen(s) \in Nat /\ ByteAt(s, Len(s)) <= ByteLen(s)
    BY ByteAtType DEF ByteLen
  <1>4. NextLineAfter(s, Len(s), ByteLen(s))
    BY DEF NextLineAfter
  <1>5. Len(s) \in 0 .. Len(s)
    OBVIOUS
  <1>6. /\ IsFiniteSet({c \in Starts(s) : c <= ByteLen(s)})
        /\ Cardinality({c \in Starts(s) : c <= ByteLen(s)}) = LineOf(s, Len(s)) + 1
    BY <1>3, <1>4, <1>5, StartsUpTo
  <1> QED
    BY <1>2, <1>6 DEF LineCount, Starts

(* line_start of the line a place is on is where that line starts.          *)
LEMMA LineStartOfPlace ==
  ASSUME NEW s, Len(s) \in Nat, NEW p \in 0 .. Len(s)
  PROVE  LineStart(LineIndex(s), LineOf(s, p)) = ByteAt(s, LineFrom(s, p))
  <1> DEFINE f == LineFrom(s, p)
             b == ByteAt(s, f)
             N(c) == Cardinality({d \in Starts(s) : d < c})
  <1>1. /\ f \in 0 .. p /\ f \in 0 .. Len(s) /\ StartsLine(s, f)
        /\ LineOf(s, f) = LineOf(s, p)
    BY LineFromFacts DEF LineOf
  <1>2. b \in Starts(s)
    BY <1>1, StartsFacts
  <1>3. b \in Nat /\ b <= b
    BY <1>1, ByteAtType
  <1>4. NextLineAfter(s, f, b)
    BY <1>1, ByteAtOrder DEF NextLineAfter
  <1>5. /\ IsFiniteSet({c \in Starts(s) : c <= b})
        /\ Cardinality({c \in Starts(s) : c <= b}) = LineOf(s, f) + 1
    BY <1>1, <1>3, <1>4, StartsUpTo
  <1>6. \A d \in Starts(s) : d \in Nat
    BY StartsFacts
  <1>7. {d \in Starts(s) : d < b} = {c \in Starts(s) : c <= b} \ {b}
    BY <1>3, <1>6
  <1>8. N(b) = LineOf(s, f)
    <2>1. b \in {c \in Starts(s) : c <= b}
      BY <1>2, <1>3
    <2>2. LineOf(s, f) \in Nat
      BY <1>1, LfsFinite
    <2>3. Cardinality({c \in Starts(s) : c <= b} \ {b})
            = Cardinality({c \in Starts(s) : c <= b}) - 1
      BY <1>5, <2>1, FS_RemoveElement
    <2>4. Cardinality({c \in Starts(s) : c <= b} \ {b}) = LineOf(s, f)
      BY <1>5, <2>2, <2>3
    <2> QED
      BY <1>7, <2>4, Zenon
  <1>9. ASSUME NEW c \in Starts(s), N(c) = N(b) PROVE c = b
    <2>1. ~(c < b) /\ ~(b < c)
      BY <1>2, <1>9, LinesAreCounted, StartsFinite
    <2> QED
      BY <1>3, <1>6, <2>1
  <1> HIDE DEF b, N
  <1>10. (CHOOSE c \in Starts(s) : N(c) = LineOf(s, p)) = b
    BY <1>1, <1>2, <1>8, <1>9
  <1> QED
    BY <1>10 DEF LineStart, Starts, N, b

(* The end of a line: the first place at or after p where one ends.         *)
IsLineTo(s, p, e) ==
  /\ e \in p .. Len(s) /\ EndsLine(s, e)
  /\ \A q \in p .. (e - 1) : ~EndsLine(s, q)

(* Every line has an end,                                                   *)
LEMMA LineToExists ==
  ASSUME NEW s, Len(s) \in Nat, NEW p \in 0 .. Len(s)
  PROVE  \E e \in p .. Len(s) : IsLineTo(s, p, e)
  <1> DEFINE E == {e \in p .. Len(s) : EndsLine(s, e)}
  <1>1. E \in SUBSET Nat /\ Len(s) \in E
    BY DEF EndsLine
  <1>2. PICK e \in E : \A q \in E : e <= q
    BY <1>1, LeastNatural
  <1>3. \A q \in p .. (e - 1) : q \in p .. Len(s) /\ ~(e <= q)
    OBVIOUS
  <1> QED
    BY <1>2, <1>3 DEF IsLineTo

(* and there is nothing but the line before it.                             *)
LEMMA LineToFacts ==
  ASSUME NEW s, Len(s) \in Nat, NEW p \in 0 .. Len(s), NEW e, IsLineTo(s, p, e)
  PROVE  /\ e \in p .. Len(s)
         /\ \A q \in (p + 1) .. e : s[q] # "lf"
         /\ \A q \in p .. e : Lfs(s, q) = Lfs(s, p)
         /\ e < Len(s) => s[e + 1] = "lf"
         /\ EndsLine(s, p) => e = p
  <1>1. e \in p .. Len(s) /\ EndsLine(s, e)
    BY DEF IsLineTo
  <1>2. ASSUME NEW q \in (p + 1) .. e PROVE s[q] # "lf"
    <2>1. q - 1 \in p .. (e - 1) /\ (q - 1) + 1 = q
      BY <1>1
    <2>2. ~EndsLine(s, q - 1)
      BY <2>1 DEF IsLineTo
    <2> QED
      BY <2>1, <2>2 DEF EndsLine
  <1>3. ASSUME NEW q \in p .. e PROVE Lfs(s, q) = Lfs(s, p)
    BY <1>1, <1>2 DEF Lfs
  <1>4. e < Len(s) => s[e + 1] = "lf"
    BY <1>1 DEF EndsLine
  <1>5. EndsLine(s, p) => e = p
    BY <1>1 DEF IsLineTo
  <1> QED
    BY <1>1, <1>2, <1>3, <1>4, <1>5

(* A later place is on the same line or on a later one, and there is one on  *)
(* the line after each line feed.                                          *)
LEMMA LineOfGrows ==
  ASSUME NEW s, NEW p \in Nat, NEW q \in Nat, p <= q
  PROVE  LineOf(s, p) <= LineOf(s, q)
  <1>1. Lfs(s, p) \in SUBSET Lfs(s, q)
    BY DEF Lfs
  <1> QED
    BY <1>1, LfsFinite, FS_Subset, Zenon DEF LineOf

(* A line feed is the only way to the next line.                            *)
LEMMA LineOfNext ==
  ASSUME NEW s, NEW p \in Nat
  PROVE  LineOf(s, p + 1) = IF s[p + 1] = "lf" THEN LineOf(s, p) + 1 ELSE LineOf(s, p)
  <1>1. CASE s[p + 1] = "lf"
    <2>1. Lfs(s, p + 1) = Lfs(s, p) \cup {p + 1} /\ p + 1 \notin Lfs(s, p)
      BY <1>1 DEF Lfs
    <2> QED
      BY <1>1, <2>1, LfsFinite, FS_AddElement DEF LineOf
  <1>2. CASE s[p + 1] # "lf"
    <2>1. Lfs(s, p + 1) = Lfs(s, p)
      BY <1>2 DEF Lfs
    <2> QED
      BY <1>2, <2>1 DEF LineOf
  <1> QED
    BY <1>1, <1>2

(* line_end of the line a place is on is where that line ends, its line feed *)
(* left out.                                                               *)
LEMMA LineEndOfPlace ==
  ASSUME NEW s, Len(s) \in Nat, NEW p \in 0 .. Len(s), NEW e, IsLineTo(s, p, e)
  PROVE  LineEnd(LineIndex(s), s, LineOf(s, p)) = ByteAt(s, e)
  <1> DEFINE ix == LineIndex(s)
             l == LineOf(s, p)
             next == NextStart(ix, l)
  <1>1. /\ e \in p .. Len(s) /\ Lfs(s, e) = Lfs(s, p)
        /\ \A q \in (p + 1) .. e : s[q] # "lf"
        /\ e < Len(s) => s[e + 1] = "lf"
    BY LineToFacts
  <1>2. /\ LineStart(ix, l) = ByteAt(s, LineFrom(s, p))
        /\ LineFrom(s, p) \in 0 .. p /\ StartsLine(s, LineFrom(s, p))
        /\ Lfs(s, LineFrom(s, p)) = Lfs(s, p)
    BY LineStartOfPlace, LineFromFacts
  <1>3. LineCount(ix) = LineOf(s, Len(s)) + 1
    BY StartsFinite
  <1>4. l \in Nat /\ LineOf(s, Len(s)) \in Nat
    BY LfsFinite
  <1>5. CASE e < Len(s)
    <2>1. e \in Nat /\ e + 1 \in 0 .. Len(s) /\ s[e + 1] = "lf" /\ e + 1 \in 1 .. Len(s)
      BY <1>1, <1>5
    <2>2. LineOf(s, e + 1) = l + 1
      BY <1>1, <2>1, LineOfNext DEF LineOf
    <2>3. LineFrom(s, e + 1) = e + 1
      BY <2>1, LineFromFacts DEF StartsLine
    <2>4. l + 1 < LineCount(ix)
      BY <1>3, <1>4, <2>1, <2>2, LineOfGrows
    <2>5. next = ByteAt(s, e + 1)
      BY <2>1, <2>2, <2>3, <2>4, LineStartOfPlace DEF NextStart
    <2>6. LfBefore(s, next)
      BY <2>1, <2>5 DEF LfBefore
    <2>7. next > LineStart(ix, l)
      BY <1>1, <1>2, <2>1, <2>5, ByteAtOrder, ByteAtType
    <2>8. next = ByteAt(s, e) + 1
      <3>1. Units("utf8", s, e, e + 1) = 1
        BY <2>1, UnitsOfLf DEF Encoding
      <3> QED
        BY <2>1, <2>5, <3>1, BytesBetween
    <2>9. ByteAt(s, e) \in Nat
      BY <2>1, ByteAtType
    <2> QED
      BY <2>6, <2>7, <2>8, <2>9 DEF LineEnd
  <1>6. CASE e = Len(s)
    <2>1. LineCount(ix) = l + 1
      BY <1>1, <1>3, <1>6 DEF LineOf
    <2>2. next = ByteAt(s, e)
      BY <1>4, <1>6, <2>1 DEF NextStart, LineIndex, ByteLen
    <2>3. ASSUME LfBefore(s, next) PROVE ~(next > LineStart(ix, l))
      <3>1. PICK q \in 1 .. Len(s) : s[q] = "lf" /\ ByteAt(s, q) = ByteAt(s, e)
        BY <2>2, <2>3 DEF LfBefore
      <3>2. q = e
        BY <1>6, <3>1, ByteAtOrder
      <3>3. p = e
        BY <1>1, <3>1, <3>2
      <3>4. StartsLine(s, p)
        BY <3>1, <3>2, <3>3 DEF StartsLine
      <3>5. LineStart(ix, l) = ByteAt(s, e)
        BY <1>2, <3>3, <3>4, LineFromFacts
      <3>6. ByteAt(s, e) \in Nat
        BY <1>6, ByteAtType
      <3> QED
        BY <2>2, <3>5, <3>6
    <2> HIDE DEF next
    <2> QED
      BY <2>2, <2>3 DEF LineEnd, next
  <1> QED
    BY <1>1, <1>5, <1>6

----------------------------------------------------------------------------
(* Columns.                                                                *)

(* A column that counts the characters of its line up to a place, or any    *)
(* that is past its end, is resolved to that place.                        *)
LEMMA ColumnOfPlace ==
  ASSUME NEW enc \in Encoding, NEW s,
         NEW f \in Nat, NEW p \in Nat, NEW e \in Nat, f <= p, p <= e,
         NEW over \in Nat, over > 0 => p = e
  PROVE  OffsetOfUnits(enc, s, f, e, Units(enc, s, f, p) + over) = Units("utf8", s, f, p)
  <1> DEFINE units == Units(enc, s, f, p) + over
             R == {q \in f .. e : Units(enc, s, f, q) >= units}
  <1>1. Units(enc, s, f, p) \in Nat /\ Units(enc, s, f, e) \in Nat
    BY UnitsType
  <1>2. Units(enc, s, f, p) <= Units(enc, s, f, e)
    BY <1>1, UnitsGrow
  <1>3. CASE enc = "utf8"
    <2>1. OffsetOfUnits(enc, s, f, e, units) = Lesser(Units(enc, s, f, e), units)
      BY <1>3 DEF OffsetOfUnits
    <2>2. Lesser(Units(enc, s, f, e), units) = Units(enc, s, f, p)
      BY <1>1, <1>2 DEF Lesser
    <2> QED
      BY <1>3, <2>1, <2>2
  <1>4. CASE enc # "utf8" /\ over = 0
    <2>1. p \in R
      BY <1>1, <1>4
    <2>2. \A q \in R : p <= q
      <3> SUFFICES ASSUME NEW q \in R, q < p PROVE FALSE
        OBVIOUS
      <3>1. q \in Nat /\ f <= q
        OBVIOUS
      <3>2. Units(enc, s, f, q) \in Nat
        BY <3>1, UnitsType
      <3>3. Units(enc, s, f, q) < Units(enc, s, f, p)
        BY <1>1, <3>1, <3>2, UnitsGrow
      <3> QED
        BY <1>1, <1>4, <3>2, <3>3
    <2>3. R \subseteq Nat
      OBVIOUS
    <2> DEFINE first == CHOOSE q \in R : \A r \in R : q <= r
    <2> HIDE DEF R
    <2>4. first \in R /\ \A r \in R : first <= r
      BY <2>1, <2>2
    <2> HIDE DEF first
    <2>5. first = p
      BY <2>1, <2>2, <2>3, <2>4
    <2> QED
      BY <1>4, <2>1, <2>5 DEF OffsetOfUnits, R, first
  <1>5. CASE enc # "utf8" /\ over > 0
    <2>1. p = e
      BY <1>5
    <2>2. R = {}
      <3> SUFFICES ASSUME NEW q \in R PROVE FALSE
        OBVIOUS
      <3>1. q \in Nat /\ f <= q /\ q <= p
        BY <2>1
      <3>2. Units(enc, s, f, q) \in Nat /\ Units(enc, s, f, q) <= Units(enc, s, f, p)
        BY <1>1, <3>1, UnitsType, UnitsGrow
      <3> QED
        BY <1>1, <1>5, <3>2
    <2> QED
      BY <1>5, <2>1, <2>2 DEF OffsetOfUnits
  <1> QED
    BY <1>3, <1>4, <1>5

(* Whatever the column, the offset stays on the line; and it is ordered as   *)
(* the columns are.                                                        *)
LEMMA AnyColumn ==
  ASSUME NEW enc \in Encoding, NEW s, NEW f \in Nat, NEW e \in Nat, f <= e,
         NEW c \in Nat
  PROVE  LET At(u) == OffsetOfUnits(enc, s, f, e, u) IN
         /\ At(c) \in 0 .. Units("utf8", s, f, e)
         /\ At(c) <= At(c + 1)
  <1> DEFINE At(u) == OffsetOfUnits(enc, s, f, e, u)
             R(u) == {q \in f .. e : Units(enc, s, f, q) >= u}
             First(u) == CHOOSE q \in R(u) : \A r \in R(u) : q <= r
  <1>1. \A q \in f .. e : Units("utf8", s, f, q) \in Nat /\ Units(enc, s, f, q) \in Nat
    BY UnitsType
  <1>2. CASE enc = "utf8"
    <2>1. \A u : At(u) = Lesser(Units(enc, s, f, e), u)
      BY <1>2 DEF OffsetOfUnits
    <2>2. Units(enc, s, f, e) \in Nat
      BY <1>1
    <2> HIDE DEF At
    <2>3. /\ At(c) \in 0 .. Units("utf8", s, f, e)
          /\ At(c) <= At(c + 1)
      BY <1>2, <2>1, <2>2 DEF Lesser
    <2> QED
      BY <2>3 DEF At
  <1>3. CASE enc # "utf8"
    <2>1. \A u \in Nat : At(u) = Units("utf8", s, f, IF R(u) = {} THEN e ELSE First(u))
      BY <1>3 DEF OffsetOfUnits
    <2>2. ASSUME NEW u \in Nat, R(u) # {}
          PROVE  First(u) \in R(u) /\ \A r \in R(u) : First(u) <= r
      <3>1. R(u) \in SUBSET Nat
        OBVIOUS
      <3> HIDE DEF R
      <3>2. \E q \in R(u) : \A r \in R(u) : q <= r
        BY <2>2, <3>1, LeastNatural
      <3> QED
        BY <3>2
    <2>3. R(c + 1) \subseteq R(c) /\ R(c) \subseteq f .. e
      BY <1>1
    <2> DEFINE P(u) == IF R(u) = {} THEN e ELSE First(u)
    <2>4. P(c) \in f .. e /\ P(c + 1) \in f .. e /\ P(c) <= P(c + 1)
      <3> HIDE DEF R, First
      <3>1. CASE R(c) = {}
        BY <2>3, <3>1
      <3>2. CASE R(c) # {} /\ R(c + 1) = {}
        BY <2>2, <2>3, <3>2
      <3>3. CASE R(c) # {} /\ R(c + 1) # {}
        <4>1. First(c + 1) \in R(c + 1) /\ First(c) \in R(c)
          BY <2>2, <3>3, c + 1 \in Nat
        <4>2. First(c) <= First(c + 1)
          BY <2>2, <2>3, <3>3, <4>1
        <4> QED
          BY <2>3, <3>3, <4>1, <4>2
      <3> QED
        BY <3>1, <3>2, <3>3
    <2>5. At(c) = Units("utf8", s, f, P(c)) /\ At(c + 1) = Units("utf8", s, f, P(c + 1))
      BY <2>1, c + 1 \in Nat
    <2> HIDE DEF P, At
    <2>6. /\ At(c) \in Nat /\ At(c + 1) \in Nat
          /\ Units("utf8", s, f, e) \in Nat
      BY <1>1, <2>4, <2>5
    <2>7. At(c) <= Units("utf8", s, f, e) /\ At(c) <= At(c + 1)
      BY <2>4, <2>5, <2>6, UnitsGrow
    <2>8. At(c) \in 0 .. Units("utf8", s, f, e) /\ At(c) <= At(c + 1)
      BY <2>6, <2>7
    <2> QED
      BY <2>8 DEF At
  <1> QED
    BY <1>2, <1>3

----------------------------------------------------------------------------
(* Positions and offsets.                                                  *)

(* LineIndex::offset finds the place whose line and column it is given, or   *)
(* whose line it is and a column past its end.                             *)
LEMMA OffsetOfPlace ==
  ASSUME NEW enc \in Encoding, NEW s, Len(s) \in Nat, NEW p \in 0 .. Len(s),
         NEW over \in Nat, over > 0 => EndsLine(s, p)
  PROVE  Offset(LineIndex(s), s,
                [line      |-> LineOf(s, p),
                 character |-> Units(enc, s, LineFrom(s, p), p) + over], enc)
           = ByteAt(s, p)
  <1> DEFINE ix == LineIndex(s)
             l == LineOf(s, p)
             f == LineFrom(s, p)
  <1>1. PICK e \in p .. Len(s) : IsLineTo(s, p, e)
    BY LineToExists
  <1>2. f \in 0 .. p /\ f \in 0 .. Len(s) /\ e \in 0 .. Len(s)
    BY LineFromFacts
  <1>3. EndsLine(s, p) => p = e
    BY <1>1, LineToFacts
  <1>4. LineStart(ix, l) = ByteAt(s, f) /\ LineEnd(ix, s, l) = ByteAt(s, e)
    BY <1>1, LineStartOfPlace, LineEndOfPlace
  <1>5. PlaceAt(s, ByteAt(s, f)) = f /\ PlaceAt(s, ByteAt(s, e)) = e
    BY <1>2, PlaceAtByte
  <1>6. l \in Nat /\ l <= LineCount(ix) - 1
    BY LineOfGrows, LfsFinite, StartsFinite
  <1>7. Lesser(l, LineCount(ix) - 1) = l
    BY <1>6 DEF Lesser
  <1>8. OffsetOfUnits(enc, s, f, e, Units(enc, s, f, p) + over) = Units("utf8", s, f, p)
    BY <1>2, <1>3, ColumnOfPlace
  <1>9. ByteAt(s, p) = ByteAt(s, f) + Units("utf8", s, f, p)
    BY <1>2, BytesBetween
  <1> HIDE DEF ix, l, f
  <1>10. Offset(ix, s, [line |-> l, character |-> Units(enc, s, f, p) + over], enc)
           = ByteAt(s, p)
    BY <1>4, <1>5, <1>7, <1>8, <1>9 DEF Offset
  <1> QED
    BY <1>10 DEF ix, l, f

(* LineIndex::position names the line and the column of a place.            *)
LEMMA PositionOfPlace ==
  ASSUME NEW enc \in Encoding, NEW s, Len(s) \in Nat, NEW p \in 0 .. Len(s)
  PROVE  Position(LineIndex(s), s, ByteAt(s, p), enc)
           = [line      |-> LineOf(s, p),
              character |-> Units(enc, s, LineFrom(s, p), p)]
  <1> DEFINE ix == LineIndex(s)
             b == ByteAt(s, p)
             f == LineFrom(s, p)
  <1>1. b \in Nat /\ ByteLen(s) \in Nat /\ b <= ByteLen(s) /\ b <= b
    BY ByteAtOrder, ByteAtType DEF ByteLen
  <1>2. Lesser(b, ix.len) = b
    BY <1>1 DEF Lesser, LineIndex
  <1>3. NextLineAfter(s, p, b)
    BY ByteAtOrder DEF NextLineAfter
  <1>4. Cardinality({c \in Starts(s) : c <= b}) = LineOf(s, p) + 1
    BY <1>1, <1>3, StartsUpTo
  <1>5. LineOf(s, p) \in Nat
    BY LfsFinite
  <1>6. Cardinality({c \in ix.starts : c <= b}) - 1 = LineOf(s, p)
    BY <1>4, <1>5 DEF Starts
  <1>7. f \in 0 .. Len(s) /\ LineStart(ix, LineOf(s, p)) = ByteAt(s, f)
    BY LineFromFacts, LineStartOfPlace
  <1>8. PlaceAt(s, ByteAt(s, f)) = f /\ PlaceAt(s, b) = p
    BY <1>7, PlaceAtByte
  <1> HIDE DEF ix, b, f
  <1>9. Position(ix, s, b, enc)
          = [line |-> LineOf(s, p), character |-> Units(enc, s, f, p)]
    BY <1>2, <1>6, <1>7, <1>8 DEF Position
  <1> QED
    BY <1>9 DEF ix, b, f

(* Every line of the index is the line of a place that starts it.           *)
LEMMA LinesHavePlaces ==
  ASSUME NEW s, Len(s) \in Nat, NEW line \in 0 .. LineCount(LineIndex(s)) - 1
  PROVE  \E p \in 0 .. Len(s) : StartsLine(s, p) /\ LineOf(s, p) = line
  <1> DEFINE P == {p \in 0 .. Len(s) : LineOf(s, p) >= line}
  <1>0. \A p \in 0 .. Len(s) : LineOf(s, p) \in Nat
    BY LfsFinite
  <1>1. line \in Nat /\ line <= LineOf(s, Len(s))
    BY <1>0, StartsFinite
  <1>2. Len(s) \in P /\ P \in SUBSET Nat
    BY <1>0, <1>1
  <1>3. PICK p \in P : \A q \in P : p <= q
    BY <1>2, LeastNatural
  <1>4. p \in 0 .. Len(s) /\ LineOf(s, p) >= line
    OBVIOUS
  <1>5. LineOf(s, p) = line
    <2>1. CASE p = 0
      <3>1. Lfs(s, 0) = {}
        BY DEF Lfs
      <3>2. LineOf(s, 0) = 0
        BY <3>1, FS_EmptySet DEF LineOf
      <3> QED
        BY <1>1, <1>4, <2>1, <3>2
    <2>2. CASE p # 0
      <3>1. p - 1 \in 0 .. Len(s) /\ (p - 1) + 1 = p /\ p - 1 \in Nat
        BY <1>4, <2>2
      <3>2. p - 1 \notin P
        BY <1>3, <1>4
      <3>3. LineOf(s, p - 1) < line /\ LineOf(s, p - 1) \in Nat
        BY <1>0, <1>1, <3>1, <3>2
      <3>4. LineOf(s, p) <= LineOf(s, p - 1) + 1
        <4> DEFINE m == p - 1
        <4>1. LineOf(s, m + 1) = IF s[m + 1] = "lf" THEN LineOf(s, m) + 1 ELSE LineOf(s, m)
          BY <3>1, LineOfNext
        <4> QED
          BY <3>1, <3>3, <4>1
      <3> QED
        BY <1>0, <1>1, <1>4, <3>3, <3>4
    <2> QED
      BY <2>1, <2>2
  <1>6. /\ LineFrom(s, p) \in 0 .. Len(s) /\ StartsLine(s, LineFrom(s, p))
        /\ LineOf(s, LineFrom(s, p)) = line
    BY <1>4, <1>5, LineFromFacts DEF LineOf
  <1> QED
    BY <1>6

(* A column stays on its line, and larger columns are larger offsets.       *)
LEMMA ColumnsKeepTheirLine ==
  ASSUME NEW enc \in Encoding, NEW s, Len(s) \in Nat,
         NEW line \in 0 .. LineCount(LineIndex(s)) - 1, NEW column \in Nat
  PROVE  LET At(c) == Offset(LineIndex(s), s, [line |-> line, character |-> c], enc) IN
         /\ Position(LineIndex(s), s, At(column), enc).line = line
         /\ At(column) <= At(column + 1)
  <1> DEFINE ix == LineIndex(s)
             At(c) == Offset(ix, s, [line |-> line, character |-> c], enc)
  <1>1. PICK f \in 0 .. Len(s) : StartsLine(s, f) /\ LineOf(s, f) = line
    BY LinesHavePlaces
  <1>2. PICK e \in f .. Len(s) : IsLineTo(s, f, e)
    BY LineToExists
  <1>3. LineStart(ix, line) = ByteAt(s, f) /\ LineEnd(ix, s, line) = ByteAt(s, e)
    BY <1>1, <1>2, LineStartOfPlace, LineFromFacts, LineEndOfPlace
  <1>4. PlaceAt(s, ByteAt(s, f)) = f /\ PlaceAt(s, ByteAt(s, e)) = e
    BY PlaceAtByte
  <1>5. Lesser(line, LineCount(ix) - 1) = line
    <2>1. LineCount(ix) \in Nat
      BY StartsFinite, LfsFinite
    <2> QED
      BY <2>1 DEF Lesser
  <1> DEFINE O(c) == OffsetOfUnits(enc, s, f, e, c)
  <1>6. \A c : At(c) = ByteAt(s, f) + O(c)
    BY <1>3, <1>4, <1>5 DEF Offset
  <1>7. O(column) \in 0 .. Units("utf8", s, f, e) /\ O(column) <= O(column + 1)
    BY AnyColumn
  <1>8. O(column + 1) \in 0 .. Units("utf8", s, f, e)
    BY AnyColumn, column + 1 \in Nat
  <1>9. ByteAt(s, e) = ByteAt(s, f) + Units("utf8", s, f, e)
    BY BytesBetween
  <1>10. /\ ByteAt(s, f) \in Nat /\ ByteAt(s, e) \in Nat /\ ByteLen(s) \in Nat
         /\ ByteAt(s, e) <= ByteLen(s) /\ Units("utf8", s, f, e) \in Nat
    BY ByteAtType, ByteAtOrder, UnitsType DEF ByteLen
  <1>a. ix.len = ByteLen(s)
    BY DEF LineIndex
  <1>b. ix.starts = Starts(s)
    BY DEF Starts
  <1> HIDE DEF O, At, ix
  <1>11. At(column) <= At(column + 1)
    BY <1>6, <1>7, <1>8, <1>10
  <1>12. /\ At(column) \in Nat /\ ByteAt(s, f) <= At(column)
         /\ At(column) <= ByteAt(s, e)
    BY <1>6, <1>7, <1>9, <1>10
  <1>13. NextLineAfter(s, f, At(column))
    <2> SUFFICES ASSUME NEW q \in (f + 1) .. Len(s), s[q] = "lf"
                 PROVE  ByteAt(s, q) > At(column)
      BY DEF NextLineAfter
    <2>1. q > e
      BY <1>2, LineToFacts
    <2>a. q \in Nat /\ e \in Nat
      OBVIOUS
    <2>b. ByteAt(s, q) \in Nat
      BY <2>a, ByteAtType
    <2>c. ByteAt(s, e) < ByteAt(s, q)
      BY <2>1, <2>a, ByteAtOrder
    <2>2. ByteAt(s, q) > ByteAt(s, e) /\ ByteAt(s, q) \in Nat
      BY <1>10, <2>b, <2>c
    <2> QED
      BY <1>10, <1>12, <2>2
  <1>14. Lesser(At(column), ix.len) = At(column)
    BY <1>10, <1>12, <1>a DEF Lesser
  <1>15. Cardinality({c \in Starts(s) : c <= At(column)}) = LineOf(s, f) + 1
    BY <1>12, <1>13, StartsUpTo
  <1>16. Position(ix, s, At(column), enc).line = line
    <2>1. Position(ix, s, At(column), enc).line
            = Cardinality({c \in Starts(s) : c <= At(column)}) - 1
      BY <1>14, <1>b DEF Position
    <2> QED
      BY <1>1, <1>15, <2>1
  <1> QED
    BY <1>11, <1>16 DEF At, ix

----------------------------------------------------------------------------
(* Replacing a stretch of a text.                                          *)

(* Two texts, one after the other.                                          *)
LEMMA JoinTexts ==
  ASSUME NEW a \in Seq(Char), NEW b \in Seq(Char)
  PROVE  /\ a \o b \in Seq(Char) /\ Len(a \o b) = Len(a) + Len(b)
         /\ \A i \in 1 .. Len(a) : (a \o b)[i] = a[i]
         /\ \A i \in 1 .. Len(b) : (a \o b)[i + Len(a)] = b[i]
  <1> DEFINE d == a \o b
  <1>1. /\ d \in Seq(Char) /\ Len(d) = Len(a) + Len(b)
        /\ \A i \in 1 .. (Len(a) + Len(b)) :
             d[i] = IF i <= Len(a) THEN a[i] ELSE b[i - Len(a)]
    BY ConcatProperties, Zenon
  <1> HIDE DEF d
  <1>2. Len(a) \in Nat /\ Len(b) \in Nat
    OBVIOUS
  <1>3. \A i \in 1 .. Len(a) : d[i] = a[i]
    BY <1>1, <1>2
  <1>4. ASSUME NEW i \in 1 .. Len(b) PROVE d[i + Len(a)] = b[i]
    <2>1. /\ i + Len(a) \in 1 .. (Len(a) + Len(b)) /\ ~(i + Len(a) <= Len(a))
          /\ (i + Len(a)) - Len(a) = i
      BY <1>2
    <2> QED
      BY <1>1, <2>1
  <1> QED
    BY <1>1, <1>3, <1>4 DEF d

(* What stood before the stretch stays, the new text follows, and what stood *)
(* behind is moved as a block.                                             *)
LEMMA ReplaceFacts ==
  ASSUME NEW s \in Seq(Char), NEW new \in Seq(Char),
         NEW from \in 0 .. Len(s), NEW to \in from .. Len(s)
  PROVE  LET u == Replace(s, from, to, new)
             d == from + Len(new) - to
         IN  /\ u \in Seq(Char) /\ Len(u) = Len(s) + d /\ d \in Int
             /\ \A i \in 1 .. from : u[i] = s[i]
             /\ Carries(new, 0, Len(new), u, from)
             /\ Carries(s, to, Len(s), u, d)
  <1> DEFINE d == from + Len(new) - to
  <1>0. /\ Len(s) \in Nat /\ Len(new) \in Nat /\ from \in Nat /\ to \in Nat
        /\ from <= to /\ to <= Len(s)
    OBVIOUS
  <1>a. /\ SubSeq(s, 1, from) \in Seq(Char) /\ Len(SubSeq(s, 1, from)) = from
        /\ \A i \in 1 .. from : SubSeq(s, 1, from)[i] = s[i]
    BY <1>0
  <1>1. PICK a \in Seq(Char) :
          /\ a = SubSeq(s, 1, from) /\ Len(a) = from
          /\ \A i \in 1 .. from : a[i] = s[i]
    BY <1>a, Zenon
  <1>b. /\ SubSeq(s, to + 1, Len(s)) \in Seq(Char)
        /\ Len(SubSeq(s, to + 1, Len(s))) = Len(s) - to
        /\ \A i \in 1 .. (Len(s) - to) : SubSeq(s, to + 1, Len(s))[i] = s[i + to]
    BY <1>0
  <1>2. PICK c \in Seq(Char) :
          /\ c = SubSeq(s, to + 1, Len(s)) /\ Len(c) = Len(s) - to
          /\ \A i \in 1 .. (Len(s) - to) : c[i] = s[i + to]
    BY <1>b, Zenon
  <1>c. /\ a \o new \in Seq(Char) /\ Len(a \o new) = Len(a) + Len(new)
        /\ \A i \in 1 .. Len(a) : (a \o new)[i] = a[i]
        /\ \A i \in 1 .. Len(new) : (a \o new)[i + Len(a)] = new[i]
    BY JoinTexts, Zenon
  <1>3. PICK v \in Seq(Char) :
          /\ v = a \o new /\ Len(v) = from + Len(new)
          /\ \A i \in 1 .. from : v[i] = a[i]
          /\ \A i \in 1 .. Len(new) : v[i + from] = new[i]
    <2>1. /\ a \o new \in Seq(Char) /\ Len(a \o new) = from + Len(new)
          /\ \A i \in 1 .. from : (a \o new)[i] = a[i]
          /\ \A i \in 1 .. Len(new) : (a \o new)[i + from] = new[i]
      BY <1>1, <1>c
    <2> QED
      BY <2>1, Zenon
  <1>d. /\ v \o c \in Seq(Char) /\ Len(v \o c) = Len(v) + Len(c)
        /\ \A i \in 1 .. Len(v) : (v \o c)[i] = v[i]
        /\ \A i \in 1 .. Len(c) : (v \o c)[i + Len(v)] = c[i]
    BY JoinTexts, Zenon
  <1>4. PICK u \in Seq(Char) :
          /\ u = v \o c /\ Len(u) = Len(v) + Len(c)
          /\ \A i \in 1 .. Len(v) : u[i] = v[i]
          /\ \A i \in 1 .. Len(c) : u[i + Len(v)] = c[i]
    BY <1>d, Zenon
  <1>5. u = Replace(s, from, to, new)
    BY <1>1, <1>2, <1>3, <1>4, Zenon DEF Replace
  <1>n. Len(v) = from + Len(new) /\ Len(c) = Len(s) - to /\ Len(u) = Len(v) + Len(c)
    BY <1>2, <1>3, <1>4, Zenon
  <1>6. Len(u) = Len(s) + d /\ d \in Int
    BY <1>0, <1>n
  <1>7. \A i \in 1 .. from : u[i] = s[i]
    BY <1>0, <1>1, <1>3, <1>4
  <1>8. Carries(new, 0, Len(new), u, from)
    <2> SUFFICES ASSUME NEW i \in (0 + 1) .. Len(new) PROVE u[i + from] = new[i]
      BY DEF Carries
    <2>1. i \in 1 .. Len(new) /\ i + from \in 1 .. Len(v)
      BY <1>0, <1>n
    <2>2. u[i + from] = v[i + from] /\ v[i + from] = new[i]
      BY <1>3, <1>4, <2>1
    <2> QED
      BY <2>2
  <1>9. Carries(s, to, Len(s), u, d)
    <2> SUFFICES ASSUME NEW i \in (to + 1) .. Len(s) PROVE u[i + d] = s[i]
      BY DEF Carries
    <2>1. /\ i - to \in 1 .. (Len(s) - to) /\ (i - to) + to = i
          /\ i + d = (i - to) + (from + Len(new))
      BY <1>0
    <2>2. u[(i - to) + Len(v)] = c[i - to]
      BY <1>2, <1>4, <2>1
    <2> QED
      BY <1>2, <1>3, <2>1, <2>2
  <1> QED
    BY <1>5, <1>6, <1>7, <1>8, <1>9

(* A stretch that is moved keeps its length in bytes.                       *)
LEMMA BytesOfMoved ==
  ASSUME NEW s, NEW t, NEW a \in Nat, NEW b \in Nat, NEW d \in Int,
         a <= b, a + d \in Nat, Carries(s, a, b, t, d)
  PROVE  ByteAt(t, b + d) = ByteAt(t, a + d) + (ByteAt(s, b) - ByteAt(s, a))
  <1>1. Units("utf8", t, a + d, b + d) = Units("utf8", s, a, b)
    BY UnitsMoved
  <1>2. a + d \in Nat /\ b + d \in Nat /\ a + d <= b + d
    OBVIOUS
  <1>3. ByteAt(t, b + d) = ByteAt(t, a + d) + Units("utf8", t, a + d, b + d)
    BY <1>2, BytesBetween
  <1>4. ByteAt(s, b) = ByteAt(s, a) + Units("utf8", s, a, b)
    BY BytesBetween
  <1>5. /\ ByteAt(s, a) \in Nat /\ ByteAt(t, a + d) \in Nat
        /\ Units("utf8", s, a, b) \in Nat
    BY <1>2, ByteAtType, UnitsType
  <1> QED
    BY <1>1, <1>3, <1>4, <1>5

(* Where the places of a text go when a part of it is replaced.             *)
LEMMA ReplaceBytes ==
  ASSUME NEW s \in Seq(Char), NEW new \in Seq(Char),
         NEW from \in 0 .. Len(s), NEW to \in from .. Len(s)
  PROVE  LET u == Replace(s, from, to, new)
             d == from + Len(new) - to
         IN  /\ \A p \in 0 .. from : ByteAt(u, p) = ByteAt(s, p)
             /\ ByteAt(u, from + Len(new)) = ByteAt(s, from) + ByteLen(new)
             /\ \A p \in to .. Len(s) :
                  ByteAt(u, p + d)
                    = ByteAt(s, from) + ByteLen(new) + (ByteAt(s, p) - ByteAt(s, to))
  <1> DEFINE u == Replace(s, from, to, new)
             d == from + Len(new) - to
  <1>0. /\ Len(s) \in Nat /\ Len(new) \in Nat /\ from \in Nat /\ to \in Nat
        /\ from <= to /\ to <= Len(s)
    OBVIOUS
  <1>1. /\ Len(u) = Len(s) + d /\ d \in Int
        /\ \A i \in 1 .. from : u[i] = s[i]
        /\ Carries(new, 0, Len(new), u, from)
        /\ Carries(s, to, Len(s), u, d)
    BY ReplaceFacts
  <1> HIDE DEF u
  <1>2. ASSUME NEW p \in 0 .. from PROVE ByteAt(u, p) = ByteAt(s, p)
    <2>1. \A i \in (0 + 1) .. p : u[i] = s[i]
      BY <1>0, <1>1
    <2>2. Wide("utf8", u, 2, 0, p) = Wide("utf8", s, 2, 0, p)
      BY <2>1 DEF Wide
    <2>3. Wide("utf8", u, 4, 0, p) = Wide("utf8", s, 4, 0, p)
      BY <2>1 DEF Wide
    <2> QED
      BY <2>2, <2>3, UnitsIsSum DEF ByteAt
  <1>3. ByteAt(u, from + Len(new)) = ByteAt(s, from) + ByteLen(new)
    <2>1. Units("utf8", u, from, from + Len(new)) = ByteLen(new)
      BY <1>0, <1>1, UnitsFromZero DEF ByteLen, ByteAt
    <2>2. ByteAt(u, from + Len(new)) = ByteAt(u, from) + ByteLen(new)
      BY <1>0, <2>1, BytesBetween
    <2> QED
      BY <1>0, <1>2, <2>2
  <1>4. ASSUME NEW p \in to .. Len(s)
        PROVE  ByteAt(u, p + d)
                 = ByteAt(s, from) + ByteLen(new) + (ByteAt(s, p) - ByteAt(s, to))
    <2>0. p \in Nat /\ to <= p
      BY <1>0
    <2>1. Carries(s, to, p, u, d)
      <3>1. \A i \in (to + 1) .. p : i \in (to + 1) .. Len(s)
        BY <1>0
      <3> HIDE DEF d
      <3> QED
        BY <1>1, <3>1 DEF Carries
    <2>2. to + d = from + Len(new) /\ to + d \in Nat /\ d \in Int /\ to \in Nat
      BY <1>0
    <2>3. ByteAt(u, to + d) = ByteAt(s, from) + ByteLen(new)
      BY <1>3, <2>2
    <2> HIDE DEF d
    <2>4. ByteAt(u, p + d) = ByteAt(u, to + d) + (ByteAt(s, p) - ByteAt(s, to))
      BY <2>0, <2>1, <2>2, BytesOfMoved
    <2> QED
      BY <2>3, <2>4
  <1> QED
    BY <1>2, <1>3, <1>4 DEF u

(* The edit a replacement is, counted in bytes and counted in characters.    *)
ByteEdit(s, from, to, new) ==
  [start |-> ByteAt(s, from), oldEnd |-> ByteAt(s, to),
   newEnd |-> ByteAt(s, from) + ByteLen(new)]

PlaceEdit(from, to, new) ==
  [start |-> from, oldEnd |-> to, newEnd |-> from + Len(new)]

ByteSpan(s, a, b, r) == SpanOf(ByteAt(s, a), ByteAt(s, b), r)

(* The two say the same: a span between characters goes between characters,  *)
(* and the same spans are touched.                                         *)
LEMMA EditsAgree ==
  ASSUME NEW s \in Seq(Char), NEW new \in Seq(Char),
         NEW from \in 0 .. Len(s), NEW to \in from .. Len(s),
         NEW a \in 0 .. Len(s), NEW b \in a .. Len(s)
  PROVE  LET e  == ByteEdit(s, from, to, new)
             pe == PlaceEdit(from, to, new)
             u  == Replace(s, from, to, new)
             x  == MapPos(pe, a)
             y  == MapEnd(pe, b)
         IN  /\ e \in Edit /\ pe \in Edit
             /\ x \in 0 .. Len(u) /\ y \in x .. Len(u)
             /\ MapPos(e, ByteAt(s, a)) = ByteAt(u, x)
             /\ MapEnd(e, ByteAt(s, b)) = ByteAt(u, y)
             /\ \A q, r : Touches(e, ByteSpan(s, a, b, r)) <=> Touches(pe, SpanOf(a, b, q))
  <1> DEFINE e  == ByteEdit(s, from, to, new)
             pe == PlaceEdit(from, to, new)
             u  == Replace(s, from, to, new)
             d  == from + Len(new) - to
             A(p) == ByteAt(s, p)
             B(p) == ByteAt(u, p)
  <1>0. /\ Len(s) \in Nat /\ Len(new) \in Nat /\ from \in Nat /\ to \in Nat
        /\ a \in Nat /\ b \in Nat
        /\ from <= to /\ to <= Len(s) /\ a <= b /\ b <= Len(s)
    OBVIOUS
  <1>1. /\ \A p \in 0 .. from : B(p) = A(p)
        /\ B(from + Len(new)) = A(from) + ByteLen(new)
        /\ \A p \in to .. Len(s) : B(p + d) = A(from) + ByteLen(new) + (A(p) - A(to))
        /\ Len(u) = Len(s) + d
    <2>1. Len(u) = Len(s) + d
      BY ReplaceFacts
    <2>2. /\ \A p \in 0 .. from : B(p) = A(p)
          /\ B(from + Len(new)) = A(from) + ByteLen(new)
          /\ \A p \in to .. Len(s) : B(p + d) = A(from) + ByteLen(new) + (A(p) - A(to))
      BY ReplaceBytes
    <2> QED
      BY <2>1, <2>2
  <1>2. \A p, q \in Nat : /\ p <= q <=> A(p) <= A(q)
                          /\ p < q <=> A(p) < A(q)
                          /\ p = q <=> A(p) = A(q)
    BY ByteAtOrder
  <1>3. /\ \A p \in Nat : A(p) \in Nat
        /\ ByteLen(new) \in Nat
    BY <1>0, ByteAtType DEF ByteLen
  <1>4. /\ e.start = A(from) /\ e.oldEnd = A(to) /\ e.newEnd = A(from) + ByteLen(new)
        /\ pe.start = from /\ pe.oldEnd = to /\ pe.newEnd = from + Len(new)
    BY DEF ByteEdit, PlaceEdit
  <1>5. e \in Edit /\ pe \in Edit
    <2> HIDE DEF A
    <2>1. A(from) \in Nat /\ A(to) \in Nat /\ A(from) <= A(to)
      BY <1>0, <1>2, <1>3
    <2>b. ByteLen(new) \in Nat
      BY <1>3
    <2>2. A(from) + ByteLen(new) \in Nat /\ from + Len(new) \in Nat
      BY <1>0, <2>1, <2>b
    <2>3. /\ e \in [start : Nat, oldEnd : Nat, newEnd : Nat]
          /\ pe \in [start : Nat, oldEnd : Nat, newEnd : Nat]
      BY <1>0, <2>1, <2>2 DEF A, ByteEdit, PlaceEdit
    <2>4. /\ A(from) <= A(from) + ByteLen(new) /\ from <= from + Len(new)
      BY <1>0, <2>1, <2>b
    <2> HIDE DEF e, pe
    <2>5. /\ e.start <= e.oldEnd /\ e.start <= e.newEnd
          /\ pe.start <= pe.oldEnd /\ pe.start <= pe.newEnd
      BY <1>0, <1>4, <2>1, <2>4
    <2> QED
      BY <2>3, <2>5 DEF Edit
  <1> HIDE DEF e, pe, u, A, B
  <1>6. ASSUME NEW p \in 0 .. Len(s)
        PROVE  /\ MapPos(pe, p) \in 0 .. Len(u) /\ MapEnd(pe, p) \in 0 .. Len(u)
               /\ MapPos(e, A(p)) = B(MapPos(pe, p)) /\ MapEnd(e, A(p)) = B(MapEnd(pe, p))
    <2>0. /\ p \in Nat /\ p <= Len(s)
          /\ A(p) \in Nat /\ A(from) \in Nat /\ A(to) \in Nat
      BY <1>0, <1>3
    <2>1. /\ p <= from <=> A(p) <= A(from)
          /\ p >= to <=> A(p) >= A(to)
          /\ from = to <=> A(from) = A(to)
          /\ p >= from <=> A(p) >= A(from)
      BY <1>0, <1>2, <2>0
    <2>2. CASE p <= from /\ ~(from = to /\ p = from)
      <3>1. B(p) = A(p)
        BY <1>1, <2>0, <2>2
      <3>2. ~(from = to /\ p >= from)
        BY <1>0, <2>0, <2>2
      <3>3. /\ MapPos(pe, p) = p /\ MapEnd(pe, p) = p
            /\ MapPos(e, A(p)) = A(p) /\ MapEnd(e, A(p)) = A(p)
        BY <1>4, <2>1, <2>2, <3>2 DEF MapPos, MapEnd, IsInsertion
      <3> QED
        BY <1>0, <1>1, <2>0, <2>2, <3>1, <3>3
    <2>3. CASE p > from /\ p >= to
      <3>1. B(p + d) = A(from) + ByteLen(new) + (A(p) - A(to)) /\ p + d \in 0 .. Len(u)
        BY <1>0, <1>1, <2>0, <2>3
      <3>2. /\ MapPos(pe, p) = p + d /\ MapEnd(pe, p) = p + d
        BY <1>0, <1>4, <2>0, <2>3 DEF MapPos, MapEnd, IsInsertion
      <3>3. /\ MapPos(e, A(p)) = A(from) + ByteLen(new) + (A(p) - A(to))
            /\ MapEnd(e, A(p)) = A(from) + ByteLen(new) + (A(p) - A(to))
        BY <1>3, <1>4, <2>0, <2>1, <2>3 DEF MapPos, MapEnd, IsInsertion
      <3> QED
        BY <3>1, <3>2, <3>3
    <2>4. CASE from = to /\ p = from
      <3>1. /\ B(p + d) = A(from) + ByteLen(new) + (A(p) - A(to)) /\ p + d \in 0 .. Len(u)
            /\ B(p) = A(p) /\ p \in 0 .. Len(u)
        BY <1>0, <1>1, <2>0, <2>4
      <3>2. MapPos(pe, p) = p /\ MapEnd(pe, p) = p + d
        BY <1>0, <1>4, <2>0, <2>4 DEF MapPos, MapEnd, IsInsertion
      <3>3. /\ MapPos(e, A(p)) = A(p)
            /\ MapEnd(e, A(p)) = A(from) + ByteLen(new) + (A(p) - A(to))
        BY <1>3, <1>4, <2>0, <2>1, <2>4 DEF MapPos, MapEnd, IsInsertion
      <3> QED
        BY <3>1, <3>2, <3>3
    <2>5. CASE p > from /\ p < to
      <3>1. from + Len(new) \in 0 .. Len(u)
        BY <1>0, <1>1
      <3>2. MapPos(pe, p) = from + Len(new) /\ MapEnd(pe, p) = from + Len(new)
        BY <1>0, <1>4, <2>0, <2>5 DEF MapPos, MapEnd, IsInsertion
      <3>3. /\ MapPos(e, A(p)) = A(from) + ByteLen(new)
            /\ MapEnd(e, A(p)) = A(from) + ByteLen(new)
        BY <1>3, <1>4, <2>0, <2>1, <2>5 DEF MapPos, MapEnd, IsInsertion
      <3> QED
        BY <1>1, <3>1, <3>2, <3>3
    <2> QED
      BY <1>0, <2>0, <2>2, <2>3, <2>4, <2>5
  <1>7. MapPos(pe, a) <= MapEnd(pe, b)
    BY <1>0, <1>4 DEF MapPos, MapEnd, IsInsertion
  <1>8. ASSUME NEW q, NEW r
        PROVE  Touches(e, ByteSpan(s, a, b, r)) <=> Touches(pe, SpanOf(a, b, q))
    <2>1. /\ from = to <=> A(from) = A(to)
          /\ a <= from <=> A(a) <= A(from)
          /\ from <= b <=> A(from) <= A(b)
          /\ a < to <=> A(a) < A(to)
          /\ from < b <=> A(from) < A(b)
      BY <1>0, <1>2
    <2>2. /\ ByteSpan(s, a, b, r).start = A(a) /\ ByteSpan(s, a, b, r).end = A(b)
          /\ SpanOf(a, b, q).start = a /\ SpanOf(a, b, q).end = b
      BY DEF ByteSpan, SpanOf, A
    <2> QED
      BY <1>4, <2>1, <2>2 DEF Touches, IsInsertion
  <1>9. MapPos(pe, a) \in 0 .. Len(u) /\ MapEnd(pe, b) \in MapPos(pe, a) .. Len(u)
    BY <1>6, <1>7
  <1>10. /\ MapPos(e, ByteAt(s, a)) = ByteAt(u, MapPos(pe, a))
         /\ MapEnd(e, ByteAt(s, b)) = ByteAt(u, MapEnd(pe, b))
    BY <1>6 DEF A, B
  <1> QED
    BY <1>5, <1>8, <1>9, <1>10 DEF e, pe, u

----------------------------------------------------------------------------
(* The client and its changes.                                             *)

PositionRec == [line : Nat, character : Nat]
RangeRec    == [start : PositionRec, end : PositionRec] \union {Whole}
ChangeRec   == [range : RangeRec, new : Inserts, last : BOOLEAN]

Over(s, p) == IF EndsLine(s, p) THEN Overshoot ELSE 0

(* The texts of the model are sequences of characters.                      *)
LEMMA InsertsAreTexts == Texts \subseteq Seq(Char) /\ Inserts \subseteq Seq(Char)
  BY EncAssumption

(* What a client says of a place: its line, and the units before it.        *)
LEMMA ClientPositionFacts ==
  ASSUME NEW s, NEW p \in Nat
  PROVE  /\ ClientPosition(s, p)
              = [line      |-> LineOf(s, p),
                 character |-> Units(Enc, s, LineFrom(s, p), p) + Over(s, p)]
         /\ ClientPosition(s, p) \in PositionRec
         /\ Over(s, p) \in Nat
         /\ Over(s, p) > 0 => EndsLine(s, p)
  <1>1. ClientPosition(s, p)
          = [line      |-> LineOf(s, p),
             character |-> Units(Enc, s, LineFrom(s, p), p) + Over(s, p)]
    BY DEF ClientPosition, LineOf, LineFrom, Lfs, Over
  <1>2. Over(s, p) \in Nat /\ (Over(s, p) > 0 => EndsLine(s, p))
    BY BoundsAssumption DEF Over
  <1>3. LineOf(s, p) \in Nat
    BY LfsFinite
  <1>4. Units(Enc, s, LineFrom(s, p), p) \in Nat
    BY LineFromFacts, UnitsType
  <1>5. Units(Enc, s, LineFrom(s, p), p) + Over(s, p) \in Nat
    BY <1>2, <1>4
  <1> QED
    BY <1>1, <1>2, <1>3, <1>5 DEF PositionRec

(* The offset of a position the client computed in a text is that place's.  *)
LEMMA ClientOffset ==
  ASSUME NEW s, Len(s) \in Nat, NEW p \in 0 .. Len(s)
  PROVE  Offset(LineIndex(s), s, ClientPosition(s, p), Enc) = ByteAt(s, p)
  <1>1. p \in Nat /\ Enc \in Encoding
    BY EncAssumption
  <1> QED
    BY <1>1, ClientPositionFacts, OffsetOfPlace

(* A text follows from another by a change the client makes.                *)
Follows(s, change, t) ==
  \E from \in 0 .. Len(s) : \E to \in from .. Len(s) :
    change.range \in RangesFor(s, from, to) /\ t = Replace(s, from, to, change.new)

(* What a client may say of two places is a range.                          *)
LEMMA RangesAreRanges ==
  ASSUME NEW s, NEW from \in Nat, NEW to \in Nat
  PROVE  RangesFor(s, from, to) \subseteq RangeRec
  BY ClientPositionFacts DEF RangesFor, RangeRec

(* What a change says of a text it was made in: the stretch it replaces.     *)
RangeStart(s, range) ==
  IF range = Whole THEN 0 ELSE Offset(LineIndex(s), s, range.start, Enc)

RangeEnd(s, range) ==
  IF range = Whole THEN ByteLen(s)
  ELSE Larger(RangeStart(s, range), Offset(LineIndex(s), s, range.end, Enc))

(* The server finds the bytes that the client meant.                        *)
LEMMA RangeResolves ==
  ASSUME NEW s, Len(s) \in Nat, NEW from \in 0 .. Len(s), NEW to \in from .. Len(s),
         NEW range \in RangesFor(s, from, to)
  PROVE  RangeStart(s, range) = ByteAt(s, from) /\ RangeEnd(s, range) = ByteAt(s, to)
  <1>1. CASE range = Whole
    <2>1. \A p, q \in PositionRec : [start |-> p, end |-> q] # Whole
      BY DEF Whole
    <2>2. from \in Nat /\ to \in Nat
      OBVIOUS
    <2>3. [start |-> ClientPosition(s, from), end |-> ClientPosition(s, to)] # Whole
      BY <2>1, <2>2, ClientPositionFacts
    <2>4. from = 0 /\ to = Len(s)
      BY <1>1, <2>3 DEF RangesFor
    <2> QED
      BY <1>1, <2>4, ByteAtZero DEF RangeStart, RangeEnd, ByteLen
  <1>2. CASE range # Whole
    <2>1. range = [start |-> ClientPosition(s, from), end |-> ClientPosition(s, to)]
      BY <1>2 DEF RangesFor
    <2>2. /\ range.start = ClientPosition(s, from)
          /\ range.end = ClientPosition(s, to)
      BY <2>1
    <2>3. RangeStart(s, range) = ByteAt(s, from)
      BY <1>2, <2>2, ClientOffset DEF RangeStart
    <2>4. to \in 0 .. Len(s)
      OBVIOUS
    <2>5. Offset(LineIndex(s), s, range.end, Enc) = ByteAt(s, to)
      BY <2>2, <2>4, ClientOffset
    <2>6. /\ ByteAt(s, from) <= ByteAt(s, to)
          /\ ByteAt(s, from) \in Nat /\ ByteAt(s, to) \in Nat
      BY ByteAtOrder, ByteAtType
    <2>7. Larger(ByteAt(s, from), ByteAt(s, to)) = ByteAt(s, to)
      BY <2>6 DEF Larger
    <2> QED
      BY <1>2, <2>3, <2>5, <2>7 DEF RangeEnd
  <1> QED
    BY <1>1, <1>2

----------------------------------------------------------------------------
(* Regions.                                                                *)

RegionRec == [span : Span, chars : Seq(Char), touched : BOOLEAN]

(* A region lies between characters and, untouched, on the same characters   *)
(* as at first.                                                            *)
RegionFits(s, r) ==
  /\ r \in RegionRec
  /\ \E a \in 0 .. Len(s) : \E b \in a .. Len(s) :
       /\ r.span.start = ByteAt(s, a) /\ r.span.end = ByteAt(s, b)
       /\ ~r.touched => SubSeq(s, a + 1, b) = r.chars

(* What an edit makes of a region.                                         *)
RegionAfter(e, r) ==
  [r EXCEPT !.span = MapSpan(e, @, @.rev + 1), !.touched = @ \/ Touches(e, r.span)]

(* A stretch that stands d places further in another text.                  *)
LEMMA CarriedStretch ==
  ASSUME NEW s \in Seq(Char), NEW t \in Seq(Char), NEW a \in Nat, NEW b \in Nat,
         NEW d \in Int, a <= b, b <= Len(s), Carries(s, a, b, t, d),
         NEW f \in Nat, NEW g \in Nat, f = a + d, g = b + d, g <= Len(t)
  PROVE  SubSeq(t, f + 1, g) = SubSeq(s, a + 1, b)
  <1> DEFINE x == SubSeq(t, f + 1, g)
             y == SubSeq(s, a + 1, b)
  <1>1. /\ Len(s) \in Nat /\ Len(t) \in Nat
    OBVIOUS
  <1>2. /\ x \in Seq(Char) /\ Len(x) = b - a
        /\ \A i \in 1 .. (b - a) : x[i] = t[f + i]
    BY <1>1
  <1>3. /\ y \in Seq(Char) /\ Len(y) = b - a
        /\ \A i \in 1 .. (b - a) : y[i] = s[a + i]
    BY <1>1
  <1>4. ASSUME NEW i \in 1 .. (b - a) PROVE t[f + i] = s[a + i]
    <2>1. a + i \in (a + 1) .. b /\ (a + i) + d = f + i
      OBVIOUS
    <2> QED
      BY <2>1 DEF Carries
  <1> HIDE DEF x, y
  <1>5. Len(x) = Len(y) /\ \A i \in 1 .. Len(x) : x[i] = y[i]
    BY <1>2, <1>3, <1>4
  <1>6. x = y
    BY <1>2, <1>3, <1>5, SeqEqual, Zenon
  <1> QED
    BY <1>6 DEF x, y

(* A region moved by an edit starts and ends at places of the new text.     *)
LEMMA RegionStaysFit ==
  ASSUME NEW s \in Seq(Char), NEW new \in Seq(Char),
         NEW from \in 0 .. Len(s), NEW to \in from .. Len(s),
         NEW r, RegionFits(s, r)
  PROVE  RegionFits(Replace(s, from, to, new), RegionAfter(ByteEdit(s, from, to, new), r))
  <1> DEFINE e  == ByteEdit(s, from, to, new)
             pe == PlaceEdit(from, to, new)
             u  == Replace(s, from, to, new)
             q  == RegionAfter(e, r)
             d  == from + Len(new) - to
  <1>1. PICK a \in 0 .. Len(s) : \E b \in a .. Len(s) :
          /\ r.span.start = ByteAt(s, a) /\ r.span.end = ByteAt(s, b)
          /\ ~r.touched => SubSeq(s, a + 1, b) = r.chars
    BY DEF RegionFits
  <1>2. PICK b \in a .. Len(s) :
          /\ r.span.start = ByteAt(s, a) /\ r.span.end = ByteAt(s, b)
          /\ ~r.touched => SubSeq(s, a + 1, b) = r.chars
    BY <1>1
  <1>3. r \in RegionRec /\ r.span \in Span /\ r.span.rev \in Nat
    BY DEF RegionFits, RegionRec, Span
  <1> DEFINE x == MapPos(pe, a)
             y == MapEnd(pe, b)
  <1>4. /\ e \in Edit /\ pe \in Edit
        /\ x \in 0 .. Len(u) /\ y \in x .. Len(u)
        /\ MapPos(e, ByteAt(s, a)) = ByteAt(u, x)
        /\ MapEnd(e, ByteAt(s, b)) = ByteAt(u, y)
        /\ \A c, k : Touches(e, ByteSpan(s, a, b, c)) <=> Touches(pe, SpanOf(a, b, k))
    BY EditsAgree
  <1>5. r.span = ByteSpan(s, a, b, r.span.rev)
    BY <1>2, <1>3 DEF Span, SpanOf, ByteSpan
  <1>6. Touches(e, r.span) <=> Touches(pe, SpanOf(a, b, 0))
    BY <1>4, <1>5
  <1> HIDE DEF e, pe, u, x, y
  <1>7. MapSpan(e, r.span, r.span.rev + 1) \in Span
    <2>1. r.span.rev + 1 \in Nat /\ r.span \in Span
      BY <1>3
    <2>2. e \in Edit
      BY <1>4
    <2> QED
      BY <2>1, <2>2, MapSpanType
  <1>8. /\ q.span = MapSpan(e, r.span, r.span.rev + 1)
        /\ q.touched = (r.touched \/ Touches(e, r.span))
        /\ q.chars = r.chars
    BY <1>3 DEF RegionAfter, RegionRec
  <1>9. q \in RegionRec
    <2>1. r.touched \in BOOLEAN /\ (r.touched \/ Touches(e, r.span)) \in BOOLEAN
      BY <1>3 DEF RegionRec
    <2> QED
      BY <1>3, <1>7, <2>1 DEF RegionAfter, RegionRec
  <1>10. q.span.start = ByteAt(u, x) /\ q.span.end = ByteAt(u, y)
    BY <1>2, <1>4, <1>8 DEF MapSpan, SpanOf
  <1>11. ASSUME ~q.touched PROVE SubSeq(u, x + 1, y) = q.chars
    <2>0. ~r.touched /\ ~Touches(pe, SpanOf(a, b, 0))
      BY <1>6, <1>8, <1>11
    <2>1. SubSeq(s, a + 1, b) = q.chars
      BY <1>2, <1>8, <2>0
    <2>2. /\ u \in Seq(Char) /\ Len(u) = Len(s) + d /\ d \in Int
          /\ \A i \in 1 .. from : u[i] = s[i]
          /\ Carries(s, to, Len(s), u, d)
      BY ReplaceFacts DEF u
    <2>3. /\ a \in Nat /\ b \in Nat /\ a <= b /\ b <= Len(s) /\ Len(s) \in Nat
          /\ from \in Nat /\ to \in Nat /\ from <= to /\ Len(new) \in Nat
      OBVIOUS
    <2>4. SpanOf(a, b, 0) \in Span
      BY <2>3 DEF Span, SpanOf
    <2>5. \/ b <= from /\ x = a /\ y = b
          \/ to <= a /\ x = a + d /\ y = b + d
      <3>1. /\ MapSpan(pe, SpanOf(a, b, 0), 0).start = x
            /\ MapSpan(pe, SpanOf(a, b, 0), 0).end = y
            /\ SpanOf(a, b, 0).start = a /\ SpanOf(a, b, 0).end = b
        BY DEF MapSpan, SpanOf, x, y
      <3>2. pe.start = from /\ pe.oldEnd = to /\ pe.newEnd = from + Len(new)
        BY DEF pe, PlaceEdit
      <3>3. \/ b <= from /\ x = a /\ y = b
            \/ to <= a /\ x = a + (pe.newEnd - to) /\ y = b + (pe.newEnd - to)
        BY <1>4, <2>0, <2>4, <3>1, <3>2, UntouchedSpansMoveRigidly, 0 \in Nat
      <3>4. pe.newEnd - to = d
        BY <2>3, <3>2
      <3> QED
        BY <3>3, <3>4
    <2>u. u \in Seq(Char) /\ s \in Seq(Char)
      BY <2>2
    <2> HIDE DEF d
    <2>6. CASE b <= from /\ x = a /\ y = b
      <3>1. Carries(s, a, b, u, 0)
        BY <2>2, <2>3, <2>6 DEF Carries
      <3>2. /\ x \in Nat /\ y \in Nat /\ x = a + 0 /\ y = b + 0 /\ y <= Len(u)
            /\ a \in Nat /\ b \in Nat /\ a <= b /\ b <= Len(s) /\ 0 \in Int
        BY <1>4, <2>3, <2>6
      <3>3. SubSeq(u, x + 1, y) = SubSeq(s, a + 1, b)
        BY <2>u, <3>1, <3>2, CarriedStretch
      <3> QED
        BY <2>1, <3>3
    <2>7. CASE to <= a /\ x = a + d /\ y = b + d
      <3>1. Carries(s, a, b, u, d)
        BY <2>2, <2>3, <2>7 DEF Carries
      <3>2. /\ x \in Nat /\ y \in Nat /\ x = a + d /\ y = b + d /\ y <= Len(u)
            /\ a \in Nat /\ b \in Nat /\ a <= b /\ b <= Len(s) /\ d \in Int
        BY <1>4, <2>2, <2>3, <2>7
      <3>3. SubSeq(u, x + 1, y) = SubSeq(s, a + 1, b)
        BY <2>u, <3>1, <3>2, CarriedStretch
      <3> QED
        BY <2>1, <3>3
    <2> QED
      BY <2>5, <2>6, <2>7
  <1>12. RegionFits(u, q)
    BY <1>4, <1>9, <1>10, <1>11 DEF RegionFits
  <1> QED
    BY <1>12 DEF e, u

----------------------------------------------------------------------------
(* The invariant.                                                          *)

WellTyped ==
  /\ client \in Seq(Char) /\ text \in Seq(Char) /\ sent \in Seq(ChangeRec)
  /\ changes \in 0 .. MaxChanges /\ version \in Nat
  /\ version + Len(sent) <= changes

(* The texts from the document's to the client's, a change apart each.      *)
IsHistory(h) ==
  /\ h \in [0 .. Len(sent) -> Seq(Char)]
  /\ h[0] = text /\ h[Len(sent)] = client
  /\ \A i \in 1 .. Len(sent) : Follows(h[i - 1], sent[i], h[i])

InSync == \E h : IsHistory(h)

Tracks ==
  /\ index = LineIndex(text)
  /\ root \in Span /\ root.start = 0 /\ root.end = ByteLen(text)
  /\ \A r \in regions : RegionFits(text, r)

DInv == WellTyped /\ InSync /\ Tracks

(* The invariant holds when the document is opened,                         *)
LEMMA DInvInit == Init => DInv
  <1> SUFFICES ASSUME Init PROVE DInv
    OBVIOUS
  <1>0. /\ client \in Seq(Char) /\ text = client /\ sent = <<>> /\ changes = 0
        /\ version = 0 /\ index = LineIndex(text)
    BY InsertsAreTexts DEF Init
  <1>1. Len(sent) = 0 /\ sent \in Seq(ChangeRec)
    BY <1>0
  <1>2. WellTyped
    BY <1>0, <1>1, BoundsAssumption DEF WellTyped
  <1>3. InSync
    <2> DEFINE h == [i \in 0 .. Len(sent) |-> text]
    <2>1. IsHistory(h)
      BY <1>0, <1>1 DEF IsHistory
    <2> QED
      BY <2>1 DEF InSync
  <1>4. root \in Span /\ root.start = 0 /\ root.end = ByteLen(text)
    <2>1. ByteLen(text) \in Nat
      BY <1>0, ByteAtType DEF ByteLen
    <2> QED
      BY <1>0, <2>1 DEF Init, SpanOf, Span
  <1>5. ASSUME NEW r \in regions PROVE RegionFits(text, r)
    <2>1. PICK a \in Places(text) : \E b \in a .. Len(text) :
            r = [span    |-> SpanOf(ByteAt(text, a), ByteAt(text, b), 0),
                 chars   |-> SubSeq(text, a + 1, b),
                 touched |-> FALSE]
      BY <1>0 DEF Init
    <2>2. PICK b \in a .. Len(text) :
            r = [span    |-> SpanOf(ByteAt(text, a), ByteAt(text, b), 0),
                 chars   |-> SubSeq(text, a + 1, b),
                 touched |-> FALSE]
      BY <2>1
    <2>3. /\ a \in 0 .. Len(text) /\ a \in Nat /\ b \in Nat /\ a <= b
          /\ b <= Len(text) /\ Len(text) \in Nat
      BY <1>0 DEF Places
    <2>4. /\ ByteAt(text, a) \in Nat /\ ByteAt(text, b) \in Nat
          /\ ByteAt(text, a) <= ByteAt(text, b)
      BY <2>3, ByteAtType, ByteAtOrder
    <2>5. SpanOf(ByteAt(text, a), ByteAt(text, b), 0) \in Span
      BY <2>4 DEF SpanOf, Span
    <2>6. SubSeq(text, a + 1, b) \in Seq(Char)
      BY <1>0, <2>3
    <2>7. r \in RegionRec
      BY <2>2, <2>5, <2>6 DEF RegionRec
    <2>8. /\ r.span.start = ByteAt(text, a) /\ r.span.end = ByteAt(text, b)
          /\ SubSeq(text, a + 1, b) = r.chars
      BY <2>2 DEF SpanOf
    <2> QED
      BY <2>3, <2>7, <2>8 DEF RegionFits
  <1> QED
    BY <1>0, <1>2, <1>3, <1>4, <1>5 DEF DInv, Tracks

(* when the client changes its copy,                                        *)
LEMMA DInvClientEdit ==
  ASSUME DInv, NEW from \in Places(client), NEW to \in Places(client),
         NEW new \in Inserts, NEW last \in BOOLEAN, ClientEdit(from, to, new, last)
  PROVE  DInv'
  <1>1. /\ from <= to /\ changes < MaxChanges /\ changes' = changes + 1
        /\ client' = Replace(client, from, to, new)
        /\ UNCHANGED docVars
    BY DEF ClientEdit
  <1>2. PICK range \in RangesFor(client, from, to) :
          sent' = Append(sent, [range |-> range, new |-> new, last |-> last])
    BY DEF ClientEdit
  <1> DEFINE change == [range |-> range, new |-> new, last |-> last]
             n == Len(sent)
  <1>3. /\ client \in Seq(Char) /\ sent \in Seq(ChangeRec) /\ n \in Nat
        /\ new \in Seq(Char) /\ Len(client) \in Nat
        /\ from \in 0 .. Len(client) /\ to \in from .. Len(client)
    BY <1>1, InsertsAreTexts DEF DInv, WellTyped, Places
  <1>4. client' \in Seq(Char)
    BY <1>1, <1>3, ReplaceFacts
  <1>5. change \in ChangeRec
    BY <1>3, RangesAreRanges DEF ChangeRec
  <1>6. /\ sent' \in Seq(ChangeRec) /\ Len(sent') = n + 1
        /\ sent'[n + 1] = change /\ \A i \in 1 .. n : sent'[i] = sent[i]
    BY <1>2, <1>3, <1>5
  <1>7. WellTyped'
    <2>1. text' = text /\ version' = version
      BY <1>1 DEF docVars
    <2>2. /\ changes' \in 0 .. MaxChanges
          /\ version' \in Nat /\ version' + Len(sent') <= changes'
      BY <1>1, <1>3, <1>6, <2>1, BoundsAssumption DEF DInv, WellTyped
    <2> QED
      BY <1>4, <1>6, <2>1, <2>2 DEF DInv, WellTyped
  <1>8. InSync'
    <2>1. PICK h : IsHistory(h)
      BY DEF DInv, InSync
    <2>2. /\ h \in [0 .. n -> Seq(Char)] /\ h[0] = text /\ h[n] = client
          /\ \A i \in 1 .. n : Follows(h[i - 1], sent[i], h[i])
      BY <2>1 DEF IsHistory
    <2> DEFINE g == [i \in 0 .. n + 1 |-> IF i <= n THEN h[i] ELSE client']
    <2> HIDE DEF n, change
    <2>3. g \in [0 .. n + 1 -> Seq(Char)]
      BY <1>3, <1>4, <2>2
    <2>4. g[0] = h[0] /\ g[n + 1] = client' /\ g[n] = h[n] /\ \A i \in 0 .. n : g[i] = h[i]
      BY <1>3
    <2>5. change.range = range /\ change.new = new
      BY DEF change
    <2>6. Follows(client, change, client')
      BY <1>1, <1>3, <2>5 DEF Follows
    <2>7. ASSUME NEW i \in 1 .. n + 1 PROVE Follows(g[i - 1], sent'[i], g[i])
      <3>1. CASE i \in 1 .. n
        <4>1. i - 1 \in 0 .. n /\ i \in 0 .. n
          BY <1>3, <3>1
        <4>2. g[i - 1] = h[i - 1] /\ g[i] = h[i] /\ sent'[i] = sent[i]
          BY <1>6, <2>4, <3>1, <4>1
        <4> QED
          BY <2>2, <3>1, <4>2
      <3>2. CASE i = n + 1
        <4>1. i - 1 = n
          BY <1>3, <3>2
        <4>2. g[i - 1] = client /\ g[i] = client' /\ sent'[i] = change
          BY <1>6, <2>2, <2>4, <3>2, <4>1
        <4> QED
          BY <2>6, <4>2
      <3> QED
        BY <1>3, <3>1, <3>2
    <2>8. text' = text
      BY <1>1 DEF docVars
    <2> HIDE DEF g
    <2>9. PICK k : k = g
      OBVIOUS
    <2>10. /\ k \in [0 .. n + 1 -> Seq(Char)] /\ k[0] = text' /\ k[n + 1] = client'
           /\ \A i \in 1 .. n + 1 : Follows(k[i - 1], sent'[i], k[i])
      BY <2>2, <2>3, <2>4, <2>7, <2>8, <2>9
    <2>11. IsHistory(k)'
      BY <1>6, <2>10 DEF IsHistory
    <2> QED
      BY <2>11 DEF InSync
  <1>9. Tracks'
    BY <1>1 DEF DInv, Tracks, docVars
  <1> QED
    BY <1>7, <1>8, <1>9 DEF DInv

(* The change the document applies next was made in a text that is the       *)
(* document's by now, so that it is resolved to the client's places.        *)
LEMMA NextChange ==
  ASSUME DInv, NEW h, IsHistory(h), sent # <<>>
  PROVE  \E from \in 0 .. Len(text) : \E to \in from .. Len(text) :
           /\ StartOf(Change) = ByteAt(text, from) /\ EndOf(Change) = ByteAt(text, to)
           /\ h[1] = Replace(text, from, to, Change.new)
  <1>1. Len(sent) \in Nat /\ Len(sent) >= 1 /\ 1 \in 1 .. Len(sent)
    BY DEF DInv, WellTyped
  <1>2. Change = sent[1]
    BY <1>1 DEF Change, DInv, WellTyped
  <1>3. Follows(h[1 - 1], sent[1], h[1]) /\ h[0] = text
    BY <1>1 DEF IsHistory
  <1>4. Follows(text, Change, h[1])
    BY <1>2, <1>3
  <1>51. PICK from \in 0 .. Len(text) : \E to \in from .. Len(text) :
          Change.range \in RangesFor(text, from, to)
            /\ h[1] = Replace(text, from, to, Change.new)
    BY <1>4 DEF Follows
  <1>5. PICK to \in from .. Len(text) :
          Change.range \in RangesFor(text, from, to)
            /\ h[1] = Replace(text, from, to, Change.new)
    BY <1>51
  <1>6. index = LineIndex(text) /\ Len(text) \in Nat
    BY DEF DInv, Tracks, WellTyped
  <1>7. RangeStart(text, Change.range) = ByteAt(text, from)
    BY <1>5, <1>6, RangeResolves
  <1>8. RangeEnd(text, Change.range) = ByteAt(text, to)
    BY <1>5, <1>6, RangeResolves
  <1>9. StartOf(Change) = ByteAt(text, from)
    BY <1>6, <1>7 DEF StartOf, RangeStart
  <1>10. EndOf(Change) = ByteAt(text, to)
    BY <1>6, <1>8 DEF EndOf, RangeEnd, StartOf, RangeStart
  <1> QED
    BY <1>5, <1>9, <1>10

(* and when the server follows.                                             *)
LEMMA DInvApplyChange ==
  ASSUME DInv, ApplyChange
  PROVE  DInv'
  <1> DEFINE n == Len(sent)
  <1>1. /\ client \in Seq(Char) /\ text \in Seq(Char) /\ sent \in Seq(ChangeRec)
        /\ n \in Nat /\ Len(text) \in Nat
    BY DEF DInv, WellTyped
  <1>2. sent # <<>> /\ n >= 1
    <2>1. PICK i \in 1 .. n : sent[i].last
      BY DEF ApplyChange
    <2>2. n >= 1
      BY <1>1, <2>1
    <2> QED
      BY <1>1, <2>2
  <1>3. PICK h : IsHistory(h)
    BY DEF DInv, InSync
  <1>4. PICK from \in 0 .. Len(text) : \E to \in from .. Len(text) :
           /\ StartOf(Change) = ByteAt(text, from) /\ EndOf(Change) = ByteAt(text, to)
           /\ h[1] = Replace(text, from, to, Change.new)
    BY <1>2, <1>3, NextChange
  <1>5. PICK to \in from .. Len(text) :
           /\ StartOf(Change) = ByteAt(text, from) /\ EndOf(Change) = ByteAt(text, to)
           /\ h[1] = Replace(text, from, to, Change.new)
    BY <1>4
  <1> DEFINE new == Change.new
             e   == ByteEdit(text, from, to, new)
  <1>6. new \in Seq(Char) /\ Change \in ChangeRec
    <2>1. Change \in ChangeRec
      BY <1>1, <1>2 DEF Change
    <2> QED
      BY <2>1, InsertsAreTexts DEF ChangeRec
  <1>7. EditOf(Change) = e
    BY <1>5 DEF EditOf, ByteEdit
  <1>8. PlaceAt(text, e.start) = from /\ PlaceAt(text, e.oldEnd) = to
    <2>1. e.start = ByteAt(text, from) /\ e.oldEnd = ByteAt(text, to)
      BY DEF ByteEdit
    <2>2. to \in 0 .. Len(text)
      OBVIOUS
    <2> QED
      BY <1>1, <2>1, <2>2, PlaceAtByte
  <1> HIDE DEF e, new
  <1>9. /\ text' = Replace(text, from, to, new)
        /\ root' = MapSpan(e, root, root.rev + 1)
        /\ regions' = {RegionAfter(e, r) : r \in regions}
        /\ index' = LineIndex(text')
        /\ version' = (IF Change.last THEN version + 1 ELSE version)
        /\ sent' = Tail(sent) /\ client' = client /\ changes' = changes
    BY <1>7, <1>8 DEF ApplyChange, RegionAfter, IndexAfter, new
  <1>10. text' \in Seq(Char)
    BY <1>1, <1>6, <1>9, ReplaceFacts
  <1>11. /\ sent' \in Seq(ChangeRec) /\ Len(sent') = n - 1
         /\ \A i \in 1 .. n - 1 : sent'[i] = sent[i + 1]
    BY <1>1, <1>2, <1>9
  <1>12. WellTyped'
    <2>1. version' \in Nat /\ version' <= version + 1
      BY <1>9 DEF DInv, WellTyped
    <2>2. version' + Len(sent') <= changes' /\ changes' \in 0 .. MaxChanges
      BY <1>1, <1>2, <1>9, <1>11, <2>1 DEF DInv, WellTyped
    <2> QED
      BY <1>1, <1>9, <1>10, <1>11, <2>1, <2>2 DEF WellTyped
  <1>13. InSync'
    <2>1. /\ h \in [0 .. n -> Seq(Char)] /\ h[0] = text /\ h[n] = client
          /\ \A i \in 1 .. n : Follows(h[i - 1], sent[i], h[i])
      BY <1>3 DEF IsHistory
    <2> DEFINE g == [i \in 0 .. n - 1 |-> h[i + 1]]
    <2> HIDE DEF n
    <2>2. g \in [0 .. n - 1 -> Seq(Char)]
      BY <1>1, <1>2, <2>1
    <2>3. g[0] = text'
      BY <1>1, <1>2, <1>5, <1>9 DEF new
    <2>4. g[n - 1] = client'
      BY <1>1, <1>2, <1>9, <2>1
    <2>5. ASSUME NEW i \in 1 .. n - 1 PROVE Follows(g[i - 1], sent'[i], g[i])
      <3>1. /\ i - 1 \in 0 .. n - 1 /\ i \in 0 .. n - 1 /\ i + 1 \in 1 .. n
            /\ (i - 1) + 1 = i /\ (i + 1) - 1 = i
        BY <1>1, <1>2
      <3>2. g[i - 1] = h[i] /\ g[i] = h[i + 1] /\ sent'[i] = sent[i + 1]
        BY <1>11, <3>1
      <3>3. Follows(h[(i + 1) - 1], sent[i + 1], h[i + 1])
        BY <2>1, <3>1
      <3> QED
        BY <3>1, <3>2, <3>3
    <2> HIDE DEF g
    <2>6. PICK k : k = g
      OBVIOUS
    <2>7. /\ k \in [0 .. n - 1 -> Seq(Char)] /\ k[0] = text' /\ k[n - 1] = client'
          /\ \A i \in 1 .. n - 1 : Follows(k[i - 1], sent'[i], k[i])
      BY <2>2, <2>3, <2>4, <2>5, <2>6
    <2>8. IsHistory(k)'
      BY <1>11, <2>7 DEF IsHistory
    <2> QED
      BY <2>8 DEF InSync
  <1>14. root' \in Span /\ root'.start = 0 /\ root'.end = ByteLen(text')
    <2>1. /\ root \in Span /\ root.start = 0 /\ root.end = ByteLen(text)
          /\ root.rev \in Nat /\ root.rev + 1 \in Nat
      BY DEF DInv, Tracks, Span
    <2>2. e \in Edit
      BY <1>1, <1>6, EditsAgree, 0 \in 0 .. Len(text) DEF e
    <2>3. root' \in Span
      BY <1>9, <2>1, <2>2, MapSpanType
    <2>4. root = SpanOf(0, ByteLen(text), root.rev) /\ ByteLen(text) \in Nat
      BY <1>1, <2>1, ByteAtType DEF Span, SpanOf, ByteLen
    <2>5. /\ e.start = ByteAt(text, from) /\ e.oldEnd = ByteAt(text, to)
          /\ e.newEnd = ByteAt(text, from) + ByteLen(new)
          /\ e.oldEnd <= ByteLen(text)
      <3>1. ByteAt(text, to) <= ByteLen(text)
        BY <1>1, ByteAtOrder DEF ByteLen
      <3> QED
        BY <3>1 DEF e, ByteEdit
    <2>6. root' = SpanOf(0, e.newEnd + (ByteLen(text) - e.oldEnd), root.rev + 1)
      BY <1>9, <2>1, <2>2, <2>4, <2>5, EditOfWholeText
    <2>7. ByteLen(text') = ByteAt(text, from) + ByteLen(new)
                             + (ByteLen(text) - ByteAt(text, to))
      <3>1. Len(text) \in to .. Len(text)
        BY <1>1
      <3>2. Len(text') = Len(text) + (from + Len(new) - to)
        BY <1>1, <1>6, <1>9, ReplaceFacts
      <3>3. ByteAt(Replace(text, from, to, new), Len(text) + (from + Len(new) - to))
              = ByteAt(text, from) + ByteLen(new)
                  + (ByteAt(text, Len(text)) - ByteAt(text, to))
        BY <1>1, <1>6, <3>1, ReplaceBytes
      <3> QED
        BY <1>9, <3>2, <3>3 DEF ByteLen
    <2> QED
      BY <2>3, <2>5, <2>6, <2>7 DEF SpanOf
  <1>15. ASSUME NEW q \in regions' PROVE RegionFits(text', q)
    <2>1. PICK r \in regions : q = RegionAfter(e, r)
      BY <1>9
    <2>2. RegionFits(text, r)
      BY DEF DInv, Tracks
    <2> QED
      BY <1>1, <1>6, <1>9, <2>1, <2>2, RegionStaysFit DEF e
  <1> QED
    BY <1>9, <1>12, <1>13, <1>14, <1>15 DEF DInv, Tracks

(* In every reachable state the changes that are under way lead from the     *)
(* document's text to the client's, and index, root and regions are about    *)
(* the document's text.                                                    *)
THEOREM DocumentInvariance == Spec => []DInv
  <1>1. DInv /\ [Next]_vars => DInv'
    <2> SUFFICES ASSUME DInv, [Next]_vars PROVE DInv'
      OBVIOUS
    <2>1. CASE UNCHANGED vars
      BY <2>1 DEF vars, docVars, DInv, WellTyped, InSync, IsHistory, Tracks
    <2>2. CASE ApplyChange
      BY <2>2, DInvApplyChange
    <2>3. ASSUME NEW from \in Places(client), NEW to \in Places(client),
                 NEW new \in Inserts, NEW last \in BOOLEAN,
                 ClientEdit(from, to, new, last)
          PROVE  DInv'
      BY <2>3, DInvClientEdit
    <2> QED
      BY <2>1, <2>2, <2>3 DEF Next
  <1> QED
    BY DInvInit, <1>1, PTL DEF Spec

----------------------------------------------------------------------------
(* What follows from it.                                                   *)

(* Texts are texts and spans spans, and the line starts the index holds are *)
(* offsets of the text it is kept for (Document::apply_changes).            *)
THEOREM DocumentTypeCorrectness == Spec => []TypeOK
  <1>1. DInv => TypeOK
    <2> SUFFICES ASSUME DInv PROVE TypeOK
      OBVIOUS
    <2>1. {client, text} \subseteq Seq(Char) /\ changes \in 0 .. MaxChanges
      BY DEF DInv, WellTyped
    <2>2. \A i \in 1 .. Len(sent) : sent[i].new \in Inserts /\ sent[i].last \in BOOLEAN
      <3>1. \A i \in 1 .. Len(sent) : sent[i] \in ChangeRec
        BY DEF DInv, WellTyped
      <3> QED
        BY <3>1 DEF ChangeRec
    <2>3. index.len \in Nat /\ index.starts \subseteq 0 .. ByteLen(text)
      <3>1. Len(text) \in Nat /\ index = LineIndex(text)
        BY DEF DInv, WellTyped, Tracks
      <3>2. index.len = ByteLen(text) /\ index.starts = Starts(text)
        BY <3>1 DEF LineIndex, Starts
      <3>3. ByteLen(text) \in Nat
        BY <3>1, ByteAtType DEF ByteLen
      <3>4. \A c \in Starts(text) : c \in Nat /\ c <= ByteLen(text)
        BY <3>1, StartsFacts
      <3> QED
        BY <3>2, <3>3, <3>4
    <2>4. version \in 0 .. MaxChanges
      <3>1. Len(sent) \in Nat /\ version \in Nat /\ version + Len(sent) <= changes
        BY DEF DInv, WellTyped
      <3> QED
        BY <2>1, <3>1, BoundsAssumption
    <2>5. root \in Span
      BY DEF DInv, Tracks
    <2>6. regions \subseteq [span : Span, chars : Seq(Char), touched : BOOLEAN]
      BY DEF DInv, Tracks, RegionFits, RegionRec
    <2> QED
      BY <2>1, <2>2, <2>3, <2>4, <2>5, <2>6 DEF TypeOK
  <1> QED
    BY DocumentInvariance, <1>1, PTL

(* When every change the client sent is applied the document holds the      *)
(* client's text, whatever columns the client used and however the changes  *)
(* of a batch moved one another's text (Document::apply_changes).           *)
THEOREM DocumentConverges == Spec => []DocumentFollowsClient
  <1>1. DInv => DocumentFollowsClient
    <2> SUFFICES ASSUME DInv, sent = <<>> PROVE text = client
      BY DEF DocumentFollowsClient
    <2>1. PICK h : IsHistory(h)
      BY DEF DInv, InSync
    <2>2. Len(sent) = 0
      OBVIOUS
    <2> QED
      BY <2>1, <2>2 DEF IsHistory
  <1> QED
    BY DocumentInvariance, <1>1, PTL

(* The root spans the text between any two changes, and a region no edit     *)
(* touched covers the characters it covered (Session::edit, Span::map).     *)
THEOREM DocumentSpansFollow == Spec => []SpansFollowTheText
  <1>1. DInv => SpansFollowTheText
    <2> SUFFICES ASSUME DInv PROVE SpansFollowTheText
      OBVIOUS
    <2>1. ASSUME NEW r \in regions, ~r.touched
          PROVE  SubSeq(text, PlaceAt(text, r.span.start) + 1,
                              PlaceAt(text, r.span.end)) = r.chars
      <3>0. Len(text) \in Nat
        BY DEF DInv, WellTyped
      <3>1. RegionFits(text, r)
        BY DEF DInv, Tracks
      <3>2. PICK a \in 0 .. Len(text) : \E b \in a .. Len(text) :
              /\ r.span.start = ByteAt(text, a) /\ r.span.end = ByteAt(text, b)
              /\ ~r.touched => SubSeq(text, a + 1, b) = r.chars
        BY <3>1 DEF RegionFits
      <3>3. PICK b \in a .. Len(text) :
              /\ r.span.start = ByteAt(text, a) /\ r.span.end = ByteAt(text, b)
              /\ ~r.touched => SubSeq(text, a + 1, b) = r.chars
        BY <3>2
      <3>4. b \in 0 .. Len(text)
        BY <3>0
      <3>5. PlaceAt(text, r.span.start) = a
        BY <3>0, <3>3, PlaceAtByte
      <3>6. PlaceAt(text, r.span.end) = b
        BY <3>0, <3>3, <3>4, PlaceAtByte
      <3> QED
        BY <2>1, <3>3, <3>5, <3>6
    <2>2. root.start = 0 /\ root.end = ByteLen(text)
      BY DEF DInv, Tracks
    <2> QED
      BY <2>1, <2>2 DEF SpansFollowTheText
  <1> QED
    BY DocumentInvariance, <1>1, PTL

(* The range a change names, resolved against the text and index the change *)
(* before it left, starts and ends between characters: replace_range never  *)
(* panics on an offset inside one.                                         *)
THEOREM ChangesCutBetweenCharacters == Spec => []ReplaceOnBoundaries
  <1>1. DInv => ReplaceOnBoundaries
    <2> SUFFICES ASSUME DInv, sent # <<>>
                 PROVE  IsBoundary(text, StartOf(Change)) /\ IsBoundary(text, EndOf(Change))
      BY DEF ReplaceOnBoundaries
    <2>0. Len(text) \in Nat
      BY DEF DInv, WellTyped
    <2>1. PICK h : IsHistory(h)
      BY DEF DInv, InSync
    <2>2. PICK from \in 0 .. Len(text) : \E to \in from .. Len(text) :
             /\ StartOf(Change) = ByteAt(text, from) /\ EndOf(Change) = ByteAt(text, to)
             /\ h[1] = Replace(text, from, to, Change.new)
      BY <2>1, NextChange
    <2>3. PICK to \in from .. Len(text) :
             StartOf(Change) = ByteAt(text, from) /\ EndOf(Change) = ByteAt(text, to)
      BY <2>2
    <2>4. to \in 0 .. Len(text)
      BY <2>0
    <2> QED
      BY <2>3, <2>4 DEF IsBoundary
  <1> QED
    BY DocumentInvariance, <1>1, PTL

(* Whatever edits a region lived through, its span starts and ends between   *)
(* characters of the present text, so that a run may slice by it.           *)
THEOREM RegionsCutBetweenCharacters == Spec => []RegionsOnBoundaries
  <1>1. DInv => RegionsOnBoundaries
    <2> SUFFICES ASSUME DInv, NEW r \in regions
                 PROVE  IsBoundary(text, r.span.start) /\ IsBoundary(text, r.span.end)
      BY DEF RegionsOnBoundaries
    <2>0. Len(text) \in Nat
      BY DEF DInv, WellTyped
    <2>1. RegionFits(text, r)
      BY DEF DInv, Tracks
    <2>2. PICK a \in 0 .. Len(text) : \E b \in a .. Len(text) :
            r.span.start = ByteAt(text, a) /\ r.span.end = ByteAt(text, b)
      BY <2>1 DEF RegionFits
    <2>3. PICK b \in a .. Len(text) :
            r.span.start = ByteAt(text, a) /\ r.span.end = ByteAt(text, b)
      BY <2>2
    <2>4. b \in 0 .. Len(text)
      BY <2>0
    <2> QED
      BY <2>3, <2>4 DEF IsBoundary
  <1> QED
    BY DocumentInvariance, <1>1, PTL

(* A position published for a character boundary, echoed back, finds that   *)
(* boundary: LineIndex::position and LineIndex::offset, in every encoding.  *)
THEOREM PositionsRoundTrip == Spec => []RoundTrip
  <1>1. DInv => RoundTrip
    <2> SUFFICES ASSUME DInv, NEW enc \in Encoding, NEW p \in Places(text)
                 PROVE  Offset(index, text,
                               Position(index, text, ByteAt(text, p), enc), enc)
                          = ByteAt(text, p)
      BY DEF RoundTrip
    <2>0. /\ Len(text) \in Nat /\ index = LineIndex(text) /\ p \in 0 .. Len(text)
          /\ text \in Seq(Char)
      BY DEF DInv, WellTyped, Tracks, Places
    <2> DEFINE u == Units(enc, text, LineFrom(text, p), p)
    <2>1. Position(index, text, ByteAt(text, p), enc)
            = [line |-> LineOf(text, p), character |-> u]
      BY <2>0, PositionOfPlace
    <2>2. u \in Nat
      <3>1. LineFrom(text, p) \in 0 .. p
        BY <2>0, LineFromFacts
      <3> QED
        BY <2>0, <3>1, UnitsType
    <2>3. Offset(LineIndex(text), text,
                 [line |-> LineOf(text, p), character |-> u + 0], enc)
            = ByteAt(text, p)
      BY <2>0, 0 \in Nat, OffsetOfPlace
    <2> HIDE DEF u
    <2>4. u + 0 = u
      BY <2>2
    <2> QED
      BY <2>0, <2>1, <2>3, <2>4
  <1> QED
    BY DocumentInvariance, <1>1, PTL

(* A column stays on its line however far past its end it is, and a larger  *)
(* one never resolves to a smaller offset (LineIndex::offset).              *)
THEOREM ColumnsOnTheirLine == Spec => []ColumnsStayOnTheirLine
  <1>1. DInv => ColumnsStayOnTheirLine
    <2> SUFFICES ASSUME DInv PROVE ColumnsStayOnTheirLine
      OBVIOUS
    <2>0. Len(text) \in Nat /\ index = LineIndex(text) /\ ByteLen(text) \in Nat
      BY ByteAtType DEF DInv, WellTyped, Tracks, ByteLen
    <2>1. ASSUME NEW enc \in Encoding, NEW line \in 0 .. LineCount(index) - 1,
                 NEW column \in 0 .. ByteLen(text) + 1
          PROVE  /\ Position(index, text,
                      Offset(index, text, [line |-> line, character |-> column], enc),
                      enc).line = line
                 /\ Offset(index, text, [line |-> line, character |-> column], enc)
                      <= Offset(index, text, [line |-> line, character |-> column + 1], enc)
      <3>1. column \in Nat
        BY <2>0
      <3>2. line \in 0 .. LineCount(LineIndex(text)) - 1
        BY <2>0
      <3> QED
        BY <2>0, <3>1, <3>2, ColumnsKeepTheirLine
    <2> QED
      BY <2>1 DEF ColumnsStayOnTheirLine
  <1> QED
    BY DocumentInvariance, <1>1, PTL

============================================================================
