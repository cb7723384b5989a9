---------------------------- MODULE ServerProofs ----------------------------
(***************************************************************************)
(* The language server keeps what it promises for every number of documents *)
(* and messages, every size of the pipes and every client.                 *)
(*                                                                         *)
(* The argument follows the messages: let everything on its way arrive, in  *)
(* order. What the client knows then is what the server knows now, and what *)
(* the server knows then is what the client told it. The last two parts are *)
(* about the end of a session: what is owed when serve returns, and why it  *)
(* cannot but return.                                                      *)
(***************************************************************************)
EXTENDS Server, SequenceTheorems, SpansProofs

AnyMessage == FromClient \union ForClient

(* A store of documents, and the requests or answers that went by.          *)
Knowledge == [ids : Seq(Id), store : [Uri -> Contents]]

Know(ids, store) == [ids |-> ids, store |-> store]

(* What a message makes of it, at whichever end it arrives.                 *)
Stored(store, m) ==
  CASE m.kind = "diagnostics" -> [store EXCEPT ![m.uri] = m.contents]
    [] m.kind \in Document    -> [store EXCEPT ![m.uri] = After(@, m)]
    [] OTHER                  -> store

Heard(k, m) == Know(k.ids \o IdOf(m), Stored(k.store, m))

(* What the messages of s make of it, and the way there.                    *)
Delivered(k, s) ==
  LET upTo[n \in 0 .. Len(s)] == IF n = 0 THEN k ELSE Heard(upTo[n - 1], s[n])
  IN  upTo[Len(s)]

IsWay(f, k, s) ==
  f = [n \in 0 .. Len(s) |-> IF n = 0 THEN k ELSE Heard(f[n - 1], s[n])]

----------------------------------------------------------------------------
(* The inductive invariant.                                                *)

(* The writer thread ends when it has nothing more to write, or nobody to   *)
(* write to: a message that finds it gone has no reader either.            *)
WriterWasNotNeeded ==
  "writer" \in ended =>
    \/ client = "gone"
    \/ server \in {"joining", "done"} /\ outgoing = <<>>

(* With `known` at the client, what is on its way to it makes it know what   *)
(* the server has in its store, and what is on its way to the server what   *)
(* the client said.                                                        *)
Flow(known, from, store, to, said) ==
  LET there == Delivered(known, from) IN
    there.store = store /\ Delivered(there, to) = said

NothingIsLost ==
  server # "failed" /\ client # "gone" =>
    Flow(Know(answered, shown), FromServer, docs, ToServer, Know(asked, mirror))

IInv == TypeOK /\ WriterWasNotNeeded /\ NothingIsLost

----------------------------------------------------------------------------
(* Lemmas.                                                                 *)

(* A message is one more number, if it has one,                             *)
LEMMA HeardIds ==
  ASSUME NEW k, NEW m
  PROVE  Heard(k, m).ids = k.ids \o IdOf(m)
<1> DEFINE i == k.ids \o IdOf(m)
           st == Stored(k.store, m)
<1>1. Heard(k, m) = [ids |-> i, store |-> st]
  BY DEF Heard, Know
<1> HIDE DEF i, st
<1>2. Heard(k, m).ids = i
  BY <1>1
<1> QED
  BY <1>2 DEF i

(* and one more change to the store.                                        *)
LEMMA HeardStore ==
  ASSUME NEW k, NEW m
  PROVE  Heard(k, m).store = Stored(k.store, m)
<1> DEFINE i == k.ids \o IdOf(m)
           st == Stored(k.store, m)
<1>1. Heard(k, m) = [ids |-> i, store |-> st]
  BY DEF Heard, Know
<1> HIDE DEF i, st
<1>2. Heard(k, m).store = st
  BY <1>1
<1> QED
  BY <1>2 DEF st

(* What a request or a response adds,                                       *)
LEMMA HeardNumber ==
  ASSUME NEW ids \in Seq(Id), NEW store, NEW m, NEW id \in Id, IdOf(m) = <<id>>
  PROVE  Heard(Know(ids, store), m) = Know(Append(ids, id), Stored(store, m))
<1>1. Know(ids, store).ids = ids /\ Know(ids, store).store = store
  BY DEF Know
<1>2. Append(ids, id) = ids \o <<id>>
  BY AppendIsConcat
<1> QED
  BY <1>1, <1>2, Zenon DEF Heard

(* and a message without a number.                                          *)
LEMMA HeardNoNumber ==
  ASSUME NEW ids \in Seq(Id), NEW store, NEW m, IdOf(m) = <<>>
  PROVE  Heard(Know(ids, store), m) = Know(ids, Stored(store, m))
<1>1. Know(ids, store).ids = ids /\ Know(ids, store).store = store
  BY DEF Know
<1>2. ids \o <<>> = ids
  BY ConcatEmptySeq
<1> QED
  BY <1>1, <1>2, Zenon DEF Heard

(* A sequence is its head and its tail.                                    *)
LEMMA HeadThenTail ==
  ASSUME NEW S, NEW s \in Seq(S), s # <<>>
  PROVE  s = <<Head(s)>> \o Tail(s)
<1>1. Len(s) \in 1 .. Len(s) /\ 1 \in 1 .. Len(s)
  BY EmptySeq
<1>2. s = SubSeq(s, 1, Len(s))
  BY SubSeqFull
<1>3. SubSeq(s, 1, Len(s)) = <<s[1]>> \o SubSeq(s, 1 + 1, Len(s))
  BY <1>1, SubSeqRecursiveFirst
<1>4. Tail(s) = SubSeq(s, 2, Len(s)) /\ 1 + 1 = 2
  BY TailIsSubSeq
<1>5. Head(s) = s[1]
  BY <1>1
<1> QED
  BY <1>2, <1>3, <1>4, <1>5

(* A message leaves knowledge behind.                                      *)
LEMMA HeardType ==
  ASSUME NEW k \in Knowledge, NEW m \in AnyMessage
  PROVE  Heard(k, m) \in Knowledge
<1>1. IdOf(m) \in Seq(Id)
  BY DEF AnyMessage, FromClient, ForClient, AnyRequest, AnyNotification, AnythingElse, IdOf, Document
<1>2. k.ids \o IdOf(m) \in Seq(Id)
  BY <1>1, ConcatProperties DEF Knowledge
<1>3. Stored(k.store, m) \in [Uri -> Contents]
  <2>1. CASE m.kind = "diagnostics"
    <3>1. m.uri \in Uri /\ m.contents \in Contents
      BY <2>1 DEF AnyMessage, FromClient, ForClient, AnyRequest, AnyNotification, AnythingElse, Document
    <3>2. Stored(k.store, m) = [k.store EXCEPT ![m.uri] = m.contents]
      BY <2>1 DEF Stored, Document
    <3> QED
      BY <3>1, <3>2 DEF Knowledge
  <2>2. CASE m.kind \in Document
    <3>1. m.uri \in Uri /\ m.stamp \in Id
      BY <2>2 DEF AnyMessage, FromClient, ForClient, AnyRequest, AnyNotification, AnythingElse, Document
    <3>2. k.store[m.uri] \in Seq(Id)
      BY <3>1 DEF Knowledge, Contents
    <3>3. After(k.store[m.uri], m) \in Contents
      BY <3>1, <3>2, AppendProperties DEF After, Contents, Closed
    <3>4. Stored(k.store, m) = [k.store EXCEPT ![m.uri] = After(k.store[m.uri], m)]
      BY <2>2, <3>1 DEF Stored, Document, Knowledge
    <3> QED
      BY <3>1, <3>3, <3>4 DEF Knowledge
  <2>3. CASE m.kind # "diagnostics" /\ m.kind \notin Document
    BY <2>3 DEF Stored, Knowledge
  <2> QED
    BY <2>1, <2>2, <2>3
<1> QED
  BY <1>2, <1>3 DEF Heard, Know, Knowledge

(* There is one way to the end of a sequence of messages.                   *)
LEMMA OneWay ==
  ASSUME NEW k \in Knowledge, NEW s \in Seq(AnyMessage),
         NEW f, IsWay(f, k, s), NEW g, IsWay(g, k, s)
  PROVE  f = g
<1> DEFINE B == {n \in 0 .. Len(s) : f[n] # g[n]}
<1>1. Len(s) \in Nat
  BY LenProperties
<1>2. ASSUME B # {} PROVE FALSE
  <2>0. B \in SUBSET Nat
    BY <1>1
  <2>1. PICK n \in B : \A m \in B : n <= m
    <3> HIDE DEF B
    <3> QED
      BY <2>0, <1>2, LeastNatural
  <2>2. n # 0
    BY <1>1, <2>1 DEF IsWay
  <2>3. n - 1 \in 0 .. Len(s) /\ n - 1 \notin B
    BY <1>1, <2>1, <2>2
  <2>4. f[n - 1] = g[n - 1]
    BY <2>3
  <2>5. f[n] = Heard(f[n - 1], s[n]) /\ g[n] = Heard(g[n - 1], s[n])
    BY <1>1, <2>1, <2>2 DEF IsWay
  <2> QED
    BY <2>1, <2>4, <2>5
<1>3. \A n \in 0 .. Len(s) : f[n] = g[n]
  BY <1>2
<1> QED
  BY <1>3 DEF IsWay

(* And there is one, through knowledge, to what is delivered.               *)
LEMMA Way ==
  ASSUME NEW k \in Knowledge, NEW s \in Seq(AnyMessage)
  PROVE  \E f : /\ IsWay(f, k, s)
                /\ Delivered(k, s) = f[Len(s)]
                /\ \A n \in 0 .. Len(s) : f[n] \in Knowledge
<1>1. Len(s) \in Nat
  BY LenProperties
<1> DEFINE Upto(f, n) == /\ f \in [0 .. n -> Knowledge]
                         /\ f = [i \in 0 .. n |-> IF i = 0 THEN k ELSE Heard(f[i - 1], s[i])]
           B == {n \in 0 .. Len(s) : ~ \E f : Upto(f, n)}
<1>2. ASSUME B # {} PROVE FALSE
  <2>0. B \in SUBSET Nat
    BY <1>1
  <2>1. PICK n \in B : \A m \in B : n <= m
    <3> HIDE DEF B
    <3> QED
      BY <2>0, <1>2, LeastNatural
  <2>2. CASE n = 0
    <3>1. Upto([i \in 0 .. 0 |-> k], 0)
      OBVIOUS
    <3> QED
      BY <2>1, <2>2, <3>1
  <2>3. CASE n # 0
    <3>0. n \in 0 .. Len(s)
      OBVIOUS
    <3>1. n - 1 \in 0 .. Len(s) /\ n - 1 \notin B
      <4> HIDE DEF B
      <4> QED
        BY <1>1, <2>1, <2>3, <3>0
    <3>2. PICK f : Upto(f, n - 1)
      BY <3>1
    <3> DEFINE g == [i \in 0 .. n |-> IF i = n THEN Heard(f[n - 1], s[n]) ELSE f[i]]
    <3>3. n \in 1 .. Len(s) /\ s[n] \in AnyMessage
      BY <1>1, <2>1, <2>3, ElementOfSeq
    <3>4. f[n - 1] \in Knowledge
      BY <3>1, <3>2
    <3>5. Heard(f[n - 1], s[n]) \in Knowledge
      BY <3>3, <3>4, HeardType
    <3>6. g \in [0 .. n -> Knowledge]
      BY <3>2, <3>3, <3>5
    <3>7. ASSUME NEW i \in 0 .. n
          PROVE  g[i] = IF i = 0 THEN k ELSE Heard(g[i - 1], s[i])
      <4>1. CASE i = n
        BY <4>1, <2>3, <3>3
      <4>2. CASE i # n
        <5>1. i \in 0 .. (n - 1) /\ (i # 0 => i - 1 \in 0 .. (n - 1))
          BY <4>2, <3>3
        <5>2. f[i] = IF i = 0 THEN k ELSE Heard(f[i - 1], s[i])
          BY <3>2, <5>1
        <5>3. g[i] = f[i] /\ (i # 0 => g[i - 1] = f[i - 1])
          BY <4>2, <5>1, <3>3
        <5> QED
          BY <5>2, <5>3
      <4> QED
        BY <4>1, <4>2
    <3> HIDE DEF g
    <3>8. g = [i \in 0 .. n |-> IF i = 0 THEN k ELSE Heard(g[i - 1], s[i])]
      BY <3>6, <3>7
    <3> QED
      BY <2>1, <3>6, <3>8
  <2> QED
    BY <2>2, <2>3
<1>3. PICK f : Upto(f, Len(s))
  <2>1. Len(s) \in 0 .. Len(s) /\ Len(s) \notin B
    BY <1>1, <1>2
  <2> QED
    BY <2>1
<1>4. IsWay(f, k, s) /\ \A n \in 0 .. Len(s) : f[n] \in Knowledge
  BY <1>3 DEF IsWay
<1> DEFINE c == CHOOSE g : IsWay(g, k, s)
<1>5. IsWay(c, k, s)
  BY <1>4
<1>6. Delivered(k, s) = c[Len(s)]
  BY DEF Delivered, IsWay
<1> HIDE DEF c
<1>7. c = f
  BY <1>4, <1>5, OneWay
<1> QED
  BY <1>4, <1>6, <1>7


(* Whoever finds a way to the end of the messages knows what they deliver.  *)
LEMMA DeliveredByWay ==
  ASSUME NEW k \in Knowledge, NEW s \in Seq(AnyMessage), NEW f, IsWay(f, k, s)
  PROVE  Delivered(k, s) = f[Len(s)]
<1>1. PICK g : IsWay(g, k, s) /\ Delivered(k, s) = g[Len(s)]
  BY Way
<1> QED
  BY <1>1, OneWay

(* Whatever arrives, what is known stays of its type.                       *)
LEMMA DeliveredType ==
  ASSUME NEW k \in Knowledge, NEW s \in Seq(AnyMessage)
  PROVE  Delivered(k, s) \in Knowledge
<1>1. Len(s) \in 0 .. Len(s)
  BY LenProperties
<1> QED
  BY <1>1, Way

(* No message delivers nothing, one what it says.                          *)
LEMMA DeliveredNothing ==
  ASSUME NEW k \in Knowledge
  PROVE  Delivered(k, <<>>) = k
<1>1. <<>> \in Seq(AnyMessage) /\ Len(<<>>) = 0
  BY EmptySeq
<1>2. PICK f : IsWay(f, k, <<>>) /\ Delivered(k, <<>>) = f[0]
  BY <1>1, Way
<1> QED
  BY <1>1, <1>2 DEF IsWay

(* One message on its way is heard once.                                    *)
LEMMA DeliveredOne ==
  ASSUME NEW k \in Knowledge, NEW m \in AnyMessage
  PROVE  Delivered(k, <<m>>) = Heard(k, m)
<1>1. <<m>> \in Seq(AnyMessage) /\ Len(<<m>>) = 1 /\ <<m>>[1] = m
  OBVIOUS
<1>2. PICK f : IsWay(f, k, <<m>>) /\ Delivered(k, <<m>>) = f[1]
  BY <1>1, Way
<1>3. f[0] = k /\ f[1] = Heard(f[0], m)
  BY <1>1, <1>2 DEF IsWay
<1> QED
  BY <1>2, <1>3

(* Messages that follow others deliver on top of them.                     *)
LEMMA DeliveredConcat ==
  ASSUME NEW k \in Knowledge, NEW s \in Seq(AnyMessage), NEW t \in Seq(AnyMessage)
  PROVE  Delivered(k, s \o t) = Delivered(Delivered(k, s), t)
<1>1. Len(s) \in Nat /\ Len(t) \in Nat
  BY LenProperties
<1>2. PICK f : IsWay(f, k, s) /\ Delivered(k, s) = f[Len(s)]
  BY Way
<1>3. Delivered(k, s) \in Knowledge
  BY DeliveredType
<1>4. PICK g : /\ IsWay(g, Delivered(k, s), t)
               /\ Delivered(Delivered(k, s), t) = g[Len(t)]
  BY <1>3, Way
<1>5. /\ s \o t \in Seq(AnyMessage)
      /\ Len(s \o t) = Len(s) + Len(t)
      /\ \A i \in 1 .. Len(s) + Len(t) :
           (s \o t)[i] = IF i <= Len(s) THEN s[i] ELSE t[i - Len(s)]
  BY ConcatProperties
<1>6. g[0] = f[Len(s)]
  BY <1>1, <1>2, <1>4 DEF IsWay
<1> DEFINE L == Len(s)
           h == [n \in 0 .. L + Len(t) |-> IF n <= L THEN f[n] ELSE g[n - L]]
<1>7. ASSUME NEW n \in 0 .. L + Len(t)
      PROVE  h[n] = IF n = 0 THEN k ELSE Heard(h[n - 1], (s \o t)[n])
  <2>1. CASE n = 0
    BY <1>1, <1>2, <2>1 DEF IsWay
  <2>2. CASE n # 0 /\ n <= L
    <3>1. n \in 1 .. L /\ n - 1 \in 0 .. L /\ n \in 1 .. L + Len(t)
      BY <1>1, <2>2
    <3>2. h[n] = f[n] /\ h[n - 1] = f[n - 1]
      BY <1>1, <3>1
    <3>3. f[n] = Heard(f[n - 1], s[n])
      <4>1. n \in 0 .. Len(s) /\ n # 0
        BY <1>1, <3>1
      <4> QED
        BY <1>2, <4>1, Zenon DEF IsWay
    <3>4. (s \o t)[n] = s[n]
      BY <1>5, <3>1
    <3> QED
      BY <2>2, <3>2, <3>3, <3>4
  <2>3. CASE n > L
    <3> DEFINE i == n - L
    <3>1. i \in 1 .. Len(t) /\ i - 1 \in 0 .. Len(t) /\ n \in 1 .. L + Len(t) /\ ~(n <= L)
      BY <1>1, <2>3
    <3>2. g[i] = Heard(g[i - 1], t[i])
      <4>1. i \in 0 .. Len(t) /\ i # 0
        BY <1>1, <3>1
      <4> HIDE DEF i
      <4> QED
        BY <1>4, <4>1, Zenon DEF IsWay
    <3>3. h[n] = g[i] /\ (s \o t)[n] = t[i]
      BY <1>1, <1>5, <3>1
    <3>4. h[n - 1] = g[i - 1]
      <4>1. CASE n - 1 = L
        BY <1>1, <1>6, <4>1
      <4>2. CASE n - 1 > L
        BY <1>1, <3>1, <4>2
      <4> QED
        BY <1>1, <3>1, <4>1, <4>2
    <3> HIDE DEF h
    <3> QED
      BY <1>1, <2>3, <3>2, <3>3, <3>4
  <2> QED
    BY <1>1, <2>1, <2>2, <2>3
<1>8. h[L + Len(t)] = g[Len(t)]
  BY <1>1, <1>6
<1>9. h = [n \in 0 .. L + Len(t) |-> h[n]]
  OBVIOUS
<1> HIDE DEF h
<1>10. IsWay(h, k, s \o t)
  <2>1. h = [n \in 0 .. L + Len(t) |-> IF n = 0 THEN k ELSE Heard(h[n - 1], (s \o t)[n])]
    BY <1>7, <1>9
  <2> QED
    BY <1>5, <2>1 DEF IsWay
<1>11. Delivered(k, s \o t) = h[Len(s \o t)]
  BY <1>5, <1>10, DeliveredByWay
<1> QED
  BY <1>4, <1>5, <1>8, <1>11

(* The numbers that are delivered are those of the messages.               *)
LEMMA DeliveredIds ==
  ASSUME NEW k \in Knowledge, NEW s \in Seq(AnyMessage)
  PROVE  Delivered(k, s).ids = k.ids \o Ids(s)
<1>1. Len(s) \in Nat
  BY LenProperties
<1>2. Know(<<>>, k.store) \in Knowledge
  BY EmptySeq DEF Know, Knowledge
<1>3. PICK f : /\ IsWay(f, k, s) /\ Delivered(k, s) = f[Len(s)]
               /\ \A n \in 0 .. Len(s) : f[n] \in Knowledge
  BY Way
<1>4. PICK e : /\ IsWay(e, Know(<<>>, k.store), s)
               /\ \A n \in 0 .. Len(s) : e[n] \in Knowledge
  BY <1>2, Way
<1> DEFINE c == [n \in 0 .. Len(s) |-> e[n].ids]
           IsCount(d) == d = [n \in 0 .. Len(s) |-> IF n = 0 THEN <<>> ELSE d[n - 1] \o IdOf(s[n])]
<1>5. IsCount(c)
  <2>1. ASSUME NEW n \in 0 .. Len(s)
        PROVE  c[n] = IF n = 0 THEN <<>> ELSE c[n - 1] \o IdOf(s[n])
    <3>1. CASE n = 0
      BY <1>1, <1>4, <3>1 DEF IsWay, Know
    <3>2. CASE n # 0
      <4>1. n - 1 \in 0 .. Len(s)
        BY <1>1, <3>2
      <4>2. e[n] = Heard(e[n - 1], s[n])
        BY <1>4, <3>2 DEF IsWay
      <4>3. e[n].ids = e[n - 1].ids \o IdOf(s[n])
        BY <4>2, HeardIds
      <4> QED
        BY <3>2, <4>1, <4>3
    <3> QED
      BY <3>1, <3>2
  <2>2. c = [n \in 0 .. Len(s) |-> c[n]]
    OBVIOUS
  <2> HIDE DEF c
  <2> QED
    BY <2>1, <2>2
<1> DEFINE d == CHOOSE x : IsCount(x)
<1>6. IsCount(d)
  BY <1>5
<1>7. Ids(s) = d[Len(s)]
  BY DEF Ids
<1> HIDE DEF c, d
<1> DEFINE B == {n \in 0 .. Len(s) : ~(f[n].ids = k.ids \o d[n] /\ d[n] \in Seq(Id))}
<1>8. ASSUME B # {} PROVE FALSE
  <2>0. B \subseteq 0 .. Len(s)
    OBVIOUS
  <2>1. B \in SUBSET Nat
    <3> HIDE DEF B
    <3> QED
      BY <1>1, <2>0
  <2>2. PICK n \in B : \A m \in B : n <= m
    <3> HIDE DEF B
    <3> QED
      BY <1>8, <2>1, LeastNatural
  <2>3. n \in 0 .. Len(s)
    OBVIOUS
  <2>4. k.ids \in Seq(Id)
    BY DEF Knowledge
  <2>5. n # 0
    <3>1. ASSUME n = 0 PROVE FALSE
      <4>1. f[0] = k /\ d[0] = <<>>
        BY <1>1, <1>3, <1>6 DEF IsWay
      <4>2. k.ids \o <<>> = k.ids /\ <<>> \in Seq(Id)
        BY <2>4, ConcatEmptySeq, EmptySeq
      <4> QED
        BY <2>2, <3>1, <4>1, <4>2
    <3> QED
      BY <3>1
  <2>6. n - 1 \in 0 .. Len(s) /\ n - 1 \notin B
    <3> HIDE DEF B
    <3> QED
      BY <1>1, <2>2, <2>3, <2>5
  <2>7. f[n - 1].ids = k.ids \o d[n - 1] /\ d[n - 1] \in Seq(Id)
    BY <2>6
  <2>8. f[n].ids = f[n - 1].ids \o IdOf(s[n])
    <3>1. f[n] = Heard(f[n - 1], s[n])
      BY <1>3, <2>3, <2>5 DEF IsWay
    <3> QED
      BY <3>1, HeardIds
  <2>9. d[n] = d[n - 1] \o IdOf(s[n])
    BY <1>6, <2>3, <2>5
  <2>10. IdOf(s[n]) \in Seq(Id)
    <3>1. s[n] \in AnyMessage
      BY <1>1, <2>3, <2>5, ElementOfSeq
    <3> QED
      BY <3>1 DEF AnyMessage, FromClient, ForClient, AnyRequest, AnyNotification, AnythingElse, IdOf, Document
  <2>11. (k.ids \o d[n - 1]) \o IdOf(s[n]) = k.ids \o (d[n - 1] \o IdOf(s[n]))
    <3>1. \A x, y, z \in Seq(Id) : (x \o y) \o z = x \o (y \o z)
      BY ConcatAssociative, SMTT(40)
    <3> QED
      BY <2>4, <2>7, <2>10, <3>1, Zenon
  <2>12. d[n] \in Seq(Id)
    BY <2>7, <2>9, <2>10, ConcatProperties
  <2>13. f[n].ids = k.ids \o d[n]
    BY <2>7, <2>8, <2>9, <2>11
  <2> QED
    BY <2>2, <2>12, <2>13
<1>9. Len(s) \in 0 .. Len(s) /\ Len(s) \notin B
  <2> HIDE DEF B
  <2> QED
    BY <1>1, <1>8
<1>10. f[Len(s)].ids = k.ids \o d[Len(s)]
  BY <1>9
<1> QED
  BY <1>3, <1>7, <1>10

----------------------------------------------------------------------------
(* What the ends do to the flow of messages.                               *)

Store == [Uri -> Contents]

(* Numbers and a store are something to know.                               *)
LEMMA KnowType ==
  ASSUME NEW ids \in Seq(Id), NEW store \in Store
  PROVE  Know(ids, store) \in Knowledge
  BY DEF Know, Knowledge, Store

(* A message is put at the end.                                            *)
LEMMA FlowSend ==
  ASSUME NEW known \in Knowledge, NEW said \in Knowledge, NEW store,
         NEW from \in Seq(ForClient), NEW to \in Seq(FromClient), NEW m \in FromClient,
         Flow(known, from, store, to, said)
  PROVE  Flow(known, from, store, to \o <<m>>, Heard(said, m))
<1> DEFINE there == Delivered(known, from)
<1>1. from \in Seq(AnyMessage) /\ to \in Seq(AnyMessage) /\ m \in AnyMessage
  BY SeqMonotonic DEF AnyMessage
<1>2. there \in Knowledge
  BY <1>1, DeliveredType
<1>3. there.store = store /\ Delivered(there, to) = said
  BY DEF Flow
<1> HIDE DEF there
<1>4. <<m>> \in Seq(AnyMessage)
  BY <1>1
<1>5. Delivered(there, to \o <<m>>) = Delivered(said, <<m>>)
  BY <1>1, <1>2, <1>3, <1>4, DeliveredConcat
<1>6. Delivered(said, <<m>>) = Heard(said, m)
  BY <1>1, DeliveredOne
<1> QED
  BY <1>3, <1>5, <1>6 DEF Flow, there

(* The client takes the first message.                                     *)
LEMMA FlowReceive ==
  ASSUME NEW known \in Knowledge, NEW said, NEW store, NEW to,
         NEW from \in Seq(ForClient), NEW m \in ForClient,
         Flow(known, <<m>> \o from, store, to, said)
  PROVE  Flow(Heard(known, m), from, store, to, said)
<1>1. from \in Seq(AnyMessage) /\ m \in AnyMessage
  BY SeqMonotonic DEF AnyMessage
<1>2. <<m>> \in Seq(AnyMessage)
  BY <1>1
<1>3. Delivered(known, <<m>> \o from) = Delivered(Delivered(known, <<m>>), from)
  BY <1>1, <1>2, DeliveredConcat
<1>4. Delivered(known, <<m>>) = Heard(known, m)
  BY <1>1, DeliveredOne
<1> QED
  BY <1>3, <1>4 DEF Flow

(* The server takes the first message, does to its store what the message   *)
(* says and sends on what tells the client as much.                        *)
LEMMA FlowHandle ==
  ASSUME NEW known \in Knowledge, NEW said, NEW store,
         NEW from \in Seq(ForClient), NEW to \in Seq(FromClient), NEW m \in FromClient,
         NEW out \in Seq(ForClient),
         \A k \in Knowledge : k.store = store => Delivered(k, out) = Heard(k, m),
         Flow(known, from, store, <<m>> \o to, said)
  PROVE  Flow(known, from \o out, Stored(store, m), to, said)
<1> DEFINE there == Delivered(known, from)
<1>1. /\ from \in Seq(AnyMessage) /\ to \in Seq(AnyMessage) /\ m \in AnyMessage
      /\ out \in Seq(AnyMessage)
  BY SeqMonotonic DEF AnyMessage
<1>2. there \in Knowledge
  BY <1>1, DeliveredType
<1>3. there.store = store /\ Delivered(there, <<m>> \o to) = said
  BY DEF Flow
<1>4. Delivered(known, from \o out) = Delivered(there, out)
  BY <1>1, DeliveredConcat
<1> HIDE DEF there
<1>5. Delivered(there, out) = Heard(there, m)
  BY <1>2, <1>3
<1>6. <<m>> \in Seq(AnyMessage)
  BY <1>1
<1>7. Delivered(there, <<m>> \o to) = Delivered(Delivered(there, <<m>>), to)
  BY <1>1, <1>2, <1>6, DeliveredConcat
<1>8. Delivered(there, <<m>>) = Heard(there, m)
  BY <1>1, <1>2, DeliveredOne
<1>9. Heard(there, m).store = Stored(store, m)
  BY <1>3, HeardStore
<1> QED
  BY <1>3, <1>4, <1>5, <1>7, <1>8, <1>9 DEF Flow

(* Answers tell the client what requests tell the server.                   *)
LEMMA AnswerTells ==
  ASSUME NEW m \in AnyRequest, NEW k \in Knowledge
  PROVE  Delivered(k, Answer(m)) = Heard(k, m)
<1>1. m.id \in Id /\ m.kind = "request" /\ Response(m.id) \in ForClient
  BY DEF AnyRequest, ForClient, Response
<1>2. Delivered(k, Answer(m)) = Heard(k, Response(m.id))
  BY <1>1, DeliveredOne DEF Answer, AnyMessage
<1>3. IdOf(Response(m.id)) = IdOf(m)
  BY <1>1 DEF IdOf, Response
<1>4. Stored(k.store, Response(m.id)) = Stored(k.store, m)
  BY <1>1 DEF Stored, Response, Document
<1> QED
  BY <1>2, <1>3, <1>4 DEF Heard

(* A message that changes nothing needs no answer.                         *)
LEMMA NothingToTell ==
  ASSUME NEW m, IdOf(m) = <<>>, NEW k \in Knowledge, Stored(k.store, m) = k.store
  PROVE  Delivered(k, <<>>) = Heard(k, m)
<1>1. k.ids \in Seq(Id) /\ k = Know(k.ids, k.store)
  BY DEF Knowledge, Know
<1>2. k.ids \o <<>> = k.ids
  BY <1>1, ConcatEmptySeq
<1> QED
  BY <1>1, <1>2, DeliveredNothing DEF Heard

(* What is published tells the client what became of the document.         *)
LEMMA PublishTells ==
  ASSUME NEW m \in AnyNotification, NEW k \in Knowledge
  PROVE  LET out == Publish(m, After(k.store[m.uri], m)) IN
         out \in Seq(ForClient) /\ Delivered(k, out) = Heard(k, m)
<1> DEFINE old == k.store[m.uri]
           new == After(old, m)
<1>1. m.kind \in Document /\ m.uri \in Uri /\ m.stamp \in Id
  BY DEF AnyNotification
<1>2. old \in Seq(Id)
  BY <1>1 DEF Knowledge, Contents
<1>3. new \in Contents
  BY <1>1, <1>2, AppendProperties DEF After, Contents, Closed
<1>4. IdOf(m) = <<>>
  BY <1>1 DEF IdOf, Document
<1>5. Stored(k.store, m) = [k.store EXCEPT ![m.uri] = new]
  BY <1>1 DEF Stored, Document, Knowledge
<1>6. CASE m.kind = "didChange" /\ new = Closed
  <2>1. Publish(m, new) = <<>> /\ <<>> \in Seq(ForClient)
    BY <1>6 DEF Publish
  <2>2. new = old
    BY <1>2, <1>6, <1>1, AppendProperties DEF After, Closed
  <2>3. k.store \in [Uri -> Contents]
    BY DEF Knowledge
  <2> HIDE DEF new
  <2>4. [k.store EXCEPT ![m.uri] = new] = k.store
    BY <2>2, <2>3
  <2> QED
    BY <1>4, <1>5, <2>1, <2>4, NothingToTell DEF new
<1>7. CASE ~(m.kind = "didChange" /\ new = Closed)
  <2> DEFINE d == Diagnostics(m.uri, new)
  <2> HIDE DEF new
  <2>1. Publish(m, new) = <<d>>
    BY <1>7 DEF Publish
  <2>2. d \in ForClient /\ d \in AnyMessage
    BY <1>1, <1>3 DEF ForClient, AnyMessage, Diagnostics
  <2>3. IdOf(d) = <<>> /\ Stored(k.store, d) = [k.store EXCEPT ![m.uri] = new]
    BY DEF IdOf, Stored, Diagnostics, Document
  <2>4. Heard(k, d) = Heard(k, m)
    BY <1>4, <1>5, <2>3 DEF Heard
  <2> HIDE DEF d
  <2>5. <<d>> \in Seq(ForClient) /\ Delivered(k, <<d>>) = Heard(k, m)
    BY <2>2, <2>4, DeliveredOne
  <2> QED
    BY <2>1, <2>5 DEF new
<1> QED
  BY <1>6, <1>7

----------------------------------------------------------------------------
(* Types.                                                                  *)

(* Nothing is on its way at first, and every document is closed.            *)
LEMMA WellTypedInit == Init => TypeOK
<1> SUFFICES ASSUME Init PROVE TypeOK
  OBVIOUS
<1>1. <<>> \in Seq(FromClient) /\ <<>> \in Seq(ForClient) /\ <<>> \in Seq(Id) /\ Len(<<>>) = 0
  BY EmptySeq
<1>2. [uri \in Uri |-> Closed] \in [Uri -> Contents]
  BY <1>1 DEF Contents, Closed
<1>3. 0 \in Id
  BY BoundsAssumption DEF Id
<1> QED
  BY <1>1, <1>2, <1>3, BoundsAssumption DEF Init, TypeOK

(* What the client says joins the pipe.                                    *)
LEMMA SendType ==
  ASSUME TypeOK, NEW m \in FromClient, Send(m),
         client' \in {"here", "leaving", "gone"}, mirror' \in Store,
         asked' \in Seq(Id), messages' \in Id
  PROVE  TypeOK'
<1>1. inbox' \in Seq(FromClient) /\ Len(inbox') <= PipeSize
  <2>1. inbox \in Seq(FromClient) /\ inbox' = Append(inbox, m) /\ Len(inbox) < PipeSize
    BY DEF TypeOK, Send
  <2> QED
    BY <2>1, BoundsAssumption, AppendProperties, LenProperties
<1> QED
  BY <1>1 DEF TypeOK, Send, serverVars, Store

(* A notification says what becomes of one document, and has no number.     *)
LEMMA NotificationEffect ==
  ASSUME NEW store \in Store, NEW m \in AnyNotification
  PROVE  /\ Stored(store, m) = [store EXCEPT ![m.uri] = After(@, m)]
         /\ Stored(store, m) \in Store
         /\ After(store[m.uri], m) \in Contents
         /\ IdOf(m) = <<>>
<1>1. m.kind \in Document /\ m.uri \in Uri /\ m.stamp \in Id
  BY DEF AnyNotification
<1>2. store[m.uri] \in Seq(Id)
  BY <1>1 DEF Store, Contents
<1>3. After(store[m.uri], m) \in Contents
  BY <1>1, <1>2, AppendProperties DEF After, Contents, Closed
<1>4. Stored(store, m) = [store EXCEPT ![m.uri] = After(store[m.uri], m)]
  BY <1>1 DEF Stored, Document
<1>5. IdOf(m) = <<>>
  BY <1>1 DEF IdOf, Document
<1> QED
  BY <1>1, <1>3, <1>4, <1>5 DEF Store

(* What the client says is something it can say.                           *)
LEMMA SaidType ==
  /\ \A method \in Method \union {"shutdown"}, id \in Id, ok \in BOOLEAN :
       Request(method, id, ok) \in AnyRequest
  /\ \A kind \in Document, uri \in Uri, id \in Id :
       Notification(kind, uri, id) \in AnyNotification
  /\ \A kind \in {"other", "malformed", "exit"} : [kind |-> kind] \in AnythingElse
  BY DEF Request, Notification, AnyRequest, AnyNotification, AnythingElse

(* There is a number left for one more message.                             *)
LEMMA NextId ==
  ASSUME TypeOK, messages < MaxMessages
  PROVE  messages \in Id /\ messages + 1 \in Id
  BY BoundsAssumption DEF TypeOK, Id

(* No step of any thread leaves the types.                                  *)
LEMMA StepWellTyped ==
  ASSUME TypeOK, [Next]_vars
  PROVE  TypeOK'
<1> USE DEF TypeOK, Store
<1>1. ASSUME NEW method \in Method, NEW ok \in BOOLEAN, Ask(method, ok)
      PROVE  TypeOK'
  <2>1. Send(Request(method, messages, ok)) /\ messages < MaxMessages
    BY <1>1 DEF Ask
  <2>2. messages \in Id /\ messages' \in Id
    BY <1>1, <2>1, NextId DEF Ask
  <2>3. Request(method, messages, ok) \in FromClient
    BY <2>2, SaidType DEF FromClient
  <2>4. asked' \in Seq(Id)
    BY <1>1, <2>2, AppendProperties DEF Ask
  <2>5. client' = client /\ mirror' = mirror
    BY <1>1 DEF Ask
  <2> QED
    BY <2>1, <2>2, <2>3, <2>4, <2>5, SendType
<1>2. ASSUME NEW kind \in Document, NEW uri \in Uri, Notify(kind, uri)
      PROVE  TypeOK'
  <2> DEFINE m == Notification(kind, uri, messages)
  <2>1. Send(m) /\ messages < MaxMessages
    BY <1>2 DEF Notify
  <2>2. messages \in Id /\ messages' \in Id
    BY <1>2, <2>1, NextId DEF Notify
  <2>3. m \in AnyNotification /\ m.uri = uri
    BY <2>2, SaidType DEF Notification
  <2>4. mirror' = [mirror EXCEPT ![uri] = After(@, m)] /\ mirror \in Store
    BY <1>2 DEF Notify
  <2>5. mirror' \in Store
    BY <2>3, <2>4, NotificationEffect
  <2>6. client' = client /\ asked' = asked
    BY <1>2 DEF Notify
  <2> HIDE DEF m
  <2> QED
    BY <2>1, <2>2, <2>3, <2>5, <2>6, SendType DEF FromClient
<1>3. ASSUME NEW kind \in {"other", "malformed"}, Babble(kind)
      PROVE  TypeOK'
  <2>1. Send([kind |-> kind]) /\ messages < MaxMessages
    BY <1>3 DEF Babble
  <2>2. messages' \in Id
    BY <1>3, <2>1, NextId DEF Babble
  <2>3. [kind |-> kind] \in FromClient
    BY SaidType DEF FromClient
  <2>4. client' = client /\ asked' = asked /\ mirror' = mirror
    BY <1>3 DEF Babble
  <2> QED
    BY <2>1, <2>2, <2>3, <2>4, SendType
<1>4. ASSUME AskShutdown PROVE TypeOK'
  <2>1. ShutdownId \in Id
    BY BoundsAssumption DEF ShutdownId, Id
  <2>2. Send(Request("shutdown", ShutdownId, TRUE))
    BY <1>4 DEF AskShutdown
  <2>3. Request("shutdown", ShutdownId, TRUE) \in FromClient
    BY <2>1, SaidType DEF FromClient
  <2>4. asked' \in Seq(Id)
    BY <1>4, <2>1, AppendProperties DEF AskShutdown
  <2>5. client' = client /\ mirror' = mirror /\ messages' = messages
    BY <1>4 DEF AskShutdown
  <2> QED
    BY <2>2, <2>3, <2>4, <2>5, SendType
<1>5. ASSUME Exit PROVE TypeOK'
  <2>1. Send([kind |-> "exit"]) /\ [kind |-> "exit"] \in FromClient
    BY <1>5, SaidType DEF Exit, FromClient
  <2>2. client' = "leaving" /\ mirror' = mirror /\ messages' = messages /\ asked' = asked
    BY <1>5 DEF Exit
  <2> QED
    BY <2>1, <2>2, SendType
<1>6. ASSUME ClientReceive PROVE TypeOK'
  <2> DEFINE m == Head(outbox)
  <2>1. /\ outbox \in Seq(ForClient) /\ outbox # <<>> /\ outbox' = Tail(outbox)
        /\ Len(outbox) <= PipeSize
    BY <1>6 DEF ClientReceive
  <2>2. m \in ForClient /\ outbox' \in Seq(ForClient) /\ Len(outbox') <= PipeSize
    BY <2>1, HeadTailProperties, LenProperties, BoundsAssumption
  <2>3. answered' \in Seq(Id) /\ shown' \in Store
    <3>1. CASE m.kind = "response"
      <4>1. m.id \in Id
        BY <2>2, <3>1 DEF ForClient
      <4> QED
        <5>1. answered' = Append(answered, m.id) /\ shown' = shown
          BY <1>6, <3>1 DEF ClientReceive
        <5>2. answered \in Seq(Id) /\ shown \in Store
          OBVIOUS
        <5> HIDE DEF m
        <5> QED
          BY <4>1, <5>1, <5>2, AppendProperties
    <3>2. CASE m.kind # "response"
      <4>1. m.uri \in Uri /\ m.contents \in Contents
        BY <2>2, <3>2 DEF ForClient
      <4>2. shown' = [shown EXCEPT ![m.uri] = m.contents] /\ answered' = answered /\ shown \in Store
        BY <1>6, <3>2 DEF ClientReceive
      <4> QED
        BY <4>1, <4>2
    <3> QED
      BY <3>1, <3>2
  <2>4. /\ UNCHANGED <<client, mirror, asked, messages, inbox, reader, writer, ended>>
        /\ UNCHANGED <<server, docs, outgoing>>
    BY <1>6 DEF ClientReceive, serverVars
  <2> HIDE DEF m
  <2> QED
    BY <2>2, <2>3, <2>4
<1>7. ASSUME Vanish PROVE TypeOK'
  <2>1. <<>> \in Seq(ForClient) /\ Len(<<>>) = 0
    BY EmptySeq
  <2> QED
    BY <1>7, <2>1, BoundsAssumption DEF Vanish, serverVars
<1>8. ASSUME ReadMessage PROVE TypeOK'
  <2>1. inbox \in Seq(FromClient) /\ inbox # <<>> /\ Len(inbox) <= PipeSize
    BY <1>8 DEF ReadMessage
  <2>2. /\ Head(inbox) \in FromClient /\ Tail(inbox) \in Seq(FromClient)
        /\ Len(Tail(inbox)) <= PipeSize
    BY <2>1, HeadTailProperties, LenProperties, BoundsAssumption
  <2>3. <<Head(inbox)>> \in Seq(FromClient) /\ Len(<<Head(inbox)>>) = 1
    BY <2>2
  <2>4. reader' = <<Head(inbox)>> /\ inbox' = Tail(inbox)
    BY <1>8 DEF ReadMessage
  <2>5. UNCHANGED <<client, mirror, shown, asked, answered, messages, server, docs,
                    outgoing, writer, outbox, ended>>
    BY <1>8 DEF ReadMessage, clientVars, serverVars
  <2> QED
    BY <2>2, <2>3, <2>4, <2>5
<1>9. ASSUME ReaderEnds PROVE TypeOK'
  BY <1>9 DEF ReaderEnds, clientVars, serverVars
<1>10. ASSUME TakeMessage PROVE TypeOK'
  <2>1. <<>> \in Seq(ForClient) /\ Len(<<>>) = 0
    BY EmptySeq
  <2> QED
    BY <1>10, <2>1 DEF TakeMessage, clientVars
<1>11. ASSUME WriteMessage PROVE TypeOK'
  <2>1. <<>> \in Seq(ForClient) /\ Len(<<>>) = 0
    BY EmptySeq
  <2>2. /\ outbox \in Seq(ForClient) /\ writer \in Seq(ForClient) /\ Len(writer) <= 1
        /\ Len(outbox) < PipeSize /\ outbox' = outbox \o writer /\ writer' = <<>>
    BY <1>11 DEF WriteMessage
  <2>3. outbox' \in Seq(ForClient) /\ Len(outbox') <= PipeSize
    BY <2>2, ConcatProperties, LenProperties, BoundsAssumption
  <2>4. UNCHANGED <<client, mirror, shown, asked, answered, messages, server, docs,
                    outgoing, inbox, reader, ended>>
    BY <1>11 DEF WriteMessage, clientVars, serverVars
  <2> QED
    BY <2>1, <2>2, <2>3, <2>4
<1>12. ASSUME WriterEnds PROVE TypeOK'
  <2>1. <<>> \in Seq(ForClient) /\ Len(<<>>) = 0
    BY EmptySeq
  <2> QED
    BY <1>12, <2>1 DEF WriterEnds, clientVars, serverVars
<1>13. ASSUME MainThread PROVE TypeOK'
  <2>1. <<>> \in Seq(FromClient) /\ <<>> \in Seq(ForClient) /\ Len(<<>>) = 0
    BY EmptySeq
  <2>2. ASSUME NEW from \in {"loop", "shutdown"}, Receive(from),
               server' \in {"loop", "shutdown", "joining", "done", "failed"},
               docs' \in Store, outgoing' \in Seq(ForClient), Len(outgoing') <= 1
        PROVE  TypeOK'
    <3>1. reader' = <<>> /\ ended' \subseteq {"reader", "writer"}
      BY <2>2 DEF Receive
    <3>2. UNCHANGED <<client, mirror, shown, asked, answered, messages, inbox, writer, outbox>>
      BY <2>2 DEF Receive, clientVars
    <3> QED
      BY <2>1, <2>2, <3>1, <3>2
  <2>3. ASSUME NEW from \in {"loop", "shutdown"}, Receive(from)
        PROVE  Message \in FromClient /\ outgoing = <<>> /\ server = from
    BY <2>3, HeadTailProperties DEF Receive, Message
  <2>4. ASSUME NEW m \in FromClient, m.kind = "request"
        PROVE  Answer(m) \in Seq(ForClient) /\ Len(Answer(m)) = 1
    <3>1. m.id \in Id
      BY <2>4 DEF FromClient, AnyRequest, AnyNotification, AnythingElse, Document
    <3>2. Response(m.id) \in ForClient
      BY <3>1 DEF Response, ForClient
    <3> QED
      BY <3>2 DEF Answer
  <2>5. CASE Shutdown
    <3>1. Receive("loop") /\ Message.kind = "request" /\ outgoing' = Answer(Message)
      BY <2>5 DEF Shutdown
    <3>2. server' = "shutdown" /\ docs' = docs
      BY <2>5 DEF Shutdown
    <3>3. Message \in FromClient
      BY <2>3, <3>1
    <3>4. outgoing' \in Seq(ForClient) /\ Len(outgoing') <= 1
      <4>1. Answer(Message) \in Seq(ForClient) /\ Len(Answer(Message)) = 1
        BY <2>4, <3>1, <3>3, Zenon
      <4> QED
        BY <3>1, <4>1
    <3>5. docs' \in Store /\ server' \in {"loop", "shutdown", "joining", "done", "failed"}
      BY <3>2
    <3> QED
      BY <2>2, <3>1, <3>4, <3>5
  <2>6. CASE HandleRequest
    <3>1. Receive("loop") /\ Message.kind = "request" /\ outgoing' = Answer(Message)
      BY <2>6 DEF HandleRequest
    <3>2. server' = server /\ docs' = docs
      BY <2>6 DEF HandleRequest
    <3>3. Message \in FromClient
      BY <2>3, <3>1
    <3>4. outgoing' \in Seq(ForClient) /\ Len(outgoing') <= 1
      <4>1. Answer(Message) \in Seq(ForClient) /\ Len(Answer(Message)) = 1
        BY <2>4, <3>1, <3>3, Zenon
      <4> QED
        BY <3>1, <4>1
    <3>5. docs' \in Store /\ server' \in {"loop", "shutdown", "joining", "done", "failed"}
      BY <3>2
    <3> QED
      BY <2>2, <3>1, <3>4, <3>5
  <2>7. CASE HandleDocument
    <3>1. Receive("loop") /\ Message \in FromClient /\ Message.kind \in Document
      BY <2>3, <2>7 DEF HandleDocument, Document
    <3>2. Message \in AnyNotification
      BY <3>1 DEF FromClient, AnyRequest, AnyNotification, AnythingElse, Document
    <3>3. docs' = [docs EXCEPT ![Message.uri] = After(@, Message)] /\ docs \in Store
      BY <2>7 DEF HandleDocument
    <3>4. docs' \in Store /\ Message.uri \in Uri
      BY <3>2, <3>3, NotificationEffect DEF AnyNotification
    <3>5. outgoing' = Publish(Message, docs'[Message.uri]) /\ docs'[Message.uri] \in Contents
      BY <2>7, <3>4 DEF HandleDocument
    <3>6. Diagnostics(Message.uri, docs'[Message.uri]) \in ForClient
      BY <3>4, <3>5 DEF Diagnostics, ForClient
    <3>7. outgoing' \in Seq(ForClient) /\ Len(outgoing') <= 1
      BY <2>1, <3>5, <3>6 DEF Publish
    <3>8. server' = server
      BY <2>7 DEF HandleDocument
    <3> QED
      BY <2>2, <3>1, <3>4, <3>7, <3>8
  <2>8. CASE HandleOther
    <3>1. Receive("loop") /\ UNCHANGED <<server, docs, outgoing>>
      BY <2>8 DEF HandleOther, serverVars
    <3> QED
      BY <2>2, <3>1
  <2>9. CASE HandleMalformed
    <3>1. Receive("loop") /\ server' = "failed" /\ UNCHANGED <<docs, outgoing>>
      BY <2>9 DEF HandleMalformed
    <3> QED
      BY <2>2, <3>1
  <2>10. CASE AwaitExit
    <3>1. /\ Receive("shutdown") /\ server' \in {"joining", "failed"}
          /\ UNCHANGED <<docs, outgoing>>
      BY <2>10 DEF AwaitExit
    <3> QED
      BY <2>2, <3>1
  <2>11. CASE TimeOut
    BY <2>11 DEF TimeOut, clientVars, ioVars
  <2>12. CASE LoopEnds
    BY <2>12 DEF LoopEnds, clientVars, ioVars
  <2>13. CASE SendFails
    BY <2>1, <2>13 DEF SendFails, clientVars, ioVars
  <2>14. CASE Join
    BY <2>14 DEF Join, clientVars, ioVars
  <2> QED
    BY <1>13, <2>5, <2>6, <2>7, <2>8, <2>9, <2>10, <2>11, <2>12, <2>13, <2>14 DEF MainThread
<1>14. CASE UNCHANGED vars
  BY <1>14 DEF vars, clientVars, serverVars, ioVars
<1> QED
  BY <1>1, <1>2, <1>3, <1>4, <1>5, <1>6, <1>7, <1>8, <1>9, <1>10, <1>11, <1>12, <1>13, <1>14
  DEF Next, Document

----------------------------------------------------------------------------
(* The invariant.                                                          *)

(* Nothing was said, nothing is known.                                      *)
LEMMA IInvInit == Init => IInv
<1> SUFFICES ASSUME Init PROVE IInv
  OBVIOUS
<1>1. TypeOK
  BY WellTypedInit
<1>2. FromServer = <<>> /\ ToServer = <<>>
  <2>1. <<>> \in Seq(ForClient) /\ <<>> \in Seq(FromClient)
    BY EmptySeq
  <2> QED
    BY <2>1, ConcatEmptySeq DEF Init, FromServer, ToServer
<1>3. Know(answered, shown) \in Knowledge
  BY <1>1, KnowType DEF TypeOK, Store
<1>4. Know(answered, shown) = Know(asked, mirror) /\ Know(answered, shown).store = docs
  BY DEF Init, Know
<1>5. NothingIsLost
  BY <1>2, <1>3, <1>4, DeliveredNothing DEF NothingIsLost, Flow
<1>6. WriterWasNotNeeded
  BY DEF Init, WriterWasNotNeeded
<1> QED
  BY <1>1, <1>5, <1>6 DEF IInv

(* The writer ends before its time only when nobody reads it.               *)
LEMMA StepWriterWasNotNeeded ==
  ASSUME IInv, [Next]_vars
  PROVE  WriterWasNotNeeded'
<1> USE DEF WriterWasNotNeeded
<1>0. WriterWasNotNeeded
  BY DEF IInv
<1>1. ASSUME NEW m, Send(m), client # "gone"
      PROVE  WriterWasNotNeeded'
  BY <1>0, <1>1 DEF Send, serverVars
<1>2. ASSUME NEW method \in Method, NEW ok \in BOOLEAN, Ask(method, ok)
      PROVE  WriterWasNotNeeded'
  BY <1>0, <1>2 DEF Ask, Send, serverVars
<1>3. ASSUME NEW kind \in Document, NEW uri \in Uri, Notify(kind, uri)
      PROVE  WriterWasNotNeeded'
  BY <1>0, <1>3 DEF Notify, Send, serverVars
<1>4. ASSUME NEW kind \in {"other", "malformed"}, Babble(kind)
      PROVE  WriterWasNotNeeded'
  BY <1>0, <1>4 DEF Babble, Send, serverVars
<1>5. CASE AskShutdown
  BY <1>0, <1>5 DEF AskShutdown, Send, serverVars
<1>6. CASE Exit
  BY <1>0, <1>6 DEF Exit, Send, serverVars
<1>7. CASE ClientReceive
  BY <1>0, <1>7 DEF ClientReceive, serverVars
<1>8. CASE Vanish
  BY <1>0, <1>8 DEF Vanish, serverVars
<1>9. CASE ReadMessage \/ ReaderEnds
  BY <1>0, <1>9 DEF ReadMessage, ReaderEnds, clientVars, serverVars
<1>10. CASE TakeMessage
  BY <1>0, <1>10 DEF TakeMessage, clientVars
<1>11. CASE WriteMessage
  BY <1>0, <1>11 DEF WriteMessage, clientVars, serverVars
<1>12. CASE WriterEnds
  BY <1>0, <1>12 DEF WriterEnds, clientVars, serverVars, Alive, ConnectionDropped
<1>13. ASSUME NEW from \in {"loop", "shutdown"}, Receive(from)
       PROVE  WriterWasNotNeeded'
  BY <1>0, <1>13 DEF Receive, clientVars
<1>14. CASE TimeOut
  BY <1>0, <1>14 DEF TimeOut, clientVars, ioVars
<1>15. CASE LoopEnds
  BY <1>0, <1>15 DEF LoopEnds, clientVars, ioVars
<1>16. CASE SendFails
  BY <1>0, <1>16 DEF SendFails, clientVars, ioVars
<1>17. CASE Join
  BY <1>0, <1>17 DEF Join, clientVars, ioVars
<1>18. MainThread => \/ \E from \in {"loop", "shutdown"} : Receive(from)
                     \/ TimeOut \/ LoopEnds \/ SendFails \/ Join
  BY DEF MainThread, Shutdown, HandleRequest, HandleDocument, HandleOther,
         HandleMalformed, AwaitExit
<1>19. CASE MainThread
  BY <1>13, <1>14, <1>15, <1>16, <1>17, <1>18, <1>19
<1>20. CASE UNCHANGED vars
  BY <1>0, <1>20 DEF vars, clientVars, serverVars, ioVars
<1> QED
  BY <1>2, <1>3, <1>4, <1>5, <1>6, <1>7, <1>8, <1>9, <1>10, <1>11, <1>12, <1>19, <1>20
  DEF Next, Document

(* A step that neither adds to the messages on their way nor takes any off  *)
(* loses none.                                                             *)
LEMMA FlowStays ==
  ASSUME NothingIsLost, client' # "gone" => client # "gone",
         server' # "failed" => server # "failed",
         client' # "gone" /\ server' # "failed" => FromServer' = FromServer,
         ToServer' = ToServer,
         UNCHANGED <<mirror, shown, asked, answered, docs>>
  PROVE  NothingIsLost'
<1> SUFFICES ASSUME client' # "gone", server' # "failed"
             PROVE  Flow(Know(answered', shown'), FromServer', docs', ToServer',
                         Know(asked', mirror'))
  BY DEF NothingIsLost
<1> QED
  BY DEF NothingIsLost

(* What the client says is on its way.                                     *)
LEMMA FlowOfSend ==
  ASSUME TypeOK, NothingIsLost, NEW m \in FromClient, Send(m),
         Know(asked', mirror') = Heard(Know(asked, mirror), m)
  PROVE  NothingIsLost'
<1> SUFFICES ASSUME client' # "gone", server' # "failed"
             PROVE  Flow(Know(answered', shown'), FromServer', docs', ToServer',
                         Know(asked', mirror'))
  BY DEF NothingIsLost
<1>1. Flow(Know(answered, shown), FromServer, docs, ToServer, Know(asked, mirror))
  BY DEF NothingIsLost, Send, serverVars
<1>2. /\ FromServer' = FromServer /\ answered' = answered /\ shown' = shown /\ docs' = docs
      /\ reader' = reader /\ inbox' = Append(inbox, m)
  BY DEF Send, serverVars, FromServer
<1>3. /\ outbox \in Seq(ForClient) /\ writer \in Seq(ForClient) /\ outgoing \in Seq(ForClient)
      /\ reader \in Seq(FromClient) /\ inbox \in Seq(FromClient)
  BY DEF TypeOK
<1>4. FromServer \in Seq(ForClient) /\ ToServer \in Seq(FromClient)
  BY <1>3, ConcatProperties DEF FromServer, ToServer
<1>5. ToServer' = ToServer \o <<m>>
  <2>1. inbox' = inbox \o <<m>> /\ <<m>> \in Seq(FromClient)
    BY <1>2, <1>3, AppendIsConcat
  <2>2. (reader \o inbox) \o <<m>> = reader \o (inbox \o <<m>>)
    BY <1>3, <2>1, ConcatAssociative
  <2> QED
    BY <1>2, <2>1, <2>2 DEF ToServer
<1>6. Know(answered, shown) \in Knowledge /\ Know(asked, mirror) \in Knowledge
  BY KnowType DEF TypeOK, Store
<1>7. Flow(Know(answered, shown), FromServer, docs, ToServer \o <<m>>,
           Heard(Know(asked, mirror), m))
  BY <1>1, <1>4, <1>6, FlowSend
<1> QED
  BY <1>2, <1>5, <1>7

(* What the server handles, and does not fail on, it acts upon and answers. *)
LEMMA FlowOfReceive ==
  ASSUME TypeOK, TypeOK', NothingIsLost, NEW from, Receive(from),
         server = "failed" => server' = "failed",
         server' # "failed" =>
           /\ docs' = Stored(docs, Message)
           /\ \A k \in Knowledge : k.store = docs =>
                Delivered(k, outgoing') = Heard(k, Message)
  PROVE  NothingIsLost'
<1> SUFFICES ASSUME client' # "gone", server' # "failed"
             PROVE  Flow(Know(answered', shown'), FromServer', docs', ToServer',
                         Know(asked', mirror'))
  BY DEF NothingIsLost
<1>1. server # "failed" /\ client # "gone"
  BY DEF Receive, clientVars
<1>2. Flow(Know(answered, shown), FromServer, docs, ToServer, Know(asked, mirror))
  BY <1>1 DEF NothingIsLost
<1>3. /\ outbox \in Seq(ForClient) /\ writer \in Seq(ForClient)
      /\ reader \in Seq(FromClient) /\ inbox \in Seq(FromClient)
      /\ outgoing' \in Seq(ForClient) /\ Len(reader) <= 1
  BY DEF TypeOK
<1>4. /\ outgoing = <<>> /\ reader # <<>> /\ reader' = <<>>
      /\ UNCHANGED <<answered, shown, asked, mirror, inbox, writer, outbox>>
  BY DEF Receive, clientVars
<1>5. Message \in FromClient /\ reader = <<Message>>
  <2>1. Len(reader) \in Nat /\ Len(reader) # 0 /\ Len(reader) <= 1
    BY <1>3, <1>4, EmptySeq
  <2>2. Len(reader) = 1
    <3>1. \A n \in Nat : n # 0 /\ n <= 1 => n = 1
      OBVIOUS
    <3> QED
      BY <2>1, <3>1, Zenon
  <2>3. Message \in FromClient /\ Message = reader[1]
    BY <1>3, <1>4, <2>2, HeadTailProperties, ElementOfSeq DEF Message
  <2>4. <<Message>> \in Seq(FromClient) /\ Len(<<Message>>) = 1 /\ <<Message>>[1] = Message
    BY <2>3
  <2>5. reader = <<Message>>
    BY <1>3, <2>2, <2>3, <2>4, SeqEqual
  <2> QED
    BY <2>3, <2>5
<1>6. outbox \o writer \in Seq(ForClient)
  BY <1>3, ConcatProperties
<1>7. FromServer = outbox \o writer /\ FromServer' = FromServer \o outgoing'
  BY <1>4, <1>6, ConcatEmptySeq DEF FromServer
<1>8. ToServer' = inbox /\ ToServer = <<Message>> \o inbox
  BY <1>3, <1>4, <1>5, ConcatEmptySeq DEF ToServer
<1>9. Know(answered, shown) \in Knowledge
  BY KnowType DEF TypeOK, Store
<1>10. Flow(Know(answered, shown), FromServer, docs, <<Message>> \o inbox, Know(asked, mirror))
  BY <1>2, <1>8
<1>11. \A k \in Knowledge : k.store = docs => Delivered(k, outgoing') = Heard(k, Message)
  BY <1>1
<1>12. FromServer \in Seq(ForClient)
  BY <1>6, <1>7
<1>13. Flow(Know(answered, shown), FromServer \o outgoing', Stored(docs, Message), inbox,
            Know(asked, mirror))
  BY <1>3, <1>5, <1>9, <1>10, <1>11, <1>12, FlowHandle
<1>14. docs' = Stored(docs, Message)
  BY <1>1
<1> QED
  BY <1>4, <1>7, <1>8, <1>13, <1>14

(* A step moves a message along, and loses none that somebody waits for.    *)
LEMMA StepNothingIsLost ==
  ASSUME IInv, [Next]_vars
  PROVE  NothingIsLost'
<1>0. TypeOK /\ TypeOK' /\ NothingIsLost /\ WriterWasNotNeeded
  BY StepWellTyped DEF IInv
<1> DEFINE Typed == /\ asked \in Seq(Id) /\ mirror \in Store /\ docs \in Store
                    /\ answered \in Seq(Id) /\ shown \in Store
                    /\ {outgoing, writer, outbox} \subseteq Seq(ForClient)
                    /\ {inbox, reader} \subseteq Seq(FromClient)
<1>00. Typed
  BY <1>0 DEF TypeOK, Store
<1>1. ASSUME NEW method \in Method, NEW ok \in BOOLEAN, Ask(method, ok)
      PROVE  NothingIsLost'
  <2> DEFINE m == Request(method, messages, ok)
  <2>1. Send(m) /\ messages < MaxMessages /\ asked' = Append(asked, messages) /\ mirror' = mirror
    BY <1>1 DEF Ask
  <2>2. messages \in Id /\ m \in FromClient
    BY <1>0, <2>1, NextId, SaidType DEF FromClient
  <2>3. IdOf(m) = <<messages>> /\ Stored(mirror, m) = mirror
    BY DEF IdOf, Stored, Request, Document
  <2>4. Know(asked', mirror') = Heard(Know(asked, mirror), m)
    BY <1>00, <2>1, <2>2, <2>3, HeardNumber
  <2> HIDE DEF m
  <2> QED
    BY <1>0, <2>1, <2>2, <2>4, FlowOfSend
<1>2. ASSUME NEW kind \in Document, NEW uri \in Uri, Notify(kind, uri)
      PROVE  NothingIsLost'
  <2> DEFINE m == Notification(kind, uri, messages)
  <2>1. Send(m) /\ messages < MaxMessages /\ asked' = asked
    BY <1>2 DEF Notify
  <2>2. m \in AnyNotification /\ m \in FromClient /\ m.uri = uri
    BY <1>0, <2>1, NextId, SaidType DEF FromClient, Notification
  <2>3. mirror' = [mirror EXCEPT ![uri] = After(@, m)]
    BY <1>2 DEF Notify
  <2>4. mirror' = Stored(mirror, m) /\ IdOf(m) = <<>>
    BY <1>00, <2>2, <2>3, NotificationEffect
  <2> HIDE DEF m
  <2>5. Know(asked', mirror') = Heard(Know(asked, mirror), m)
    BY <1>00, <2>1, <2>4, HeardNoNumber
  <2> QED
    BY <1>0, <2>1, <2>2, <2>5, FlowOfSend
<1>3. ASSUME NEW m \in AnythingElse, Send(m), asked' = asked, mirror' = mirror
      PROVE  NothingIsLost'
  <2>1. m \in FromClient /\ IdOf(m) = <<>> /\ Stored(mirror, m) = mirror
    BY DEF FromClient, AnythingElse, IdOf, Stored, Document
  <2>2. Know(asked', mirror') = Heard(Know(asked, mirror), m)
    BY <1>00, <1>3, <2>1, HeardNoNumber
  <2> QED
    BY <1>0, <1>3, <2>1, <2>2, FlowOfSend
<1>4. ASSUME NEW kind \in {"other", "malformed"}, Babble(kind)
      PROVE  NothingIsLost'
  BY <1>3, <1>4, SaidType DEF Babble
<1>5. ASSUME Exit PROVE NothingIsLost'
  BY <1>3, <1>5, SaidType DEF Exit
<1>6. ASSUME AskShutdown PROVE NothingIsLost'
  <2> DEFINE m == Request("shutdown", ShutdownId, TRUE)
  <2>1. Send(m) /\ asked' = Append(asked, ShutdownId) /\ mirror' = mirror
    BY <1>6 DEF AskShutdown
  <2>2. ShutdownId \in Id
    BY BoundsAssumption DEF ShutdownId, Id
  <2>3. m \in FromClient
    BY <2>2, SaidType DEF FromClient
  <2>4. IdOf(m) = <<ShutdownId>> /\ Stored(mirror, m) = mirror
    BY DEF IdOf, Stored, Request, Document
  <2>5. Know(asked', mirror') = Heard(Know(asked, mirror), m)
    <3>1. Heard(Know(asked, mirror), m) = Know(Append(asked, ShutdownId), Stored(mirror, m))
      <4>1. asked \in Seq(Id)
        BY <1>00
      <4> HIDE DEF m
      <4> QED
        BY <2>2, <2>4, <4>1, HeardNumber
    <3> QED
      BY <2>1, <2>4, <3>1
  <2> HIDE DEF m
  <2> QED
    BY <1>0, <2>1, <2>3, <2>5, FlowOfSend
<1>7. ASSUME ClientReceive PROVE NothingIsLost'
  <2> SUFFICES ASSUME client' # "gone", server' # "failed"
               PROVE  Flow(Know(answered', shown'), FromServer', docs', ToServer',
                           Know(asked', mirror'))
    BY DEF NothingIsLost
  <2> DEFINE m == Head(outbox)
  <2>1. /\ outbox # <<>> /\ outbox' = Tail(outbox)
        /\ UNCHANGED <<client, server, docs, outgoing, inbox, reader, writer, asked, mirror>>
    BY <1>7 DEF ClientReceive, serverVars
  <2>2. m \in ForClient /\ outbox' \in Seq(ForClient) /\ <<m>> \in Seq(ForClient)
    BY <1>00, <2>1, HeadTailProperties
  <2>3. outbox = <<m>> \o outbox'
    BY <1>00, <2>1, <2>2, HeadThenTail
  <2>4. Know(answered', shown') = Heard(Know(answered, shown), m)
    <3>1. CASE m.kind = "response"
      <4>1. m.id \in Id /\ IdOf(m) = <<m.id>> /\ Stored(shown, m) = shown
        BY <2>2, <3>1 DEF ForClient, IdOf, Stored, Document
      <4>2. answered' = Append(answered, m.id) /\ shown' = shown
        BY <1>7, <3>1 DEF ClientReceive
      <4> QED
        BY <1>00, <4>1, <4>2, HeardNumber
    <3>2. CASE m.kind # "response"
      <4>1. /\ m.kind = "diagnostics" /\ IdOf(m) = <<>>
            /\ Stored(shown, m) = [shown EXCEPT ![m.uri] = m.contents]
        BY <2>2, <3>2 DEF ForClient, IdOf, Stored, Document
      <4>2. answered' = answered /\ shown' = [shown EXCEPT ![m.uri] = m.contents]
        BY <1>7, <3>2 DEF ClientReceive
      <4> QED
        <5>1. Heard(Know(answered, shown), m) = Know(answered, Stored(shown, m))
          BY <1>00, <4>1, HeardNoNumber
        <5> QED
          BY <4>1, <4>2, <5>1
    <3> QED
      BY <3>1, <3>2
  <2> HIDE DEF m
  <2>5. FromServer = <<m>> \o FromServer' /\ FromServer' \in Seq(ForClient)
    <3>1. /\ outgoing \in Seq(ForClient) /\ writer \in Seq(ForClient)
          /\ outbox' \o writer \in Seq(ForClient)
      BY <1>00, <2>2, ConcatProperties
    <3>2. (<<m>> \o outbox') \o writer = <<m>> \o (outbox' \o writer)
      BY <2>2, <3>1, ConcatAssociative
    <3>3. (<<m>> \o (outbox' \o writer)) \o outgoing = <<m>> \o ((outbox' \o writer) \o outgoing)
      BY <2>2, <3>1, ConcatAssociative
    <3>4. FromServer' = (outbox' \o writer) \o outgoing
      BY <2>1 DEF FromServer
    <3>5. FromServer' \in Seq(ForClient)
      BY <3>1, <3>4, ConcatProperties
    <3> QED
      BY <2>3, <3>2, <3>3, <3>4, <3>5 DEF FromServer
  <2>6. ToServer' = ToServer
    BY <2>1 DEF ToServer
  <2>7. Know(answered, shown) \in Knowledge
    BY <1>00, KnowType
  <2>8. Flow(Know(answered, shown), <<m>> \o FromServer', docs, ToServer, Know(asked, mirror))
    BY <1>0, <2>1, <2>5 DEF NothingIsLost
  <2>9. Flow(Heard(Know(answered, shown), m), FromServer', docs, ToServer, Know(asked, mirror))
    BY <2>2, <2>5, <2>7, <2>8, FlowReceive
  <2> QED
    BY <2>1, <2>4, <2>6, <2>9
<1>8. ASSUME Vanish PROVE NothingIsLost'
  BY <1>8 DEF Vanish, NothingIsLost
<1>9. ASSUME ReadMessage PROVE NothingIsLost'
  <2>1. /\ reader = <<>> /\ inbox # <<>> /\ reader' = <<Head(inbox)>> /\ inbox' = Tail(inbox)
        /\ UNCHANGED <<clientVars, serverVars, writer, outbox>>
    BY <1>9 DEF ReadMessage
  <2>2. <<Head(inbox)>> \o Tail(inbox) = inbox /\ <<>> \o inbox = inbox
    BY <1>00, <2>1, HeadThenTail, ConcatEmptySeq
  <2>3. ToServer' = ToServer /\ FromServer' = FromServer
    BY <2>1, <2>2 DEF ToServer, FromServer, serverVars
  <2> QED
    BY <1>0, <2>1, <2>3, FlowStays DEF clientVars, serverVars
<1>10. ASSUME ReaderEnds PROVE NothingIsLost'
  <2>1. UNCHANGED <<clientVars, serverVars, inbox, reader, writer, outbox>>
    BY <1>10 DEF ReaderEnds
  <2>2. ToServer' = ToServer /\ FromServer' = FromServer
    BY <2>1 DEF ToServer, FromServer, serverVars
  <2> QED
    BY <1>0, <2>1, <2>2, FlowStays DEF clientVars, serverVars
<1>11. ASSUME TakeMessage PROVE NothingIsLost'
  <2>1. /\ writer = <<>> /\ writer' = outgoing /\ outgoing' = <<>>
        /\ UNCHANGED <<clientVars, server, docs, inbox, reader, outbox>>
    BY <1>11 DEF TakeMessage
  <2>2. outbox \o <<>> = outbox /\ (outbox \o outgoing) \o <<>> = outbox \o outgoing
    BY <1>00, ConcatEmptySeq, ConcatProperties
  <2>3. ToServer' = ToServer /\ FromServer' = FromServer
    BY <2>1, <2>2 DEF ToServer, FromServer
  <2> QED
    BY <1>0, <2>1, <2>3, FlowStays DEF clientVars
<1>12. ASSUME WriteMessage PROVE NothingIsLost'
  <2>1. /\ outbox' = outbox \o writer /\ writer' = <<>>
        /\ UNCHANGED <<clientVars, serverVars, inbox, reader>>
    BY <1>12 DEF WriteMessage
  <2>2. (outbox \o writer) \o <<>> = outbox \o writer
    BY <1>00, ConcatEmptySeq, ConcatProperties
  <2>3. ToServer' = ToServer /\ FromServer' = FromServer
    BY <2>1, <2>2 DEF ToServer, FromServer, serverVars
  <2> QED
    BY <1>0, <2>1, <2>3, FlowStays DEF clientVars, serverVars
<1>13. ASSUME WriterEnds PROVE NothingIsLost'
  <2>1. /\ writer' = <<>>
        /\ client = "gone" \/ writer = <<>>
        /\ UNCHANGED <<clientVars, serverVars, inbox, reader, outbox>>
    BY <1>13 DEF WriterEnds
  <2>2. ToServer' = ToServer /\ (client' # "gone" => FromServer' = FromServer)
    BY <2>1 DEF ToServer, FromServer, serverVars, clientVars
  <2> QED
    BY <1>0, <2>1, <2>2, FlowStays DEF clientVars, serverVars
<1>14. ASSUME NEW from \in {"loop", "shutdown"}, Receive(from)
       PROVE  Message \in FromClient /\ server = from /\ server # "failed"
  <2>1. reader \in Seq(FromClient) /\ reader # <<>> /\ server = from
    BY <1>00, <1>14 DEF Receive
  <2> QED
    BY <2>1, HeadTailProperties DEF Message
<1>15. ASSUME NEW from \in {"loop", "shutdown"}, Receive(from), Message.kind = "request",
              outgoing' = Answer(Message), docs' = docs
       PROVE  NothingIsLost'
  <2>1. Message \in AnyRequest
    BY <1>14, <1>15 DEF FromClient, AnyRequest, AnyNotification, AnythingElse, Document
  <2>2. Stored(docs, Message) = docs
    BY <1>15 DEF Stored, Document
  <2>3. \A k \in Knowledge : Delivered(k, outgoing') = Heard(k, Message)
    BY <1>15, <2>1, AnswerTells
  <2> QED
    BY <1>0, <1>14, <1>15, <2>2, <2>3, FlowOfReceive
<1>16. ASSUME NEW from \in {"loop", "shutdown"}, Receive(from),
              Message.kind \in {"exit", "other"}, outgoing' = outgoing, docs' = docs
       PROVE  NothingIsLost'
  <2>1. outgoing' = <<>>
    BY <1>16 DEF Receive
  <2>2. IdOf(Message) = <<>> /\ \A store : Stored(store, Message) = store
    BY <1>16 DEF IdOf, Stored, Document
  <2>3. \A k \in Knowledge : Delivered(k, outgoing') = Heard(k, Message)
    BY <2>1, <2>2, NothingToTell
  <2> QED
    BY <1>0, <1>14, <1>16, <2>2, <2>3, FlowOfReceive
<1>17. ASSUME server' = "failed" PROVE NothingIsLost'
  BY <1>17 DEF NothingIsLost
<1>18. ASSUME HandleDocument PROVE NothingIsLost'
  <2> DEFINE m == Message
  <2>1. /\ Receive("loop") /\ m.kind \in Document
        /\ docs' = [docs EXCEPT ![m.uri] = After(@, m)]
        /\ outgoing' = Publish(m, docs'[m.uri])
    BY <1>18 DEF HandleDocument, Document
  <2>2. m \in AnyNotification /\ server = "loop"
    BY <1>14, <2>1 DEF FromClient, AnyRequest, AnyNotification, AnythingElse, Document
  <2>3. docs' = Stored(docs, m) /\ m.uri \in Uri
    BY <1>00, <2>1, <2>2, NotificationEffect DEF AnyNotification
  <2>4. docs'[m.uri] = After(docs[m.uri], m)
    BY <1>00, <2>1, <2>3 DEF Store
  <2>5. \A k \in Knowledge : k.store = docs => Delivered(k, outgoing') = Heard(k, m)
    BY <2>1, <2>2, <2>4, PublishTells
  <2> QED
    BY <1>0, <2>1, <2>2, <2>3, <2>5, FlowOfReceive
<1>19. ASSUME SendFails PROVE NothingIsLost'
  <2>1. client = "gone" /\ client' = client
    BY <1>0, <1>19 DEF SendFails, WriterWasNotNeeded, clientVars
  <2> QED
    BY <2>1 DEF NothingIsLost
<1>20. ASSUME LoopEnds \/ Join PROVE NothingIsLost'
  <2>1. UNCHANGED <<clientVars, docs, outgoing, ioVars>> /\ server # "failed"
    BY <1>20 DEF LoopEnds, Join
  <2>2. ToServer' = ToServer /\ FromServer' = FromServer
    BY <2>1 DEF ToServer, FromServer, ioVars
  <2> QED
    BY <1>0, <2>1, <2>2, FlowStays DEF clientVars
<1>21. ASSUME MainThread PROVE NothingIsLost'
  <2>1. CASE Shutdown
    BY <1>15, <2>1 DEF Shutdown
  <2>2. CASE HandleRequest
    BY <1>15, <2>2 DEF HandleRequest
  <2>3. CASE HandleOther
    BY <1>16, <2>3 DEF HandleOther, serverVars
  <2>4. CASE HandleMalformed \/ TimeOut
    BY <1>17, <2>4 DEF HandleMalformed, TimeOut
  <2>5. CASE AwaitExit
    <3>1. CASE Message.kind = "exit"
      BY <1>16, <2>5, <3>1 DEF AwaitExit
    <3>2. CASE Message.kind # "exit"
      BY <1>17, <2>5, <3>2 DEF AwaitExit
    <3> QED
      BY <3>1, <3>2
  <2> QED
    BY <1>18, <1>19, <1>20, <1>21, <2>1, <2>2, <2>3, <2>4, <2>5 DEF MainThread
<1>22. CASE UNCHANGED vars
  <2>1. ToServer' = ToServer /\ FromServer' = FromServer
    BY <1>22 DEF ToServer, FromServer, vars, serverVars, ioVars
  <2> QED
    BY <1>0, <1>22, <2>1, FlowStays DEF vars, clientVars, serverVars
<1> QED
  BY <1>1, <1>2, <1>4, <1>5, <1>6, <1>7, <1>8, <1>9, <1>10, <1>11, <1>12, <1>13, <1>21, <1>22
  DEF Next, Document

(* Every step keeps the invariant.                                          *)
LEMMA StepIInv == IInv /\ [Next]_vars => IInv'
  BY StepWellTyped, StepWriterWasNotNeeded, StepNothingIsLost DEF IInv

(* The invariant holds in every state of a session.                         *)
LEMMA AlwaysIInv == Spec => []IInv
  BY IInvInit, StepIInv, PTL DEF Spec

(* Whatever the client says and whenever it leaves, the ends hold what they *)
(* can hold and a pipe no more than it can.                                *)
THEOREM ServerTypes == Spec => []TypeOK
<1>1. IInv => TypeOK
  BY DEF IInv
<1> QED
  BY <1>1, AlwaysIInv, PTL

(* The answers the client has, those on their way and the requests still to  *)
(* be handled are the requests it made, also when serve has returned.        *)
LEMMA AnswersAddUp ==
  ASSUME IInv, server # "failed", client # "gone"
  PROVE  answered \o Ids(FromServer \o ToServer) = asked
<1> DEFINE k == Know(answered, shown)
<1>1. k \in Knowledge /\ k.ids = answered
  BY KnowType DEF IInv, TypeOK, Store, Know
<1> HIDE DEF k
<1>2. FromServer \in Seq(ForClient) /\ ToServer \in Seq(FromClient)
  BY ConcatProperties DEF IInv, TypeOK, FromServer, ToServer
<1>3. FromServer \in Seq(AnyMessage) /\ ToServer \in Seq(AnyMessage)
  BY <1>2, SeqMonotonic DEF AnyMessage
<1>4. FromServer \o ToServer \in Seq(AnyMessage)
  BY <1>3, ConcatProperties
<1>5. Delivered(k, FromServer \o ToServer) = Know(asked, mirror)
  BY <1>1, <1>3, DeliveredConcat DEF IInv, NothingIsLost, Flow, k
<1>6. Delivered(k, FromServer \o ToServer).ids = answered \o Ids(FromServer \o ToServer)
  BY <1>1, <1>4, DeliveredIds
<1> QED
  BY <1>5, <1>6 DEF Know

(* No request is lost, answered twice or out of turn, by any thread, at any *)
(* limit of the pipes.                                                     *)
THEOREM RequestsAreAnsweredOnce == Spec => []EachRequestAnsweredOnce
<1>1. ASSUME IInv, Alive, client # "gone"
      PROVE  answered \o Ids(FromServer \o ToServer) = asked
  BY <1>1, AnswersAddUp DEF Alive
<1>2. IInv => EachRequestAnsweredOnce
  BY <1>1 DEF EachRequestAnsweredOnce
<1> QED
  BY <1>2, AlwaysIInv, PTL

(* Once everything has arrived, at a server in its loop or one that ended    *)
(* well, the client shows what it has open and nothing else.                *)
THEOREM OpenDocumentsAreShown == Spec => []ShownWhatIsOpen
<1>1. ASSUME IInv, server \in {"loop", "done"}, client # "gone",
             FromServer = <<>>, ToServer = <<>>
      PROVE  shown = mirror
  <2>1. Know(answered, shown) \in Knowledge
    BY <1>1, KnowType DEF IInv, TypeOK, Store
  <2>2. Know(answered, shown) = Know(asked, mirror)
    BY <1>1, <2>1, DeliveredNothing DEF IInv, NothingIsLost, Flow
  <2> QED
    BY <2>2 DEF Know
<1>2. IInv => ShownWhatIsOpen
  BY <1>1 DEF ShownWhatIsOpen
<1> QED
  BY <1>2, AlwaysIInv, PTL

----------------------------------------------------------------------------
(* How a session ends.                                                     *)

NoExit(s) == \A i \in 1 .. Len(s) : s[i].kind # "exit"

ExitLast(s) == s # <<>> /\ \A i \in 1 .. Len(s) : s[i].kind = "exit" <=> i = Len(s)

(* Exit is the client's last word, and the reader thread ends with it.      *)
ExitIsLast ==
  /\ client = "here" => "reader" \notin ended /\ NoExit(reader) /\ NoExit(inbox)
  /\ client = "leaving" =>
       IF "reader" \in ended THEN reader = <<>> /\ inbox = <<>>
       ELSE IF inbox = <<>> THEN ExitLast(reader)
       ELSE NoExit(reader) /\ ExitLast(inbox)

(* The loop ends after the reader, and serve after the writer, which leaves  *)
(* nothing unwritten.                                                      *)
EndsInTurn ==
  /\ server \in {"joining", "done"} => "reader" \in ended /\ outgoing = <<>>
  /\ server = "done" => "writer" \in ended
  /\ "writer" \in ended => writer = <<>>

Farewell == ExitIsLast /\ EndsInTurn

(* A sequence with one more at its end, and without its first.              *)
LEMMA OneIn ==
  ASSUME NEW S, NEW s \in Seq(S), NEW m \in S
  PROVE  /\ Len(Append(s, m)) = Len(s) + 1 /\ Append(s, m) # <<>>
         /\ NoExit(s) /\ m.kind # "exit" => NoExit(Append(s, m))
         /\ NoExit(s) /\ m.kind = "exit" => ExitLast(Append(s, m))
<1> DEFINE t == Append(s, m)
           n == Len(s)
<1>1. /\ n \in Nat /\ t \in Seq(S) /\ Len(t) = n + 1 /\ t[n + 1] = m
      /\ \A i \in 1 .. n : t[i] = s[i]
  BY AppendProperties, LenProperties
<1> HIDE DEF t, n
<1>2. \A i \in 1 .. (n + 1) : i = n + 1 \/ i \in 1 .. n
  BY <1>1
<1>3. t # <<>>
  BY <1>1, EmptySeq
<1>4. ASSUME NoExit(s), m.kind # "exit" PROVE NoExit(t)
  BY <1>1, <1>2, <1>4 DEF NoExit, n
<1>5. ASSUME NoExit(s), m.kind = "exit" PROVE ExitLast(t)
  BY <1>1, <1>2, <1>3, <1>5 DEF NoExit, ExitLast, n
<1> QED
  BY <1>1, <1>3, <1>4, <1>5 DEF t, n

(* The first of a sequence, and what is left without it.                    *)
LEMMA OneOut ==
  ASSUME NEW S, NEW s \in Seq(S), s # <<>>
  PROVE  /\ Len(Tail(s)) = Len(s) - 1 /\ Len(<<Head(s)>>) = 1
         /\ NoExit(s) => NoExit(<<Head(s)>>) /\ NoExit(Tail(s))
         /\ ExitLast(s) => IF Tail(s) = <<>> THEN ExitLast(<<Head(s)>>)
                           ELSE NoExit(<<Head(s)>>) /\ ExitLast(Tail(s))
<1> DEFINE t == Tail(s)
           h == <<Head(s)>>
           n == Len(s)
<1>1. /\ n \in Nat \ {0} /\ t \in Seq(S) /\ Len(t) = n - 1
      /\ \A i \in 1 .. (n - 1) : t[i] = s[i + 1]
  BY EmptySeq, HeadTailProperties, LenProperties
<1>2. Len(h) = 1 /\ h[1] = s[1] /\ h # <<>>
  BY <1>1, HeadTailProperties
<1>3. t = <<>> <=> n = 1
  BY <1>1, EmptySeq
<1> HIDE DEF t, h, n
<1>4. \A i \in 1 .. (n - 1) : i + 1 \in 1 .. n /\ (i = n - 1 <=> i + 1 = n)
  BY <1>1
<1>5. \A i \in 1 .. 1 : i = 1
  OBVIOUS
<1>6. 1 \in 1 .. n
  BY <1>1
<1>7. ASSUME NoExit(s) PROVE NoExit(h) /\ NoExit(t)
  BY <1>1, <1>2, <1>4, <1>5, <1>6, <1>7 DEF NoExit, n
<1>8. ASSUME ExitLast(s), t = <<>> PROVE ExitLast(h)
  BY <1>1, <1>2, <1>3, <1>5, <1>6, <1>8 DEF ExitLast, n
<1>9. ASSUME ExitLast(s), t # <<>> PROVE NoExit(h) /\ ExitLast(t)
  BY <1>1, <1>2, <1>3, <1>4, <1>5, <1>6, <1>9 DEF NoExit, ExitLast, n
<1> QED
  BY <1>1, <1>2, <1>7, <1>8, <1>9 DEF t, h, n

(* Nobody said exit yet, and no thread ended.                               *)
LEMMA InitFarewell == Init => Farewell
<1> SUFFICES ASSUME Init PROVE Farewell
  OBVIOUS
<1>1. Len(<<>>) = 0
  BY EmptySeq
<1> QED
  BY <1>1 DEF Init, Farewell, ExitIsLast, EndsInTurn, NoExit

(* What the client says before it leaves, and exit.                         *)
LEMMA SendFarewell ==
  ASSUME IInv, Farewell, NEW m \in FromClient, Send(m),
         IF m.kind = "exit" THEN client' = "leaving" ELSE client' = client
  PROVE  Farewell'
<1>1. /\ inbox \in Seq(FromClient) /\ inbox' = Append(inbox, m) /\ client = "here"
      /\ UNCHANGED <<reader, writer, ended, server, outgoing>>
  BY DEF IInv, TypeOK, Send, serverVars
<1>2. ExitIsLast'
  BY <1>1, OneIn DEF Farewell, ExitIsLast
<1>3. EndsInTurn'
  BY <1>1 DEF Farewell, EndsInTurn
<1> QED
  BY <1>2, <1>3 DEF Farewell

(* A message that is handled: exit was the last.                            *)
LEMMA ReceiveFarewell ==
  ASSUME IInv, Farewell, NEW from \in {"loop", "shutdown"}, Receive(from),
         server' \in {"joining", "done"} => Message.kind = "exit" /\ outgoing' = <<>>,
         server' # "done"
  PROVE  Farewell'
<1>1. /\ server = from /\ reader # <<>> /\ reader' = <<>> /\ reader \in Seq(FromClient)
      /\ ended' = IF Message.kind = "exit" THEN ended \union {"reader"} ELSE ended
      /\ UNCHANGED <<client, inbox, writer>>
      /\ Len(reader) = 1 /\ Len(reader) \in 1 .. 1 /\ reader[1] = Message
  <2>1. reader \in Seq(FromClient) /\ reader # <<>> /\ Len(reader) <= 1
    BY DEF IInv, TypeOK, Receive
  <2>2. Len(reader) = 1 /\ Head(reader) = reader[1]
    <3>1. Len(reader) \in Nat /\ Len(reader) # 0
      BY <2>1, LenProperties, EmptySeq
    <3> DEFINE n == Len(reader)
    <3>2. n \in Nat /\ n # 0 /\ n <= 1
      BY <2>1, <3>1
    <3> HIDE DEF n
    <3>3. n = 1
      BY <3>2
    <3> QED
      BY <2>1, <3>3, HeadTailProperties DEF n
  <2> QED
    BY <2>1, <2>2 DEF Receive, clientVars, Message
<1>2. NoExit(reader) => Message.kind # "exit"
  BY <1>1 DEF NoExit
<1>3. ExitLast(reader) => Message.kind = "exit"
  BY <1>1 DEF ExitLast
<1>4. NoExit(<<>>)
  BY EmptySeq DEF NoExit
<1>5. ExitIsLast'
  BY <1>1, <1>2, <1>3, <1>4 DEF Farewell, ExitIsLast
<1>6. EndsInTurn'
  BY <1>1 DEF Farewell, EndsInTurn
<1> QED
  BY <1>5, <1>6 DEF Farewell

(* No step loses exit, or ends a thread out of turn.                        *)
LEMMA StepFarewell ==
  ASSUME IInv, Farewell, [Next]_vars
  PROVE  Farewell'
<1>1. ASSUME NEW method \in Method, NEW ok \in BOOLEAN, Ask(method, ok)
      PROVE  Farewell'
  <2> DEFINE m == Request(method, messages, ok)
  <2>1. Send(m) /\ client' = client /\ messages \in Id
    BY <1>1 DEF Ask, IInv, TypeOK
  <2>2. m \in FromClient /\ m.kind # "exit"
    BY <2>1, SaidType DEF FromClient, Request
  <2> QED
    BY <2>1, <2>2, SendFarewell
<1>2. ASSUME NEW kind \in Document, NEW uri \in Uri, Notify(kind, uri)
      PROVE  Farewell'
  <2> DEFINE m == Notification(kind, uri, messages)
  <2>1. Send(m) /\ client' = client /\ messages \in Id
    BY <1>2 DEF Notify, IInv, TypeOK
  <2>2. m \in FromClient /\ m.kind # "exit"
    BY <2>1, SaidType DEF FromClient, Notification, Document
  <2> QED
    BY <2>1, <2>2, SendFarewell
<1>3. ASSUME NEW kind \in {"other", "malformed"}, Babble(kind)
      PROVE  Farewell'
  <2> DEFINE m == [kind |-> kind]
  <2>1. Send(m) /\ client' = client
    BY <1>3 DEF Babble
  <2>2. m \in FromClient /\ m.kind # "exit"
    BY SaidType DEF FromClient
  <2> QED
    BY <2>1, <2>2, SendFarewell
<1>4. CASE AskShutdown
  <2> DEFINE m == Request("shutdown", ShutdownId, TRUE)
  <2>0. ShutdownId \in Id
    BY BoundsAssumption DEF ShutdownId, Id
  <2>1. Send(m) /\ client' = client /\ ShutdownId \in Id
    BY <1>4, <2>0 DEF AskShutdown
  <2>2. m \in FromClient /\ m.kind # "exit"
    BY <2>1, SaidType DEF FromClient, Request
  <2> QED
    BY <2>1, <2>2, SendFarewell
<1>5. CASE Exit
  <2> DEFINE m == [kind |-> "exit"]
  <2>1. Send(m) /\ client' = "leaving" /\ m \in FromClient /\ m.kind = "exit"
    BY <1>5, SaidType DEF Exit, FromClient
  <2> QED
    BY <2>1, SendFarewell
<1>6. CASE ClientReceive
  <2>1. UNCHANGED <<client, inbox, reader, writer, ended, server, outgoing>>
    BY <1>6 DEF ClientReceive, serverVars
  <2> QED
    BY <2>1 DEF Farewell, ExitIsLast, EndsInTurn
<1>7. CASE Vanish
  <2>1. client' = "gone" /\ UNCHANGED <<inbox, reader, writer, ended, server, outgoing>>
    BY <1>7 DEF Vanish, serverVars
  <2> QED
    BY <2>1 DEF Farewell, ExitIsLast, EndsInTurn
<1>8. CASE ReadMessage
  <2>1. /\ "reader" \notin ended /\ reader = <<>> /\ inbox # <<>>
        /\ reader' = <<Head(inbox)>> /\ inbox' = Tail(inbox) /\ inbox \in Seq(FromClient)
        /\ UNCHANGED <<client, writer, ended, server, outgoing>>
    BY <1>8 DEF ReadMessage, clientVars, serverVars, IInv, TypeOK
  <2>2. ExitIsLast'
    BY <2>1, OneOut DEF Farewell, ExitIsLast
  <2>3. EndsInTurn'
    BY <2>1 DEF Farewell, EndsInTurn
  <2> QED
    BY <2>2, <2>3 DEF Farewell
<1>9. CASE ReaderEnds
  <2>1. client = "gone" /\ ended' = ended \union {"reader"}
        /\ UNCHANGED <<client, writer, server, outgoing>>
    BY <1>9 DEF ReaderEnds, clientVars, serverVars
  <2> QED
    BY <2>1 DEF Farewell, ExitIsLast, EndsInTurn
<1>10. CASE TakeMessage
  <2>1. "writer" \notin ended /\ outgoing' = <<>>
        /\ UNCHANGED <<client, inbox, reader, ended, server>>
    BY <1>10 DEF TakeMessage, clientVars
  <2> QED
    BY <2>1 DEF Farewell, ExitIsLast, EndsInTurn
<1>11. CASE WriteMessage
  <2>1. writer' = <<>> /\ UNCHANGED <<client, inbox, reader, ended, server, outgoing>>
    BY <1>11 DEF WriteMessage, clientVars, serverVars
  <2> QED
    BY <2>1 DEF Farewell, ExitIsLast, EndsInTurn
<1>12. CASE WriterEnds
  <2>1. writer' = <<>> /\ ended' = ended \union {"writer"}
        /\ UNCHANGED <<client, inbox, reader, server, outgoing>>
    BY <1>12 DEF WriterEnds, clientVars, serverVars
  <2> QED
    BY <2>1 DEF Farewell, ExitIsLast, EndsInTurn
<1>13. CASE Shutdown \/ HandleRequest \/ HandleDocument \/ HandleOther \/ HandleMalformed
  <2>1. Receive("loop") /\ server' \notin {"joining", "done"}
    BY <1>13 DEF Shutdown, HandleRequest, HandleDocument, HandleOther, HandleMalformed,
                 Receive, serverVars
  <2> QED
    BY <2>1, ReceiveFarewell
<1>14. CASE AwaitExit
  <2>1. Receive("shutdown") /\ outgoing' = <<>> /\ server' # "done"
        /\ (server' = "joining" => Message.kind = "exit")
    BY <1>14 DEF AwaitExit, Receive
  <2> QED
    BY <2>1, ReceiveFarewell
<1>15. CASE TimeOut \/ LoopEnds \/ SendFails \/ Join
  <2>1. UNCHANGED <<client, inbox, reader, writer, ended>>
    BY <1>15 DEF TimeOut, LoopEnds, SendFails, Join, clientVars, ioVars
  <2>2. ExitIsLast'
    BY <2>1 DEF Farewell, ExitIsLast
  <2>3. EndsInTurn'
    BY <1>15, <2>1 DEF Farewell, EndsInTurn, TimeOut, LoopEnds, SendFails, Join
  <2> QED
    BY <2>2, <2>3 DEF Farewell
<1>16. CASE UNCHANGED vars
  BY <1>16 DEF vars, clientVars, serverVars, ioVars, Farewell, ExitIsLast, EndsInTurn
<1> QED
  BY <1>1, <1>2, <1>3, <1>4, <1>5, <1>6, <1>7, <1>8, <1>9, <1>10, <1>11, <1>12, <1>13,
     <1>14, <1>15, <1>16 DEF Next, MainThread, Document

(* The end of a session is in order in every state of it.                   *)
LEMMA AlwaysFarewell == Spec => [](IInv /\ Farewell)
<1>1. Init => IInv /\ Farewell
  BY IInvInit, InitFarewell
<1>2. IInv /\ Farewell /\ [Next]_vars => IInv' /\ Farewell'
  BY StepIInv, StepFarewell
<1> QED
  BY <1>1, <1>2, PTL DEF Spec

(* What is owed when serve returns without an error is in the pipe.         *)
NothingOwed ==
  server = "done" /\ client # "gone" =>
    /\ answered \o Ids(outbox) = asked
    /\ outbox = <<>> => shown = mirror

(* Shutdown and exit lose no answer and no diagnostics: when serve returns   *)
(* without an error to a client that is still there, every request it ever   *)
(* made is answered, once and in order, or its answer is in the pipe, and    *)
(* when it has read the pipe it shows what it left open.                     *)
THEOREM NothingIsOwed == Spec => []NothingOwed
<1>1. ASSUME IInv, Farewell, server = "done", client # "gone"
      PROVE  /\ answered \o Ids(outbox) = asked
             /\ outbox = <<>> => shown = mirror
  <2>1. /\ reader = <<>> /\ inbox = <<>> /\ outgoing = <<>> /\ writer = <<>>
        /\ outbox \in Seq(ForClient)
    BY <1>1 DEF Farewell, ExitIsLast, EndsInTurn, IInv, TypeOK
  <2>2. <<>> \o <<>> = <<>>
    BY ConcatEmptySeq, EmptySeq
  <2>3. ToServer = <<>> /\ FromServer = outbox /\ FromServer \o ToServer = outbox
    BY <2>1, <2>2, ConcatEmptySeq DEF ToServer, FromServer
  <2>4. answered \o Ids(outbox) = asked
    BY <1>1, <2>3, AnswersAddUp
  <2>5. ASSUME outbox = <<>> PROVE shown = mirror
    <3>1. Know(answered, shown) \in Knowledge
      BY <1>1, KnowType DEF IInv, TypeOK, Store
    <3>2. Know(answered, shown) = Know(asked, mirror)
      BY <1>1, <2>3, <2>5, <3>1, DeliveredNothing DEF IInv, NothingIsLost, Flow
    <3> QED
      BY <3>2 DEF Know
  <2> QED
    BY <2>4, <2>5
<1>2. IInv /\ Farewell => NothingOwed
  BY <1>1 DEF NothingOwed
<1> QED
  BY <1>2, AlwaysFarewell, PTL

----------------------------------------------------------------------------
(* Why serve returns.                                                      *)

Flag(b) == IF b THEN 1 ELSE 0

(* The steps a session can take at most, once the client said its last word: *)
(* a message is read, handled, taken, written and received.                 *)
OpenEnds ==
  Flag("reader" \notin ended) + Flag("writer" \notin ended) + Flag(client = "leaving")
    + Flag(server = "loop") + Flag(server \in {"loop", "shutdown"})
    + Flag(server \in {"loop", "shutdown", "joining"})

Weight(i, r, o, w, p, e) == 5 * i + 4 * r + 3 * o + 2 * w + p + e

StepsLeft ==
  Weight(Len(inbox), Len(reader), Len(outgoing), Len(writer), Len(outbox), OpenEnds)

Draining == client # "here"

WindsDown == Draining => StepsLeft' \in Nat /\ StepsLeft \in Nat /\ StepsLeft' < StepsLeft

(* What each thread waits for: when it holds, the thread has a step to take. *)
ReaderCan ==
  "reader" \notin ended /\ reader = <<>> /\ (inbox # <<>> \/ client = "gone")

WriterCan ==
  /\ "writer" \notin ended
  /\ \/ writer = <<>> /\ (outgoing # <<>> \/ server = "joining")
     \/ writer # <<>> /\ (client = "gone" \/ Len(outbox) < PipeSize)

MainCan ==
  IF outgoing # <<>> THEN "writer" \in ended
  ELSE \/ server = "loop" /\ (reader # <<>> \/ "reader" \in ended)
       \/ server = "shutdown"
       \/ server = "joining" /\ ended = {"reader", "writer"}

ClientCan == client # "gone" /\ outbox # <<>>

SomebodyCan == Draining /\ Alive => ReaderCan \/ WriterCan \/ MainCan \/ ClientCan

(* A thread that has nothing to do waits for one that has.                  *)
LEMMA SomebodyAlwaysCan ==
  ASSUME IInv, Farewell
  PROVE  SomebodyCan
<1> SUFFICES ASSUME Draining, Alive, ~ReaderCan, ~WriterCan, ~ClientCan
             PROVE  MainCan
  BY DEF SomebodyCan
<1>1. /\ client \in {"leaving", "gone"} /\ server \in {"loop", "shutdown", "joining"}
      /\ ended \subseteq {"reader", "writer"} /\ ExitIsLast /\ EndsInTurn
  BY DEF IInv, TypeOK, Farewell, Draining, Alive
<1>2. client = "gone" \/ Len(outbox) < PipeSize
  <2>1. Len(<<>>) = 0 /\ 0 < PipeSize
    BY EmptySeq, BoundsAssumption
  <2> QED
    BY <2>1 DEF ClientCan
<1>3. "writer" \in ended \/ (writer = <<>> /\ outgoing = <<>> /\ server # "joining")
  BY <1>2 DEF WriterCan
<1>4. CASE outgoing # <<>>
  BY <1>3, <1>4 DEF MainCan
<1>5. CASE outgoing = <<>> /\ server = "loop"
  <2>1. CASE client = "gone"
    BY <1>5, <2>1 DEF ReaderCan, MainCan
  <2>2. CASE client = "leaving"
    BY <1>1, <1>5, <2>2 DEF ReaderCan, MainCan, ExitIsLast, ExitLast
  <2> QED
    BY <1>1, <2>1, <2>2
<1>6. CASE outgoing = <<>> /\ server = "shutdown"
  BY <1>6 DEF MainCan
<1>7. CASE outgoing = <<>> /\ server = "joining"
  <2>1. "reader" \in ended /\ "writer" \in ended
    BY <1>1, <1>3, <1>7 DEF EndsInTurn
  <2> QED
    BY <1>1, <1>7, <2>1 DEF MainCan
<1> QED
  BY <1>1, <1>4, <1>5, <1>6, <1>7

(* The lengths StepsLeft adds up are numbers, its flags 0 or 1.             *)
LEMMA StepsLeftParts ==
  ASSUME TypeOK
  PROVE  /\ Len(inbox) \in Nat /\ Len(reader) \in Nat /\ Len(outgoing) \in Nat
         /\ Len(writer) \in Nat /\ Len(outbox) \in Nat
         /\ OpenEnds \in Nat /\ StepsLeft \in Nat
<1>1. /\ Len(inbox) \in Nat /\ Len(reader) \in Nat /\ Len(outgoing) \in Nat
      /\ Len(writer) \in Nat /\ Len(outbox) \in Nat
  BY LenProperties DEF TypeOK
<1>2. OpenEnds \in Nat
  BY DEF OpenEnds, Flag
<1>3. StepsLeft \in Nat
  BY <1>1, <1>2 DEF StepsLeft, Weight
<1> QED
  BY <1>1, <1>2, <1>3

(* Every step of a session whose client said its last word is one fewer.    *)
THEOREM EverySessionWindsDown == Spec => [][WindsDown]_vars
<1>1. ASSUME IInv, IInv', [Next]_vars, ~UNCHANGED vars, Draining
      PROVE  StepsLeft' < StepsLeft
  <2> DEFINE i == Len(inbox)
             r == Len(reader)
             o == Len(outgoing)
             w == Len(writer)
             p == Len(outbox)
             e == OpenEnds
             i2 == i'
             r2 == r'
             o2 == o'
             w2 == w'
             p2 == p'
             e2 == e'
  <2>1. i \in Nat /\ r \in Nat /\ o \in Nat /\ w \in Nat /\ p \in Nat /\ e \in Nat
    BY <1>1, StepsLeftParts DEF IInv
  <2>2. i2 \in Nat /\ r2 \in Nat /\ o2 \in Nat /\ w2 \in Nat /\ p2 \in Nat /\ e2 \in Nat
    <3>1. i2 \in Nat /\ r2 \in Nat /\ o2 \in Nat /\ w2 \in Nat /\ p2 \in Nat
      BY <1>1, LenProperties DEF IInv, TypeOK
    <3>2. e2 \in Nat
      BY DEF OpenEnds, Flag
    <3> QED
      BY <3>1, <3>2
  <2>3. /\ inbox \in Seq(FromClient) /\ reader \in Seq(FromClient)
        /\ outgoing \in Seq(ForClient) /\ writer \in Seq(ForClient) /\ outbox \in Seq(ForClient)
        /\ r <= 1 /\ o <= 1 /\ w <= 1 /\ o2 <= 1
    BY <1>1 DEF IInv, TypeOK
  <2>4. /\ (outgoing = <<>> => o = 0) /\ (outgoing # <<>> => o # 0)
        /\ (reader = <<>> => r = 0) /\ (reader # <<>> => r # 0)
        /\ (writer = <<>> => w = 0) /\ (writer # <<>> => w # 0)
        /\ (outbox = <<>> => p = 0)
    BY <2>3, EmptySeq, LenProperties
  <2>5. /\ (outgoing' = <<>> => o2 = 0) /\ (reader' = <<>> => r2 = 0)
        /\ (writer' = <<>> => w2 = 0) /\ (outbox' = <<>> => p2 = 0)
    BY EmptySeq
  <2>6. /\ StepsLeft  = Weight(i, r, o, w, p, e)
        /\ StepsLeft' = Weight(i2, r2, o2, w2, p2, e2)
    BY DEF StepsLeft
  <2>7. CASE ClientReceive
    <3>1. /\ UNCHANGED <<inbox, reader, outgoing, writer, client, server, ended>>
          /\ outbox # <<>> /\ outbox' = Tail(outbox)
      BY <2>7 DEF ClientReceive, serverVars
    <3>2. p2 + 1 = p /\ i2 = i /\ r2 = r /\ o2 = o /\ w2 = w /\ e2 = e
      BY <2>3, <3>1, OneOut DEF OpenEnds
    <3> HIDE DEF i, r, o, w, p, e, i2, r2, o2, w2, p2, e2
    <3>4. Weight(i2, r2, o2, w2, p2, e2) < Weight(i, r, o, w, p, e)
      BY <2>1, <2>2, <3>2 DEF Weight
    <3> QED
      BY <2>6, <3>4
  <2>8. CASE Vanish
    <3>1. /\ UNCHANGED <<inbox, reader, outgoing, writer, server, ended>>
          /\ client = "leaving" /\ client' = "gone" /\ outbox' = <<>>
      BY <1>1, <2>8 DEF Vanish, serverVars, Draining, IInv, TypeOK
    <3>2. p2 <= p /\ i2 = i /\ r2 = r /\ o2 = o /\ w2 = w
      BY <2>1, <2>5, <3>1
    <3>3. e2 <= e /\ e2 # e
      BY <3>1 DEF OpenEnds, Flag
    <3> HIDE DEF i, r, o, w, p, e, i2, r2, o2, w2, p2, e2
    <3>4. Weight(i2, r2, o2, w2, p2, e2) < Weight(i, r, o, w, p, e)
      BY <2>1, <2>2, <3>2, <3>3 DEF Weight
    <3> QED
      BY <2>6, <3>4
  <2>9. CASE ReadMessage
    <3>1. /\ UNCHANGED <<outbox, outgoing, writer, client, server, ended>>
          /\ reader = <<>> /\ inbox # <<>>
          /\ reader' = <<Head(inbox)>> /\ inbox' = Tail(inbox)
      BY <2>9 DEF ReadMessage, serverVars, clientVars
    <3>2. i2 + 1 = i /\ r2 = 1 /\ r = 0 /\ o2 = o /\ w2 = w /\ p2 = p /\ e2 = e
      BY <2>3, <2>4, <3>1, OneOut DEF OpenEnds
    <3> HIDE DEF i, r, o, w, p, e, i2, r2, o2, w2, p2, e2
    <3>4. Weight(i2, r2, o2, w2, p2, e2) < Weight(i, r, o, w, p, e)
      BY <2>1, <2>2, <3>2 DEF Weight
    <3> QED
      BY <2>6, <3>4
  <2>10. CASE ReaderEnds
    <3>1. /\ UNCHANGED <<inbox, reader, outbox, outgoing, writer, client, server>>
          /\ "reader" \notin ended /\ ended' = ended \union {"reader"}
      BY <2>10 DEF ReaderEnds, serverVars, clientVars
    <3>2. i2 = i /\ r2 = r /\ o2 = o /\ w2 = w /\ p2 = p
      BY <3>1
    <3>3. e2 <= e /\ e2 # e
      BY <3>1 DEF OpenEnds, Flag
    <3> HIDE DEF i, r, o, w, p, e, i2, r2, o2, w2, p2, e2
    <3>4. Weight(i2, r2, o2, w2, p2, e2) < Weight(i, r, o, w, p, e)
      BY <2>1, <2>2, <3>2, <3>3 DEF Weight
    <3> QED
      BY <2>6, <3>4
  <2>11. CASE TakeMessage
    <3>1. /\ UNCHANGED <<inbox, reader, outbox, client, server, ended>>
          /\ writer = <<>> /\ outgoing # <<>> /\ writer' = outgoing /\ outgoing' = <<>>
      BY <2>11 DEF TakeMessage, clientVars
    <3>2. i2 = i /\ r2 = r /\ o # 0 /\ o2 = 0 /\ w = 0 /\ w2 = o /\ p2 = p /\ e2 = e
      BY <2>4, <2>5, <3>1 DEF OpenEnds
    <3> HIDE DEF i, r, o, w, p, e, i2, r2, o2, w2, p2, e2
    <3>4. Weight(i2, r2, o2, w2, p2, e2) < Weight(i, r, o, w, p, e)
      BY <2>1, <2>2, <3>2 DEF Weight
    <3> QED
      BY <2>6, <3>4
  <2>12. CASE WriteMessage
    <3>1. /\ UNCHANGED <<inbox, reader, outgoing, client, server, ended>>
          /\ writer # <<>> /\ writer' = <<>> /\ outbox' = outbox \o writer
      BY <2>12 DEF WriteMessage, serverVars, clientVars
    <3>2. i2 = i /\ r2 = r /\ o2 = o /\ w # 0 /\ w2 = 0 /\ p2 = p + w /\ e2 = e
      BY <2>3, <2>4, <2>5, <3>1, ConcatProperties DEF OpenEnds
    <3> HIDE DEF i, r, o, w, p, e, i2, r2, o2, w2, p2, e2
    <3>4. Weight(i2, r2, o2, w2, p2, e2) < Weight(i, r, o, w, p, e)
      BY <2>1, <2>2, <3>2 DEF Weight
    <3> QED
      BY <2>6, <3>4
  <2>13. CASE WriterEnds
    <3>1. /\ UNCHANGED <<inbox, reader, outbox, outgoing, client, server>>
          /\ "writer" \notin ended /\ ended' = ended \union {"writer"} /\ writer' = <<>>
      BY <2>13 DEF WriterEnds, serverVars, clientVars
    <3>2. i2 = i /\ r2 = r /\ o2 = o /\ w2 <= w /\ p2 = p
      BY <2>1, <2>5, <3>1
    <3>3. e2 <= e /\ e2 # e
      BY <3>1 DEF OpenEnds, Flag
    <3> HIDE DEF i, r, o, w, p, e, i2, r2, o2, w2, p2, e2
    <3>4. Weight(i2, r2, o2, w2, p2, e2) < Weight(i, r, o, w, p, e)
      BY <2>1, <2>2, <3>2, <3>3 DEF Weight
    <3> QED
      BY <2>6, <3>4
  <2>14. CASE \/ Shutdown \/ HandleRequest \/ HandleDocument \/ HandleOther
              \/ HandleMalformed \/ AwaitExit
    <3>1. /\ UNCHANGED <<inbox, outbox, writer, client>>
          /\ outgoing = <<>> /\ reader # <<>> /\ reader' = <<>>
          /\ ended \subseteq ended' /\ ended' \subseteq ended \union {"reader"}
          /\ \/ server' = server
             \/ server = "loop" /\ server' \in {"shutdown", "failed"}
             \/ server = "shutdown" /\ server' \in {"joining", "failed"}
      BY <2>14 DEF Shutdown, HandleRequest, HandleDocument, HandleOther, HandleMalformed,
                   AwaitExit, Receive, serverVars, clientVars
    <3>2. i2 = i /\ r # 0 /\ r2 = 0 /\ o = 0 /\ o2 <= 1 /\ w2 = w /\ p2 = p
      BY <2>3, <2>4, <2>5, <3>1
    <3>3. e2 <= e
      BY <3>1 DEF OpenEnds, Flag
    <3> HIDE DEF i, r, o, w, p, e, i2, r2, o2, w2, p2, e2
    <3>4. Weight(i2, r2, o2, w2, p2, e2) < Weight(i, r, o, w, p, e)
      BY <2>1, <2>2, <3>2, <3>3 DEF Weight
    <3> QED
      BY <2>6, <3>4
  <2>15. CASE TimeOut \/ LoopEnds \/ Join
    <3>1. /\ UNCHANGED <<inbox, reader, outgoing, outbox, writer, client, ended>>
          /\ \/ server = "loop" /\ server' = "joining"
             \/ server = "shutdown" /\ server' = "failed"
             \/ server = "joining" /\ server' = "done"
      BY <2>15 DEF TimeOut, LoopEnds, Join, ioVars, clientVars
    <3>2. i2 = i /\ r2 = r /\ o2 = o /\ w2 = w /\ p2 = p
      BY <3>1
    <3>3. e2 <= e /\ e2 # e
      BY <3>1 DEF OpenEnds, Flag
    <3> HIDE DEF i, r, o, w, p, e, i2, r2, o2, w2, p2, e2
    <3>4. Weight(i2, r2, o2, w2, p2, e2) < Weight(i, r, o, w, p, e)
      BY <2>1, <2>2, <3>2, <3>3 DEF Weight
    <3> QED
      BY <2>6, <3>4
  <2>16. CASE SendFails
    <3>1. /\ UNCHANGED <<inbox, reader, outbox, writer, client, ended>>
          /\ outgoing # <<>> /\ outgoing' = <<>> /\ server' \in {server, "failed"}
      BY <2>16 DEF SendFails, ioVars, clientVars
    <3>2. i2 = i /\ r2 = r /\ o # 0 /\ o2 = 0 /\ w2 = w /\ p2 = p
      BY <2>4, <2>5, <3>1
    <3>3. e2 <= e
      BY <3>1 DEF OpenEnds, Flag
    <3> HIDE DEF i, r, o, w, p, e, i2, r2, o2, w2, p2, e2
    <3>4. Weight(i2, r2, o2, w2, p2, e2) < Weight(i, r, o, w, p, e)
      BY <2>1, <2>2, <3>2, <3>3 DEF Weight
    <3> QED
      BY <2>6, <3>4
  <2>17. client # "here"
    BY <1>1 DEF Draining
  <2>18. Next
    BY <1>1
  <2> QED
    BY <2>7, <2>8, <2>9, <2>10, <2>11, <2>12, <2>13, <2>14, <2>15, <2>16, <2>17, <2>18
       DEF Next, MainThread, Ask, Notify, Babble, AskShutdown, Exit, Send
<1>2. ASSUME IInv, IInv' PROVE StepsLeft \in Nat /\ StepsLeft' \in Nat
  <2>1. StepsLeft \in Nat
    BY <1>2, StepsLeftParts DEF IInv
  <2> DEFINE i2 == Len(inbox)'
             r2 == Len(reader)'
             o2 == Len(outgoing)'
             w2 == Len(writer)'
             p2 == Len(outbox)'
             e2 == OpenEnds'
  <2>2. i2 \in Nat /\ r2 \in Nat /\ o2 \in Nat /\ w2 \in Nat /\ p2 \in Nat
    BY <1>2, LenProperties DEF IInv, TypeOK
  <2>3. e2 \in Nat
    BY DEF OpenEnds, Flag
  <2>4. StepsLeft' = Weight(i2, r2, o2, w2, p2, e2)
    BY DEF StepsLeft
  <2> HIDE DEF i2, r2, o2, w2, p2, e2
  <2>5. Weight(i2, r2, o2, w2, p2, e2) \in Nat
    BY <2>2, <2>3 DEF Weight
  <2> QED
    BY <2>1, <2>4, <2>5
<1>3. IInv /\ IInv' /\ [Next]_vars => [WindsDown]_vars
  BY <1>1, <1>2 DEF WindsDown
<1>4. IInv /\ Farewell => IInv
  OBVIOUS
<1> QED
  BY <1>3, <1>4, AlwaysFarewell, PTL DEF Spec

(* Until serve returns, some thread of a session whose client said its last  *)
(* word, or that client, has a step to take: none waits for another for ever. *)
THEOREM NobodyWaitsForEver == Spec => []SomebodyCan
  BY SomebodyAlwaysCan, AlwaysFarewell, PTL

============================================================================
