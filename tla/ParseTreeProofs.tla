-------------------------- MODULE ParseTreeProofs --------------------------
(* Lemmas about the operators of ParseTree: what dropping, growing and      *)
(* editing a tree preserve. EngineProofs puts them together.                *)
EXTENDS ParseTree, SpansProofs, FiniteSetTheorems

(* An arena is a finite function from 0 .. n-1 to nodes; it holds the root. *)
LEMMA ArenaFacts ==
  ASSUME NEW t, IsArena(t)
  PROVE  /\ DOMAIN t = 0 .. (Size(t) - 1)
         /\ Root \in DOMAIN t
         /\ IsFiniteSet(DOMAIN t)
         /\ \A n \in DOMAIN t : t[n] \in Node
         /\ \A n \in DOMAIN t : Kids(t, n) \subseteq Nat
  <1>1. DOMAIN t = 0 .. (Size(t) - 1)
    BY DEF IsArena
  <1>2. IsFiniteSet(DOMAIN t)
    BY <1>1, FS_Interval DEF IsArena
  <1>3. \A n \in DOMAIN t : t[n] \in Node
    BY <1>1 DEF IsArena
  <1>4. \A n \in DOMAIN t : Kids(t, n) \subseteq Nat
    BY <1>3 DEF Node, Kids
  <1> QED
    BY <1>1, <1>2, <1>3, <1>4 DEF Root, IsArena

----------------------------------------------------------------------------
(* Below is the least set that holds the roots and is closed under child     *)
(* links: three lemmas, one for each part of that sentence.                 *)

(* It holds the roots.                                                      *)
LEMMA BelowHoldsRoots ==
  ASSUME NEW t, NEW roots, roots \subseteq DOMAIN t
  PROVE  roots \subseteq Below(t, roots)
  BY DEF Below

(* It holds the children of its members.                                    *)
LEMMA BelowIsClosed ==
  ASSUME NEW t, NEW roots, NEW k \in Below(t, roots),
         Kids(t, k) \subseteq DOMAIN t
  PROVE  Kids(t, k) \subseteq Below(t, roots)
  BY DEF Below

(* Any other such set contains it.                                          *)
LEMMA BelowIsLeast ==
  ASSUME NEW t, NEW roots, NEW S \in SUBSET DOMAIN t, roots \subseteq S,
         \A k \in S : Kids(t, k) \subseteq S
  PROVE  Below(t, roots) \subseteq S
  <1> DEFINE listed == roots \union UNION {Kids(t, n) : n \in DOMAIN t}
             small  == S \cap listed
  <1>1. small \in SUBSET (listed \cap DOMAIN t)
    OBVIOUS
  <1>2. roots \subseteq small
    OBVIOUS
  <1>3. \A k \in small : Kids(t, k) \subseteq small
    <2> SUFFICES ASSUME NEW k \in small PROVE Kids(t, k) \subseteq small
      OBVIOUS
    <2>1. k \in DOMAIN t
      OBVIOUS
    <2>2. Kids(t, k) \subseteq listed
      BY <2>1
    <2> QED
      BY <2>2
  <1> HIDE DEF listed
  <1>4. Below(t, roots) \subseteq small
    BY <1>1, <1>2, <1>3 DEF Below, listed
  <1> QED
    BY <1>4

(* Dropping children of a live node id: what is dropped lies strictly below *)
(* id, is closed downwards, and holds a node only if it holds its parent or  *)
(* was asked to drop it.                                                    *)
LEMMA GoneFacts ==
  ASSUME NEW t, IsArena(t), WellShaped(t), Homed(t),
         NEW id \in DOMAIN t, NEW roots, roots \subseteq Kids(t, id)
  PROVE  LET gone == Below(t, roots) IN
         /\ roots \subseteq gone /\ gone \subseteq Live(t) \ {Root}
         /\ id \notin gone
         /\ \A n \in gone : t[n].depth > t[id].depth
         /\ \A n \in Live(t) \ {Root} : t[n].parent \in gone => n \in gone
         /\ \A n \in DOMAIN t \ gone : \A k \in Kids(t, n) \ roots : k \notin gone
  <1> DEFINE gone == Below(t, roots)
  <1>1. \A n \in DOMAIN t : t[n] \in Node
    BY ArenaFacts
  <1>2. \A n \in DOMAIN t : \A k \in Kids(t, n) :
          /\ k \in Live(t) \ {Root} /\ t[k].parent = n
          /\ t[k].depth > t[n].depth
    <2> SUFFICES ASSUME NEW n \in DOMAIN t, NEW k \in Kids(t, n)
                 PROVE  /\ k \in Live(t) \ {Root} /\ t[k].parent = n
                        /\ t[k].depth > t[n].depth
      OBVIOUS
    <2>1. k \in Live(t) \ {Root} /\ t[k].parent = n
      BY DEF WellShaped, KidsPointBack, Kids
    <2>2. k \in DOMAIN t /\ t[k].depth - t[k].attempts > t[n].depth
      BY <2>1 DEF Homed, Live
    <2>3. t[k].depth \in Nat /\ t[k].attempts \in Nat /\ t[n].depth \in Nat
      BY <1>1, <2>2 DEF Node
    <2> QED
      BY <2>1, <2>2, <2>3
  <1>3. roots \subseteq gone
    BY <1>2, BelowHoldsRoots DEF Live
  <1>4. \A k \in gone : Kids(t, k) \subseteq gone
    <2>1. \A k \in gone : Kids(t, k) \subseteq DOMAIN t
      BY <1>2 DEF Live, Below
    <2> QED
      BY <2>1, BelowIsClosed
  <1>5. gone \subseteq {n \in Live(t) \ {Root} : t[n].depth > t[id].depth}
    <2> DEFINE S == {n \in Live(t) \ {Root} : t[n].depth > t[id].depth}
    <2>1. roots \subseteq S
      BY <1>2
    <2>2. ASSUME NEW k \in S, NEW c \in Kids(t, k)
          PROVE  c \in S
      <3>1. c \in Live(t) \ {Root} /\ t[c].depth > t[k].depth /\ k \in DOMAIN t
        BY <1>2 DEF Live
      <3>2. t[c].depth \in Nat /\ t[k].depth \in Nat /\ t[id].depth \in Nat
        BY <3>1, <1>1 DEF Live, Node
      <3> QED
        BY <3>1, <3>2
    <2>3. S \in SUBSET DOMAIN t
      BY DEF Live
    <2> HIDE DEF S
    <2>4. gone \subseteq S
      BY <2>1, <2>2, <2>3, BelowIsLeast
    <2> QED
      BY <2>4 DEF S
  <1>6. id \notin gone
    <2>1. t[id].depth \in Nat
      BY <1>1 DEF Node
    <2> QED
      BY <2>1, <1>5
  <1>7. ASSUME NEW n \in Live(t) \ {Root}, t[n].parent \in gone
        PROVE  n \in gone
    BY <1>4, <1>7 DEF WellShaped, ParentsListTheirKids
  <1>8. ASSUME NEW n \in DOMAIN t \ gone, NEW k \in Kids(t, n) \ roots
        PROVE  k \notin gone
    <2> SUFFICES ASSUME k \in gone PROVE FALSE
      OBVIOUS
    <2> DEFINE S == gone \ {k}
    <2>1. roots \subseteq S
      BY <1>3
    <2>2. ASSUME NEW m \in S, NEW c \in Kids(t, m)
          PROVE  c \in S
      <3>1. c \in gone
        BY <1>4
      <3>2. c # k
        <4>1. m \in DOMAIN t
          BY DEF Below
        <4> QED
          BY <4>1, <1>2
      <3> QED
        BY <3>1, <3>2
    <2>3. S \in SUBSET DOMAIN t
      BY DEF Below
    <2> HIDE DEF S
    <2>4. gone \subseteq S
      BY <2>1, <2>2, <2>3, BelowIsLeast
    <2> QED
      BY <2>4 DEF S
  <1> HIDE DEF gone
  <1>9. QED
    BY <1>3, <1>5, <1>6, <1>7, <1>8 DEF gone

----------------------------------------------------------------------------
(* Accept and Fail: node id loses its subtree and nothing else moves.       *)

(* u is t with id settled as a leaf and everything below it dropped.        *)
Settles(t, u, id) ==
  LET gone == Below(t, Kids(t, id)) IN
  /\ u \in [DOMAIN t -> Node]
  /\ \A n \in DOMAIN t \ {id} : u[n] = IF n \in gone THEN Dropped(t[n]) ELSE t[n]
  /\ u[id].alive /\ u[id].children = <<>>
  /\ u[id].span = t[id].span /\ u[id].ctx = t[id].ctx /\ u[id].parent = t[id].parent
  /\ u[id].depth - u[id].attempts = t[id].depth - t[id].attempts

(* Dropping a node clears its children and its life, nothing else.          *)
LEMMA DroppedType ==
  ASSUME NEW node \in Node, NEW m, m = Dropped(node)
  PROVE  /\ m \in Node /\ m.status = node.status /\ m.children = <<>>
         /\ m.span = node.span /\ m.ctx = node.ctx /\ m.parent = node.parent
         /\ m.alive = FALSE /\ m.depth = node.depth /\ m.attempts = node.attempts
  <1>1. m = [span |-> node.span, ctx |-> node.ctx, status |-> node.status,
             depth |-> node.depth, parent |-> node.parent, children |-> <<>>,
             attempts |-> node.attempts, alive |-> FALSE]
    BY DEF Node, Dropped
  <1> QED
    BY <1>1 DEF Node, Status

(* A node that is done differs in its status and its children only.         *)
LEMMA DoneType ==
  ASSUME NEW node \in Node, NEW m, m = DoneNode(node)
  PROVE  /\ m \in Node /\ m.status = "Done" /\ m.children = <<>>
         /\ m.span = node.span /\ m.ctx = node.ctx /\ m.parent = node.parent
         /\ m.alive = node.alive /\ m.depth = node.depth /\ m.attempts = node.attempts
  <1>1. m = [span |-> node.span, ctx |-> node.ctx, status |-> "Done",
             depth |-> node.depth, parent |-> node.parent, children |-> <<>>,
             attempts |-> node.attempts, alive |-> node.alive]
    BY DEF Node, DoneNode
  <1> QED
    BY <1>1 DEF Node, Status

(* A failed node waits one round on and counts the failure.                 *)
LEMMA FailedType ==
  ASSUME NEW node \in Node, NEW round \in Nat, NEW m, m = FailedNode(node, round)
  PROVE  /\ m \in Node /\ m.status = "Failed" /\ m.children = <<>>
         /\ m.span = node.span /\ m.ctx = node.ctx /\ m.parent = node.parent
         /\ m.alive = node.alive /\ m.depth = round + 1 /\ m.attempts = node.attempts + 1
  <1>1. m = [span |-> node.span, ctx |-> node.ctx, status |-> "Failed",
             depth |-> round + 1, parent |-> node.parent, children |-> <<>>,
             attempts |-> node.attempts + 1, alive |-> node.alive]
    BY DEF Node, FailedNode
  <1> QED
    BY <1>1 DEF Node, Status

(* An expanded node differs in its status and its children only.            *)
LEMMA ExpandedType ==
  ASSUME NEW node \in Node, NEW kids \in Seq(Nat), NEW m, m = ExpandedNode(node, kids)
  PROVE  /\ m \in Node /\ m.status = "Expanded" /\ m.children = kids
         /\ m.span = node.span /\ m.ctx = node.ctx /\ m.parent = node.parent
         /\ m.alive = node.alive /\ m.depth = node.depth /\ m.attempts = node.attempts
  <1>1. m = [span |-> node.span, ctx |-> node.ctx, status |-> "Expanded",
             depth |-> node.depth, parent |-> node.parent, children |-> kids,
             attempts |-> node.attempts, alive |-> node.alive]
    BY DEF Node, ExpandedNode
  <1> QED
    BY <1>1 DEF Node, Status

(* Detach drops the nodes below its roots and leaves the others alone.      *)
LEMMA DetachFields ==
  ASSUME NEW t, NEW roots
  PROVE  /\ DOMAIN Detach(t, roots) = DOMAIN t
         /\ \A n \in DOMAIN t :
              Detach(t, roots)[n] =
                IF n \in Below(t, roots) THEN Dropped(t[n]) ELSE t[n]
  BY DEF Detach

(* A Done outcome settles the node and leaves it in its round.              *)
LEMMA AcceptSettles ==
  ASSUME NEW t, IsArena(t), WellShaped(t), Homed(t), NEW id \in Live(t)
  PROVE  /\ Settles(t, Accept(t, id), id)
         /\ Accept(t, id)[id].status = "Done"
         /\ Accept(t, id)[id].depth = t[id].depth
  <1> DEFINE gone == Below(t, Kids(t, id))
             d == Detach(t, Kids(t, id))
             u == Accept(t, id)
  <1> HIDE DEF u
  <1>1. id \in DOMAIN t /\ t[id].alive /\ t[id] \in Node /\ id \notin gone
    BY ArenaFacts, GoneFacts DEF Live
  <1>2. DOMAIN d = DOMAIN t /\ d[id] = t[id]
    BY <1>1, DetachFields
  <1>3. \A n \in DOMAIN t : d[n] = IF n \in gone THEN Dropped(t[n]) ELSE t[n]
    BY DetachFields
  <1>4. /\ DOMAIN u = DOMAIN t
        /\ u = [n \in DOMAIN t |-> u[n]]
        /\ \A n \in DOMAIN t \ {id} : u[n] = d[n]
        /\ u[id] = DoneNode(t[id])
    BY <1>1, <1>2 DEF u, Accept
  <1>5. /\ u[id] \in Node /\ u[id].alive /\ u[id].children = <<>>
        /\ u[id].status = "Done"
        /\ u[id].span = t[id].span /\ u[id].ctx = t[id].ctx
        /\ u[id].parent = t[id].parent /\ u[id].depth = t[id].depth
        /\ u[id].attempts = t[id].attempts
    BY <1>1, <1>4, DoneType
  <1>6. \A n \in DOMAIN t : u[n] \in Node
    <2>1. \A n \in DOMAIN t : t[n] \in Node
      BY ArenaFacts
    <2>2. \A n \in DOMAIN t : Dropped(t[n]) \in Node
      BY <2>1, DroppedType
    <2> QED
      BY <1>3, <1>4, <1>5, <2>1, <2>2
  <1>7. u \in [DOMAIN t -> Node]
    BY <1>4, <1>6
  <1> HIDE DEF d, gone
  <1> QED
    BY <1>3, <1>4, <1>5, <1>7 DEF Settles, u, gone

(* A Failed outcome, or a broken contract, settles it for the next round.   *)
LEMMA FailSettles ==
  ASSUME NEW t, IsArena(t), WellShaped(t), Homed(t), NEW id \in Live(t),
         NEW round \in Nat, t[id].depth = round
  PROVE  /\ Settles(t, Fail(t, id, round), id)
         /\ Fail(t, id, round)[id].status = "Failed"
         /\ Fail(t, id, round)[id].depth = round + 1
  <1> DEFINE gone == Below(t, Kids(t, id))
             d == Detach(t, Kids(t, id))
             u == Fail(t, id, round)
  <1> HIDE DEF u
  <1>1. id \in DOMAIN t /\ t[id].alive /\ t[id] \in Node /\ id \notin gone
    BY ArenaFacts, GoneFacts DEF Live
  <1>2. DOMAIN d = DOMAIN t /\ d[id] = t[id]
    BY <1>1, DetachFields
  <1>3. \A n \in DOMAIN t : d[n] = IF n \in gone THEN Dropped(t[n]) ELSE t[n]
    BY DetachFields
  <1>4. /\ DOMAIN u = DOMAIN t
        /\ u = [n \in DOMAIN t |-> u[n]]
        /\ \A n \in DOMAIN t \ {id} : u[n] = d[n]
        /\ u[id] = FailedNode(t[id], round)
    BY <1>1, <1>2 DEF u, Fail
  <1>5. /\ u[id] \in Node /\ u[id].alive /\ u[id].children = <<>>
        /\ u[id].status = "Failed"
        /\ u[id].span = t[id].span /\ u[id].ctx = t[id].ctx
        /\ u[id].parent = t[id].parent /\ u[id].depth = round + 1
        /\ u[id].attempts = t[id].attempts + 1
    BY <1>1, <1>4, FailedType
  <1>6. \A n \in DOMAIN t : u[n] \in Node
    <2>1. \A n \in DOMAIN t : t[n] \in Node
      BY ArenaFacts
    <2>2. \A n \in DOMAIN t : Dropped(t[n]) \in Node
      BY <2>1, DroppedType
    <2> QED
      BY <1>3, <1>4, <1>5, <2>1, <2>2
  <1>7. u \in [DOMAIN t -> Node]
    BY <1>4, <1>6
  <1>8. u[id].depth - u[id].attempts = t[id].depth - t[id].attempts
    BY <1>1, <1>5 DEF Node
  <1> HIDE DEF d, gone
  <1> QED
    BY <1>3, <1>4, <1>5, <1>7, <1>8 DEF Settles, u, gone

(* Settling a leaf leaves a tree of the same shape.                         *)
LEMMA SettlesKeepsTree ==
  ASSUME NEW t, IsArena(t), WellShaped(t), Homed(t), NEW id \in Live(t),
         NEW u, Settles(t, u, id)
  PROVE  /\ IsArena(u) /\ WellShaped(u) /\ Homed(u)
         /\ \A rev : Nested(t, rev) => Nested(u, rev)
  <1> DEFINE gone == Below(t, Kids(t, id))
  <1>1. /\ id \in DOMAIN t /\ DOMAIN u = DOMAIN t /\ Root \in DOMAIN t
        /\ \A n \in DOMAIN t : t[n] \in Node /\ u[n] \in Node
    BY ArenaFacts DEF Settles, Live
  <1>2. /\ Kids(t, id) \subseteq gone /\ gone \subseteq Live(t) \ {Root}
        /\ id \notin gone
        /\ \A n \in Live(t) \ {Root} : t[n].parent \in gone => n \in gone
        /\ \A n \in DOMAIN t \ gone : \A c \in Kids(t, n) \ Kids(t, id) : c \notin gone
    BY <1>1, GoneFacts
  <1>3. /\ \A n \in gone : ~u[n].alive /\ u[n].children = <<>>
        /\ \A n \in DOMAIN t : /\ u[n].span = t[n].span /\ u[n].parent = t[n].parent
                               /\ u[n].depth - u[n].attempts = t[n].depth - t[n].attempts
    <2>1. ASSUME NEW n \in DOMAIN t, n \in gone
          PROVE  /\ ~u[n].alive /\ u[n].children = <<>>
                 /\ u[n].span = t[n].span /\ u[n].parent = t[n].parent
                 /\ u[n].depth = t[n].depth /\ u[n].attempts = t[n].attempts
      <3>1. u[n] = Dropped(t[n])
        BY <2>1, <1>2 DEF Settles
      <3> QED
        BY <3>1, <1>1, DroppedType, ZenonT(40)
    <2>2. ASSUME NEW n \in DOMAIN t, n \notin gone, n # id
          PROVE  u[n] = t[n]
      BY <2>2 DEF Settles
    <2>3. gone \subseteq DOMAIN t
      BY DEF Below
    <2> QED
      BY <2>1, <2>2, <2>3 DEF Settles
  <1>4. /\ \A n \in DOMAIN t \ gone : n # id => u[n] = t[n]
        /\ u[id].alive /\ u[id].children = <<>>
    BY DEF Settles
  <1>5. Live(u) = Live(t) \ gone
    BY <1>1, <1>3, <1>4 DEF Live
  <1>6. /\ \A n \in DOMAIN t : Kids(u, n) # {} => /\ n \in Live(u) /\ n # id /\ u[n] = t[n]
        /\ \A n \in DOMAIN t : Kids(u, n) \subseteq Kids(t, n)
    <2>1. Kids(u, id) = {} /\ \A n \in gone : Kids(u, n) = {}
      BY <1>3, <1>4 DEF Kids
    <2>2. \A n \in DOMAIN t \ gone : n # id => u[n] = t[n] /\ Kids(u, n) = Kids(t, n)
      BY <1>4 DEF Kids
    <2>3. \A n \in DOMAIN t : Kids(t, n) # {} => n \in Live(t)
      BY DEF WellShaped, OnlyLiveNodesHaveKids, Live
    <2> QED
      BY <2>1, <2>2, <2>3, <1>5
  <1> HIDE DEF gone
  <1>7. IsArena(u)
    BY <1>1 DEF IsArena, Settles, Size
  <1>8. \A n \in Live(u) \ {Root} :
          /\ n \in Live(t) \ {Root} /\ u[n].parent = t[n].parent
          /\ t[n].parent \in Live(u) /\ n \in Kids(t, t[n].parent)
          /\ t[n].parent # id
    <2> SUFFICES ASSUME NEW n \in Live(u) \ {Root}
                 PROVE  /\ n \in Live(t) \ {Root} /\ u[n].parent = t[n].parent
                        /\ t[n].parent \in Live(u) /\ n \in Kids(t, t[n].parent)
                        /\ t[n].parent # id
      OBVIOUS
    <2>1. n \in Live(t) \ {Root} /\ n \notin gone /\ n \in DOMAIN t
      BY <1>5 DEF Live
    <2>2. t[n].parent \in Live(t) /\ n \in Kids(t, t[n].parent)
      BY <2>1 DEF WellShaped, ParentsListTheirKids
    <2> QED
      BY <2>1, <2>2, <1>2, <1>3, <1>5
  <1>9. WellShaped(u)
    <2>1. RootAlive(u)
      <3>1. Root \in Live(u)
        BY <1>1, <1>2, <1>5 DEF WellShaped, RootAlive, Live
      <3> QED
        BY <3>1, <1>1, <1>3 DEF WellShaped, RootAlive, Live
    <2>2. ParentsListTheirKids(u)
      <3> SUFFICES ASSUME NEW n \in Live(u) \ {Root}
                   PROVE  u[n].parent \in Live(u) /\ n \in Kids(u, u[n].parent)
        BY DEF ParentsListTheirKids
      <3>1. u[u[n].parent] = t[t[n].parent]
        BY <1>4, <1>5, <1>8 DEF Live
      <3> QED
        BY <3>1, <1>8 DEF Kids
    <2>3. KidsPointBack(u)
      <3> SUFFICES ASSUME NEW n \in DOMAIN u, NEW i \in DOMAIN u[n].children
                   PROVE  LET kid == u[n].children[i] IN
                          /\ kid \in Live(u) \ {Root} /\ u[kid].parent = n
                          /\ \A j \in DOMAIN u[n].children :
                               u[n].children[j] = kid => j = i
        BY DEF KidsPointBack
      <3> DEFINE kid == u[n].children[i]
      <3>1. kid \in Kids(u, n)
        BY DEF Kids
      <3>2. u[n] = t[n] /\ n \in Live(u) /\ n # id /\ kid \in Kids(t, n)
        BY <3>1, <1>1, <1>6
      <3>3. /\ kid \in Live(t) \ {Root} /\ t[kid].parent = n
            /\ \A j \in DOMAIN u[n].children : u[n].children[j] = kid => j = i
        BY <3>2, <1>1 DEF WellShaped, KidsPointBack
      <3>4. kid \notin Kids(t, id)
        BY <3>2, <3>3, <1>1 DEF WellShaped, KidsPointBack, Kids
      <3>5. kid \in Live(u)
        BY <3>2, <3>3, <3>4, <1>1, <1>2, <1>5
      <3> QED
        BY <3>3, <3>5, <1>3 DEF Live
    <2>4. OnlyLiveNodesHaveKids(u)
      BY <1>1, <1>6 DEF WellShaped, OnlyLiveNodesHaveKids, Live
    <2> QED
      BY <2>1, <2>2, <2>3, <2>4 DEF WellShaped
  <1>10. Homed(u)
    <2>1. u[Root].depth = u[Root].attempts
      BY <1>1, <1>3 DEF Homed, Node
    <2>2. \A n \in DOMAIN u : u[n].attempts <= u[n].depth
      <3> SUFFICES ASSUME NEW n \in DOMAIN u PROVE u[n].attempts <= u[n].depth
        OBVIOUS
      <3>1. n \in DOMAIN t /\ t[n].attempts <= t[n].depth
        BY <1>1, <1>3 DEF Homed
      <3>2. /\ t[n].attempts \in Nat /\ t[n].depth \in Nat
            /\ u[n].attempts \in Nat /\ u[n].depth \in Nat
        BY <3>1, <1>1 DEF Node
      <3>3. u[n].depth - u[n].attempts = t[n].depth - t[n].attempts
        BY <3>1, <1>3
      <3> QED
        BY <3>1, <3>2, <3>3
    <2>3. ASSUME NEW n \in Live(u) \ {Root}
          PROVE  u[n].depth - u[n].attempts > u[u[n].parent].depth
      <3>1. u[u[n].parent] = t[t[n].parent] /\ n \in DOMAIN t
        BY <1>4, <1>5, <1>8 DEF Live
      <3> QED
        BY <3>1, <1>3, <1>8 DEF Homed
    <2> QED
      BY <2>1, <2>2, <2>3 DEF Homed
  <1>11. ASSUME NEW rev, Nested(t, rev)
         PROVE  Nested(u, rev)
    <2>1. \A n \in Live(u) : n \in Live(t) /\ u[n].span = t[n].span
      BY <1>3, <1>5 DEF Live
    <2> QED
      BY <2>1, <1>8, <1>11 DEF Nested
  <1> QED
    BY <1>7, <1>9, <1>10, <1>11

----------------------------------------------------------------------------
(* Expand: ranks number a finite set of naturals from 0 without gaps.       *)

(* Ranks number a finite set of numbers, in order, from 0.                  *)
LEMMA RankFacts ==
  ASSUME NEW S \in SUBSET Nat, IsFiniteSet(S)
  PROVE  /\ Cardinality(S) \in Nat
         /\ \A x \in S : Rank(S, x) \in 0 .. (Cardinality(S) - 1)
         /\ \A x, y \in S : Rank(S, x) = Rank(S, y) => x = y
         /\ \A r \in 0 .. (Cardinality(S) - 1) : \E x \in S : Rank(S, x) = r
  <1> DEFINE Under(x) == {y \in S : y < x}
             N == Cardinality(S)
  <1>1. N \in Nat
    BY FS_CardinalityType
  <1>2. ASSUME NEW x \in S
        PROVE  /\ IsFiniteSet(Under(x)) /\ Cardinality(Under(x)) \in Nat
               /\ Cardinality(Under(x)) < N
    <2>1. Under(x) \in SUBSET S /\ Under(x) # S
      OBVIOUS
    <2> HIDE DEF Under
    <2>2. IsFiniteSet(Under(x)) /\ Cardinality(Under(x)) <= N
           /\ (N = Cardinality(Under(x)) => S = Under(x))
      BY <2>1, FS_Subset
    <2> QED
      BY <2>1, <2>2, <1>1, FS_CardinalityType
  <1>3. \A x \in S : Rank(S, x) = Cardinality(Under(x))
    BY DEF Rank
  <1>4. ASSUME NEW x \in S, NEW y \in S, x < y
        PROVE  Rank(S, x) < Rank(S, y)
    <2>0. x \in Int /\ y \in Int /\ \A z \in S : z \in Int
      OBVIOUS
    <2>1. Under(x) \in SUBSET Under(y) /\ Under(x) # Under(y)
      <3>1. \A z \in S : z < x => z < y
        BY <1>4, <2>0
      <3>2. x \in Under(y) /\ x \notin Under(x)
        BY <1>4, <2>0
      <3>3. Under(x) \subseteq Under(y)
        BY <3>1
      <3> QED
        BY <3>2, <3>3
    <2> HIDE DEF Under
    <2>2. /\ Cardinality(Under(x)) <= Cardinality(Under(y))
          /\ Cardinality(Under(y)) = Cardinality(Under(x)) => Under(y) = Under(x)
      BY <1>2, <2>1, FS_Subset
    <2> QED
      BY <2>1, <2>2, <1>2, <1>3
  <1> HIDE DEF Under
  <1>5. \A x \in S : Rank(S, x) \in 0 .. (N - 1)
    BY <1>1, <1>2, <1>3
  <1>6. \A x, y \in S : Rank(S, x) = Rank(S, y) => x = y
    <2> SUFFICES ASSUME NEW x \in S, NEW y \in S, Rank(S, x) = Rank(S, y), x # y
                 PROVE  FALSE
      OBVIOUS
    <2>1. Rank(S, x) \in Int /\ Rank(S, y) \in Int /\ x \in Int /\ y \in Int
      BY <1>5
    <2>2. CASE x < y
      BY <2>1, <2>2, <1>4
    <2>3. CASE y < x
      BY <2>1, <2>3, <1>4
    <2> QED
      BY <2>1, <2>2, <2>3
  <1>7. \A r \in 0 .. (N - 1) : \E x \in S : Rank(S, x) = r
    <2> DEFINE T == 0 .. (N - 1)
               f == [x \in S |-> Rank(S, x)]
    <2>1. f \in Injection(S, T)
      BY <1>5, <1>6 DEF Injection, IsInjective
    <2>2. IsFiniteSet(T) /\ Cardinality(T) = N
      <3> HIDE DEF N
      <3>1. 0 \in Int /\ N - 1 \in Int
        BY <1>1
      <3>2. IsFiniteSet(T) /\ Cardinality(T) = IF 0 > N - 1 THEN 0 ELSE N - 1 - 0 + 1
        BY <3>1, FS_Interval
      <3> QED
        BY <1>1, <3>2
    <2>3. f \in Surjection(S, T)
      <3> HIDE DEF f, T
      <3> QED
        BY <2>1, <2>2, FS_Injection
    <2> QED
      BY <2>3 DEF Surjection
  <1> QED
    BY <1>1, <1>5, <1>6, <1>7

(* The ids an expansion gives its children: distinct, the fresh ones fill   *)
(* the arena without a gap, the kept ones are the old children that are not *)
(* dropped, each with the region its slot asked for.                        *)
LEMMA ChildIdFacts ==
  ASSUME NEW t, IsArena(t), WellShaped(t), NEW id \in DOMAIN t,
         NEW kids \in Seq(Region)
  PROVE  LET fresh   == FreshSlots(t, id, kids)
             orphans == Orphans(t, id, kids)
             Id(s)   == ChildId(t, id, kids, s)
             N       == Cardinality(fresh)
         IN  /\ fresh \subseteq DOMAIN kids /\ N \in Nat
             /\ orphans \subseteq Kids(t, id)
             /\ \A s \in fresh : Id(s) \in Size(t) .. (Size(t) + N - 1)
             /\ \A s \in DOMAIN kids \ fresh :
                  /\ Id(s) \in Kids(t, id) \ orphans
                  /\ RegionOf(t, Id(s)) = kids[s]
             /\ \A s, r \in DOMAIN kids : Id(s) = Id(r) => s = r
             /\ \A n \in Size(t) .. (Size(t) + N - 1) : \E s \in fresh : Id(s) = n
             /\ \A n \in Kids(t, id) \ orphans : \E s \in DOMAIN kids : Id(s) = n
  <1> DEFINE fresh   == FreshSlots(t, id, kids)
             orphans == Orphans(t, id, kids)
             Id(s)   == ChildId(t, id, kids, s)
             N       == Cardinality(fresh)
             old     == t[id].children
             Same(s) == Matches(t, id, kids, s)
             Twins(s) == {u \in DOMAIN kids : kids[u] = kids[s]}
             Kept(s, p) == Keeps(t, id, kids, s, p)
  <1>1. /\ Size(t) \in Nat
        /\ old \in Seq(Nat) /\ DOMAIN old \subseteq Nat /\ IsFiniteSet(DOMAIN old)
        /\ DOMAIN kids \subseteq Nat /\ IsFiniteSet(DOMAIN kids)
    <2>1. old \in Seq(Nat) /\ Size(t) \in Nat
      BY ArenaFacts DEF Node, IsArena
    <2>2. DOMAIN old = 1 .. Len(old) /\ Len(old) \in Nat
      BY <2>1
    <2>3. DOMAIN kids = 1 .. Len(kids) /\ Len(kids) \in Nat
      OBVIOUS
    <2> HIDE DEF old
    <2>4. IsFiniteSet(1 .. Len(old)) /\ IsFiniteSet(1 .. Len(kids))
      BY <2>2, <2>3, FS_Interval
    <2> QED
      BY <2>1, <2>2, <2>3, <2>4
  <1>2. \A p, q \in DOMAIN old : old[p] = old[q] => p = q
    BY DEF WellShaped, KidsPointBack
  <1>3. /\ fresh \in SUBSET DOMAIN kids
        /\ \A s : Same(s) \in SUBSET DOMAIN old
        /\ \A s : Twins(s) \in SUBSET DOMAIN kids
    BY DEF FreshSlots, Matches
  <1>4. /\ fresh \in SUBSET Nat /\ IsFiniteSet(fresh)
        /\ \A s : Same(s) \in SUBSET Nat /\ IsFiniteSet(Same(s))
        /\ \A s : Twins(s) \in SUBSET Nat /\ IsFiniteSet(Twins(s))
    <2> HIDE DEF fresh, Same, Twins, old
    <2> QED
      BY <1>1, <1>3, FS_Subset
  <1>5. \A s, p : Kept(s, p) <=> p \in Same(s) /\ Rank(Twins(s), s) = Rank(Same(s), p)
    BY DEF Keeps
  <1>6. \A s \in DOMAIN kids, p \in DOMAIN old, q \in DOMAIN old :
          Kept(s, p) /\ Kept(s, q) => p = q
    <2> SUFFICES ASSUME NEW s \in DOMAIN kids, NEW p \in DOMAIN old,
                        NEW q \in DOMAIN old, Kept(s, p), Kept(s, q)
                 PROVE  p = q
      OBVIOUS
    <2>1. p \in Same(s) /\ q \in Same(s) /\ Rank(Same(s), p) = Rank(Same(s), q)
      BY <1>5
    <2> HIDE DEF Same, Kept, old
    <2> QED
      BY <2>1, <1>4, RankFacts
  <1>7. \A s \in DOMAIN kids, r \in DOMAIN kids, p \in DOMAIN old :
          Kept(s, p) /\ Kept(r, p) => s = r
    <2> SUFFICES ASSUME NEW s \in DOMAIN kids, NEW r \in DOMAIN kids,
                        NEW p \in DOMAIN old, Kept(s, p), Kept(r, p)
                 PROVE  s = r
      OBVIOUS
    <2>1. kids[s] = kids[r]
      BY <1>5 DEF Matches
    <2>2. Same(s) = Same(r) /\ Twins(s) = Twins(r)
      BY <2>1 DEF Matches
    <2>3. Rank(Twins(s), s) = Rank(Twins(s), r) /\ s \in Twins(s) /\ r \in Twins(s)
      BY <2>1, <2>2, <1>5
    <2> HIDE DEF Same, Kept, old, Twins
    <2> QED
      BY <2>3, <1>4, RankFacts
  <1>8. \A s \in DOMAIN kids \ fresh : \E p \in DOMAIN old :
          Kept(s, p) /\ Id(s) = old[p]
    <2> SUFFICES ASSUME NEW s \in DOMAIN kids \ fresh
                 PROVE  \E p \in DOMAIN old : Kept(s, p) /\ Id(s) = old[p]
      OBVIOUS
    <2>1. \E p \in DOMAIN old : Kept(s, p)
      BY DEF FreshSlots
    <2>2. Id(s) = old[CHOOSE p \in DOMAIN old : Kept(s, p)]
      BY DEF ChildId
    <2> HIDE DEF Kept, old, Id
    <2> QED
      BY <2>1, <2>2
  <1>9. \A s \in fresh : Id(s) = Size(t) + Rank(fresh, s)
    BY DEF ChildId
  <1>10. /\ N \in Nat
         /\ \A s \in fresh : Rank(fresh, s) \in 0 .. (N - 1)
         /\ \A s, r \in fresh : Rank(fresh, s) = Rank(fresh, r) => s = r
         /\ \A r \in 0 .. (N - 1) : \E s \in fresh : Rank(fresh, s) = r
    <2> HIDE DEF fresh
    <2> QED
      BY <1>4, RankFacts
  <1>11. \A s \in fresh : Id(s) \in Size(t) .. (Size(t) + N - 1)
    <2> HIDE DEF fresh, Id, N
    <2> QED
      BY <1>1, <1>9, <1>10
  <1>12. \A s \in DOMAIN kids \ fresh :
           Id(s) \in Kids(t, id) \ orphans /\ RegionOf(t, Id(s)) = kids[s]
    <2> SUFFICES ASSUME NEW s \in DOMAIN kids \ fresh
                 PROVE  Id(s) \in Kids(t, id) \ orphans /\ RegionOf(t, Id(s)) = kids[s]
      OBVIOUS
    <2>1. PICK p \in DOMAIN old : Kept(s, p) /\ Id(s) = old[p]
      BY <1>8
    <2>2. RegionOf(t, old[p]) = kids[s]
      BY <2>1, <1>5 DEF Matches
    <2>3. old[p] \notin orphans
      <3> SUFFICES ASSUME old[p] \in orphans PROVE FALSE
        OBVIOUS
      <3>1. PICK q \in DOMAIN old :
              old[p] = old[q] /\ \A r \in DOMAIN kids : ~Kept(r, q)
        BY DEF Orphans
      <3> HIDE DEF Kept, old
      <3>2. p = q
        BY <1>2, <3>1
      <3> QED
        BY <2>1, <3>1, <3>2
    <2>4. old[p] \in Kids(t, id)
      BY DEF Kids
    <2> HIDE DEF old, orphans, Id
    <2> QED
      BY <2>1, <2>2, <2>3, <2>4
  <1>13. \A n \in Kids(t, id) : n \in 0 .. (Size(t) - 1)
    <2>1. \A n \in Kids(t, id) : n \in DOMAIN t
      BY DEF WellShaped, KidsPointBack, Kids, Live
    <2> QED
      BY <2>1, ArenaFacts
  <1>14. \A s, r \in DOMAIN kids : Id(s) = Id(r) => s = r
    <2> SUFFICES ASSUME NEW s \in DOMAIN kids, NEW r \in DOMAIN kids, Id(s) = Id(r)
                 PROVE  s = r
      OBVIOUS
    <2>1. CASE s \in fresh /\ r \in fresh
      <3> HIDE DEF fresh, Id, N
      <3>1. Rank(fresh, s) = Rank(fresh, r)
        BY <2>1, <1>1, <1>9, <1>10
      <3> QED
        BY <2>1, <3>1, <1>10
    <2>2. CASE s \notin fresh /\ r \notin fresh
      <3> HIDE DEF fresh, Id, old, Kept
      <3>1. PICK p \in DOMAIN old : Kept(s, p) /\ Id(s) = old[p]
        BY <2>2, <1>8
      <3>2. PICK q \in DOMAIN old : Kept(r, q) /\ Id(r) = old[q]
        BY <2>2, <1>8
      <3>3. p = q
        BY <3>1, <3>2, <1>2
      <3> QED
        BY <3>1, <3>2, <3>3, <1>7
    <2>3. ASSUME NEW x \in fresh, NEW y \in DOMAIN kids \ fresh
          PROVE  Id(x) # Id(y)
      <3> HIDE DEF fresh, Id, orphans, N
      <3>1. Id(x) \in Size(t) .. (Size(t) + N - 1)
        BY <1>11
      <3>2. Id(y) \in 0 .. (Size(t) - 1)
        BY <1>12, <1>13
      <3> QED
        BY <3>1, <3>2, <1>1, <1>10
    <2> HIDE DEF fresh, Id
    <2> QED
      BY <2>1, <2>2, <2>3
  <1>15. \A n \in Size(t) .. (Size(t) + N - 1) : \E s \in fresh : Id(s) = n
    <2> SUFFICES ASSUME NEW n \in Size(t) .. (Size(t) + N - 1)
                 PROVE  \E s \in fresh : Id(s) = n
      OBVIOUS
    <2> HIDE DEF fresh, Id, N
    <2>1. n - Size(t) \in 0 .. (N - 1)
      BY <1>1, <1>10
    <2>2. PICK s \in fresh : Rank(fresh, s) = n - Size(t)
      BY <2>1, <1>10
    <2> QED
      BY <2>2, <1>1, <1>9
  <1>16. \A n \in Kids(t, id) \ orphans : \E s \in DOMAIN kids : Id(s) = n
    <2> SUFFICES ASSUME NEW n \in Kids(t, id) \ orphans
                 PROVE  \E s \in DOMAIN kids : Id(s) = n
      OBVIOUS
    <2>1. PICK p \in DOMAIN old : n = old[p]
      BY DEF Kids
    <2>2. PICK s \in DOMAIN kids : Kept(s, p)
      BY <2>1 DEF Orphans
    <2>3. s \notin fresh
      BY <2>2 DEF FreshSlots
    <2> HIDE DEF fresh, Id, old, Kept
    <2>4. PICK q \in DOMAIN old : Kept(s, q) /\ Id(s) = old[q]
      BY <2>3, <1>8
    <2> QED
      BY <2>1, <2>2, <2>4, <1>6
  <1>17. orphans \subseteq Kids(t, id)
    BY DEF Orphans, Kids
  <1> HIDE DEF fresh, orphans, Id, N
  <1> QED
    BY <1>3, <1>10, <1>11, <1>12, <1>14, <1>15, <1>16, <1>17
       DEF fresh, orphans, Id, N

(* A new node is a live, unparsed leaf.                                     *)
LEMMA NewNodeType ==
  ASSUME NEW region \in Region, NEW depth \in Nat, NEW parent \in Nat
  PROVE  LET m == NewNode(region, depth, parent) IN
         /\ m \in Node /\ m.alive /\ m.children = <<>> /\ m.status = "Unparsed"
         /\ m.span = region.span /\ m.ctx = region.ctx /\ m.parent = parent
         /\ m.depth = depth /\ m.attempts = 0
  BY DEF NewNode, Node, Region, Status

(* Expand, unfolded node by node.                                           *)
LEMMA ExpandUnfolds ==
  ASSUME NEW t, NEW id, NEW kids, NEW round
  PROVE  LET u   == Expand(t, id, kids, round)
             top == Size(t) + Cardinality(FreshSlots(t, id, kids))
         IN  /\ DOMAIN u = 0 .. (top - 1) /\ u = [n \in DOMAIN u |-> u[n]]
             /\ \A n \in 0 .. (top - 1) :
                  u[n] = IF n = id THEN ExpandedNode(t[id], ChildIds(t, id, kids))
                         ELSE IF n \in DOMAIN t
                         THEN Detach(t, Orphans(t, id, kids))[n]
                         ELSE NewNode(kids[SlotOf(t, id, kids, n)],
                                      ChildRound(round), id)
  BY DEF Expand

(* What an expansion does to each node of the arena.                       *)
(* u is t with id expanded into kids: what nothing kept is dropped, the     *)
(* appended ids hold the new children.                                      *)
Expands(t, u, id, kids, round) ==
  LET gone == Below(t, Orphans(t, id, kids))
      top  == Size(t) + Cardinality(FreshSlots(t, id, kids))
  IN  /\ top \in Nat /\ Size(t) <= top /\ u \in [0 .. (top - 1) -> Node]
      /\ \A n \in gone : u[n] = Dropped(t[n])
      /\ \A n \in DOMAIN t \ gone : n # id => u[n] = t[n]
      /\ u[id] = ExpandedNode(t[id], ChildIds(t, id, kids))
      /\ ChildIds(t, id, kids) \in Seq(Nat)
      /\ \A n \in Size(t) .. (top - 1) : \E s \in DOMAIN kids :
           ChildId(t, id, kids, s) = n /\ u[n] = NewNode(kids[s], round + 1, id)

(* Expand does what Expands says.                                           *)
LEMMA ExpandFields ==
  ASSUME NEW t, IsArena(t), WellShaped(t), Homed(t), NEW id \in Live(t),
         NEW kids \in Seq(Region), NEW round \in Nat,
         NEW u, u = Expand(t, id, kids, round)
  PROVE  Expands(t, u, id, kids, round)
  <1> DEFINE fresh == FreshSlots(t, id, kids)
             orphans == Orphans(t, id, kids)
             gone  == Below(t, orphans)
             top   == Size(t) + Cardinality(fresh)
             Id(s) == ChildId(t, id, kids, s)
             ids   == ChildIds(t, id, kids)
             Slot(n) == SlotOf(t, id, kids, n)
  <1>1. /\ id \in DOMAIN t /\ DOMAIN t = 0 .. (Size(t) - 1) /\ Size(t) \in Nat
        /\ \A n \in DOMAIN t : t[n] \in Node
        /\ \A n \in Kids(t, id) : n \in DOMAIN t
    BY ArenaFacts DEF Live, IsArena, WellShaped, KidsPointBack, Kids
  <1>2. /\ fresh \subseteq DOMAIN kids /\ Cardinality(fresh) \in Nat
        /\ orphans \subseteq Kids(t, id)
        /\ \A s \in fresh : Id(s) \in Size(t) .. (top - 1)
        /\ \A s \in DOMAIN kids \ fresh : Id(s) \in Kids(t, id)
        /\ \A n \in Size(t) .. (top - 1) : \E s \in fresh : Id(s) = n
    BY <1>1, ChildIdFacts
  <1>3. id \notin gone /\ gone \subseteq DOMAIN t
    BY <1>1, <1>2, GoneFacts DEF Live
  <1>4. top \in Nat /\ Size(t) <= top
    <2> HIDE DEF fresh
    <2> QED
      BY <1>1, <1>2
  <1>5. /\ DOMAIN u = 0 .. (top - 1)
        /\ u = [n \in DOMAIN u |-> u[n]]
        /\ \A n \in 0 .. (top - 1) :
             u[n] = IF n = id THEN ExpandedNode(t[id], ids)
                    ELSE IF n \in DOMAIN t THEN Detach(t, orphans)[n]
                    ELSE NewNode(kids[Slot(n)], round + 1, id)
    BY ExpandUnfolds DEF ChildRound
  <1>7. ids \in Seq(Nat)
    <2>1. kids \in Seq(Region) /\ DOMAIN kids = 1 .. Len(kids) /\ Len(kids) \in Nat
      OBVIOUS
    <2>2. \A s \in DOMAIN kids : Id(s) \in Nat
      <3> HIDE DEF Id, fresh, top
      <3>1. \A n \in DOMAIN t : n \in Nat
        BY <1>1
      <3> QED
        BY <3>1, <1>1, <1>2, <1>4
    <2> HIDE DEF Id
    <2>3. ids = [s \in 1 .. Len(kids) |-> Id(s)]
      BY <2>1 DEF ChildIds, Id
    <2> QED
      BY <2>1, <2>2, <2>3
  <1> HIDE DEF fresh, orphans, gone, top, Id, ids, Slot
  <1>8. DOMAIN t \subseteq 0 .. (top - 1)
    BY <1>1, <1>4
  <1>9. \A n \in DOMAIN t \ {id} :
          u[n] = IF n \in gone THEN Dropped(t[n]) ELSE t[n]
    <2>1. \A n \in DOMAIN t :
            Detach(t, orphans)[n] = IF n \in gone THEN Dropped(t[n]) ELSE t[n]
      BY DetachFields DEF gone
    <2> QED
      BY <1>5, <1>8, <2>1
  <1>10. u[id] = ExpandedNode(t[id], ids)
    BY <1>1, <1>5, <1>8
  <1>11. ASSUME NEW n \in Size(t) .. (top - 1)
         PROVE  \E s \in DOMAIN kids :
                  Id(s) = n /\ u[n] = NewNode(kids[s], round + 1, id)
    <2>1. n \in 0 .. (top - 1) /\ n \notin DOMAIN t
      BY <1>1, <1>4
    <2>2. u[n] = NewNode(kids[Slot(n)], round + 1, id)
      BY <2>1, <1>1, <1>5
    <2>3. Slot(n) \in fresh /\ Id(Slot(n)) = n
      BY <1>2 DEF Slot, SlotOf, fresh, Id, top
    <2> QED
      BY <2>2, <2>3, <1>2
  <1>12. \A n \in 0 .. (top - 1) : u[n] \in Node
    <2>1. u[id] \in Node
      BY <1>1, <1>7, <1>10, ExpandedType
    <2>2. \A n \in DOMAIN t : Dropped(t[n]) \in Node
      BY <1>1, DroppedType
    <2>3. \A n \in DOMAIN t : u[n] \in Node
      BY <1>1, <1>9, <2>1, <2>2
    <2>4. ASSUME NEW n \in Size(t) .. (top - 1)
          PROVE  u[n] \in Node
      <3>1. PICK s \in DOMAIN kids : u[n] = NewNode(kids[s], round + 1, id)
        BY <1>11
      <3>2. kids[s] \in Region
        OBVIOUS
      <3>3. id \in Nat
        BY <1>1
      <3> QED
        BY <3>1, <3>2, <3>3, NewNodeType
    <2>5. \A n \in 0 .. (top - 1) : n \in DOMAIN t \/ n \in Size(t) .. (top - 1)
      BY <1>1, <1>4
    <2> QED
      BY <2>3, <2>4, <2>5
  <1>13. u \in [0 .. (top - 1) -> Node]
    BY <1>5, <1>12
  <1>14. \A n \in gone : u[n] = Dropped(t[n])
    BY <1>3, <1>9
  <1>15. \A n \in DOMAIN t \ gone : n # id => u[n] = t[n]
    BY <1>9
  <1> QED
    BY <1>4, <1>7, <1>10, <1>11, <1>13, <1>14, <1>15
       DEF gone, orphans, top, fresh, ids, Id, Expands

(* An expansion grows a tree of the same shape: kept children keep their     *)
(* subtrees, dropped ones disappear whole, new ones hang from id.            *)
LEMMA ExpandKeepsTree ==
  ASSUME NEW t, IsArena(t), WellShaped(t), Homed(t), NEW id \in Live(t),
         NEW kids \in Seq(Region), NEW round \in Nat, t[id].depth = round,
         NEW u, u = Expand(t, id, kids, round)
  PROVE  /\ IsArena(u) /\ WellShaped(u) /\ Homed(u)
         /\ u[id].status = "Expanded"
         /\ \A n \in DOMAIN u \ DOMAIN t :
              u[n].alive /\ u[n].depth = round + 1 /\ u[n].status = "Unparsed"
         /\ \A rev : /\ Nested(t, rev)
                     /\ \A s \in DOMAIN kids :
                          /\ kids[s].span.rev = rev
                          /\ Contains(t[id].span, kids[s].span)
                     => Nested(u, rev)
  <1> DEFINE orphans == Orphans(t, id, kids)
             gone    == Below(t, orphans)
             top     == Size(t) + Cardinality(FreshSlots(t, id, kids))
             Id(s)   == ChildId(t, id, kids, s)
  <1>1. /\ id \in DOMAIN t /\ DOMAIN t = 0 .. (Size(t) - 1) /\ Size(t) \in Nat \ {0}
        /\ Root \in DOMAIN t
        /\ \A n \in DOMAIN t : t[n] \in Node
    BY ArenaFacts DEF Live, IsArena
  <1>2. /\ top \in Nat /\ Size(t) <= top /\ u \in [0 .. (top - 1) -> Node]
        /\ \A n \in gone : u[n] = Dropped(t[n])
        /\ \A n \in DOMAIN t \ gone : n # id => u[n] = t[n]
        /\ u[id] = ExpandedNode(t[id], ChildIds(t, id, kids))
        /\ ChildIds(t, id, kids) \in Seq(Nat)
        /\ \A n \in Size(t) .. (top - 1) : \E s \in DOMAIN kids :
             Id(s) = n /\ u[n] = NewNode(kids[s], round + 1, id)
    <2>1. Expands(t, u, id, kids, round)
      BY ExpandFields
    <2> QED
      BY <2>1 DEF Expands
  <1>3. /\ orphans \subseteq Kids(t, id)
        /\ \A s \in DOMAIN kids : \/ Id(s) \in Size(t) .. (top - 1)
                                  \/ Id(s) \in Kids(t, id) \ orphans
        /\ \A s, r \in DOMAIN kids : Id(s) = Id(r) => s = r
        /\ \A n \in Kids(t, id) \ orphans : \E s \in DOMAIN kids : Id(s) = n
    <2>1. /\ FreshSlots(t, id, kids) \subseteq DOMAIN kids
          /\ \A s \in FreshSlots(t, id, kids) : Id(s) \in Size(t) .. (top - 1)
          /\ \A s \in DOMAIN kids \ FreshSlots(t, id, kids) :
               Id(s) \in Kids(t, id) \ orphans
      BY <1>1, ChildIdFacts
    <2> QED
      BY <2>1, <1>1, ChildIdFacts
  <1>4. /\ orphans \subseteq gone /\ gone \subseteq Live(t) \ {Root}
        /\ id \notin gone
        /\ \A n \in Live(t) \ {Root} : t[n].parent \in gone => n \in gone
        /\ \A n \in DOMAIN t \ gone : \A c \in Kids(t, n) \ orphans : c \notin gone
    BY <1>1, <1>3, GoneFacts
  <1> HIDE DEF orphans, gone, top, Id
  <1>5. DOMAIN u = 0 .. (top - 1) /\ \A n \in DOMAIN u : u[n] \in Node
    BY <1>2
  <1>6. /\ \A n \in DOMAIN u : n \in DOMAIN t \/ n \in Size(t) .. (top - 1)
        /\ \A n \in DOMAIN t : n \in DOMAIN u /\ n \notin Size(t) .. (top - 1)
        /\ \A n \in Size(t) .. (top - 1) : n \in DOMAIN u /\ n # Root
    BY <1>1, <1>2, <1>5 DEF Root
  <1>7. /\ u[id].children = ChildIds(t, id, kids) /\ u[id].status = "Expanded"
        /\ u[id].alive /\ u[id].span = t[id].span /\ u[id].parent = t[id].parent
        /\ u[id].depth = t[id].depth /\ u[id].attempts = t[id].attempts
    <2>1. t[id].alive
      BY DEF Live
    <2> QED
      BY <2>1, <1>1, <1>2, ExpandedType
  <1>7a. \A n \in DOMAIN t \ gone :
           /\ u[n].span = t[n].span /\ u[n].parent = t[n].parent
           /\ u[n].depth = t[n].depth /\ u[n].attempts = t[n].attempts
    BY <1>2, <1>7
  <1>8. \A n \in gone : /\ n \in DOMAIN t /\ ~u[n].alive /\ u[n].children = <<>>
                        /\ u[n].depth = t[n].depth /\ u[n].attempts = t[n].attempts
    <2>1. \A n \in gone : n \in DOMAIN t /\ t[n] \in Node /\ u[n] = Dropped(t[n])
      BY <1>1, <1>2, <1>4 DEF Live
    <2> QED
      BY <2>1, DroppedType
  <1>9. \A n \in Size(t) .. (top - 1) :
          /\ u[n].alive /\ u[n].children = <<>> /\ u[n].status = "Unparsed"
          /\ u[n].parent = id /\ u[n].depth = round + 1 /\ u[n].attempts = 0
          /\ \E s \in DOMAIN kids : Id(s) = n /\ u[n].span = kids[s].span
    <2> SUFFICES ASSUME NEW n \in Size(t) .. (top - 1)
                 PROVE  /\ u[n].alive /\ u[n].children = <<>>
                        /\ u[n].status = "Unparsed" /\ u[n].parent = id
                        /\ u[n].depth = round + 1 /\ u[n].attempts = 0
                        /\ \E s \in DOMAIN kids :
                             Id(s) = n /\ u[n].span = kids[s].span
      OBVIOUS
    <2>1. PICK s \in DOMAIN kids :
            Id(s) = n /\ u[n] = NewNode(kids[s], round + 1, id)
      BY <1>2
    <2>2. kids[s] \in Region /\ id \in Nat /\ round + 1 \in Nat
      BY <1>1
    <2> QED
      BY <2>1, <2>2, NewNodeType
  <1>10. /\ \A s \in DOMAIN kids : u[id].children[s] = Id(s)
         /\ DOMAIN u[id].children = DOMAIN kids
         /\ Kids(u, id) = {Id(s) : s \in DOMAIN kids}
    BY <1>7 DEF Kids, ChildIds, Id
  <1>11. \A n \in DOMAIN t \ gone : n # id => u[n] = t[n] /\ Kids(u, n) = Kids(t, n)
    BY <1>2 DEF Kids
  <1>12. /\ \A n \in DOMAIN t : Kids(t, n) \subseteq Live(t) \ {Root}
         /\ \A n \in DOMAIN t : \A c \in Kids(t, n) : t[c].parent = n
         /\ \A n \in DOMAIN t : Kids(t, n) # {} => t[n].alive
    BY SMTT(30) DEF WellShaped, KidsPointBack, OnlyLiveNodesHaveKids, Kids
  <1>13. /\ \A n \in Live(t) \ gone : n \in Live(u)
         /\ \A n \in Size(t) .. (top - 1) : n \in Live(u)
         /\ \A n \in Live(u) : \/ n \in Live(t) \ gone
                               \/ n \in Size(t) .. (top - 1)
    <2>1. \A n \in Live(t) \ gone : n \in Live(u)
      BY <1>2, <1>6, <1>7 DEF Live
    <2>2. \A n \in Size(t) .. (top - 1) : n \in Live(u)
      BY <1>6, <1>9 DEF Live
    <2>3. ASSUME NEW n \in Live(u), n \notin Size(t) .. (top - 1)
          PROVE  n \in Live(t) \ gone
      <3>1. n \in DOMAIN t /\ u[n].alive
        BY <2>3, <1>6 DEF Live
      <3>2. n \notin gone
        BY <3>1, <1>8
      <3>3. n = id \/ u[n] = t[n]
        BY <3>1, <3>2, <1>2
      <3> QED
        BY <3>1, <3>2, <3>3 DEF Live
    <2> QED
      BY <2>1, <2>2, <2>3
  <1>14. \A c \in Kids(u, id) :
           /\ c \in Live(u) \ {Root} /\ u[c].parent = id
           /\ u[c].depth - u[c].attempts > u[id].depth
    <2> SUFFICES ASSUME NEW c \in Kids(u, id)
                 PROVE  /\ c \in Live(u) \ {Root} /\ u[c].parent = id
                        /\ u[c].depth - u[c].attempts > u[id].depth
      OBVIOUS
    <2>1. CASE c \in Size(t) .. (top - 1)
      BY <2>1, <1>6, <1>7, <1>9, <1>13
    <2>2. CASE c \in Kids(t, id) \ orphans
      <3>1. c \in Live(t) \ {Root} /\ t[c].parent = id /\ c \notin gone /\ c \in DOMAIN t
        BY <2>2, <1>1, <1>4, <1>12 DEF Live
      <3>2. c # id
        <4>1. t[c].depth - t[c].attempts > t[id].depth
          BY <3>1 DEF Homed
        <4>2. t[c].depth \in Nat /\ t[c].attempts \in Nat
          BY <3>1, <1>1 DEF Node
        <4> QED
          BY <4>1, <4>2
      <3>3. u[c] = t[c] /\ c \in Live(u)
        BY <3>1, <3>2, <1>2, <1>13
      <3> QED
        BY <3>1, <3>3, <1>7 DEF Homed
    <2> QED
      BY <2>1, <2>2, <1>3, <1>10
  <1>15. IsArena(u)
    <2>1. Cardinality(0 .. (top - 1)) = top
      BY <1>1, <1>2, FS_Interval
    <2>2. Size(u) = top
      BY <2>1, <1>5 DEF Size
    <2> QED
      BY <2>2, <1>1, <1>2 DEF IsArena
  <1>16. \A n \in Live(u) \ {Root} :
           /\ u[n].parent \in Live(u) /\ n \in Kids(u, u[n].parent)
           /\ u[n].depth - u[n].attempts > u[u[n].parent].depth
    <2> SUFFICES ASSUME NEW n \in Live(u) \ {Root}
                 PROVE  /\ u[n].parent \in Live(u) /\ n \in Kids(u, u[n].parent)
                        /\ u[n].depth - u[n].attempts > u[u[n].parent].depth
      OBVIOUS
    <2>1. CASE n \in Size(t) .. (top - 1)
      <3>1. PICK s \in DOMAIN kids : Id(s) = n
        BY <2>1, <1>9
      <3>2. n \in Kids(u, id)
        BY <3>1, <1>10
      <3>3. id \in Live(u)
        BY <1>4, <1>13
      <3> QED
        BY <2>1, <3>2, <3>3, <1>9, <1>14
    <2>2. CASE n \in Live(t) \ gone
      <3> DEFINE p == t[n].parent
      <3>1. /\ n \in DOMAIN t /\ p \in Live(t) /\ p \in DOMAIN t /\ n \in Kids(t, p)
            /\ t[n].depth - t[n].attempts > t[p].depth
        BY <2>2 DEF WellShaped, ParentsListTheirKids, Homed, Live
      <3>2. p \notin gone
        BY <2>2, <1>4
      <3>3. /\ u[n].parent = p /\ u[n].depth = t[n].depth
            /\ u[n].attempts = t[n].attempts
        BY <2>2, <3>1, <1>2, <1>7
      <3>4. p \in Live(u) /\ u[p].depth = t[p].depth
        BY <3>1, <3>2, <1>2, <1>7, <1>13
      <3>5. n \in Kids(u, p)
        <4>1. CASE p = id
          <5>1. n \notin orphans
            BY <2>2, <1>4
          <5>2. PICK s \in DOMAIN kids : Id(s) = n
            BY <4>1, <5>1, <3>1, <1>3
          <5> QED
            BY <4>1, <5>2, <1>10
        <4>2. CASE p # id
          BY <4>2, <3>1, <3>2, <1>11
        <4> QED
          BY <4>1, <4>2
      <3> QED
        BY <3>1, <3>3, <3>4, <3>5
    <2> QED
      BY <2>1, <2>2, <1>13
  <1>17. KidsPointBack(u)
    <2> SUFFICES ASSUME NEW n \in DOMAIN u, NEW i \in DOMAIN u[n].children
                 PROVE  LET kid == u[n].children[i] IN
                        /\ kid \in Live(u) \ {Root} /\ u[kid].parent = n
                        /\ \A j \in DOMAIN u[n].children :
                             u[n].children[j] = kid => j = i
      BY DEF KidsPointBack
    <2> DEFINE kid == u[n].children[i]
    <2>1. kid \in Kids(u, n)
      BY DEF Kids
    <2>2. CASE n = id
      <3>1. i \in DOMAIN kids /\ kid = Id(i)
        BY <2>2, <1>10
      <3>2. \A j \in DOMAIN u[n].children : u[n].children[j] = Id(j) /\ j \in DOMAIN kids
        BY <2>2, <1>10
      <3>3. kid \in Live(u) \ {Root} /\ u[kid].parent = n
        BY <2>1, <2>2, <1>14
      <3> QED
        BY <3>1, <3>2, <3>3, <1>3
    <2>3. CASE n # id
      <3>1. n \notin gone /\ n \notin Size(t) .. (top - 1)
        BY <1>8, <1>9
      <3>2. n \in DOMAIN t /\ u[n] = t[n] /\ kid \in Kids(t, n)
        BY <2>1, <2>3, <3>1, <1>6, <1>11
      <3>3. /\ kid \in Live(t) \ {Root} /\ t[kid].parent = n
            /\ \A j \in DOMAIN u[n].children : u[n].children[j] = kid => j = i
        BY <3>2 DEF WellShaped, KidsPointBack
      <3>4. kid \notin orphans
        BY <2>3, <3>3, <1>1, <1>3, <1>12
      <3>5. kid \notin gone
        BY <3>1, <3>2, <3>4, <1>4
      <3>6. kid \in Live(u)
        BY <3>3, <3>5, <1>13
      <3>7. u[kid].parent = n
        <4>1. kid \in DOMAIN t
          BY <3>3 DEF Live
        <4> QED
          BY <4>1, <3>3, <3>5, <1>7a
      <3> QED
        BY <3>3, <3>6, <3>7
    <2> QED
      BY <2>2, <2>3
  <1>18. WellShaped(u)
    <2>1. RootAlive(u)
      <3>1. Root \in Live(t) \ gone
        BY <1>1, <1>4 DEF WellShaped, RootAlive, Live
      <3>2. Root \in Live(u)
        BY <3>1, <1>13
      <3> QED
        BY <3>1, <3>2, <1>1, <1>2, <1>7 DEF WellShaped, RootAlive, Live
    <2>2. ParentsListTheirKids(u)
      BY <1>16 DEF ParentsListTheirKids
    <2>3. OnlyLiveNodesHaveKids(u)
      <3> SUFFICES ASSUME NEW n \in DOMAIN u, Kids(u, n) # {}
                   PROVE  u[n].alive /\ u[n].status \in {"Unparsed", "Expanded"}
        BY DEF OnlyLiveNodesHaveKids
      <3>1. CASE n = id
        BY <3>1, <1>7
      <3>2. CASE n # id
        <4>1. n \notin gone /\ n \notin Size(t) .. (top - 1)
          BY <1>8, <1>9 DEF Kids
        <4>2. n \in DOMAIN t /\ u[n] = t[n] /\ Kids(t, n) # {}
          BY <3>2, <4>1, <1>6, <1>11
        <4> QED
          BY <4>2 DEF WellShaped, OnlyLiveNodesHaveKids
      <3> QED
        BY <3>1, <3>2
    <2> QED
      BY <2>1, <2>2, <2>3, <1>17 DEF WellShaped
  <1>19. Homed(u)
    <2>1. u[Root].depth = u[Root].attempts
      <3>1. Root \in DOMAIN t \ gone
        BY <1>1, <1>4
      <3> QED
        BY <3>1, <1>7a DEF Homed
    <2>2. ASSUME NEW n \in DOMAIN u
          PROVE  u[n].attempts <= u[n].depth
      <3>1. CASE n \in DOMAIN t
        <4>1. u[n].attempts = t[n].attempts /\ u[n].depth = t[n].depth
          BY <3>1, <1>2, <1>7, <1>8, SMTT(30)
        <4> QED
          BY <3>1, <4>1 DEF Homed
      <3>2. CASE n \in Size(t) .. (top - 1)
        BY <3>2, <1>9
      <3> QED
        BY <3>1, <3>2, <1>6
    <2> QED
      BY <2>1, <2>2, <1>16 DEF Homed
  <1>20. ASSUME NEW rev, Nested(t, rev),
                \A s \in DOMAIN kids :
                  kids[s].span.rev = rev /\ Contains(t[id].span, kids[s].span)
         PROVE  Nested(u, rev)
    <2>1. ASSUME NEW n \in Size(t) .. (top - 1)
          PROVE  u[n].span.rev = rev /\ Contains(u[u[n].parent].span, u[n].span)
      <3>1. PICK s \in DOMAIN kids : u[n].span = kids[s].span
        BY <1>9
      <3> QED
        BY <3>1, <1>7, <1>9, <1>20
    <2>2. ASSUME NEW n \in Live(t) \ gone
          PROVE  /\ u[n].span.rev = rev
                 /\ n # Root => Contains(u[u[n].parent].span, u[n].span)
      <3>1. u[n].span = t[n].span /\ u[n].parent = t[n].parent
        BY <1>7a DEF Live
      <3>2. ASSUME n # Root
            PROVE  u[t[n].parent].span = t[t[n].parent].span
        <4>1. t[n].parent \in DOMAIN t /\ t[n].parent \notin gone
          BY <3>2, <1>4 DEF WellShaped, ParentsListTheirKids, Live
        <4> QED
          BY <4>1, <1>7a
      <3> QED
        BY <3>1, <3>2, <1>20 DEF Nested
    <2> QED
      BY <2>1, <2>2, <1>13 DEF Nested
  <1>21. ASSUME NEW n \in DOMAIN u \ DOMAIN t
         PROVE  u[n].alive /\ u[n].depth = round + 1 /\ u[n].status = "Unparsed"
    BY <1>6, <1>9
  <1> QED
    BY <1>7, <1>15, <1>18, <1>19, <1>20, <1>21

----------------------------------------------------------------------------
(* A text edit.                                                             *)

(* What an edit does to one live node, field by field: touched nodes go back *)
(* to their home round, the others only move.                               *)
LEMMA EditNodeType ==
  ASSUME NEW node \in Node, node.attempts <= node.depth,
         NEW e \in Edit, NEW r \in Nat, NEW m, m = EditNode(node, e, r)
  PROVE  /\ m \in Node /\ m.span = MapSpan(e, node.span, r)
         /\ m.ctx = node.ctx /\ m.parent = node.parent
         /\ m.children = node.children /\ m.alive = node.alive
         /\ m.depth - m.attempts = node.depth - node.attempts
         /\ m.attempts <= m.depth /\ m.depth <= node.depth
         /\ IF Touches(e, node.span)
            THEN /\ m.status = "Unparsed" /\ m.attempts = 0
                 /\ m.depth = node.depth - node.attempts
            ELSE /\ m.status = node.status /\ m.attempts = node.attempts
                 /\ m.depth = node.depth
  <1> DEFINE sp == MapSpan(e, node.span, r)
  <1>1. sp \in Span
    BY MapSpanType DEF Node
  <1> HIDE DEF sp
  <1>2. CASE Touches(e, node.span)
    <2>1. m = [span |-> sp, ctx |-> node.ctx, status |-> "Unparsed",
               depth |-> node.depth - node.attempts, parent |-> node.parent,
               children |-> node.children, attempts |-> 0, alive |-> node.alive]
      BY <1>2 DEF Node, EditNode, ResetNode, sp
    <2>2. node.depth - node.attempts \in Nat /\ node.depth \in Nat /\ node.attempts \in Nat
      BY DEF Node
    <2> QED
      BY <1>1, <1>2, <2>1, <2>2 DEF Node, Status, sp
  <1>3. CASE ~Touches(e, node.span)
    <2>1. m = [span |-> sp, ctx |-> node.ctx, status |-> node.status,
               depth |-> node.depth, parent |-> node.parent,
               children |-> node.children, attempts |-> node.attempts,
               alive |-> node.alive]
      BY <1>3 DEF Node, EditNode, sp
    <2>2. node.depth \in Nat /\ node.attempts \in Nat
      BY DEF Node
    <2> QED
      BY <1>1, <1>3, <2>1, <2>2 DEF Node, Status, sp
  <1> QED
    BY <1>2, <1>3

(* An edit moves and reopens nodes of a tree that keeps its shape, its home  *)
(* rounds and its nesting; with a node it touches all the nodes above.      *)
LEMMA EditKeepsTree ==
  ASSUME NEW t, IsArena(t), WellShaped(t), Homed(t), NEW q, Nested(t, q),
         NEW e \in Edit, NEW r \in Nat, NEW u, u = EditTree(t, e, r)
  PROVE  /\ IsArena(u) /\ WellShaped(u) /\ Homed(u) /\ Nested(u, r)
         /\ DOMAIN u = DOMAIN t /\ Live(u) = Live(t)
         /\ \A n \in DOMAIN t :
              /\ u[n].ctx = t[n].ctx /\ u[n].parent = t[n].parent
              /\ u[n].alive = t[n].alive /\ u[n].depth <= t[n].depth
              /\ u[n].status \in {t[n].status, "Unparsed"}
         /\ u[Root].span = MapSpan(e, t[Root].span, r)
         /\ Touches(e, t[Root].span) =>
              u[Root].status = "Unparsed" /\ u[Root].depth = 0
         /\ \A n \in Live(t) \ {Root} :
              ~OnlyMoved(t[n], u[n]) =>
                u[t[n].parent].status = "Unparsed"
  <1>1. /\ DOMAIN t = 0 .. (Size(t) - 1) /\ Size(t) \in Nat \ {0}
        /\ Root \in DOMAIN t
        /\ \A n \in DOMAIN t : t[n] \in Node
    BY ArenaFacts DEF IsArena
  <1>2. /\ DOMAIN u = DOMAIN t
        /\ u = [n \in DOMAIN t |-> u[n]]
        /\ \A n \in Live(t) : u[n] = EditNode(t[n], e, r)
        /\ \A n \in DOMAIN t \ Live(t) : u[n] = t[n]
    BY DEF EditTree, Live
  <1>3. \A n \in DOMAIN t : t[n].attempts <= t[n].depth
    BY DEF Homed
  <1>4. ASSUME NEW n \in Live(t)
        PROVE  /\ u[n] \in Node /\ u[n].span = MapSpan(e, t[n].span, r)
               /\ u[n].ctx = t[n].ctx /\ u[n].parent = t[n].parent
               /\ u[n].children = t[n].children /\ u[n].alive = t[n].alive
               /\ u[n].depth - u[n].attempts = t[n].depth - t[n].attempts
               /\ u[n].attempts <= u[n].depth /\ u[n].depth <= t[n].depth
               /\ IF Touches(e, t[n].span)
                  THEN /\ u[n].status = "Unparsed" /\ u[n].attempts = 0
                       /\ u[n].depth = t[n].depth - t[n].attempts
                  ELSE /\ u[n].status = t[n].status /\ u[n].attempts = t[n].attempts
                       /\ u[n].depth = t[n].depth
    <2>1. n \in DOMAIN t
      BY DEF Live
    <2> DEFINE node == t[n]
               m    == u[n]
    <2>2. node \in Node /\ node.attempts <= node.depth /\ m = EditNode(node, e, r)
      BY <2>1, <1>1, <1>2, <1>3
    <2> HIDE DEF node, m
    <2>3. /\ m \in Node /\ m.span = MapSpan(e, node.span, r)
          /\ m.ctx = node.ctx /\ m.parent = node.parent
          /\ m.children = node.children /\ m.alive = node.alive
          /\ m.depth - m.attempts = node.depth - node.attempts
          /\ m.attempts <= m.depth /\ m.depth <= node.depth
          /\ IF Touches(e, node.span)
             THEN /\ m.status = "Unparsed" /\ m.attempts = 0
                  /\ m.depth = node.depth - node.attempts
             ELSE /\ m.status = node.status /\ m.attempts = node.attempts
                  /\ m.depth = node.depth
      BY <2>2, EditNodeType
    <2> QED
      BY <2>3 DEF node, m
  <1>5. \A n \in DOMAIN t :
          /\ u[n] \in Node /\ u[n].ctx = t[n].ctx /\ u[n].parent = t[n].parent
          /\ u[n].children = t[n].children /\ u[n].alive = t[n].alive
          /\ u[n].depth - u[n].attempts = t[n].depth - t[n].attempts
          /\ u[n].attempts <= u[n].depth /\ u[n].depth <= t[n].depth
          /\ u[n].status \in {t[n].status, "Unparsed"}
    <2>1. ASSUME NEW n \in DOMAIN t \ Live(t)
          PROVE  u[n] = t[n] /\ t[n].depth <= t[n].depth
      BY <1>1, <1>2 DEF Node
    <2> QED
      BY <2>1, <1>1, <1>3, <1>4
  <1>6. Live(u) = Live(t)
    BY <1>2, <1>5 DEF Live
  <1>7. \A n \in DOMAIN t : Kids(u, n) = Kids(t, n)
    BY <1>5 DEF Kids
  <1>8. IsArena(u)
    <2>1. Size(u) = Size(t)
      BY <1>2 DEF Size
    <2>2. u \in [DOMAIN t -> Node]
      BY <1>2, <1>5
    <2> QED
      BY <2>1, <2>2, <1>1 DEF IsArena
  <1>9. Root \in Live(t) /\ t[Root].parent = NoParent
    BY <1>1 DEF WellShaped, RootAlive, Live
  <1>10. \A n \in Live(t) \ {Root} :
           /\ n \in DOMAIN t /\ t[n].parent \in Live(t) /\ t[n].parent \in DOMAIN t
           /\ n \in Kids(t, t[n].parent)
           /\ t[n].depth - t[n].attempts > t[t[n].parent].depth
           /\ Contains(t[t[n].parent].span, t[n].span)
    BY DEF WellShaped, ParentsListTheirKids, Homed, Nested, Live
  <1>11. ASSUME NEW n \in Live(t) \ {Root}, Touches(e, t[n].span)
         PROVE  /\ Touches(e, t[t[n].parent].span)
                /\ u[t[n].parent].status = "Unparsed"
    <2>1. t[n].span \in Span /\ t[t[n].parent].span \in Span
      BY <1>1, <1>10 DEF Node
    <2>2. Touches(e, t[t[n].parent].span)
      BY <2>1, <1>10, <1>11, TouchesUpward
    <2> QED
      BY <2>2, <1>4, <1>10
  <1>12. WellShaped(u)
    <2>1. RootAlive(u)
      BY <1>1, <1>5 DEF WellShaped, RootAlive
    <2>2. ParentsListTheirKids(u)
      BY <1>5, <1>6, <1>7, <1>10 DEF ParentsListTheirKids
    <2>3. KidsPointBack(u)
      <3>1. \A n \in DOMAIN t : \A i \in DOMAIN t[n].children :
              t[n].children[i] \in DOMAIN t
        BY DEF WellShaped, KidsPointBack, Live
      <3> QED
        BY <3>1, <1>2, <1>5, <1>6 DEF WellShaped, KidsPointBack
    <2>4. OnlyLiveNodesHaveKids(u)
      <3> SUFFICES ASSUME NEW n \in DOMAIN t, Kids(t, n) # {}
                   PROVE  u[n].alive /\ u[n].status \in {"Unparsed", "Expanded"}
        BY <1>2, <1>7 DEF OnlyLiveNodesHaveKids
      <3>1. t[n].alive /\ t[n].status \in {"Unparsed", "Expanded"} /\ n \in Live(t)
        BY DEF WellShaped, OnlyLiveNodesHaveKids, Live
      <3> QED
        BY <3>1, <1>4, <1>5
    <2> QED
      BY <2>1, <2>2, <2>3, <2>4 DEF WellShaped
  <1>13. Homed(u)
    <2>1. u[Root].depth = u[Root].attempts
      BY <1>1, <1>4, <1>9 DEF Homed, Node
    <2>2. ASSUME NEW n \in Live(t) \ {Root}
          PROVE  u[n].depth - u[n].attempts > u[u[n].parent].depth
      <3> DEFINE p == t[n].parent
      <3>1. /\ u[n].depth - u[n].attempts = t[n].depth - t[n].attempts
            /\ u[n].parent = p /\ u[p].depth <= t[p].depth
            /\ t[n].depth - t[n].attempts > t[p].depth
        BY <1>5, <1>10
      <3>2. /\ u[p] \in Node /\ t[p] \in Node /\ t[n] \in Node /\ u[n] \in Node
        BY <1>1, <1>5, <1>10
      <3>3. /\ u[p].depth \in Nat /\ t[p].depth \in Nat
            /\ t[n].depth \in Nat /\ t[n].attempts \in Nat
        BY <3>2 DEF Node
      <3> HIDE DEF p
      <3> QED
        BY <3>1, <3>3
    <2> QED
      BY <2>1, <2>2, <1>2, <1>5, <1>6 DEF Homed
  <1>14. Nested(u, r)
    <2>1. ASSUME NEW n \in Live(t)
          PROVE  u[n].span.rev = r
      <3>1. t[n].span \in Span /\ u[n].span = MapSpan(e, t[n].span, r)
        BY <1>1, <1>4 DEF Node, Live
      <3> QED
        BY <3>1, MapSpanType
    <2>2. ASSUME NEW n \in Live(t) \ {Root}
          PROVE  Contains(u[u[n].parent].span, u[n].span)
      <3>1. t[n].span \in Span /\ t[t[n].parent].span \in Span
        BY <1>1, <1>10 DEF Node
      <3>2. Contains(MapSpan(e, t[t[n].parent].span, r), MapSpan(e, t[n].span, r))
        BY <3>1, <1>10, MapSpanKeepsContainment
      <3> QED
        BY <3>2, <1>4, <1>10
    <2> QED
      BY <2>1, <2>2, <1>6 DEF Nested
  <1>15. ASSUME Touches(e, t[Root].span)
         PROVE  u[Root].status = "Unparsed" /\ u[Root].depth = 0
    <2>1. u[Root].status = "Unparsed" /\ u[Root].depth = t[Root].depth - t[Root].attempts
      BY <1>4, <1>9, <1>15
    <2>2. t[Root].depth = t[Root].attempts /\ t[Root].depth \in Nat
      BY <1>1 DEF Homed, Node
    <2> QED
      BY <2>1, <2>2
  <1>16. ASSUME NEW n \in Live(t) \ {Root},
                ~OnlyMoved(t[n], u[n])
         PROVE  u[t[n].parent].status = "Unparsed"
    <2>1. Touches(e, t[n].span)
      <3> SUFFICES ASSUME ~Touches(e, t[n].span)
                   PROVE  OnlyMoved(t[n], u[n])
        BY <1>16
      <3>1. u[n] = EditNode(t[n], e, r) /\ t[n] \in Node
        BY <1>1, <1>2 DEF Live
      <3>2. u[n] = [t[n] EXCEPT !.span = MapSpan(e, t[n].span, r)]
        BY <3>1 DEF EditNode
      <3> QED
        BY <3>2, <1>4 DEF OnlyMoved
    <2> QED
      BY <2>1, <1>11
  <1> QED
    BY <1>2, <1>4, <1>5, <1>6, <1>8, <1>9, <1>12, <1>13, <1>14, <1>15, <1>16

----------------------------------------------------------------------------
(* Merging an outcome, whichever it is.                                     *)

(* Applying the outcome of a node of this round keeps the tree in shape,     *)
(* settles or defers that node, drops only nodes of later rounds and changes *)
(* nothing else; what it adds waits for the next round.                     *)
Merges(t, u, id, round) ==
  /\ DOMAIN t \subseteq DOMAIN u
  /\ \A n \in DOMAIN t :
       /\ u[n].span = t[n].span /\ u[n].ctx = t[n].ctx
       /\ u[n].parent = t[n].parent
       /\ u[n].alive => t[n].alive
  /\ \A n \in DOMAIN t \ {id} :
       \/ u[n] = t[n]
       \/ /\ t[n].depth > round /\ ~u[n].alive
          /\ u[n].depth = t[n].depth /\ u[n].status = t[n].status
  /\ \/ u[id].status \in {"Done", "Expanded"} /\ u[id].depth = round
     \/ u[id].status = "Failed" /\ u[id].depth = round + 1
  /\ \A n \in DOMAIN u \ DOMAIN t : u[n].depth = round + 1

(* Settling a node is such a merge.                                         *)
LEMMA SettlesMerges ==
  ASSUME NEW t, IsArena(t), WellShaped(t), Homed(t), NEW id \in Live(t),
         NEW round \in Nat, t[id].depth = round,
         NEW u, Settles(t, u, id),
         \/ u[id].status = "Done" /\ u[id].depth = round
         \/ u[id].status = "Failed" /\ u[id].depth = round + 1
  PROVE  Merges(t, u, id, round)
  <1> DEFINE gone == Below(t, Kids(t, id))
  <1>1. /\ id \in DOMAIN t /\ t[id].alive /\ DOMAIN u = DOMAIN t
        /\ \A n \in DOMAIN t : t[n] \in Node
        /\ \A n \in DOMAIN t \ {id} : u[n] = IF n \in gone THEN Dropped(t[n]) ELSE t[n]
        /\ u[id].span = t[id].span /\ u[id].ctx = t[id].ctx
        /\ u[id].parent = t[id].parent
    BY ArenaFacts DEF Settles, Live
  <1>2. \A n \in gone : n \in DOMAIN t /\ n # id /\ t[n].depth > round
    BY <1>1, GoneFacts DEF Live
  <1> HIDE DEF gone
  <1>3. ASSUME NEW n \in gone
        PROVE  /\ ~u[n].alive /\ u[n].depth = t[n].depth /\ u[n].status = t[n].status
               /\ u[n].span = t[n].span /\ u[n].ctx = t[n].ctx
               /\ u[n].parent = t[n].parent
    <2>1. t[n] \in Node /\ u[n] = Dropped(t[n])
      BY <1>1, <1>2
    <2> QED
      BY <2>1, DroppedType
  <1>4. \A n \in DOMAIN t \ {id} : n \notin gone => u[n] = t[n]
    BY <1>1
  <1>5. \A n \in DOMAIN t \ {id} :
          \/ u[n] = t[n]
          \/ /\ t[n].depth > round /\ ~u[n].alive
             /\ u[n].depth = t[n].depth /\ u[n].status = t[n].status
    BY <1>2, <1>3, <1>4
  <1>6. \A n \in DOMAIN t :
          /\ u[n].span = t[n].span /\ u[n].ctx = t[n].ctx
          /\ u[n].parent = t[n].parent /\ (u[n].alive => t[n].alive)
    BY <1>1, <1>3, <1>4
  <1> QED
    BY <1>1, <1>5, <1>6 DEF Merges

(* So is expanding it.                                                      *)
LEMMA ExpandMerges ==
  ASSUME NEW t, IsArena(t), WellShaped(t), Homed(t), NEW id \in Live(t),
         NEW kids \in Seq(Region), NEW round \in Nat, t[id].depth = round,
         NEW u, u = Expand(t, id, kids, round)
  PROVE  Merges(t, u, id, round)
  <1> DEFINE orphans == Orphans(t, id, kids)
             gone == Below(t, orphans)
             top  == Size(t) + Cardinality(FreshSlots(t, id, kids))
  <1>1. /\ id \in DOMAIN t /\ t[id].alive /\ DOMAIN t = 0 .. (Size(t) - 1)
        /\ Size(t) \in Nat
        /\ \A n \in DOMAIN t : t[n] \in Node
    BY ArenaFacts DEF Live, IsArena
  <1>2. Expands(t, u, id, kids, round)
    BY ExpandFields
  <1>3. /\ top \in Nat /\ Size(t) <= top /\ DOMAIN u = 0 .. (top - 1)
        /\ \A n \in gone : u[n] = Dropped(t[n])
        /\ \A n \in DOMAIN t \ gone : n # id => u[n] = t[n]
        /\ u[id] = ExpandedNode(t[id], ChildIds(t, id, kids))
        /\ ChildIds(t, id, kids) \in Seq(Nat)
    BY <1>2 DEF Expands
  <1>4. orphans \subseteq Kids(t, id)
    BY <1>1, ChildIdFacts
  <1>5. \A n \in gone : n \in DOMAIN t /\ n # id /\ t[n].depth > round
    BY <1>1, <1>4, GoneFacts DEF Live
  <1> HIDE DEF gone, top
  <1>6. DOMAIN t \subseteq DOMAIN u
    BY <1>1, <1>3
  <1>7. ASSUME NEW n \in gone
        PROVE  /\ ~u[n].alive /\ u[n].depth = t[n].depth /\ u[n].status = t[n].status
               /\ u[n].span = t[n].span /\ u[n].ctx = t[n].ctx
               /\ u[n].parent = t[n].parent
    <2>1. t[n] \in Node /\ u[n] = Dropped(t[n])
      BY <1>1, <1>3, <1>5
    <2> QED
      BY <2>1, DroppedType
  <1>8. /\ u[id].span = t[id].span /\ u[id].ctx = t[id].ctx
        /\ u[id].parent = t[id].parent /\ u[id].status = "Expanded"
        /\ u[id].depth = round
    BY <1>1, <1>3, ExpandedType
  <1>9. \A n \in DOMAIN t \ {id} :
          \/ u[n] = t[n]
          \/ /\ t[n].depth > round /\ ~u[n].alive
             /\ u[n].depth = t[n].depth /\ u[n].status = t[n].status
    BY <1>3, <1>5, <1>7
  <1>10. \A n \in DOMAIN t :
          /\ u[n].span = t[n].span /\ u[n].ctx = t[n].ctx
          /\ u[n].parent = t[n].parent /\ (u[n].alive => t[n].alive)
    BY <1>1, <1>3, <1>7, <1>8
  <1>11. \A n \in DOMAIN u \ DOMAIN t : u[n].depth = round + 1
    BY ExpandKeepsTree
  <1> QED
    BY <1>6, <1>8, <1>9, <1>10, <1>11 DEF Merges

(* Every outcome, whatever a pass returned, is merged into a tree again.     *)
LEMMA ApplyKeepsTree ==
  ASSUME NEW t, IsArena(t), WellShaped(t), Homed(t), NEW rev, Nested(t, rev),
         NEW id \in Live(t), NEW round \in Nat, t[id].depth = round,
         NEW o \in Outcome, NEW shrink \in BOOLEAN,
         NEW u, u = Apply(t, id, o, round, shrink)
  PROVE  /\ IsArena(u) /\ WellShaped(u) /\ Homed(u) /\ Nested(u, rev)
         /\ Merges(t, u, id, round)
  <1>1. CASE Applied(t, id, o, shrink) = "Done"
    <2>1. u = Accept(t, id)
      BY <1>1 DEF Apply
    <2>2. Settles(t, u, id) /\ u[id].status = "Done" /\ u[id].depth = round
      BY <2>1, AcceptSettles
    <2> QED
      BY <2>2, SettlesKeepsTree, SettlesMerges
  <1>2. CASE Applied(t, id, o, shrink) = "Failed"
    <2>1. u = Fail(t, id, round)
      BY <1>2 DEF Apply
    <2>2. Settles(t, u, id) /\ u[id].status = "Failed" /\ u[id].depth = round + 1
      BY <2>1, FailSettles
    <2> QED
      BY <2>2, SettlesKeepsTree, SettlesMerges
  <1>3. CASE Applied(t, id, o, shrink) = "Expanded"
    <2> DEFINE kids == o.children
    <2>1. u = Expand(t, id, kids, round)
      BY <1>3 DEF Apply
    <2>2. kids \in Seq(Region) /\ Breaches(t, id, o, shrink) = {}
      BY <1>3 DEF Applied, Outcome
    <2>3. t[id].span.rev = rev
      BY DEF Nested
    <2>4. ASSUME NEW s \in DOMAIN kids
          PROVE  kids[s].span.rev = rev /\ Contains(t[id].span, kids[s].span)
      <3>1. ViolationKind(t[id].span, kids[s].span, shrink) = "None"
        BY <2>2 DEF Breaches
      <3> QED
        BY <2>3, <3>1 DEF ViolationKind
    <2> HIDE DEF kids
    <2>5. Merges(t, u, id, round)
      BY <2>1, <2>2, ExpandMerges
    <2>6. IsArena(u) /\ WellShaped(u) /\ Homed(u)
      BY <2>1, <2>2, ExpandKeepsTree
    <2>7. Nested(u, rev)
      BY <2>1, <2>2, <2>4, ExpandKeepsTree
    <2> QED
      BY <2>5, <2>6, <2>7
  <1>4. Applied(t, id, o, shrink) \in {"Done", "Failed", "Expanded"}
    BY DEF Applied
  <1> QED
    BY <1>1, <1>2, <1>3, <1>4

(* The children of an expanded node are the regions it was expanded into.   *)
LEMMA ExpandRegions ==
  ASSUME NEW t, IsArena(t), WellShaped(t), Homed(t), NEW id \in Live(t),
         NEW kids \in Seq(Region), NEW r \in Nat, t[id].depth = r,
         NEW u, u = Expand(t, id, kids, r)
  PROVE  \A s \in DOMAIN kids : RegionOf(u, ChildId(t, id, kids, s)) = kids[s]
  <1> SUFFICES ASSUME NEW s \in DOMAIN kids
               PROVE  RegionOf(u, ChildId(t, id, kids, s)) = kids[s]
    OBVIOUS
  <1> DEFINE fresh == FreshSlots(t, id, kids)
             top == Size(t) + Cardinality(fresh)
             n == ChildId(t, id, kids, s)
  <1>1. id \in DOMAIN t /\ Size(t) \in Nat
    BY DEF Live, IsArena
  <1>2. \A k \in Size(t) .. (top - 1) : \E v \in DOMAIN kids :
          ChildId(t, id, kids, v) = k /\ u[k] = NewNode(kids[v], r + 1, id)
    <2>1. Expands(t, u, id, kids, r)
      BY ExpandFields
    <2> QED
      BY <2>1, Zenon DEF Expands
  <1>3. /\ Cardinality(fresh) \in Nat
        /\ \A v \in fresh : ChildId(t, id, kids, v)
                            \in Size(t) .. (Size(t) + Cardinality(fresh) - 1)
        /\ \A v \in DOMAIN kids \ fresh :
             /\ ChildId(t, id, kids, v) \in Kids(t, id) \ Orphans(t, id, kids)
             /\ RegionOf(t, ChildId(t, id, kids, v)) = kids[v]
        /\ \A v, w \in DOMAIN kids :
             ChildId(t, id, kids, v) = ChildId(t, id, kids, w) => v = w
    BY <1>1, ChildIdFacts, ZenonT(40)
  <1>4. CASE s \in fresh
    <2>1. Size(t) + Cardinality(fresh) - 1 = top - 1
      BY <1>1, <1>3
    <2>2. n \in Size(t) .. (top - 1)
      BY <1>3, <1>4, <2>1, Zenon
    <2>3. PICK v \in DOMAIN kids :
            ChildId(t, id, kids, v) = n /\ u[n] = NewNode(kids[v], r + 1, id)
      BY <1>2, <2>2, Zenon
    <2>4. v = s
      BY <1>3, <2>3, Zenon
    <2>5. kids[s] \in Region
      OBVIOUS
    <2> QED
      BY <2>3, <2>4, <2>5 DEF NewNode, RegionOf, Region
  <1>5. CASE s \notin fresh
    <2>1. n \in Kids(t, id) /\ RegionOf(t, n) = kids[s]
      BY <1>3, <1>5, Zenon
    <2>2. n \in DOMAIN t
      BY <2>1, <1>1 DEF WellShaped, KidsPointBack, Live, Kids
    <2>3. Merges(t, u, id, r)
      BY ExpandMerges
    <2> HIDE DEF n
    <2>4. u[n].span = t[n].span /\ u[n].ctx = t[n].ctx
      BY <2>2, <2>3 DEF Merges
    <2> QED
      BY <2>1, <2>4 DEF RegionOf, n
  <1> QED
    BY <1>4, <1>5

(* Merging an outcome takes all its children, in order, or none.            *)
LEMMA ApplyIsAllOrNothing ==
  ASSUME NEW t, IsArena(t), WellShaped(t), Homed(t), NEW id \in Live(t),
         NEW round \in Nat, t[id].depth = round,
         NEW o \in Outcome, NEW shrink \in BOOLEAN,
         NEW u, u = Apply(t, id, o, round, shrink)
  PROVE  LET refused == Breaches(t, id, o, shrink) # {}
             got     == u[id].children
         IN  /\ refused => u[id].status = "Failed"
             /\ refused \/ o.children = <<>> => got = <<>>
             /\ ~refused /\ o.children # <<>> =>
                  /\ u[id].status = "Expanded" /\ DOMAIN got = DOMAIN o.children
                  /\ \A i \in DOMAIN got :
                       u[got[i]].alive /\ RegionOf(u, got[i]) = o.children[i]
  <1> DEFINE kids == o.children
             refused == Breaches(t, id, o, shrink) # {}
  <1>1. CASE o.kind = "Failed" \/ refused
    <2>1. u = Fail(t, id, round)
      BY <1>1 DEF Apply, Applied
    <2>2. Settles(t, u, id) /\ u[id].status = "Failed"
      BY <2>1, FailSettles
    <2>3. o.kind = "Failed" => kids = <<>>
      BY DEF Outcome
    <2>4. refused => kids # <<>>
      BY DEF Breaches
    <2> HIDE DEF refused
    <2> QED
      BY <1>1, <2>2, <2>3, <2>4 DEF Settles, refused
  <1>2. CASE o.kind # "Failed" /\ ~refused /\ kids = <<>>
    <2>1. u = Accept(t, id)
      BY <1>2 DEF Apply, Applied
    <2>2. Settles(t, u, id)
      BY <2>1, AcceptSettles
    <2> QED
      BY <1>2, <2>2 DEF Settles
  <1>3. CASE o.kind # "Failed" /\ ~refused /\ kids # <<>>
    <2>1. u = Expand(t, id, kids, round) /\ kids \in Seq(Region)
      BY <1>3 DEF Apply, Applied, Outcome
    <2> HIDE DEF kids
    <2>2. Expands(t, u, id, kids, round) /\ t[id] \in Node
      BY <2>1, ExpandFields, ArenaFacts DEF Live
    <2>3. /\ u[id].children = ChildIds(t, id, kids)
          /\ u[id].status = "Expanded"
      BY <2>2, ExpandedType DEF Expands
    <2>4. \A s \in DOMAIN kids : RegionOf(u, ChildId(t, id, kids, s)) = kids[s]
      BY <2>1, ExpandRegions
    <2>5. WellShaped(u) /\ id \in DOMAIN u
      BY <2>1, ExpandKeepsTree, ExpandMerges DEF Merges, Live
    <2>6. \A i \in DOMAIN u[id].children : u[u[id].children[i]].alive
      BY <2>5 DEF WellShaped, KidsPointBack, Live
    <2> QED
      BY <1>3, <2>3, <2>4, <2>6 DEF ChildIds, kids
  <1> QED
    BY <1>1, <1>2, <1>3

----------------------------------------------------------------------------
(* The tree of Session::new: a live root that is to be parsed in round 0.   *)
LEMMA NewTreeIsTree ==
  ASSUME NEW span \in Span, NEW ctx \in Ctx, NEW t, t = NewTree(span, ctx)
  PROVE  /\ IsArena(t) /\ WellShaped(t) /\ Homed(t) /\ Nested(t, span.rev)
         /\ DOMAIN t = {Root} /\ t[Root].span = span
         /\ t[Root].depth = 0 /\ t[Root].status = "Unparsed"
  <1> DEFINE region == [span |-> span, ctx |-> ctx]
  <1>1. region \in Region /\ region.span = span
    BY DEF Region
  <1>2. DOMAIN t = {Root} /\ t = [n \in {Root} |-> t[n]]
        /\ t[Root] = NewNode(region, 0, NoParent)
    BY DEF NewTree
  <1> HIDE DEF region
  <1>3. /\ t[Root] \in Node /\ t[Root].alive /\ t[Root].children = <<>>
        /\ t[Root].status = "Unparsed" /\ t[Root].span = span
        /\ t[Root].parent = NoParent /\ t[Root].depth = 0 /\ t[Root].attempts = 0
    <2>1. t[Root] = [span |-> span, ctx |-> ctx, status |-> "Unparsed",
                     depth |-> 0, parent |-> NoParent, children |-> <<>>,
                     attempts |-> 0, alive |-> TRUE]
      BY <1>2 DEF NewNode, region
    <2> QED
      BY <2>1 DEF Node, Status
  <1>4. IsArena(t)
    <2>1. Size(t) = 1
      BY <1>2, FS_Singleton DEF Size
    <2>2. {Root} = 0 .. 0 /\ 1 - 1 = 0
      BY DEF Root
    <2>3. t \in [{Root} -> Node]
      BY <1>2, <1>3
    <2> QED
      BY <2>1, <2>2, <2>3 DEF IsArena
  <1>5. Live(t) = {Root} /\ Kids(t, Root) = {}
    BY <1>2, <1>3 DEF Live, Kids
  <1>6. WellShaped(t)
    <2>1. RootAlive(t)
      BY <1>3 DEF RootAlive
    <2>2. ParentsListTheirKids(t)
      BY <1>5 DEF ParentsListTheirKids
    <2>3. KidsPointBack(t)
      BY <1>2, <1>3 DEF KidsPointBack
    <2>4. OnlyLiveNodesHaveKids(t)
      BY <1>2, <1>5 DEF OnlyLiveNodesHaveKids
    <2> QED
      BY <2>1, <2>2, <2>3, <2>4 DEF WellShaped
  <1>7. Homed(t) /\ Nested(t, span.rev)
    <2>1. \A n \in DOMAIN t : n = Root
      BY <1>2
    <2>2. t[Root].attempts <= t[Root].depth
      BY <1>3
    <2>3. \A n \in Live(t) : n = Root
      BY <1>5
    <2> QED
      BY <1>3, <2>1, <2>2, <2>3 DEF Homed, Nested
  <1> QED
    BY <1>2, <1>3, <1>4, <1>6, <1>7

============================================================================
