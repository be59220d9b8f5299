---------------------------- MODULE TimerProofs ----------------------------
(***************************************************************************)
(* Proofs about SkipList and Timer, for any number of threads and timers,  *)
(* and of the list by itself (case 1 of MCTimer).                          *)
(***************************************************************************)
EXTENDS MCTimer, TLAPS, FiniteSetTheorems, SequenceTheorems

-----------------------------------------------------------------------------
(* Chains of links, whatever the links are. *)

Links == [Places -> Nodes \cup {NULL}]

Closed(f, S) == \A p \in S : f[p] \in S \cup {NULL}

Reach(f, a) ==
  {m \in Nodes : \A S \in SUBSET Nodes : ({a} \ {NULL}) \subseteq S /\ Closed(f, S) => m \in S}

(* Who follows the links long enough leaves any set. *)
Acyclic(f) == \A S \in SUBSET Places : S # {} => \E p \in S : f[p] \notin S

LEMMA ChainIsReach == \A n : ChainFrom(n) = Reach(next, n)
  BY DEF ChainFrom, Reach, Closed

LEMMA PlacesDiffer ==
  /\ Nodes \subseteq Places /\ head_ \in Places /\ head_ \notin Nodes
  /\ NULL \notin Places /\ NULL \notin Nodes /\ head_ # NULL
  /\ \A p \in Places : p = head_ \/ p \in Nodes
  BY SkipListAssumption DEF Places

LEMMA ReachClosed ==
  ASSUME NEW f \in Links, NEW a \in Nodes \cup {NULL}
  PROVE  /\ Reach(f, a) \subseteq Nodes /\ Closed(f, Reach(f, a))
         /\ a # NULL => a \in Reach(f, a)
<1>1. Reach(f, a) \subseteq Nodes
  BY DEF Reach
<1>2. a # NULL => a \in Reach(f, a)
  BY DEF Reach
<1>3. ASSUME NEW p \in Reach(f, a), f[p] # NULL PROVE f[p] \in Reach(f, a)
  <2>1. f[p] \in Nodes
    BY <1>1, <1>3, PlacesDiffer DEF Links
  <2>2. \A S \in SUBSET Nodes : ({a} \ {NULL}) \subseteq S /\ Closed(f, S) => f[p] \in S
    BY <1>3 DEF Reach, Closed
  <2> QED
    BY <2>1, <2>2 DEF Reach
<1> QED
  BY <1>1, <1>2, <1>3 DEF Closed

LEMMA ReachLeast ==
  ASSUME NEW f, NEW a, NEW S,
         a # NULL => a \in Nodes \cap S,
         \A p \in Nodes \cap S : f[p] \in (Nodes \cap S) \cup {NULL}
  PROVE  Reach(f, a) \subseteq S
  BY DEF Reach, Closed

LEMMA ReachNothing == \A f : Reach(f, NULL) = {}
<1> SUFFICES ASSUME NEW f PROVE Reach(f, NULL) = {}
  OBVIOUS
<1>1. {} \in SUBSET Nodes /\ ({NULL} \ {NULL}) \subseteq {} /\ Closed(f, {})
  BY DEF Closed
<1> QED
  BY <1>1 DEF Reach

(* From a member the rest of the chain is reached. *)
LEMMA ReachFurther ==
  ASSUME NEW f \in Links, NEW a \in Nodes \cup {NULL}, NEW b \in Reach(f, a)
  PROVE  /\ Reach(f, b) \subseteq Reach(f, a) /\ Reach(f, f[b]) \subseteq Reach(f, a)
         /\ b \in Nodes /\ f[b] \in Nodes \cup {NULL}
<1>1. Reach(f, a) \subseteq Nodes /\ Closed(f, Reach(f, a))
  BY ReachClosed
<1>2. b \in Nodes /\ f[b] \in Nodes \cup {NULL}
  BY <1>1, PlacesDiffer DEF Links
<1>3. \A p \in Nodes \cap Reach(f, a) : f[p] \in (Nodes \cap Reach(f, a)) \cup {NULL}
  BY <1>1 DEF Closed
<1>4. Reach(f, b) \subseteq Reach(f, a)
  BY <1>1, <1>3, ReachLeast
<1>5. Reach(f, f[b]) \subseteq Reach(f, a)
  BY <1>1, <1>2, <1>3, ReachLeast DEF Closed
<1> QED
  BY <1>2, <1>4, <1>5

(* The first node and the rest. *)
LEMMA ReachUnfold ==
  ASSUME NEW f \in Links, NEW a \in Nodes
  PROVE  Reach(f, a) = {a} \cup Reach(f, f[a])
<1>1. f[a] \in Nodes \cup {NULL} /\ a # NULL
  BY PlacesDiffer DEF Links
<1>2. a \in Reach(f, a)
  BY <1>1, ReachClosed
<1>3. Reach(f, f[a]) \subseteq Reach(f, a)
  BY <1>2, ReachFurther
<1> DEFINE S == {a} \cup Reach(f, f[a])
<1>4. /\ Reach(f, f[a]) \subseteq Nodes /\ Closed(f, Reach(f, f[a]))
      /\ f[a] # NULL => f[a] \in Reach(f, f[a])
  BY <1>1, ReachClosed
<1>5. /\ a \in Nodes \cap S /\ \A p \in Nodes \cap S : f[p] \in (Nodes \cap S) \cup {NULL}
  BY <1>1, <1>4 DEF Closed
<1>6. Reach(f, a) \subseteq S
  <2> HIDE DEF S
  <2> QED
    BY <1>5, ReachLeast
<1> QED
  BY <1>2, <1>3, <1>6

(* Links that agree on a chain have the same chain. *)
LEMMA ReachSame ==
  ASSUME NEW f \in Links, NEW g \in Links, NEW a \in Nodes \cup {NULL},
         \A p \in Reach(f, a) : g[p] = f[p]
  PROVE  Reach(g, a) = Reach(f, a)
<1>1. /\ Reach(f, a) \subseteq Nodes /\ Closed(f, Reach(f, a))
      /\ a # NULL => a \in Reach(f, a)
  BY ReachClosed
<1>2. Reach(g, a) \subseteq Reach(f, a)
  <2> DEFINE S == Reach(f, a)
  <2>1. a # NULL => a \in Nodes \cap S
    BY <1>1
  <2>2. \A p \in Nodes \cap S : g[p] \in (Nodes \cap S) \cup {NULL}
    BY <1>1 DEF Closed
  <2> HIDE DEF S
  <2>3. Reach(g, a) \subseteq S
    BY <2>1, <2>2, ReachLeast
  <2> QED
    BY <2>3 DEF S
<1>3. Reach(f, a) \subseteq Reach(g, a)
  <2>1. Closed(g, Reach(g, a)) /\ (a # NULL => a \in Reach(g, a)) /\ Reach(g, a) \subseteq Nodes
    BY ReachClosed
  <2> DEFINE S == Reach(g, a)
  <2>2. \A p \in Nodes \cap S : f[p] \in (Nodes \cap S) \cup {NULL}
    BY <1>2, <2>1 DEF Closed
  <2>3. a # NULL => a \in Nodes \cap S
    BY <2>1
  <2> HIDE DEF S
  <2>4. Reach(f, a) \subseteq S
    BY <2>2, <2>3, ReachLeast
  <2> QED
    BY <2>4 DEF S
<1> QED
  BY <1>2, <1>3

(* Who has left a node does not come back. *)
LEMMA NoReturn ==
  ASSUME NEW f \in Links, Acyclic(f), NEW a \in Nodes
  PROVE  a \notin Reach(f, f[a])
<1> SUFFICES ASSUME a \in Reach(f, f[a]) PROVE FALSE
  OBVIOUS
<1>1. f[a] \in Nodes \cup {NULL}
  BY PlacesDiffer DEF Links
<1> DEFINE S == {p \in Reach(f, f[a]) : a \in Reach(f, p)}
<1>2. f[a] # NULL
  BY ReachNothing
<1>3. Reach(f, f[a]) \subseteq Nodes /\ Closed(f, Reach(f, f[a])) /\ f[a] \in Reach(f, f[a])
  BY <1>1, <1>2, ReachClosed
<1>4. ASSUME NEW p \in S PROVE f[p] \in S
  <2>1. CASE p = a
    BY <1>3, <2>1
  <2>2. CASE p # a
    <3>1. p \in Nodes /\ a \in {p} \cup Reach(f, f[p])
      BY <1>3, ReachUnfold
    <3>2. a \in Reach(f, f[p])
      BY <2>2, <3>1
    <3>3. f[p] # NULL
      BY <3>2, ReachNothing
    <3>4. f[p] \in Reach(f, f[a])
      BY <1>3, <3>3 DEF Closed
    <3> QED
      BY <3>2, <3>4
  <2> QED
    BY <2>1, <2>2
<1>5. S \in SUBSET Places /\ f[a] \in S
  BY <1>3, PlacesDiffer
<1> QED
  BY <1>4, <1>5 DEF Acyclic

(* Of two nodes on a chain one comes after the other. *)
LEMMA ReachTotal ==
  ASSUME NEW f \in Links, NEW a \in Nodes \cup {NULL}, NEW x \in Reach(f, a), NEW y \in Reach(f, a)
  PROVE  y \in Reach(f, x) \/ x \in Reach(f, y)
<1> DEFINE T == {z \in Reach(f, a) : y \in Reach(f, z) \/ z \in Reach(f, y)}
<1>1. /\ Reach(f, a) \subseteq Nodes /\ Closed(f, Reach(f, a))
      /\ a # NULL => a \in Reach(f, a)
  BY ReachClosed
<1>2. y \in Nodes /\ y # NULL /\ Closed(f, Reach(f, y))
  BY <1>1, ReachClosed, PlacesDiffer
<1>3. ASSUME NEW z \in T, f[z] # NULL PROVE f[z] \in T
  <2>1. z \in Nodes /\ f[z] \in Reach(f, a)
    BY <1>1, <1>3 DEF Closed
  <2>2. CASE z \in Reach(f, y)
    BY <1>2, <1>3, <2>1, <2>2 DEF Closed
  <2>3. CASE y \in Reach(f, z) /\ z # y
    <3>1. y \in {z} \cup Reach(f, f[z])
      BY <2>1, <2>3, ReachUnfold
    <3> QED
      BY <2>1, <2>3, <3>1
  <2>4. CASE z = y
    BY <1>2, <2>2, <2>4, ReachClosed
  <2> QED
    BY <2>2, <2>3, <2>4
<1>4. a # NULL => a \in Nodes \cap T
  BY <1>1
<1>5. \A z \in Nodes \cap T : f[z] \in (Nodes \cap T) \cup {NULL}
  BY <1>1, <1>3
<1> HIDE DEF T
<1>6. Reach(f, a) \subseteq T
  BY <1>4, <1>5, ReachLeast
<1> QED
  BY <1>6 DEF T

(* A node that no link leads to is put behind a place of a chain. *)
PutBehind(f, n, q) == [f EXCEPT ![n] = f[q], ![q] = n]

LEMMA Inserted ==
  ASSUME NEW f \in Links, Acyclic(f), NEW n \in Nodes,
         f[n] = NULL, \A p \in Places : f[p] # n,
         NEW q \in {head_} \cup Reach(f, f[head_]),
         NEW g, g = PutBehind(f, n, q)
  PROVE  /\ g \in Links /\ Acyclic(g) /\ n # q
         /\ g[q] = n /\ g[n] = f[q] /\ \A p \in Places \ {n, q} : g[p] = f[p]
         /\ Reach(g, g[head_]) = Reach(f, f[head_]) \cup {n} /\ n \notin Reach(f, f[head_])
<1> USE PlacesDiffer
<1>1. f[head_] \in Nodes \cup {NULL} /\ f[q] \in Nodes \cup {NULL} /\ q \in Places
  BY ReachClosed DEF Links
<1>2. /\ Reach(f, f[head_]) \subseteq Nodes /\ Closed(f, Reach(f, f[head_]))
      /\ f[head_] # NULL => f[head_] \in Reach(f, f[head_])
  BY <1>1, ReachClosed
<1>3. n \notin Reach(f, f[head_])
  <2> DEFINE T == Nodes \ {n}
  <2>1. f[head_] # NULL => f[head_] \in Nodes \cap T
    BY <1>1
  <2>2. \A p \in Nodes \cap T : f[p] \in (Nodes \cap T) \cup {NULL}
    BY DEF Links
  <2> HIDE DEF T
  <2>3. Reach(f, f[head_]) \subseteq T
    BY <2>1, <2>2, ReachLeast
  <2> QED
    BY <2>3 DEF T
<1>4. n # q /\ n # head_
  BY <1>3
<1>5. /\ g \in Links /\ g[q] = n /\ g[n] = f[q] /\ \A p \in Places \ {n, q} : g[p] = f[p]
  BY <1>1, <1>4 DEF Links, PutBehind
<1>6. Acyclic(g)
  <2> SUFFICES ASSUME NEW S \in SUBSET Places, S # {}, \A p \in S : g[p] \in S PROVE FALSE
    BY DEF Acyclic
  <2> DEFINE T == S \ {n}
  <2>1. q \in S => n \in S /\ f[q] \in S
    BY <1>5
  <2>2. \A p \in T : f[p] \in S
    BY <1>4, <1>5, <2>1
  <2>3. \A p \in T : f[p] \in T
    BY <2>2
  <2>4. T # {}
    <3> SUFFICES ASSUME S = {n} PROVE FALSE
      OBVIOUS
    <3>1. g[n] = n
      OBVIOUS
    <3> QED
      BY <1>1, <1>5, <3>1
  <2>5. T \in SUBSET Places
    OBVIOUS
  <2> HIDE DEF T
  <2> QED
    BY <2>3, <2>4, <2>5 DEF Acyclic
<1>7. Reach(g, g[head_]) \subseteq Reach(f, f[head_]) \cup {n}
  <2> DEFINE T == Reach(f, f[head_]) \cup {n}
  <2>1. g[head_] # NULL => g[head_] \in Nodes \cap T
    BY <1>1, <1>2, <1>4, <1>5
  <2>2. f[q] \in T \cup {NULL}
    BY <1>1, <1>2 DEF Closed
  <2>3. \A p \in Nodes \cap T : g[p] \in (Nodes \cap T) \cup {NULL}
    BY <1>1, <1>2, <1>5, <2>2 DEF Closed
  <2> DEFINE a == g[head_]
  <2>4. a # NULL => a \in Nodes \cap T
    BY <2>1
  <2> HIDE DEF T, a
  <2>5. Reach(g, a) \subseteq T
    BY <2>3, <2>4, ReachLeast
  <2> QED
    BY <2>5 DEF T, a
<1>8. Reach(f, f[head_]) \cup {n} \subseteq Reach(g, g[head_])
  <2> DEFINE R == Reach(g, g[head_])
             T == R \ {n}
  <2>1. g[head_] \in Nodes \cup {NULL}
    BY <1>5 DEF Links
  <2>2. R \subseteq Nodes /\ Closed(g, R) /\ (g[head_] # NULL => g[head_] \in R)
    BY <1>5, <2>1, ReachClosed
  <2>3. n \in R => (f[q] # NULL => f[q] \in R)
    BY <1>5, <2>2 DEF Closed
  <2>4. q = head_ => n \in R
    BY <1>5, <2>2
  <2>5. f[head_] # NULL => f[head_] \in Nodes \cap T
    <3>1. CASE q = head_
      BY <1>1, <2>2, <2>3, <2>4, <3>1
    <3>2. CASE q # head_
      BY <1>1, <1>4, <1>5, <2>2, <3>2
    <3> QED
      BY <3>1, <3>2
  <2>6. \A p \in Nodes \cap T : f[p] \in (Nodes \cap T) \cup {NULL}
    <3> SUFFICES ASSUME NEW p \in Nodes \cap T, f[p] # NULL PROVE f[p] \in Nodes \cap T
      OBVIOUS
    <3>1. f[p] \in Nodes /\ f[p] # n
      BY DEF Links
    <3>2. CASE p = q
      <4>1. n \in R
        BY <1>5, <2>2, <3>2 DEF Closed
      <4> QED
        BY <2>3, <3>1, <3>2, <4>1
    <3>3. CASE p # q
      <4>1. g[p] = f[p]
        BY <1>5, <3>3
      <4> QED
        BY <2>2, <3>1, <4>1 DEF Closed
    <3> QED
      BY <3>2, <3>3
  <2>7. Reach(f, f[head_]) \subseteq T
    <3> HIDE DEF T
    <3> QED
      BY <2>5, <2>6, ReachLeast
  <2>8. n \in R
    <3>1. CASE q = head_
      BY <2>4, <3>1
    <3>2. CASE q # head_
      BY <1>5, <2>2, <2>7, <3>2 DEF Closed
    <3> QED
      BY <3>1, <3>2
  <2> QED
    BY <2>7, <2>8
<1> QED
  BY <1>3, <1>4, <1>5, <1>6, <1>7, <1>8

(* A chain is cut behind one of its nodes. *)
LEMMA Cut ==
  ASSUME NEW f \in Links, Acyclic(f), NEW a \in Nodes \cup {NULL}, NEW q \in Reach(f, a),
         NEW g \in Links, g[q] = NULL, \A p \in Nodes \ {q} : g[p] = f[p]
  PROVE  Reach(g, a) = Reach(f, a) \ Reach(f, f[q])
<1> USE PlacesDiffer
<1>1. /\ Reach(f, a) \subseteq Nodes /\ Closed(f, Reach(f, a))
      /\ a # NULL /\ a \in Reach(f, a)
  BY ReachClosed, ReachNothing
<1>2. q \in Nodes /\ f[q] \in Nodes \cup {NULL} /\ q \notin Reach(f, f[q])
  BY <1>1, ReachFurther, NoReturn
<1> DEFINE rest == Reach(f, f[q])
<1>3. rest \subseteq Nodes /\ Closed(f, rest) /\ (f[q] # NULL => f[q] \in rest)
  BY <1>2, ReachClosed
<1>4. \A x \in rest : Reach(f, x) \subseteq rest
  BY <1>2, ReachFurther
<1>5. Reach(g, a) \subseteq Reach(f, a) \ rest
  <2> DEFINE T == Reach(f, a) \ rest
  <2>1. a \in Nodes \cap T
    BY <1>1, <1>2, <1>4
  <2>2. \A x \in Nodes \cap T : g[x] \in (Nodes \cap T) \cup {NULL}
    <3> SUFFICES ASSUME NEW x \in Nodes \cap T, g[x] # NULL PROVE g[x] \in Nodes \cap T
      OBVIOUS
    <3>1. x # q /\ g[x] = f[x] /\ f[x] \in Reach(f, a)
      BY <1>1 DEF Closed
    <3>2. Reach(f, q) = {q} \cup rest /\ Reach(f, x) = {x} \cup Reach(f, f[x])
      BY <1>2, ReachUnfold
    <3>3. q \in Reach(f, x) \/ x \in Reach(f, q)
      BY ReachTotal
    <3>4. q \in Reach(f, f[x])
      BY <3>1, <3>2, <3>3
    <3> QED
      BY <1>1, <1>2, <1>4, <3>1, <3>4
  <2> HIDE DEF T
  <2>3. Reach(g, a) \subseteq T
    BY <2>1, <2>2, ReachLeast
  <2> QED
    BY <2>3 DEF T
<1>6. Reach(f, a) \subseteq Reach(g, a) \cup rest
  <2> DEFINE T == Reach(g, a) \cup rest
  <2>1. Reach(g, a) \subseteq Nodes /\ Closed(g, Reach(g, a)) /\ a \in Reach(g, a)
    BY <1>1, ReachClosed
  <2>2. \A x \in Nodes \cap T : f[x] \in (Nodes \cap T) \cup {NULL}
    <3> SUFFICES ASSUME NEW x \in Nodes \cap T, f[x] # NULL PROVE f[x] \in Nodes \cap T
      OBVIOUS
    <3>1. CASE x \in rest \/ x = q
      BY <1>3, <3>1 DEF Closed
    <3>2. CASE x \in Reach(g, a) /\ x # q
      BY <2>1, <3>2 DEF Closed
    <3> QED
      BY <3>1, <3>2
  <2>3. a \in Nodes \cap T
    BY <2>1
  <2> HIDE DEF T
  <2>4. Reach(f, a) \subseteq T
    BY <2>2, <2>3, ReachLeast
  <2> QED
    BY <2>4 DEF T
<1> QED
  BY <1>5, <1>6

-----------------------------------------------------------------------------
(* Where the loop of GetPrevNode ends. *)

Walks(w, k) == w = [p \in Places |-> IF Before(next[p], k) THEN w[next[p]] ELSE p]

LEMMA PrevNodeWalks ==
  \A k : GetPrevNode(k) = IF cur_depth_ = 0 THEN head_ ELSE (CHOOSE w : Walks(w, k))[head_]
  BY DEF GetPrevNode, Walks

LEMMA WalkExists ==
  ASSUME next \in Links, NEW k
  PROVE  \E w : Walks(w, k)
<1> USE PlacesDiffer
<1> DEFINE passes == [p \in Places |-> IF Before(next[p], k) THEN next[p] ELSE NULL]
           ends == [p \in Places |-> {q \in {p} \cup Reach(passes, passes[p]) : passes[q] = NULL}]
           w == [p \in Places |-> CHOOSE q : q \in ends[p]]
<1>1. \A p \in Places : next[p] \in Nodes \cup {NULL} /\ (Before(next[p], k) => next[p] \in Nodes)
  BY DEF Links, Before
<1>2. passes \in Links
  BY <1>1 DEF Links
<1>3. ASSUME NEW p \in Places, Before(next[p], k) PROVE w[p] = w[next[p]]
  <2>1. next[p] \in Nodes /\ passes[p] = next[p] /\ passes[p] # NULL
    BY <1>1, <1>3
  <2> DEFINE b == next[p]
  <2>2. Reach(passes, b) = {b} \cup Reach(passes, passes[b])
    <3> HIDE DEF passes
    <3> QED
      BY <1>2, <2>1, ReachUnfold
  <2>3. ends[p] = ends[b]
    <3> HIDE DEF passes
    <3> QED
      BY <2>1, <2>2
  <2> HIDE DEF ends, b
  <2>4. b \in Places
    BY <2>1 DEF b
  <2> QED
    BY <2>3, <2>4 DEF b
<1>4. ASSUME NEW p \in Places, ~Before(next[p], k) PROVE w[p] = p
  <2>1. passes[p] = NULL
    BY <1>4
  <2>2. ends[p] = {p}
    <3> HIDE DEF passes
    <3> QED
      BY <2>1, ReachNothing
  <2> HIDE DEF ends
  <2> QED
    BY <2>2
<1>5. w = [p \in Places |-> IF Before(next[p], k) THEN w[next[p]] ELSE p]
  <2> HIDE DEF ends
  <2> DEFINE v == [p \in Places |-> IF Before(next[p], k) THEN w[next[p]] ELSE p]
  <2>1. \A p \in Places : w[p] = v[p]
    BY <1>3, <1>4
  <2> QED
    BY <2>1
<1> HIDE DEF w
<1> QED
  BY <1>5 DEF Walks

(* It ends at the head or a listed node with a key below k, in front of    *)
(* the end or of a key that is not below k.                                *)
LEMMA PrevNodeFound ==
  ASSUME next \in Links, Acyclic(next), NEW k
  PROVE  LET q == GetPrevNode(k)
         IN  /\ q \in {head_} \cup Listed /\ q \in Places
             /\ cur_depth_ # 0 => ~Before(next[q], k)
             /\ q = head_ \/ key[q] < k
<1> USE PlacesDiffer
<1> DEFINE w == CHOOSE w : Walks(w, k)
           Good(p) == /\ w[p] \in {p} \cup Reach(next, next[p])
                      /\ ~Before(next[w[p]], k)
                      /\ w[p] = p \/ key[w[p]] < k
<1>1. Walks(w, k)
  BY WalkExists
<1> HIDE DEF w
<1>2. /\ \A p \in Places : w[p] = IF Before(next[p], k) THEN w[next[p]] ELSE p
      /\ \A p \in Places : Before(next[p], k) => next[p] \in Nodes /\ key[next[p]] < k
  BY <1>1 DEF Walks, Links, Before
<1>3. \A p \in Places : Good(p)
  <2> DEFINE S == {p \in Places : ~Good(p)}
  <2> SUFFICES S = {}
    OBVIOUS
  <2>1. ASSUME NEW p \in S PROVE next[p] \in S
    <3>1. Before(next[p], k)
      BY <1>2, <2>1
    <3>2. next[p] \in Nodes /\ w[p] = w[next[p]] /\ key[next[p]] < k
      BY <1>2, <2>1, <3>1
    <3>3. Reach(next, next[p]) = {next[p]} \cup Reach(next, next[next[p]])
      BY <3>2, ReachUnfold
    <3>4. Good(next[p]) => Good(p)
      BY <3>2, <3>3
    <3> QED
      BY <2>1, <3>2, <3>4
  <2> HIDE DEF Good
  <2>2. S \in SUBSET Places
    OBVIOUS
  <2> HIDE DEF S
  <2> QED
    BY <2>1, <2>2 DEF Acyclic
<1>4. Good(head_)
  BY <1>3
<1>5. Listed = Reach(next, next[head_]) /\ Listed \subseteq Nodes
  BY ChainIsReach DEF Listed, Reach
<1>6. GetPrevNode(k) = IF cur_depth_ = 0 THEN head_ ELSE w[head_]
  BY PrevNodeWalks DEF w
<1> QED
  BY <1>4, <1>5, <1>6

-----------------------------------------------------------------------------
(* The steps on the links, for any node and any place found. *)

(* The nodes that were allocated. *)
Allocated == 1 .. Len(key)

InList == Reach(next, next[head_])

(* Links lead to allocated nodes, from these and from the head, and in no  *)
(* circle.                                                                 *)
ListInv ==
  /\ next \in Links /\ Acyclic(next)
  /\ key \in Seq(Keys) /\ Len(key) <= MaxNodes
  /\ \A p \in Places : next[p] \in Allocated \cup {NULL}
  /\ \A n \in Nodes \ Allocated : next[n] = NULL
  /\ cur_depth_ \in {0, 1, UintRange - 1}

LEMMA ListFacts ==
  ASSUME ListInv
  PROVE  /\ Len(key) \in Nat /\ Allocated \subseteq Nodes
         /\ next[head_] \in Nodes \cup {NULL}
         /\ \A n \in Allocated : key[n] \in Keys /\ key[n] \in Nat
         /\ InList \subseteq Allocated /\ Closed(next, InList)
         /\ next[head_] # NULL => next[head_] \in InList
         /\ next[head_] = NULL => InList = {}
<1>1. Len(key) \in Nat /\ Allocated \subseteq Nodes
  BY LenProperties, SkipListAssumption DEF ListInv, Allocated, Nodes
<1>2. \A n \in Allocated : key[n] \in Keys /\ key[n] \in Nat
  BY ElementOfSeq, SkipListAssumption DEF ListInv, Allocated
<1>3. next[head_] \in Nodes \cup {NULL} /\ next \in Links
  BY PlacesDiffer DEF ListInv, Links
<1>4. InList \subseteq Allocated
  <2> DEFINE a == next[head_]
             T == Allocated
  <2>1. a # NULL => a \in Nodes \cap T
    BY <1>1, PlacesDiffer DEF ListInv
  <2>2. \A p \in Nodes \cap T : next[p] \in (Nodes \cap T) \cup {NULL}
    BY <1>1, PlacesDiffer DEF ListInv
  <2> HIDE DEF a, T
  <2>3. Reach(next, a) \subseteq T
    BY <2>1, <2>2, ReachLeast
  <2> QED
    BY <2>3 DEF InList, T, a
<1>5. Closed(next, InList) /\ (next[head_] # NULL => next[head_] \in InList)
  BY <1>3, ReachClosed DEF InList
<1> QED
  BY <1>1, <1>2, <1>3, <1>4, <1>5, ReachNothing DEF InList

LEMMA PrevNodeInList ==
  ASSUME ListInv, NEW k
  PROVE  LET q == GetPrevNode(k)
         IN  /\ q \in {head_} \cup InList /\ q \in Places
             /\ cur_depth_ # 0 => ~Before(next[q], k)
             /\ q = head_ \/ key[q] < k
  BY PrevNodeFound, ChainIsReach DEF ListInv, InList, Listed

(* A chain that shares no node with the list keeps its nodes when only     *)
(* links of the list and of fresh nodes change.                            *)
LEMMA OtherChainsStay ==
  ASSUME ListInv, NEW g \in Links, NEW a \in Allocated \cup {NULL},
         \A p \in Allocated : p \in InList \/ g[p] = next[p],
         Reach(next, a) \cap InList = {}
  PROVE  Reach(g, a) = Reach(next, a) /\ Reach(next, a) \subseteq Allocated
<1>1. a \in Nodes \cup {NULL} /\ next \in Links /\ Allocated \subseteq Nodes
  BY ListFacts DEF ListInv
<1>2. Reach(next, a) \subseteq Allocated
  <2> DEFINE T == Allocated
  <2>1. a # NULL => a \in Nodes \cap T
    BY <1>1
  <2>2. \A p \in Nodes \cap T : next[p] \in (Nodes \cap T) \cup {NULL}
    BY <1>1, PlacesDiffer DEF ListInv
  <2> HIDE DEF T
  <2>3. Reach(next, a) \subseteq T
    BY <2>1, <2>2, ReachLeast
  <2> QED
    BY <2>3 DEF T
<1>3. \A p \in Reach(next, a) : g[p] = next[p]
  BY <1>2
<1> QED
  BY <1>1, <1>2, <1>3, ReachSame

(* AddNode puts its node behind the place that GetPrevNode found. *)
LEMMA Linked ==
  ASSUME ListInv, NEW k \in Keys, Len(key) < MaxNodes, Link(Len(key) + 1, k)
  PROVE  LET n == Len(key) + 1
             q == GetPrevNode(k)
         IN  /\ ListInv'
             /\ n \in Nodes \ Allocated /\ Len(key') = n /\ Allocated' = Allocated \cup {n}
             /\ key'[n] = k /\ \A m \in Allocated : key'[m] = key[m]
             /\ InList' = InList \cup {n} /\ n \notin InList
             /\ next'[q] = n /\ next'[n] = next[q] /\ n # q
             /\ \A p \in Places \ {n, q} : next'[p] = next[p]
             /\ cur_depth_ \in {0, 1} /\ cur_depth_' = 1
<1> DEFINE n == Len(key) + 1
           q == GetPrevNode(k)
<1>1. /\ key' = Append(key, k)
      /\ next' = [next EXCEPT ![n] = next[q], ![q] = n]
      /\ cur_depth_ < max_depth_ + 1
      /\ cur_depth_' = IF cur_depth_ = 0 THEN 1 ELSE cur_depth_
  BY DEF Link, InArray
<1>2. n \in Nodes \ Allocated /\ n \in Nat
  BY ListFacts, SkipListAssumption DEF Nodes, Allocated
<1>3. /\ Len(key') = n /\ key' \in Seq(Keys) /\ Allocated' = Allocated \cup {n}
      /\ key'[n] = k /\ \A m \in Allocated : key'[m] = key[m]
  <2>1. /\ key' \in Seq(Keys) /\ Len(key') = n /\ key'[n] = k
        /\ \A m \in 1 .. Len(key) : key'[m] = key[m]
    BY <1>1, AppendProperties DEF ListInv
  <2>2. Len(key) \in Nat
    BY ListFacts
  <2>3. 1 .. n = (1 .. Len(key)) \cup {n}
    BY <2>2
  <2> HIDE DEF n
  <2> QED
    BY <2>1, <2>3 DEF Allocated
<1>4. q \in {head_} \cup InList /\ q \in Places
  BY PrevNodeInList
<1>5. next[n] = NULL /\ \A p \in Places : next[p] # n
  BY <1>2, PlacesDiffer DEF ListInv
<1>6. /\ next' \in Links /\ Acyclic(next') /\ n # q
      /\ next'[q] = n /\ next'[n] = next[q] /\ \A p \in Places \ {n, q} : next'[p] = next[p]
      /\ InList' = InList \cup {n} /\ n \notin InList
  <2> HIDE DEF n, q
  <2> DEFINE g == next'
  <2>1. g = PutBehind(next, n, q)
    BY <1>1 DEF PutBehind
  <2> HIDE DEF g
  <2>2. /\ n \in Nodes /\ next \in Links /\ Acyclic(next)
        /\ q \in {head_} \cup Reach(next, next[head_])
    BY <1>2, <1>4 DEF ListInv, InList
  <2>3. /\ g \in Links /\ Acyclic(g) /\ n # q
        /\ g[q] = n /\ g[n] = next[q] /\ \A p \in Places \ {n, q} : g[p] = next[p]
        /\ Reach(g, g[head_]) = Reach(next, next[head_]) \cup {n}
        /\ n \notin Reach(next, next[head_])
    BY <1>5, <2>1, <2>2, Inserted
  <2> QED
    BY <2>3 DEF g, InList
<1>7. cur_depth_ \in {0, 1} /\ cur_depth_' = 1
  BY <1>1, SkipListAssumption DEF ListInv
<1>8. ListInv'
  <2>1. Len(key') <= MaxNodes
    BY <1>3, ListFacts, SkipListAssumption
  <2>2. \A p \in Places : next'[p] \in Allocated' \cup {NULL}
    <3> HIDE DEF n, q
    <3> QED
      BY <1>2, <1>3, <1>4, <1>6 DEF ListInv
  <2>3. \A m \in Nodes \ Allocated' : next'[m] = NULL
    <3>1. q \in Allocated \/ q = head_
      BY <1>4, ListFacts
    <3> HIDE DEF n, q
    <3> QED
      BY <1>3, <1>6, <3>1, PlacesDiffer DEF ListInv
  <2> QED
    BY <1>3, <1>6, <1>7, <2>1, <2>2, <2>3 DEF ListInv
<1> QED
  BY <1>2, <1>3, <1>6, <1>7, <1>8

(* RunTimerTask cuts the list in two, or takes all of it. *)
LEMMA CutInTwo ==
  ASSUME ListInv, NEW q \in {head_} \cup InList, NEW g, g = CutBehind(q)
  PROVE  /\ g \in Links /\ Acyclic(g)
         /\ \A p \in Places : g[p] \in Allocated \cup {NULL}
         /\ \A p \in Nodes \ {q} : g[p] = next[p]
         /\ q = head_ => /\ g[head_] = NULL /\ Reach(g, g[head_]) = {}
                         /\ Reach(g, next[head_]) = InList
         /\ q # head_ => /\ g[head_] = next[q]
                         /\ Reach(g, g[head_]) = Reach(next, next[q])
                         /\ Reach(next, next[q]) \subseteq InList
                         /\ Reach(g, next[head_]) = InList \ Reach(next, next[q])
<1> USE PlacesDiffer
<1>1. /\ next[head_] \in Nodes \cup {NULL} /\ InList \subseteq Nodes /\ q \in Places
      /\ next \in Links /\ Acyclic(next)
  BY ListFacts DEF ListInv
<1>2. /\ g \in Links /\ g[q] = NULL /\ \A p \in Nodes \ {q} : g[p] = next[p]
      /\ q # head_ => g[head_] = next[q]
      /\ \A p \in Places : g[p] \in Allocated \cup {NULL}
  <2>1. g = [next EXCEPT ![head_] = next[q], ![q] = NULL]
    BY DEF CutBehind
  <2>2. next[q] \in Nodes \cup {NULL}
    BY <1>1 DEF Links
  <2> QED
    BY <1>1, <2>1, <2>2 DEF Links, ListInv
<1>3. Acyclic(g)
  <2> SUFFICES ASSUME NEW S \in SUBSET Places, S # {}, \A p \in S : g[p] \in S PROVE FALSE
    BY DEF Acyclic
  <2> DEFINE T == S \ {head_}
  <2>1. q \notin S
    BY <1>2
  <2>2. \A p \in T : next[p] \in S /\ next[p] # head_
    BY <1>1, <1>2, <2>1 DEF Links
  <2>3. T # {} /\ T \in SUBSET Places
    <3>1. \A p \in S : g[p] # head_
      BY <1>2 DEF Links
    <3> QED
      BY <3>1
  <2>4. \A p \in T : next[p] \in T
    BY <2>2
  <2> HIDE DEF T
  <2> QED
    BY <1>1, <2>3, <2>4 DEF Acyclic
<1>4. ASSUME q = head_
      PROVE  /\ g[head_] = NULL /\ Reach(g, g[head_]) = {}
             /\ Reach(g, next[head_]) = InList
  <2>1. \A p \in Reach(next, next[head_]) : g[p] = next[p]
    BY <1>1, <1>2, <1>4 DEF InList
  <2>2. Reach(g, next[head_]) = InList
    BY <1>1, <1>2, <2>1, ReachSame DEF InList
  <2> QED
    BY <1>2, <1>4, <2>2, ReachNothing
<1>5. ASSUME q # head_
      PROVE  /\ g[head_] = next[q]
             /\ Reach(g, g[head_]) = Reach(next, next[q])
             /\ Reach(next, next[q]) \subseteq InList
             /\ Reach(g, next[head_]) = InList \ Reach(next, next[q])
  <2>1. q \in InList /\ q \in Nodes
    BY <1>1, <1>5
  <2>2. Reach(next, next[q]) \subseteq InList /\ next[q] \in Nodes \cup {NULL}
    BY <1>1, <2>1, ReachFurther DEF InList
  <2>3. q \notin Reach(next, next[q])
    BY <1>1, <2>1, NoReturn
  <2>4. \A p \in Reach(next, next[q]) : g[p] = next[p]
    BY <1>1, <1>2, <2>2, <2>3
  <2>5. Reach(g, next[q]) = Reach(next, next[q])
    BY <1>1, <1>2, <2>2, <2>4, ReachSame
  <2>6. Reach(g, next[head_]) = Reach(next, next[head_]) \ Reach(next, next[q])
    BY <1>1, <1>2, <2>1, Cut DEF InList
  <2> QED
    BY <1>2, <1>5, <2>2, <2>5, <2>6 DEF InList
<1> QED
  BY <1>2, <1>3, <1>4, <1>5

-----------------------------------------------------------------------------
(* The timer manager. *)

Chain(t) == Reach(next, cur[t])

(* What each variable can be, and how the threads' places go with the      *)
(* chains they hold.                                                       *)
ThreadsInv ==
  /\ num_ = Len(key) /\ clock \in Keys /\ now \in [Runners -> Keys]
  /\ status_ \in [Nodes -> {"none", "PENDING", "RUNNING", "STOP"}]
  /\ pc \in [Runners -> {"idle", "detaching", "walking", "callback"}]
  /\ cur \in [Runners -> Allocated \cup {NULL}]
  /\ freed \subseteq Allocated
  /\ \A n \in Nodes : status_[n] # "none" <=> n \in Allocated
  /\ \A t \in Runners : cur[t] = NULL <=> pc[t] \in {"idle", "detaching"}

(* Each node is in one place. *)
Whole == \A n \in Allocated : n \in InList \/ n \in freed \/ \E t \in Runners : n \in Chain(t)

Apart ==
  /\ InList \cap freed = {}
  /\ \A t \in Runners : Chain(t) \cap InList = {} /\ Chain(t) \cap freed = {}
  /\ \A t, u \in Runners : t # u => Chain(t) \cap Chain(u) = {}

(* A list with nodes has not given up its level, or has levels to spare.   *)
Usable == next[head_] # NULL => cur_depth_ \in {0, 1}

TInv == ListInv /\ ThreadsInv /\ Whole /\ Apart /\ Usable

LEMMA TInvImplies == TInv => TypeOK /\ OneOwner /\ WaitingListUsable
<1> SUFFICES ASSUME TInv PROVE TypeOK /\ OneOwner /\ WaitingListUsable
  OBVIOUS
<1>1. /\ Len(key) \in Nat /\ Allocated \subseteq Nodes
      /\ \A n \in Allocated : key[n] \in Keys
      /\ next[head_] = NULL => InList = {}
  BY ListFacts DEF TInv
<1>2. TypeOK
  <2>1. \A n \in DOMAIN key : key[n] \in Keys
    BY ElementOfSeq, LenProperties DEF TInv, ListInv
  <2>2. num_ \in 0 .. MaxNodes /\ cur_depth_ \in 0 .. UintRange - 1
    BY <1>1, SkipListAssumption DEF TInv, ListInv, ThreadsInv
  <2>3. cur \in [Runners -> Nodes \cup {NULL}] /\ freed \subseteq Nodes
    BY <1>1 DEF TInv, ThreadsInv
  <2> QED
    BY <2>1, <2>2, <2>3 DEF TypeOK, TInv, ListInv, ThreadsInv, Links
<1>3. Listed = InList /\ \A t : ChainFrom(cur[t]) = Chain(t)
  BY ChainIsReach DEF Listed, InList, Chain
<1>4. WaitingListUsable
  BY <1>1, <1>3 DEF TInv, Usable, WaitingListUsable
<1>5. OneOwner
  <2> SUFFICES ASSUME NEW n \in Nodes, status_[n] # "none" PROVE Cardinality(Owners(n)) = 1
    BY DEF OneOwner
  <2>1. n \in Allocated
    BY DEF TInv, ThreadsInv
  <2>2. Owners(n) = {t \in Runners : n \in Chain(t)}
                      \cup {o \in {head_} : n \in InList} \cup {o \in {NULL} : n \in freed}
    BY <1>3 DEF Owners
  <2>3. head_ \notin Runners /\ NULL \notin Runners /\ head_ # NULL
    BY TimerAssumption, PlacesDiffer
  <2>4. \E o : Owners(n) = {o}
    <3>1. CASE n \in InList
      <4>1. Owners(n) = {head_}
        BY <2>2, <3>1 DEF TInv, Apart
      <4> QED
        BY <4>1
    <3>2. CASE n \in freed
      <4>1. Owners(n) = {NULL}
        BY <2>2, <3>2 DEF TInv, Apart
      <4> QED
        BY <4>1
    <3>3. ASSUME NEW t \in Runners, n \in Chain(t) PROVE \E o : Owners(n) = {o}
      <4>1. n \notin InList /\ n \notin freed /\ \A u \in Runners : n \in Chain(u) => u = t
        BY <3>3 DEF TInv, Apart
      <4>2. Owners(n) = {t}
        BY <2>2, <3>3, <4>1
      <4> QED
        BY <4>2
    <3> QED
      BY <2>1, <3>1, <3>2, <3>3 DEF TInv, Whole
  <2> QED
    BY <2>4, FS_Singleton
<1> QED
  BY <1>2, <1>4, <1>5

LEMMA InitTInv == Init => TInv
<1> SUFFICES ASSUME Init PROVE TInv
  OBVIOUS
<1> USE PlacesDiffer
<1>1. /\ next = [p \in Places |-> NULL] /\ key = << >> /\ num_ = 0 /\ cur_depth_ = 1
      /\ cur = [t \in Runners |-> NULL]
  BY DEF Init, ListInit
<1>2. Len(key) = 0 /\ key \in Seq(Keys) /\ Allocated = {}
  BY <1>1, EmptySeq DEF Allocated
<1>3. next \in Links /\ Acyclic(next)
  BY <1>1 DEF Links, Acyclic
<1>4. ListInv
  BY <1>1, <1>2, <1>3, SkipListAssumption DEF ListInv
<1>5. 0 \in Keys
  BY TimerAssumption
<1>6. ThreadsInv
  BY <1>1, <1>2, <1>5 DEF Init, ThreadsInv
<1>7. InList = {} /\ \A t \in Runners : Chain(t) = {}
  BY <1>1, ReachNothing DEF InList, Chain
<1>8. Whole /\ Apart
  BY <1>2, <1>7 DEF Whole, Apart, Init
<1>9. Usable
  BY <1>1 DEF Usable
<1> QED
  BY <1>4, <1>6, <1>8, <1>9 DEF TInv

(* Steps that leave the list and the chains alone. *)
LEMMA ChainsUntouched ==
  ASSUME TInv, UNCHANGED <<next, key, num_, cur_depth_, cur, freed>>,
         clock' \in Keys, now' \in [Runners -> Keys],
         status_' \in [Nodes -> {"none", "PENDING", "RUNNING", "STOP"}],
         pc' \in [Runners -> {"idle", "detaching", "walking", "callback"}],
         \A n \in Nodes : status_'[n] # "none" <=> n \in Allocated,
         \A t \in Runners : cur[t] = NULL <=> pc'[t] \in {"idle", "detaching"}
  PROVE  TInv'
<1>1. ListInv' /\ Allocated' = Allocated
  BY DEF TInv, ListInv, Allocated
<1>2. ThreadsInv'
  BY <1>1 DEF TInv, ThreadsInv
<1>3. InList' = InList /\ \A t : Chain(t)' = Chain(t)
  BY DEF InList, Chain
<1>4. Whole' /\ Apart' /\ Usable'
  BY <1>1, <1>3 DEF TInv, Whole, Apart, Usable
<1> QED
  BY <1>1, <1>2, <1>4 DEF TInv

LEMMA QuietStepKeepsInvariant ==
  ASSUME TInv, \/ Tick \/ UNCHANGED vars
               \/ \E t \in Runners : GetCurrentTime(t) \/ DetachCrash(t) \/ RunTask(t)
  PROVE  TInv'
<1>1. CASE Tick
  <2>1. clock' \in Keys
    <3>1. clock \in Nat /\ Second \in Nat \ {0} /\ Keys = 0 .. Second - 1
      BY TimerAssumption DEF TInv, ThreadsInv
    <3> QED
      BY <1>1, <3>1 DEF Tick
  <2> QED
    BY <1>1, <2>1, ChainsUntouched DEF Tick, TInv, ThreadsInv, listVars, runnerVars
<1>2. CASE UNCHANGED vars
  BY <1>2, ChainsUntouched DEF vars, TInv, ThreadsInv, listVars, runnerVars
<1>3. ASSUME NEW t \in Runners, GetCurrentTime(t) PROVE TInv'
  <2>1. /\ now' = [now EXCEPT ![t] = clock] /\ pc' = [pc EXCEPT ![t] = "detaching"] /\ pc[t] = "idle"
        /\ UNCHANGED <<next, key, num_, cur_depth_, cur, freed, clock, status_>>
    BY <1>3 DEF GetCurrentTime, listVars
  <2>2. now' \in [Runners -> Keys]
    BY <2>1 DEF TInv, ThreadsInv
  <2>3. /\ pc' \in [Runners -> {"idle", "detaching", "walking", "callback"}]
        /\ \A u \in Runners : cur[u] = NULL <=> pc'[u] \in {"idle", "detaching"}
    BY <2>1 DEF TInv, ThreadsInv
  <2> QED
    BY <2>1, <2>2, <2>3, ChainsUntouched DEF TInv, ThreadsInv
<1>4. ASSUME NEW t \in Runners, DetachCrash(t) PROVE TInv'
  BY <1>4, ChainsUntouched DEF DetachCrash, TInv, ThreadsInv, runnerVars
<1>5. ASSUME NEW t \in Runners, RunTask(t) PROVE TInv'
  <2>1. /\ status_' = [status_ EXCEPT ![cur[t]] = "RUNNING"] /\ pc[t] = "walking"
        /\ pc' = [pc EXCEPT ![t] = "callback"]
        /\ UNCHANGED <<next, key, num_, cur_depth_, cur, freed, clock, now>>
    BY <1>5 DEF RunTask, listVars
  <2>2. cur[t] \in Allocated /\ cur[t] \in Nodes
    BY <2>1, ListFacts DEF TInv, ThreadsInv
  <2>3. /\ status_' \in [Nodes -> {"none", "PENDING", "RUNNING", "STOP"}]
        /\ \A n \in Nodes : status_'[n] # "none" <=> n \in Allocated
    BY <2>1, <2>2 DEF TInv, ThreadsInv
  <2>4. /\ pc' \in [Runners -> {"idle", "detaching", "walking", "callback"}]
        /\ \A u \in Runners : cur[u] = NULL <=> pc'[u] \in {"idle", "detaching"}
    BY <2>1 DEF TInv, ThreadsInv
  <2> QED
    BY <2>1, <2>3, <2>4, ChainsUntouched DEF TInv, ThreadsInv
<1> QED
  BY <1>1, <1>2, <1>3, <1>4, <1>5

LEMMA AddTimerKeepsInvariant ==
  ASSUME TInv, NEW k \in Keys, AddTimer(k)
  PROVE  TInv'
<1>1. UNCHANGED <<clock, now, cur, pc, freed>>
  BY DEF AddTimer, runnerVars
<1>2. CASE LinkCrash
  <2>1. UNCHANGED <<next, key, num_, cur_depth_, status_>>
    BY <1>2 DEF LinkCrash, AddTimer
  <2> QED
    BY <1>1, <2>1, ChainsUntouched DEF TInv, ThreadsInv
<1>3. CASE Link(Len(key) + 1, k) /\ Len(key) < MaxNodes
  <2> DEFINE n == Len(key) + 1
             q == GetPrevNode(k)
  <2>1. /\ ListInv'
        /\ n \in Nodes \ Allocated /\ Len(key') = n /\ Allocated' = Allocated \cup {n}
        /\ InList' = InList \cup {n} /\ n \notin InList
        /\ \A p \in Places \ {n, q} : next'[p] = next[p]
        /\ cur_depth_' = 1
    BY <1>3, Linked DEF TInv
  <2>2. status_' = [status_ EXCEPT ![n] = "PENDING"] /\ num_' = num_ + 1
    BY <1>3, <2>1 DEF AddTimer, Link, Alive
  <2>3. ThreadsInv'
    <3>1. cur \in [Runners -> Allocated' \cup {NULL}]
      BY <2>1 DEF TInv, ThreadsInv
    <3>2. \A m \in Nodes : status_'[m] # "none" <=> m \in Allocated'
      BY <2>1, <2>2 DEF TInv, ThreadsInv
    <3>3. status_' \in [Nodes -> {"none", "PENDING", "RUNNING", "STOP"}]
      BY <2>2 DEF TInv, ThreadsInv
    <3>4. num_' = Len(key')
      BY <2>1, <2>2 DEF TInv, ThreadsInv
    <3> HIDE DEF n, q
    <3> QED
      BY <1>1, <2>1, <3>1, <3>2, <3>3, <3>4 DEF TInv, ThreadsInv
  <2>4. \A t \in Runners : Chain(t)' = Chain(t) /\ Chain(t) \subseteq Allocated
    <3> SUFFICES ASSUME NEW t \in Runners PROVE Chain(t)' = Chain(t) /\ Chain(t) \subseteq Allocated
      OBVIOUS
    <3>1. q \in {head_} \cup InList
      BY PrevNodeInList DEF TInv
    <3>2. \A p \in Allocated : p \in InList \/ next'[p] = next[p]
      BY <2>1, <3>1, ListFacts, PlacesDiffer DEF TInv
    <3> DEFINE a == cur[t]
               g == next'
    <3>3. a \in Allocated \cup {NULL} /\ g \in Links /\ Reach(next, a) \cap InList = {}
      BY <2>1 DEF TInv, ThreadsInv, Apart, Chain, ListInv
    <3> HIDE DEF a, g, n, q
    <3>4. Reach(g, a) = Reach(next, a) /\ Reach(next, a) \subseteq Allocated
      <4>1. \A p \in Allocated : p \in InList \/ g[p] = next[p]
        BY <3>2 DEF g
      <4>2. ListInv
        BY DEF TInv
      <4> QED
        BY <3>3, <4>1, <4>2, OtherChainsStay
    <3> QED
      BY <1>1, <3>4 DEF Chain, a, g
  <2> HIDE DEF n, q
  <2>5. Whole'
    BY <1>1, <2>1, <2>4 DEF TInv, Whole
  <2>6. Apart'
    <3>1. n \notin freed /\ \A t \in Runners : n \notin Chain(t)
      BY <2>1, <2>4 DEF TInv, ThreadsInv
    <3> QED
      BY <1>1, <2>1, <2>4, <3>1 DEF TInv, Apart
  <2> QED
    BY <2>1, <2>3, <2>5, <2>6 DEF TInv, Usable
<1> QED
  BY <1>2, <1>3 DEF AddTimer, AddNode

LEMMA DetachKeepsInvariant ==
  ASSUME TInv, NEW t \in Runners, Detach(t)
  PROVE  TInv'
<1> DEFINE q == GetPrevNode(LastExpired(now[t]))
           g == next'
           rest == IF q = head_ THEN {} ELSE Reach(next, next[q])
<1>1. /\ pc[t] = "detaching" /\ g = CutBehind(q)
      /\ cur_depth_' = LevelsLeft(g[head_] = NULL)
      /\ cur' = [cur EXCEPT ![t] = next[head_]]
      /\ pc' = [pc EXCEPT ![t] = IF next[head_] = NULL THEN "idle" ELSE "walking"]
      /\ UNCHANGED <<key, num_, clock, status_, now, freed>>
  BY DEF Detach
<1>2. q \in {head_} \cup InList /\ ListInv
  BY PrevNodeInList DEF TInv
<1> HIDE DEF g
<1>3. /\ g \in Links /\ Acyclic(g)
      /\ \A p \in Places : g[p] \in Allocated \cup {NULL}
      /\ \A p \in Nodes \ {q} : g[p] = next[p]
      /\ Reach(g, g[head_]) = rest /\ rest \subseteq InList
      /\ Reach(g, next[head_]) = InList \ rest
      /\ q = head_ => g[head_] = NULL
  <2> HIDE DEF q
  <2>1. CASE q = head_
    BY <1>1, <1>2, <2>1, CutInTwo
  <2>2. CASE q # head_
    BY <1>1, <1>2, <2>2, CutInTwo
  <2> QED
    BY <2>1, <2>2
<1> HIDE DEF q, rest
<1>4. /\ Allocated' = Allocated /\ Allocated \subseteq Nodes /\ InList \subseteq Allocated
      /\ next[head_] \in Allocated \cup {NULL}
  BY <1>1, <1>2, ListFacts, PlacesDiffer DEF ListInv, Allocated
<1>5. cur_depth_' = IF g[head_] = NULL THEN UintRange - 1 ELSE 0
  BY <1>1 DEF LevelsLeft
<1>6. ListInv'
  <2>1. \A n \in Nodes \ Allocated : g[n] = NULL
    BY <1>2, <1>3, <1>4, PlacesDiffer DEF ListInv
  <2> QED
    BY <1>1, <1>3, <1>4, <1>5, <2>1 DEF TInv, ListInv, g
<1>7. ThreadsInv'
  <2>1. cur' \in [Runners -> Allocated \cup {NULL}]
    BY <1>1, <1>4 DEF TInv, ThreadsInv
  <2>2. pc' \in [Runners -> {"idle", "detaching", "walking", "callback"}]
    BY <1>1 DEF TInv, ThreadsInv
  <2>3. \A u \in Runners : cur'[u] = NULL <=> pc'[u] \in {"idle", "detaching"}
    BY <1>1 DEF TInv, ThreadsInv
  <2> QED
    BY <1>1, <1>4, <2>1, <2>2, <2>3 DEF TInv, ThreadsInv
<1>8. InList' = rest
  BY <1>3 DEF InList, g
<1>9. Chain(t) = {} /\ Chain(t)' = InList \ rest
  <2>1. cur[t] = NULL /\ cur'[t] = next[head_]
    BY <1>1 DEF TInv, ThreadsInv
  <2> QED
    BY <1>3, <2>1, ReachNothing DEF Chain, g
<1>10. \A u \in Runners \ {t} : Chain(u)' = Chain(u)
  <2> SUFFICES ASSUME NEW u \in Runners \ {t} PROVE Chain(u)' = Chain(u)
    OBVIOUS
  <2> DEFINE a == cur[u]
  <2>1. a \in Allocated \cup {NULL} /\ cur'[u] = a /\ Reach(next, a) \cap InList = {}
    BY <1>1 DEF TInv, ThreadsInv, Apart, Chain
  <2>2. \A p \in Allocated : p \in InList \/ g[p] = next[p]
    BY <1>2, <1>3, <1>4, PlacesDiffer
  <2> HIDE DEF a
  <2>3. Reach(g, a) = Reach(next, a)
    BY <1>2, <1>3, <2>1, <2>2, OtherChainsStay
  <2> QED
    BY <2>1, <2>3 DEF Chain, a, g
<1>11. Whole'
  <2>1. \A n \in InList : n \in rest \/ n \in Chain(t)'
    BY <1>9
  <2>2. \A u \in Runners : \A n \in Chain(u) : n \in Chain(u)'
    BY <1>9, <1>10
  <2> QED
    BY <1>1, <1>4, <1>8, <2>1, <2>2 DEF TInv, Whole
<1>12. Apart'
  <2>1. \A u \in Runners : Chain(u)' \cap InList' = {} /\ Chain(u)' \cap freed = {}
    BY <1>3, <1>8, <1>9, <1>10 DEF TInv, Apart
  <2>2. \A u, v \in Runners : u # v => Chain(u)' \cap Chain(v)' = {}
    BY <1>9, <1>10 DEF TInv, Apart
  <2> QED
    BY <1>1, <1>3, <1>8, <2>1, <2>2 DEF TInv, Apart
<1>13. Usable'
  BY <1>5 DEF Usable, g
<1> QED
  BY <1>6, <1>7, <1>11, <1>12, <1>13 DEF TInv

LEMMA FinishTaskKeepsInvariant ==
  ASSUME TInv, NEW t \in Runners, FinishTask(t)
  PROVE  TInv'
<1> DEFINE a == cur[t]
<1>1. /\ pc[t] = "callback"
      /\ status_' = [status_ EXCEPT ![a] = "STOP"]
      /\ freed' = freed \cup {a}
      /\ cur' = [cur EXCEPT ![t] = next[a]]
      /\ pc' = [pc EXCEPT ![t] = IF cur'[t] = NULL THEN "idle" ELSE "walking"]
      /\ UNCHANGED <<next, key, num_, cur_depth_, clock, now>>
  BY DEF FinishTask, listVars
<1>2. a \in Allocated /\ a \in Nodes /\ next \in Links /\ Acyclic(next)
      /\ next[a] \in Allocated \cup {NULL} /\ Allocated \subseteq Nodes
  BY <1>1, ListFacts, PlacesDiffer DEF TInv, ThreadsInv, ListInv
<1>3. cur'[t] = next[a] /\ \A u \in Runners \ {t} : cur'[u] = cur[u]
  BY <1>1 DEF TInv, ThreadsInv
<1>4. Chain(t) = {a} \cup Chain(t)' /\ a \notin Chain(t)' /\ \A u \in Runners \ {t} : Chain(u)' = Chain(u)
  <2>1. Reach(next, a) = {a} \cup Reach(next, next[a]) /\ a \notin Reach(next, next[a])
    BY <1>2, ReachUnfold, NoReturn
  <2> QED
    BY <1>1, <1>3, <2>1 DEF Chain
<1>5. ListInv' /\ Allocated' = Allocated /\ InList' = InList
  BY <1>1 DEF TInv, ListInv, Allocated, InList
<1>6. ThreadsInv'
  <2>1. /\ status_' \in [Nodes -> {"none", "PENDING", "RUNNING", "STOP"}]
        /\ \A n \in Nodes : status_'[n] # "none" <=> n \in Allocated
    BY <1>1, <1>2 DEF TInv, ThreadsInv
  <2>2. /\ cur' \in [Runners -> Allocated \cup {NULL}]
        /\ pc' \in [Runners -> {"idle", "detaching", "walking", "callback"}]
    BY <1>1, <1>2 DEF TInv, ThreadsInv
  <2>3. \A u \in Runners : cur'[u] = NULL <=> pc'[u] \in {"idle", "detaching"}
    BY <1>1, <1>3 DEF TInv, ThreadsInv
  <2>4. freed' \subseteq Allocated
    BY <1>1, <1>2 DEF TInv, ThreadsInv
  <2> QED
    BY <1>1, <1>5, <2>1, <2>2, <2>3, <2>4 DEF TInv, ThreadsInv
<1> HIDE DEF a
<1>7. Whole'
  BY <1>1, <1>4, <1>5 DEF TInv, Whole
<1>8. Apart'
  <2>1. InList \cap freed' = {}
    BY <1>1, <1>4 DEF TInv, Apart
  <2>2. \A u \in Runners : Chain(u)' \subseteq Chain(u) /\ a \notin Chain(u)'
    BY <1>4 DEF TInv, Apart
  <2> QED
    BY <1>1, <1>5, <2>1, <2>2 DEF TInv, Apart
<1>9. Usable'
  BY <1>1 DEF TInv, Usable
<1> QED
  BY <1>5, <1>6, <1>7, <1>8, <1>9 DEF TInv

LEMMA DestroyKeepsInvariant ==
  ASSUME TInv, Destroy
  PROVE  TInv'
<1> DEFINE g == next'
<1>1. /\ \A t \in Runners : pc[t] = "idle"
      /\ freed' = freed \cup InList
      /\ g = CutBehind(head_)
      /\ UNCHANGED <<key, num_, cur_depth_, clock, status_, pc, now, cur>>
  <2>1. next' = [next EXCEPT ![head_] = NULL] /\ Listed = InList /\ next \in Links
    BY ChainIsReach DEF Destroy, Listed, InList, TInv, ListInv
  <2>2. CutBehind(head_) = [next EXCEPT ![head_] = NULL]
    BY <2>1, PlacesDiffer DEF CutBehind, Links
  <2> QED
    BY <2>1, <2>2 DEF Destroy, runnerVars
<1> HIDE DEF g
<1>2. /\ g \in Links /\ Acyclic(g) /\ g[head_] = NULL /\ Reach(g, g[head_]) = {}
      /\ \A p \in Places : g[p] \in Allocated \cup {NULL}
      /\ \A p \in Nodes \ {head_} : g[p] = next[p]
  BY <1>1, CutInTwo DEF TInv
<1>3. Allocated' = Allocated /\ InList \subseteq Allocated
  BY <1>1, ListFacts DEF Allocated, TInv
<1>4. ListInv'
  <2>1. \A n \in Nodes \ Allocated : g[n] = NULL
    BY <1>2, PlacesDiffer DEF TInv, ListInv
  <2> QED
    BY <1>1, <1>2, <1>3, <2>1 DEF TInv, ListInv, g
<1>5. ThreadsInv'
  BY <1>1, <1>3 DEF TInv, ThreadsInv
<1>6. InList' = {} /\ \A t \in Runners : Chain(t) = {} /\ Chain(t)' = {}
  BY <1>1, <1>2, ReachNothing DEF InList, Chain, g, TInv, ThreadsInv
<1>7. Whole' /\ Apart' /\ Usable'
  BY <1>1, <1>2, <1>3, <1>6 DEF TInv, Whole, Apart, Usable, g
<1> QED
  BY <1>4, <1>5, <1>7 DEF TInv

LEMMA NextKeepsInvariant == TInv /\ [Next]_vars => TInv'
  BY QuietStepKeepsInvariant, AddTimerKeepsInvariant, DetachKeepsInvariant,
     FinishTaskKeepsInvariant, DestroyKeepsInvariant
     DEF Next, RunTimerTask

LEMMA TimerInvariance == Spec => []TInv
  BY InitTInv, NextKeepsInvariant, PTL DEF Spec

(* Every variable of the manager and its list has its type, for any number *)
(* of threads and timers: in particular cur_depth_ stays a uint32_t and    *)
(* only nodes that were allocated are linked, run or freed.                *)
THEOREM TimerTypeCorrect == Spec => []TypeOK
  BY TimerInvariance, TInvImplies, PTL

(* However calls of RunTimerTask overlap with each other and with          *)
(* AddTimer, a timer that was added is in the list, or in the chain of one *)
(* thread, or freed, and never in two of these: none runs twice, none is   *)
(* used after it was freed, none is lost.                                  *)
THEOREM TimersHaveOneOwner == Spec => []OneOwner
  BY TimerInvariance, TInvImplies, PTL

(* While timers wait, the next call stays within the arrays of the list:   *)
(* whatever RunTimerTask took, AddTimer gives the list its level back.     *)
THEOREM WaitingListStaysUsable == Spec => []WaitingListUsable
  BY TimerInvariance, TInvImplies, PTL

-----------------------------------------------------------------------------
(* What RunTimerTask takes from a sorted list. *)

LEMMA SortedFurther ==
  ASSUME ListInv, Sorted, NEW x \in InList, NEW y \in Reach(next, x)
  PROVE  y \in InList /\ key[x] <= key[y]
<1>1. /\ \A n \in InList : n \in Nodes /\ key[n] \in Nat
      /\ Closed(next, InList) /\ next \in Links
  BY ListFacts DEF ListInv
<1>2. \A n \in InList : next[n] # NULL => key[n] <= key[next[n]] /\ next[n] \in InList
  BY <1>1, ChainIsReach DEF Sorted, Listed, InList, Closed
<1> DEFINE T == {z \in InList : key[x] <= key[z]}
<1>3. \A z \in Nodes \cap T : next[z] \in (Nodes \cap T) \cup {NULL}
  <2> SUFFICES ASSUME NEW z \in T, next[z] # NULL PROVE next[z] \in T /\ next[z] \in Nodes
    OBVIOUS
  <2>1. key[z] <= key[next[z]] /\ next[z] \in InList /\ key[x] <= key[z]
    BY <1>2
  <2>2. key[x] \in Nat /\ key[z] \in Nat /\ key[next[z]] \in Nat
    BY <1>1, <2>1
  <2> QED
    BY <1>1, <2>1, <2>2
<1>4. x # NULL => x \in Nodes \cap T
  BY <1>1
<1> HIDE DEF T
<1>5. Reach(next, x) \subseteq T
  BY <1>3, <1>4, ReachLeast
<1> QED
  BY <1>5 DEF T

LEMMA DetachTakesTheExpired ==
  ASSUME TInv, NEW t \in Runners, Detach(t), cur_depth_ = 1, Sorted,
         \E n \in Listed : key[n] < LastExpired(now[t])
  PROVE  Listed' = {n \in Listed : key[n] >= LastExpired(now[t])}
<1> DEFINE k == LastExpired(now[t])
           q == GetPrevNode(k)
           rest == Reach(next, next[q])
<1>1. ListInv /\ Listed = InList /\ Listed' = InList'
  BY ChainIsReach DEF TInv, Listed, InList, ChainFrom, Reach, Closed
<1>2. k \in Nat
  <2>1. now[t] \in Nat /\ Second \in Nat
    BY TimerAssumption DEF TInv, ThreadsInv
  <2> QED
    BY <2>1 DEF LastExpired
<1>3. /\ q \in {head_} \cup InList /\ q \in Places /\ ~Before(next[q], k)
      /\ q = head_ \/ key[q] < k
  BY <1>1, PrevNodeInList
<1>4. PICK n \in InList : key[n] < k
  BY <1>1
<1> HIDE DEF k, q
<1>5. /\ \A m \in InList : m \in Nodes /\ key[m] \in Nat
      /\ Closed(next, InList) /\ next \in Links /\ Acyclic(next)
      /\ next[head_] \in Nodes \cup {NULL}
      /\ next[head_] # NULL => next[head_] \in InList
      /\ next[head_] = NULL => InList = {}
  BY <1>1, ListFacts DEF ListInv
<1>6. q # head_
  <2> SUFFICES ASSUME q = head_ PROVE FALSE
    OBVIOUS
  <2>1. next[head_] # NULL /\ next[head_] \in InList /\ ~(key[next[head_]] < k)
    BY <1>3, <1>4, <1>5 DEF Before
  <2>2. key[next[head_]] <= key[n]
    BY <1>1, <1>4, <2>1, SortedFurther DEF InList
  <2> QED
    BY <1>2, <1>4, <1>5, <2>1, <2>2
<1>7. q \in InList /\ q \in Nodes /\ key[q] < k /\ next[q] \in Nodes \cup {NULL}
  BY <1>3, <1>5, <1>6, PlacesDiffer DEF Links
<1>8. InList' = rest /\ rest \subseteq InList
  <2> DEFINE g == next'
  <2>1. g = CutBehind(q)
    BY DEF Detach, q, k
  <2> HIDE DEF g
  <2>2. Reach(g, g[head_]) = Reach(next, next[q]) /\ Reach(next, next[q]) \subseteq InList
    BY <1>1, <1>3, <1>6, <2>1, CutInTwo
  <2> QED
    BY <2>2 DEF InList, g
<1>9. \A m \in rest : ~(key[m] < k)
  <2> SUFFICES ASSUME NEW m \in rest PROVE ~(key[m] < k)
    OBVIOUS
  <2>1. next[q] # NULL
    BY ReachNothing
  <2>2. next[q] \in InList /\ ~(key[next[q]] < k)
    BY <1>3, <1>5, <1>7, <2>1 DEF Before, Closed
  <2>3. key[next[q]] <= key[m] /\ m \in InList
    BY <1>1, <2>2, SortedFurther
  <2> QED
    BY <1>2, <1>5, <2>2, <2>3
<1>10. \A m \in InList \ rest : key[m] < k
  <2> SUFFICES ASSUME NEW m \in InList, m \notin rest PROVE key[m] < k
    OBVIOUS
  <2>1. q \in Reach(next, m) \/ m \in Reach(next, q)
    BY <1>5, <1>7, ReachTotal DEF InList
  <2>2. Reach(next, q) = {q} \cup rest
    BY <1>5, <1>7, ReachUnfold
  <2>3. CASE m = q
    BY <1>7, <2>3
  <2>4. CASE q \in Reach(next, m)
    <3>1. key[m] <= key[q]
      BY <1>1, <2>4, SortedFurther
    <3> QED
      BY <1>2, <1>5, <1>7, <3>1
  <2> QED
    BY <2>1, <2>2, <2>3, <2>4
<1>11. \A m \in InList : m \in rest <=> key[m] >= k
  <2> HIDE DEF rest
  <2> SUFFICES ASSUME NEW m \in InList PROVE m \in rest <=> key[m] >= k
    OBVIOUS
  <2>1. key[m] \in Nat
    BY <1>5
  <2> QED
    BY <1>2, <1>9, <1>10, <2>1
<1> HIDE DEF rest
<1> QED
  BY <1>1, <1>8, <1>11 DEF k

(* From a sorted list that has its level, RunTimerTask takes exactly the   *)
(* timers below its reading of the clock, if there is one to take, for any *)
(* number of timers and any keys.                                          *)
THEOREM OnlyTheExpiredAreTaken == Spec => TakesTheExpired
<1> DEFINE Takes == \A t \in Runners :
                      /\ pc[t] = "detaching" /\ pc'[t] # "detaching"
                      /\ cur_depth_ = 1 /\ Sorted
                      /\ \E n \in Listed : key[n] < LastExpired(now[t])
                      => Listed' = {n \in Listed : key[n] >= LastExpired(now[t])}
<1>1. TInv /\ [Next]_vars => [Takes]_vars
  <2> SUFFICES ASSUME TInv, Next, NEW t \in Runners, pc[t] = "detaching", pc'[t] # "detaching",
                      cur_depth_ = 1, Sorted, \E n \in Listed : key[n] < LastExpired(now[t])
               PROVE  Listed' = {n \in Listed : key[n] >= LastExpired(now[t])}
    OBVIOUS
  <2>1. Detach(t)
    <3>1. /\ Tick => pc' = pc
          /\ Destroy => pc' = pc
          /\ \A k \in Keys : AddTimer(k) => pc' = pc
      BY DEF Tick, Destroy, AddTimer, runnerVars
    <3>2. ASSUME NEW u \in Runners, RunTimerTask(u) PROVE u = t /\ Detach(t)
      <4>1. pc[u] \in {"idle", "walking", "callback"} =>
              ~Detach(u) /\ ~DetachCrash(u)
        BY DEF Detach, DetachCrash
      <4>2. DetachCrash(u) => pc' = pc
        BY DEF DetachCrash, runnerVars
      <4>3. GetCurrentTime(u) \/ RunTask(u) \/ FinishTask(u) => pc[u] # "detaching"
        BY DEF GetCurrentTime, RunTask, FinishTask
      <4>4. ~DetachCrash(u) => \E s : pc' = [pc EXCEPT ![u] = s]
        BY <3>2 DEF RunTimerTask, GetCurrentTime, Detach, RunTask, FinishTask
      <4>5. u = t
        BY <4>2, <4>4 DEF TInv, ThreadsInv
      <4> QED
        BY <3>2, <4>2, <4>3, <4>5 DEF RunTimerTask
    <3> QED
      BY <3>1, <3>2 DEF Next
  <2> QED
    BY <2>1, DetachTakesTheExpired
<1> QED
  BY <1>1, TimerInvariance, PTL DEF Spec, TakesTheExpired

-----------------------------------------------------------------------------
(* The list by itself: AddNode and RemoveNode. *)

(* A node is taken out of a chain. *)
LEMMA Removed ==
  ASSUME NEW f \in Links, Acyclic(f), NEW q \in {head_} \cup Reach(f, f[head_]), NEW n \in Nodes,
         f[q] = n, NEW g \in Links, g[q] = f[n], g[n] = NULL,
         \A p \in Places \ {q, n} : g[p] = f[p]
  PROVE  /\ Acyclic(g) /\ n # q
         /\ Reach(g, g[head_]) \subseteq Reach(f, f[head_]) /\ n \in Reach(f, f[head_])
<1> USE PlacesDiffer
<1>1. f[head_] \in Nodes \cup {NULL} /\ q \in Places /\ n # NULL
  BY ReachClosed DEF Links
<1>2. /\ Reach(f, f[head_]) \subseteq Nodes /\ Closed(f, Reach(f, f[head_]))
      /\ f[head_] # NULL => f[head_] \in Reach(f, f[head_])
  BY <1>1, ReachClosed
<1>3. n # q
  <2> SUFFICES ASSUME n = q PROVE FALSE
    OBVIOUS
  <2>1. {q} \in SUBSET Places /\ {q} # {} /\ \A p \in {q} : f[p] \in {q}
    BY <1>1
  <2> QED
    BY <2>1 DEF Acyclic
<1>4. n \in Reach(f, f[head_])
  BY <1>1, <1>2 DEF Closed
<1>5. f[n] \in Reach(f, f[head_]) \cup {NULL}
  BY <1>2, <1>4 DEF Closed
<1>6. Acyclic(g)
  <2> SUFFICES ASSUME NEW S \in SUBSET Places, S # {}, \A p \in S : g[p] \in S PROVE FALSE
    BY DEF Acyclic
  <2> DEFINE T == S \cup {m \in {n} : q \in S}
  <2>1. n \notin S
    OBVIOUS
  <2>2. \A p \in T : f[p] \in T
    <3> SUFFICES ASSUME NEW p \in T PROVE f[p] \in T
      OBVIOUS
    <3>1. CASE p = q
      BY <2>1, <1>3, <3>1
    <3>2. CASE p = n
      <4>1. q \in S
        BY <2>1, <3>2
      <4> QED
        BY <3>2, <4>1
    <3>3. CASE p # q /\ p # n
      BY <3>3
    <3> QED
      BY <3>1, <3>2, <3>3
  <2>3. T \in SUBSET Places /\ T # {}
    OBVIOUS
  <2> HIDE DEF T
  <2> QED
    BY <2>2, <2>3 DEF Acyclic
<1>7. Reach(g, g[head_]) \subseteq Reach(f, f[head_])
  <2> DEFINE T == Reach(f, f[head_])
             a == g[head_]
  <2>1. a # NULL => a \in Nodes \cap T
    <3>1. head_ # n
      OBVIOUS
    <3>2. CASE q = head_
      BY <1>2, <1>5, <3>2
    <3>3. CASE q # head_
      BY <1>2, <3>1, <3>3
    <3> QED
      BY <3>2, <3>3
  <2>2. \A p \in Nodes \cap T : g[p] \in (Nodes \cap T) \cup {NULL}
    <3> SUFFICES ASSUME NEW p \in Nodes \cap T PROVE g[p] \in (Nodes \cap T) \cup {NULL}
      OBVIOUS
    <3>1. CASE p = q \/ p = n
      BY <1>2, <1>5, <3>1
    <3>2. CASE p # q /\ p # n
      BY <1>2, <3>2 DEF Closed
    <3> QED
      BY <3>1, <3>2
  <2> HIDE DEF T, a
  <2>3. Reach(g, a) \subseteq T
    BY <2>1, <2>2, ReachLeast
  <2> QED
    BY <2>3 DEF T, a
<1> QED
  BY <1>3, <1>4, <1>6, <1>7

(* Sound, and what keeps it so. *)
SoundList ==
  /\ ListInv
  /\ \A n \in InList : next[n] # NULL => key[n] <= key[next[n]]
  /\ \A m, n \in Places : next[m] = next[n] /\ next[m] # NULL => m = n
  /\ cur_depth_ \in {0, 1} /\ (cur_depth_ = 0 => next[head_] = NULL)

LEMMA SoundListIsSound == SoundList => Sound
  BY ChainIsReach DEF SoundList, Sound, Listed, InList

LEMMA AddNodeKeepsSound ==
  ASSUME SoundList, NEW k \in Keys, AddNode(k)
  PROVE  SoundList'
<1>1. CASE LinkCrash
  <2>1. UNCHANGED <<next, key, cur_depth_>>
    BY <1>1 DEF LinkCrash
  <2> QED
    BY <2>1 DEF SoundList, ListInv, Allocated, InList
<1>2. CASE Link(Len(key) + 1, k) /\ Len(key) < MaxNodes
  <2> DEFINE n == Len(key) + 1
             q == GetPrevNode(k)
  <2>1. /\ ListInv'
        /\ n \in Nodes \ Allocated /\ Len(key') = n /\ Allocated' = Allocated \cup {n}
        /\ key'[n] = k /\ \A m \in Allocated : key'[m] = key[m]
        /\ InList' = InList \cup {n} /\ n \notin InList
        /\ next'[q] = n /\ next'[n] = next[q] /\ n # q
        /\ \A p \in Places \ {n, q} : next'[p] = next[p]
        /\ cur_depth_ \in {0, 1} /\ cur_depth_' = 1
    BY <1>2, Linked DEF SoundList
  <2>2. /\ q \in {head_} \cup InList /\ q \in Places
        /\ cur_depth_ # 0 => ~Before(next[q], k)
        /\ q = head_ \/ key[q] < k
    BY PrevNodeInList DEF SoundList
  <2> HIDE DEF n, q
  <2>3. /\ ListInv /\ k \in Nat /\ Allocated \subseteq Nodes /\ InList \subseteq Allocated
        /\ \A m \in Allocated : key[m] \in Nat
        /\ Closed(next, InList) /\ next[head_] \in Nodes \cup {NULL}
        /\ next[head_] # NULL => next[head_] \in InList
    BY ListFacts, SkipListAssumption DEF SoundList
  <2>4. next[q] # NULL => next[q] \in InList /\ k <= key[next[q]]
    <3> SUFFICES ASSUME next[q] # NULL PROVE next[q] \in InList /\ k <= key[next[q]]
      OBVIOUS
    <3>1. next[q] \in InList
      BY <2>2, <2>3 DEF Closed
    <3>2. cur_depth_ # 0
      <4> SUFFICES ASSUME cur_depth_ = 0 PROVE FALSE
        OBVIOUS
      <4>1. InList = {}
        BY ListFacts DEF SoundList
      <4> QED
        BY <3>1, <4>1
    <3>3. ~(key[next[q]] < k)
      BY <2>2, <3>2 DEF Before
    <3> QED
      BY <2>3, <3>1, <3>3
  <2>5. \A m \in InList' : next'[m] # NULL => key'[m] <= key'[next'[m]]
    <3> SUFFICES ASSUME NEW m \in InList', next'[m] # NULL PROVE key'[m] <= key'[next'[m]]
      OBVIOUS
    <3>1. CASE m = n
      BY <2>1, <2>3, <2>4, <3>1
    <3>2. CASE m = q
      <4>1. q \in InList /\ key[q] < k /\ key[q] \in Nat /\ q \in Allocated
        BY <2>1, <2>2, <2>3, <3>2, PlacesDiffer
      <4> QED
        BY <2>1, <2>3, <3>2, <4>1
    <3>3. CASE m # n /\ m # q
      <4>1. m \in InList /\ m \in Places /\ next'[m] = next[m] /\ next[m] \in InList
        BY <2>1, <2>3, <3>3, PlacesDiffer DEF Closed
      <4>2. key[m] <= key[next[m]]
        BY <4>1 DEF SoundList
      <4> QED
        BY <2>1, <2>3, <4>1, <4>2
    <3> QED
      BY <3>1, <3>2, <3>3
  <2>6. \A l, m \in Places : next'[l] = next'[m] /\ next'[l] # NULL => l = m
    <3>1. \A p \in Places : next[p] # n
      BY <2>1, <2>3, PlacesDiffer DEF ListInv
    <3>2. \A l, m \in Places : next[l] = next[m] /\ next[l] # NULL => l = m
      BY DEF SoundList
    <3> QED
      BY <2>1, <2>2, <3>1, <3>2
  <2> QED
    BY <2>1, <2>5, <2>6 DEF SoundList
<1> QED
  BY <1>1, <1>2 DEF AddNode

LEMMA RemoveNodeKeepsSound ==
  ASSUME SoundList, NEW n \in DOMAIN key, RemoveNode(n)
  PROVE  SoundList'
<1> DEFINE q == GetPrevNode(key[n])
           g == next'
           found == cur_depth_ > 0 /\ next[q] = n
<1>1. /\ g = (IF found THEN [next EXCEPT ![q] = next[n], ![n] = NULL] ELSE next)
      /\ cur_depth_' = LevelsWhen(cur_depth_ > 0 /\ g[head_] = NULL)
      /\ UNCHANGED key
  BY DEF RemoveNode
<1>2. /\ q \in {head_} \cup InList /\ q \in Places
  BY PrevNodeInList DEF SoundList
<1> HIDE DEF q, g
<1>3. /\ ListInv /\ Allocated \subseteq Nodes /\ InList \subseteq Allocated
      /\ n \in Allocated /\ next \in Links /\ Acyclic(next)
      /\ \A m \in Allocated : key[m] \in Nat
      /\ Closed(next, InList) /\ next[n] \in Allocated \cup {NULL}
  BY ListFacts, LenProperties, PlacesDiffer DEF SoundList, ListInv, Allocated
<1>4. /\ g \in Links /\ Acyclic(g) /\ Reach(g, g[head_]) \subseteq InList
      /\ \A p \in Places : g[p] \in Allocated \cup {NULL}
      /\ \A m \in Nodes \ Allocated : g[m] = NULL
      /\ \A m \in Reach(g, g[head_]) : g[m] # NULL => key[m] <= key[g[m]]
      /\ \A l, m \in Places : g[l] = g[m] /\ g[l] # NULL => l = m
  <2>1. CASE ~found
    BY <1>1, <1>3, <2>1 DEF SoundList, ListInv, InList
  <2>2. CASE found
    <3>1. g = [next EXCEPT ![q] = next[n], ![n] = NULL] /\ next[q] = n
      BY <1>1, <2>2
    <3>2. n # q
      <4>1. {q} \in SUBSET Places /\ {q} # {}
        BY <1>2
      <4> QED
        BY <1>3, <3>1, <4>1 DEF Acyclic
    <3>3. /\ g \in Links /\ g[q] = next[n] /\ g[n] = NULL
          /\ \A p \in Places \ {q, n} : g[p] = next[p]
          /\ \A p \in Places : g[p] \in Allocated \cup {NULL}
      BY <1>2, <1>3, <3>1, <3>2, PlacesDiffer DEF Links, ListInv
    <3>4. Acyclic(g) /\ Reach(g, g[head_]) \subseteq InList /\ n \in InList
      <4>1. /\ q \in {head_} \cup Reach(next, next[head_]) /\ next \in Links /\ Acyclic(next)
            /\ n \in Nodes /\ next[q] = n
        BY <1>2, <1>3, <3>1 DEF InList
      <4>2. Acyclic(g) /\ Reach(g, g[head_]) \subseteq Reach(next, next[head_])
              /\ n \in Reach(next, next[head_])
        BY <3>3, <4>1, Removed
      <4> QED
        BY <4>2 DEF InList
    <3>5. \A m \in Nodes \ Allocated : g[m] = NULL
      BY <1>2, <1>3, <3>3, PlacesDiffer DEF ListInv
    <3>6. \A m \in InList : g[m] # NULL => key[m] <= key[g[m]]
      <4> SUFFICES ASSUME NEW m \in InList, g[m] # NULL PROVE key[m] <= key[g[m]]
        OBVIOUS
      <4>1. \A x \in InList : next[x] # NULL => key[x] <= key[next[x]] /\ next[x] \in InList
        BY <1>3 DEF SoundList, Closed
      <4>2. CASE m = q
        <5>1. /\ key[q] <= key[n] /\ key[n] <= key[next[n]] /\ g[q] = next[n]
              /\ next[n] \in InList
          BY <1>3, <3>1, <3>3, <3>4, <4>1, <4>2, PlacesDiffer
        <5>2. key[q] \in Nat /\ key[n] \in Nat /\ key[next[n]] \in Nat
          BY <1>3, <4>2, <5>1
        <5> QED
          BY <4>2, <5>1, <5>2
      <4>3. CASE m # q
        BY <1>3, <3>3, <4>1, <4>3, PlacesDiffer
      <4> QED
        BY <4>2, <4>3
    <3>7. \A l, m \in Places : g[l] = g[m] /\ g[l] # NULL => l = m
      <4>1. \A l, m \in Places : next[l] = next[m] /\ next[l] # NULL => l = m
        BY DEF SoundList
      <4>2. n \in Places
        BY <1>3, PlacesDiffer
      <4> QED
        BY <1>2, <3>3, <4>1, <4>2
    <3> QED
      BY <3>3, <3>4, <3>5, <3>6, <3>7
  <2> QED
    BY <2>1, <2>2
<1>5. cur_depth_' \in {0, 1} /\ (cur_depth_' = 0 => g[head_] = NULL)
  <2>1. CASE cur_depth_ = 0
    <3>1. g = next /\ ~(cur_depth_ > 0 /\ g[head_] = NULL)
      BY <1>1, <2>1
    <3>2. cur_depth_' = cur_depth_
      BY <1>1, <3>1 DEF LevelsWhen
    <3> QED
      BY <2>1, <3>1, <3>2 DEF SoundList
  <2>2. CASE cur_depth_ = 1 /\ g[head_] = NULL
    <3>1. cur_depth_' = (1 + UintRange - 1) % UintRange
      BY <1>1, <2>2 DEF LevelsWhen
    <3>2. UintRange \in Nat /\ UintRange > 0
      BY SkipListAssumption
    <3>3. 1 + UintRange - 1 = UintRange /\ UintRange % UintRange = 0
      BY <3>2
    <3> QED
      BY <2>2, <3>1, <3>3
  <2>3. CASE cur_depth_ = 1 /\ g[head_] # NULL
    <3>1. cur_depth_' = cur_depth_
      BY <1>1, <2>3 DEF LevelsWhen
    <3> QED
      BY <2>3, <3>1
  <2> QED
    BY <2>1, <2>2, <2>3 DEF SoundList
<1> QED
  BY <1>1, <1>3, <1>4, <1>5 DEF SoundList, ListInv, Allocated, InList, g

(* Used by AddNode and RemoveNode alone, with any keys and any number of   *)
(* nodes, some of them removed twice, the list stays sorted and linked,    *)
(* and it has a level whenever it has nodes.                               *)
THEOREM ListStaysSound == MCSpec => []ListSound
<1> DEFINE I == case = 1 => SoundList
<1>1. MCInit => I
  <2> SUFFICES ASSUME Init PROVE SoundList
    BY DEF MCInit
  <2>1. ListInv /\ InList = {}
    BY InitTInv, ReachNothing, PlacesDiffer DEF TInv, Init, ListInit, InList
  <2> QED
    BY <2>1 DEF SoundList, Init, ListInit
<1>2. I /\ [MCNext]_mcVars => I'
  <2> SUFFICES ASSUME I, [MCNext]_mcVars, case' = 1 PROVE SoundList'
    OBVIOUS
  <2>1. CASE UNCHANGED mcVars
    <3>1. UNCHANGED <<next, key, cur_depth_>> /\ SoundList
      BY <2>1 DEF mcVars, vars, listVars
    <3> QED
      BY <3>1 DEF SoundList, ListInv, Allocated, InList
  <2>2. CASE MCNext
    <3>1. ListNext /\ SoundList
      BY <2>2 DEF MCNext
    <3>2. CASE \E k \in Keys : AddNew(k)
      BY <3>1, <3>2, AddNodeKeepsSound DEF AddNew
    <3>3. CASE \E n \in DOMAIN key : RemoveNode(n)
      BY <3>1, <3>3, RemoveNodeKeepsSound
    <3> QED
      BY <3>1, <3>2, <3>3 DEF ListNext
  <2> QED
    BY <2>1, <2>2
<1>3. I => ListSound
  BY SoundListIsSound DEF ListSound
<1> QED
  BY <1>1, <1>2, <1>3, PTL DEF MCSpec
=============================================================================
