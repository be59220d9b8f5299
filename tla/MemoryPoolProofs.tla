-------------------------- MODULE MemoryPoolProofs --------------------------
(***************************************************************************)
(* Proofs about the memory pool: for pools, buffers and chains of any size *)
(* every pointer leads to what is there, no pool is used past its end, and *)
(* every large buffer is in one LargeNode or was freed.                    *)
(***************************************************************************)
EXTENDS BlockChain, TLAPS, SequenceTheorems, WellFoundedInduction

-----------------------------------------------------------------------------
(* Least and greatest elements, and steps up to a number.                  *)

LEMMA LeastExists ==
  ASSUME NEW S \in SUBSET Nat, S # {}
  PROVE  \E x \in S : \A y \in S : x <= y
<1> DEFINE R == OpToRel(<, Nat)
<1>1. R = {ss \in Nat \X Nat : ss[1] < ss[2]}
  BY Zenon DEF OpToRel
<1>2. IsWellFoundedOn(R, Nat)
  BY Zenon, NatLessThanWellFounded
<1> HIDE DEF R
<1>3. PICK x \in S : \A y \in S : ~(<<y, x>> \in R)
  BY <1>2, WFMin
<1>4. \A y \in S : ~(y < x)
  BY <1>1, <1>3
<1> QED
  BY <1>4

LEMMA MinIsLeast ==
  ASSUME NEW S \in SUBSET Nat, S # {}
  PROVE  Min(S) \in S /\ \A y \in S : Min(S) <= y
  BY LeastExists DEF Min

(* A set that is climbed from 0 holds every number up to n. *)
LEMMA Climb ==
  ASSUME NEW n \in Nat, NEW S, 0 \in S, \A i \in 1 .. n : i - 1 \in S => i \in S
  PROVE  \A i \in 0 .. n : i \in S
<1> DEFINE missing == {i \in 0 .. n : i \notin S}
<1>1. ASSUME missing # {} PROVE FALSE
  <2>1. PICK i \in missing : \A j \in missing : i <= j
    <3>1. missing \in SUBSET Nat
      OBVIOUS
    <3> HIDE DEF missing
    <3> QED
      BY <3>1, <1>1, LeastExists
  <2>2. i \in 1 .. n /\ i - 1 \in 0 .. n
    BY <2>1
  <2>3. i - 1 \in S
    BY <2>1, <2>2
  <2> QED
    BY <2>1, <2>2, <2>3
<1> QED
  BY <1>1

(* Max is used on the sum of a number and the followers of some positions. *)
LEMMA MaxIsGreatest ==
  ASSUME NEW n \in Nat, NEW S \in SUBSET (0 .. n), S # {}
  PROVE  Max(S) \in S /\ \A y \in S : Max(S) >= y
<1> DEFINE below == {k \in 0 .. n : n - k \in S}
<1>1. below \in SUBSET Nat /\ below # {}
  <2>1. PICK y \in S : TRUE
    OBVIOUS
  <2>2. n - y \in 0 .. n /\ n - (n - y) = y
    OBVIOUS
  <2>3. n - y \in below
    BY <2>1, <2>2
  <2>4. below \in SUBSET Nat
    OBVIOUS
  <2> QED
    BY <2>3, <2>4
<1>2. PICK k \in below : \A j \in below : k <= j
  <2> HIDE DEF below
  <2> QED
    BY <1>1, LeastExists
<1>3. n - k \in S
  BY <1>2
<1>4. ASSUME NEW y \in S PROVE n - k >= y
  <2>1. n - y \in below
    BY <1>4
  <2>2. k <= n - y
    BY <2>1, <1>2
  <2> QED
    BY <2>2, <1>2
<1> QED
  BY <1>3, <1>4 DEF Max

-----------------------------------------------------------------------------
(* The pool as a record.                                                   *)

Fields == {"pools", "current", "large", "bufs", "made", "left", "got",
           "next", "block", "tail", "nodes", "blocks", "lists", "node"}

IsMem(m) == m = [f \in Fields |-> m[f]]

Pool == [used : 0 .. PoolSize, failed_times : Nat]

LargeNode == [pool : Nat, buf : Nat \cup {NULL}]

(* Every pool is within its end, and current and the LargeNodes are there. *)
PoolInv(m) ==
  /\ m.pools \in Seq(Pool)
  /\ m.current \in 1 .. Len(m.pools)
  /\ m.large \in Seq(LargeNode)
  /\ \A i \in 1 .. Len(m.large) : m.large[i].pool \in 1 .. Len(m.pools)
  /\ m.left \in Nat

SameBuffers(r, m) == r.large = m.large /\ r.bufs = m.bufs /\ r.made = m.made

SameChains(r, m) ==
  /\ r.next = m.next /\ r.block = m.block /\ r.tail = m.tail
  /\ r.nodes = m.nodes /\ r.blocks = m.blocks /\ r.lists = m.lists

LEMMA PoolConstants ==
  /\ PoolSize \in Nat /\ LargeMark \in Nat /\ LargeNodeSize \in 0 .. PoolSize
  /\ LargeMark <= PoolSize /\ MaxFailures \in Nat /\ NULL \notin Nat
  BY MemoryPoolAssumption

LEMMA FailedIsPool ==
  ASSUME NEW pool \in Pool
  PROVE  Fail(pool) \in Pool /\ Fail(pool).used = pool.used
<1> DEFINE count == Min({pool.failed_times + 1, MaxFailures + 1})
<1>1. {pool.failed_times + 1, MaxFailures + 1} \in SUBSET Nat
  BY PoolConstants DEF Pool
<1>2. {pool.failed_times + 1, MaxFailures + 1} # {}
  OBVIOUS
<1>3. count \in Nat
  BY <1>1, <1>2, MinIsLeast
<1>4. Fail(pool) = [pool EXCEPT !.failed_times = count]
  BY Zenon DEF Fail
<1> HIDE DEF count
<1> QED
  BY <1>3, <1>4 DEF Pool

(* What the failures of a request leave of the pools. *)
LEMMA FailuresKeepPools ==
  ASSUME NEW pools \in Seq(Pool),
         NEW failed, failed = [i \in 1 .. Len(pools) |-> failed[i]],
         \A i \in 1 .. Len(pools) : failed[i] \in {pools[i], Fail(pools[i])}
  PROVE  failed \in Seq(Pool) /\ Len(failed) = Len(pools)
         /\ \A i \in 1 .. Len(pools) : failed[i].used = pools[i].used
<1>1. Len(pools) \in Nat /\ DOMAIN pools = 1 .. Len(pools)
  BY LenProperties
<1>2. ASSUME NEW i \in 1 .. Len(pools)
      PROVE  failed[i] \in Pool /\ failed[i].used = pools[i].used
  <2>1. pools[i] \in Pool
    BY <1>2, ElementOfSeq
  <2>2. Fail(pools[i]) \in Pool /\ Fail(pools[i]).used = pools[i].used
    BY <2>1, FailedIsPool
  <2> QED
    BY <2>1, <2>2, <1>1
<1>3. failed \in [1 .. Len(pools) -> Pool]
  BY <1>1, <1>2
<1>4. failed \in Seq(Pool)
  BY <1>1, <1>3, SeqDef
<1>5. Len(failed) = Len(pools)
  BY <1>4, <1>1, <1>3, LenProperties
<1> QED
  BY <1>2, <1>4, <1>5

-----------------------------------------------------------------------------
(* A request for a part of a pool.                                         *)

(* What a call that needs no buffer of its own leaves of the pool. *)
SmallEffect(r, m) ==
  /\ IsMem(r) /\ PoolInv(r)
  /\ SameBuffers(r, m) /\ SameChains(r, m) /\ r.node = m.node
  /\ r.got = NULL \/ r.got \in 1 .. Len(r.pools)

(* current moves to the follower of a pool that has one. *)
LEMMA CurrentMoves ==
  ASSUME NEW n \in Nat, NEW c \in 1 .. n, NEW left,
         \A i \in left : i \in c .. n /\ i < n
  PROVE  Max({c} \cup {i + 1 : i \in left}) \in 1 .. n
<1> DEFINE S == {c} \cup {i + 1 : i \in left}
<1>1. \A y \in S : y \in 1 .. n
  OBVIOUS
<1>2. S # {}
  OBVIOUS
<1> HIDE DEF S
<1>3. S \in SUBSET (0 .. n)
  BY <1>1
<1>4. Max(S) \in S
  BY <1>2, <1>3, MaxIsGreatest
<1> QED
  BY <1>1, <1>4 DEF S

(* The pools that a request fails in, and the first that serves it. *)
LEMMA TriedPools ==
  ASSUME NEW pools \in Seq(Pool), NEW c \in 1 .. Len(pools), NEW size,
         NEW able, able = {i \in c .. Len(pools) : Fits(pools[i], size)}
  PROVE  /\ able # {} => Min(able) \in c .. Len(pools) /\ Fits(pools[Min(able)], size)
         /\ \A i \in (IF able = {} THEN c .. Len(pools) ELSE c .. Min(able) - 1) :
              i \in c .. Len(pools)
<1>1. Len(pools) \in Nat
  BY LenProperties
<1>2. able \in SUBSET Nat
  BY <1>1
<1>3. able # {} => Min(able) \in able
  BY <1>2, MinIsLeast
<1>4. CASE able = {}
  BY <1>4
<1>5. CASE able # {}
  <2> DEFINE i == Min(able)
  <2>1. i \in c .. Len(pools) /\ Fits(pools[i], size)
    BY <1>3, <1>5
  <2> HIDE DEF i
  <2>2. \A j \in c .. i - 1 : j \in c .. Len(pools)
    BY <1>1, <2>1
  <2> QED
    BY <1>5, <2>1, <2>2 DEF i
<1> QED
  BY <1>4, <1>5

LEMMA MinAllocates ==
  ASSUME NEW m, IsMem(m), PoolInv(m), NEW size \in 0 .. PoolSize
  PROVE  SmallEffect(AllocateMinMemory(m, size), m)
<1> DEFINE n == Len(m.pools)
           later == m.current .. Len(m.pools)
           able == {i \in later : Fits(m.pools[i], size)}
           tried == IF able = {} THEN later ELSE m.current .. Min(able) - 1
           failed == [i \in DOMAIN m.pools |->
                        IF i \in tried THEN Fail(m.pools[i]) ELSE m.pools[i]]
           next == Max({m.current} \cup {i + 1 : i \in Moves(m, tried)})
           failing == [m EXCEPT !.pools = failed, !.current = next]
<1>1. m.pools \in Seq(Pool) /\ n \in Nat /\ DOMAIN m.pools = 1 .. n /\ m.current \in 1 .. n
  BY LenProperties DEF PoolInv
<1>2. able # {} => Min(able) \in 1 .. n /\ Fits(m.pools[Min(able)], size)
  <2> HIDE DEF able
  <2>1. able = {i \in m.current .. Len(m.pools) : Fits(m.pools[i], size)}
    BY DEF able
  <2>2. able # {} => /\ Min(able) \in m.current .. Len(m.pools)
                     /\ Fits(m.pools[Min(able)], size)
    BY <1>1, <2>1, TriedPools
  <2> QED
    BY <1>1, <2>2
<1>3. \A i \in tried : i \in m.current .. n
  <2> HIDE DEF able
  <2>1. able = {i \in m.current .. Len(m.pools) : Fits(m.pools[i], size)}
    BY DEF able
  <2> QED
    BY <1>1, <2>1, TriedPools
<1> HIDE DEF tried
<1>4. failed \in Seq(Pool) /\ Len(failed) = n
      /\ \A i \in 1 .. n : failed[i].used = m.pools[i].used
  <2> DEFINE pools == m.pools
  <2>1. /\ failed = [i \in 1 .. Len(pools) |-> failed[i]]
        /\ \A i \in 1 .. Len(pools) : failed[i] \in {pools[i], Fail(pools[i])}
    BY <1>1
  <2> HIDE DEF failed
  <2>2. pools \in Seq(Pool)
    BY <1>1
  <2> HIDE DEF pools, n
  <2>3. failed \in Seq(Pool) /\ Len(failed) = Len(pools)
        /\ \A i \in 1 .. Len(pools) : failed[i].used = pools[i].used
    BY <2>1, <2>2, FailuresKeepPools
  <2> QED
    BY <2>3 DEF pools, n
<1>5. next \in 1 .. n
  <2>1. \A i \in Moves(m, tried) : i \in m.current .. n /\ i < n
    BY <1>3 DEF Moves
  <2> HIDE DEF n
  <2> QED
    BY <1>1, <2>1, CurrentMoves
<1> HIDE DEF next
<1>6. AllocateMinMemory(m, size) =
        IF able # {} THEN
          [failing EXCEPT !.pools[Min(able)].used = @ + size, !.got = Min(able)]
        ELSE IF m.left = 0 THEN [failing EXCEPT !.got = NULL]
        ELSE [failing EXCEPT !.pools = Append(@, [EmptyPool EXCEPT !.used = size]),
                             !.left = @ - 1,
                             !.got = Len(m.pools) + 1]
  BY Zenon DEF AllocateMinMemory, next, tried
<1> HIDE DEF n, able, failed
<1>7. IsMem(failing) /\ failing.pools = failed /\ failing.current = next
      /\ SameBuffers(failing, m) /\ SameChains(failing, m) /\ failing.node = m.node
      /\ failing.left = m.left
  BY DEF IsMem, Fields, SameBuffers, SameChains
<1> HIDE DEF failing
<1>8. PoolInv(failing)
  BY <1>4, <1>5, <1>7 DEF PoolInv, SameBuffers, n
<1>9. CASE able # {}
  <2> DEFINE i == Min(able)
             r == [failing EXCEPT !.pools[i].used = @ + size, !.got = i]
             more == [failed EXCEPT ![i].used = @ + size]
  <2>1. i \in 1 .. n /\ failed[i] \in Pool /\ size <= PoolSize - failed[i].used
    BY <1>1, <1>2, <1>4, <1>9, ElementOfSeq DEF Fits
  <2>2. [failed[i] EXCEPT !.used = @ + size] \in Pool
    BY <2>1, PoolConstants DEF Pool
  <2> HIDE DEF i
  <2>3. more \in Seq(Pool) /\ Len(more) = n
    <3>1. more = [failed EXCEPT ![i] = [failed[i] EXCEPT !.used = @ + size]]
      OBVIOUS
    <3> DEFINE p == [failed[i] EXCEPT !.used = @ + size]
    <3>2. more = [failed EXCEPT ![i] = p]
      BY <3>1
    <3> HIDE DEF more, p
    <3> QED
      BY <1>4, <2>1, <2>2, <3>2, ExceptSeq DEF p
  <2>4. IsMem(r) /\ r.pools = more /\ r.current = failing.current /\ r.got = i
        /\ SameBuffers(r, failing) /\ SameChains(r, failing) /\ r.node = failing.node
        /\ r.left = failing.left
    BY <1>7 DEF IsMem, Fields, SameBuffers, SameChains
  <2>5. AllocateMinMemory(m, size) = r
    BY <1>6, <1>9 DEF i
  <2> HIDE DEF r, more
  <2>6. PoolInv(r)
    BY <1>4, <1>7, <1>8, <2>3, <2>4 DEF PoolInv, SameBuffers
  <2> QED
    BY <1>7, <2>1, <2>3, <2>4, <2>5, <2>6 DEF SmallEffect, SameBuffers, SameChains
<1>10. CASE able = {} /\ m.left = 0
  <2> DEFINE r == [failing EXCEPT !.got = NULL]
  <2>1. IsMem(r) /\ r.pools = failing.pools /\ r.current = failing.current /\ r.got = NULL
        /\ SameBuffers(r, failing) /\ SameChains(r, failing) /\ r.node = failing.node
        /\ r.left = failing.left
    BY <1>7 DEF IsMem, Fields, SameBuffers, SameChains
  <2>2. AllocateMinMemory(m, size) = r
    BY <1>6, <1>10
  <2> HIDE DEF r
  <2>3. PoolInv(r)
    BY <1>8, <2>1 DEF PoolInv, SameBuffers
  <2> QED
    BY <1>7, <2>1, <2>2, <2>3 DEF SmallEffect, SameBuffers, SameChains
<1>11. CASE able = {} /\ m.left # 0
  <2> DEFINE p == [EmptyPool EXCEPT !.used = size]
             more == Append(failed, p)
             r == [failing EXCEPT !.pools = more, !.left = @ - 1, !.got = n + 1]
  <2>1. p \in Pool
    BY PoolConstants DEF EmptyPool, Pool
  <2>2. more \in Seq(Pool) /\ Len(more) = n + 1
    <3> HIDE DEF p
    <3> QED
      BY <1>4, <2>1, AppendProperties
  <2>3. IsMem(r) /\ r.pools = more /\ r.current = failing.current /\ r.got = n + 1
        /\ SameBuffers(r, failing) /\ SameChains(r, failing) /\ r.node = failing.node
        /\ r.left = failing.left - 1
    BY <1>7 DEF IsMem, Fields, SameBuffers, SameChains
  <2>4. AllocateMinMemory(m, size) = r
    BY Zenon, <1>6, <1>7, <1>11 DEF n
  <2> HIDE DEF r, more
  <2>5. PoolInv(r)
    <3>1. Len(failing.pools) = n /\ n \in Nat
      BY <1>1, <1>4, <1>7
    <3>2. r.current \in 1 .. n + 1
      BY <1>8, <2>3, <3>1 DEF PoolInv
    <3>3. r.left \in Nat
      BY <1>7, <1>8, <1>11, <2>3 DEF PoolInv
    <3>4. \A i \in 1 .. Len(r.large) : r.large[i].pool \in 1 .. n + 1
      BY <1>8, <2>3, <3>1 DEF PoolInv, SameBuffers
    <3> QED
      BY <1>8, <2>2, <2>3, <3>2, <3>3, <3>4 DEF PoolInv, SameBuffers
  <2> QED
    BY <1>1, <1>7, <2>2, <2>3, <2>4, <2>5 DEF SmallEffect, SameBuffers, SameChains
<1> QED
  BY <1>9, <1>10, <1>11

-----------------------------------------------------------------------------
(* Requests that get a buffer of their own.                                *)

Bufs(large) == {large[i].buf : i \in 1 .. Len(large)} \ {NULL}

(* No two LargeNodes hold the same buffer. *)
Distinct(large) ==
  \A i, j \in 1 .. Len(large) :
    large[i].buf = large[j].buf => i = j \/ large[i].buf = NULL

Owned(m) ==
  /\ m.made \in Nat /\ m.bufs \subseteq 1 .. m.made
  /\ Bufs(m.large) \subseteq m.bufs
  /\ Distinct(m.large)

Held(m) == m.bufs = Bufs(m.large)

(* What a request leaves of the pool.  got # NULL: no buffer went astray. *)
Effect(r, m) ==
  /\ IsMem(r) /\ PoolInv(r) /\ Owned(r)
  /\ SameChains(r, m) /\ r.node = m.node
  /\ r.got \in Nat \cup {NULL}
  /\ Held(m) /\ r.got # NULL => Held(r)

LEMMA SmallRequest ==
  ASSUME NEW m, Owned(m), NEW r, SmallEffect(r, m)
  PROVE  Effect(r, m)
<1>1. r.got \in Nat \cup {NULL}
  <2>1. Len(r.pools) \in Nat
    BY LenProperties DEF SmallEffect, PoolInv
  <2> QED
    BY <2>1 DEF SmallEffect
<1>2. Owned(r) /\ (Held(m) => Held(r))
  BY DEF SmallEffect, SameBuffers, Owned, Held
<1> QED
  BY <1>1, <1>2 DEF SmallEffect, Effect

(* A new buffer in the first LargeNode, which held none. *)
LEMMA Reused ==
  ASSUME NEW large \in Seq(LargeNode), large # << >>, large[1].buf = NULL,
         NEW b \in Nat, b \notin Bufs(large), Distinct(large)
  PROVE  LET more == [large EXCEPT ![1].buf = b]
         IN  /\ more \in Seq(LargeNode) /\ Len(more) = Len(large)
             /\ Bufs(more) = Bufs(large) \cup {b} /\ Distinct(more)
             /\ \A i \in 1 .. Len(large) : more[i].pool = large[i].pool
<1> DEFINE first == [large[1] EXCEPT !.buf = b]
           more == [large EXCEPT ![1] = first]
<1>1. [large EXCEPT ![1].buf = b] = more
  OBVIOUS
<1>2. 1 \in 1 .. Len(large)
  BY EmptySeq
<1>3. first \in LargeNode /\ first.buf = b /\ first.pool = large[1].pool
  <2>1. large[1] \in LargeNode
    BY <1>2, ElementOfSeq
  <2> QED
    BY <2>1 DEF LargeNode
<1> HIDE DEF first
<1>4. more \in Seq(LargeNode) /\ Len(more) = Len(large)
      /\ \A i \in 1 .. Len(large) : more[i] = IF i = 1 THEN first ELSE large[i]
  BY <1>2, <1>3, ExceptSeq
<1> HIDE DEF more
<1>5. b # NULL
  BY PoolConstants
<1>6. Bufs(more) = Bufs(large) \cup {b}
  <2>1. ASSUME NEW c, c # NULL PROVE c \in Bufs(more) <=> c \in Bufs(large) \/ c = b
    <3>1. c \in Bufs(more) <=> \E i \in 1 .. Len(large) : c = more[i].buf
      BY <1>4, <2>1 DEF Bufs
    <3>2. c \in Bufs(large) <=> \E i \in 1 .. Len(large) : c = large[i].buf
      BY <2>1 DEF Bufs
    <3> QED
      BY <1>2, <1>3, <1>4, <2>1, <3>1, <3>2
  <2>2. NULL \notin Bufs(more) /\ NULL \notin Bufs(large) \cup {b}
    BY <1>5 DEF Bufs
  <2> QED
    BY <2>1, <2>2
<1>7. Distinct(more)
  <2>1. \A i \in 1 .. Len(large) : large[i].buf # b
    BY <1>5 DEF Bufs
  <2> QED
    BY <1>3, <1>4, <2>1 DEF Distinct
<1> QED
  BY <1>1, <1>3, <1>4, <1>6, <1>7

(* A new LargeNode in front of the others. *)
LEMMA Prepended ==
  ASSUME NEW large \in Seq(LargeNode), NEW node \in LargeNode, node.buf \in Nat,
         node.buf \notin Bufs(large), Distinct(large)
  PROVE  LET more == <<node>> \o large
         IN  /\ more \in Seq(LargeNode) /\ Len(more) = Len(large) + 1
             /\ Bufs(more) = Bufs(large) \cup {node.buf} /\ Distinct(more)
             /\ more[1] = node
             /\ \A i \in 1 .. Len(large) : more[i + 1] = large[i]
<1> DEFINE more == <<node>> \o large
<1>1. <<node>> \in Seq(LargeNode) /\ Len(<<node>>) = 1 /\ <<node>>[1] = node
  OBVIOUS
<1>2. Len(large) \in Nat
  BY LenProperties
<1>3. more \in Seq(LargeNode) /\ Len(more) = Len(large) + 1
      /\ \A i \in 1 .. Len(large) + 1 : more[i] = IF i <= 1 THEN node ELSE large[i - 1]
  <2> DEFINE one == <<node>>
  <2>1. one \in Seq(LargeNode) /\ Len(one) = 1 /\ one[1] = node
    BY <1>1
  <2> HIDE DEF one
  <2>2. one \o large \in Seq(LargeNode) /\ Len(one \o large) = Len(one) + Len(large)
        /\ \A i \in 1 .. Len(one) + Len(large) :
             (one \o large)[i] = IF i <= Len(one) THEN one[i] ELSE large[i - Len(one)]
    BY <2>1, ConcatProperties
  <2>3. more = one \o large
    BY DEF one
  <2> HIDE DEF more
  <2>4. ASSUME NEW i \in 1 .. Len(large) + 1
        PROVE  more[i] = IF i <= 1 THEN node ELSE large[i - 1]
    BY <1>2, <2>1, <2>2, <2>3
  <2> QED
    BY <1>2, <2>1, <2>2, <2>3, <2>4
<1> HIDE DEF more
<1>4. node.buf # NULL
  BY PoolConstants
<1>5. more[1] = node /\ \A i \in 1 .. Len(large) : more[i + 1] = large[i]
  BY <1>2, <1>3
<1>6. \A k \in 1 .. Len(more) : k = 1 \/ \E i \in 1 .. Len(large) : k = i + 1
  <2>1. ASSUME NEW k \in 1 .. Len(more), k # 1 PROVE k - 1 \in 1 .. Len(large) /\ k = (k - 1) + 1
    BY <1>2, <1>3, <2>1
  <2> QED
    BY <2>1
<1>7. 1 \in 1 .. Len(more) /\ \A i \in 1 .. Len(large) : i + 1 \in 1 .. Len(more)
  BY <1>2, <1>3
<1>8. Bufs(more) = Bufs(large) \cup {node.buf}
  <2>1. ASSUME NEW c, c # NULL PROVE c \in Bufs(more) <=> c \in Bufs(large) \/ c = node.buf
    <3>1. c \in Bufs(more) <=> \E i \in 1 .. Len(more) : c = more[i].buf
      BY <2>1 DEF Bufs
    <3>2. c \in Bufs(large) <=> \E i \in 1 .. Len(large) : c = large[i].buf
      BY <2>1 DEF Bufs
    <3> QED
      BY <1>5, <1>6, <1>7, <3>1, <3>2
  <2>2. NULL \notin Bufs(more) /\ NULL \notin Bufs(large) \cup {node.buf}
    BY <1>4 DEF Bufs
  <2> QED
    BY <2>1, <2>2
<1>9. Distinct(more)
  <2>1. \A i \in 1 .. Len(large) : large[i].buf # node.buf
    BY <1>4 DEF Bufs
  <2>2. ASSUME NEW k \in 1 .. Len(more), NEW l \in 1 .. Len(more), more[k].buf = more[l].buf
        PROVE  k = l \/ more[k].buf = NULL
    <3>1. CASE k = 1 /\ l = 1
      BY <3>1
    <3>2. CASE k = 1 /\ l # 1
      BY <1>5, <1>6, <2>1, <2>2, <3>2
    <3>3. CASE k # 1 /\ l = 1
      BY <1>5, <1>6, <2>1, <2>2, <3>3
    <3>4. CASE k # 1 /\ l # 1
      <4>1. PICK i \in 1 .. Len(large) : k = i + 1
        BY <1>6, <3>4
      <4>2. PICK j \in 1 .. Len(large) : l = j + 1
        BY <1>6, <3>4
      <4>3. more[k] = large[i] /\ more[l] = large[j]
        BY <1>5, <4>1, <4>2
      <4>4. i = j \/ large[i].buf = NULL
        BY <2>2, <4>3 DEF Distinct
      <4> QED
        BY <4>1, <4>2, <4>3, <4>4
    <3> QED
      BY <3>1, <3>2, <3>3, <3>4
  <2> QED
    BY <2>2 DEF Distinct
<1> QED
  BY <1>3, <1>5, <1>8, <1>9 DEF more

LEMMA LargeAllocates ==
  ASSUME NEW m, IsMem(m), PoolInv(m), Owned(m)
  PROVE  Effect(AllocateLargeMemory(m), m)
<1> DEFINE r == AllocateLargeMemory(m)
           buf == m.made + 1
           mine == [m EXCEPT !.bufs = @ \cup {buf}, !.made = buf, !.left = @ - 1]
           node == AllocateMinMemory(mine, LargeNodeSize)
<1>1. r = IF m.left = 0 THEN [m EXCEPT !.got = NULL]
          ELSE IF m.large # << >> /\ m.large[1].buf = NULL
          THEN [mine EXCEPT !.large[1].buf = buf, !.got = buf]
          ELSE IF node.got = NULL THEN node
          ELSE [node EXCEPT !.large = <<[pool |-> node.got, buf |-> buf]>> \o @,
                            !.got = buf]
  BY Zenon DEF AllocateLargeMemory
<1> HIDE DEF r
<1>2. CASE m.left = 0
  <2> DEFINE s == [m EXCEPT !.got = NULL]
  <2>1. IsMem(s) /\ s.pools = m.pools /\ s.current = m.current /\ s.left = m.left
        /\ SameBuffers(s, m) /\ SameChains(s, m) /\ s.node = m.node /\ s.got = NULL
    BY DEF IsMem, Fields, SameBuffers, SameChains
  <2>2. r = s
    BY <1>1, <1>2
  <2> HIDE DEF s
  <2>3. PoolInv(s) /\ Owned(s)
    BY <2>1 DEF PoolInv, Owned, SameBuffers
  <2> QED
    BY <2>1, <2>2, <2>3 DEF Effect, r
<1>3. ASSUME m.left # 0
      PROVE  /\ IsMem(mine) /\ mine.pools = m.pools /\ mine.current = m.current
             /\ mine.large = m.large /\ mine.bufs = m.bufs \cup {buf} /\ mine.made = buf
             /\ mine.left = m.left - 1 /\ SameChains(mine, m) /\ mine.node = m.node
             /\ PoolInv(mine)
  <2>1. /\ IsMem(mine) /\ mine.pools = m.pools /\ mine.current = m.current
        /\ mine.large = m.large /\ mine.bufs = m.bufs \cup {buf} /\ mine.made = buf
        /\ mine.left = m.left - 1 /\ SameChains(mine, m) /\ mine.node = m.node
    BY DEF IsMem, Fields, SameChains
  <2> HIDE DEF mine
  <2>2. PoolInv(mine)
    BY <1>3, <2>1 DEF PoolInv
  <2> QED
    BY <2>1, <2>2
<1>4. buf \in Nat /\ buf \notin Bufs(m.large) /\ Distinct(m.large)
      /\ m.bufs \cup {buf} \subseteq 1 .. buf
  BY DEF Owned
<1>5. m.large \in Seq(LargeNode)
  BY DEF PoolInv
<1> HIDE DEF buf, mine
<1>6. CASE m.left # 0 /\ m.large # << >> /\ m.large[1].buf = NULL
  <2> DEFINE more == [m.large EXCEPT ![1].buf = buf]
             s == [mine EXCEPT !.large[1].buf = buf, !.got = buf]
  <2>1. IsMem(s) /\ s.large = more /\ s.got = buf
        /\ s.pools = mine.pools /\ s.current = mine.current /\ s.left = mine.left
        /\ s.bufs = mine.bufs /\ s.made = mine.made
        /\ SameChains(s, mine) /\ s.node = mine.node
    BY <1>3, <1>6 DEF IsMem, Fields, SameChains
  <2>2. r = s
    BY <1>1, <1>6
  <2> HIDE DEF s
  <2>3. /\ more \in Seq(LargeNode) /\ Len(more) = Len(m.large)
        /\ Bufs(more) = Bufs(m.large) \cup {buf} /\ Distinct(more)
        /\ \A i \in 1 .. Len(m.large) : more[i].pool = m.large[i].pool
    BY <1>4, <1>5, <1>6, Reused
  <2> HIDE DEF more
  <2>4. PoolInv(s)
    BY <1>3, <1>6, <2>1, <2>3 DEF PoolInv
  <2>5. Owned(s) /\ (Held(m) => Held(s))
    BY <1>3, <1>4, <1>6, <2>1, <2>3 DEF Owned, Held
  <2> QED
    BY <1>3, <1>4, <1>6, <2>1, <2>2, <2>4, <2>5 DEF Effect, SameChains, r
<1>7. ASSUME m.left # 0
      PROVE  SmallEffect(node, mine) /\ Owned(mine)
  <2>1. SmallEffect(node, mine)
    BY <1>3, <1>7, PoolConstants, MinAllocates
  <2>2. Owned(mine)
    BY <1>3, <1>4, <1>7 DEF Owned
  <2> QED
    BY <2>1, <2>2
<1>8. CASE m.left # 0 /\ ~(m.large # << >> /\ m.large[1].buf = NULL) /\ node.got = NULL
  <2>1. r = node
    BY <1>1, <1>8
  <2> HIDE DEF node
  <2>2. Effect(node, mine)
    BY <1>7, <1>8, SmallRequest
  <2> QED
    BY <1>3, <1>8, <2>1, <2>2 DEF Effect, SameChains, r
<1>9. CASE m.left # 0 /\ ~(m.large # << >> /\ m.large[1].buf = NULL) /\ node.got # NULL
  <2> DEFINE first == [pool |-> node.got, buf |-> buf]
             more == <<first>> \o node.large
             s == [node EXCEPT !.large = <<first>> \o @, !.got = buf]
  <2>1. r = s
    BY <1>1, <1>9
  <2> HIDE DEF node
  <2>2. IsMem(node) /\ PoolInv(node) /\ SameBuffers(node, mine)
        /\ SameChains(node, mine) /\ node.node = mine.node
        /\ node.got \in 1 .. Len(node.pools)
    BY <1>7, <1>9 DEF SmallEffect
  <2>3. IsMem(s) /\ s.large = more /\ s.got = buf
        /\ s.pools = node.pools /\ s.current = node.current /\ s.left = node.left
        /\ s.bufs = node.bufs /\ s.made = node.made
        /\ SameChains(s, node) /\ s.node = node.node
    BY <2>2 DEF IsMem, Fields, SameChains
  <2> HIDE DEF s
  <2>4. node.large = m.large /\ node.bufs = m.bufs \cup {buf} /\ node.made = buf
    BY <1>3, <1>9, <2>2 DEF SameBuffers
  <2>5. first \in LargeNode /\ first.buf = buf /\ first.pool = node.got
    <3>1. Len(node.pools) \in Nat
      BY <2>2, LenProperties DEF PoolInv
    <3> QED
      BY <1>4, <2>2, <3>1 DEF LargeNode
  <2> HIDE DEF first
  <2>6. /\ more \in Seq(LargeNode) /\ Len(more) = Len(m.large) + 1
        /\ Bufs(more) = Bufs(m.large) \cup {buf} /\ Distinct(more)
        /\ more[1] = first
        /\ \A i \in 1 .. Len(m.large) : more[i + 1] = m.large[i]
    BY <1>4, <1>5, <2>4, <2>5, Prepended
  <2> HIDE DEF more
  <2>7. PoolInv(s)
    <3>1. Len(m.large) \in Nat
      BY <1>5, LenProperties
    <3>2. ASSUME NEW k \in 1 .. Len(more) PROVE more[k].pool \in 1 .. Len(node.pools)
      <4>1. CASE k = 1
        BY <2>2, <2>5, <2>6, <4>1
      <4>2. CASE k # 1
        <5>1. k - 1 \in 1 .. Len(m.large) /\ k = (k - 1) + 1
          BY <2>6, <3>1, <4>2
        <5>2. more[k] = m.large[k - 1]
          BY <2>6, <5>1
        <5> QED
          BY <2>2, <2>4, <5>1, <5>2 DEF PoolInv
      <4> QED
        BY <4>1, <4>2
    <3> QED
      BY <2>2, <2>3, <2>6, <3>2 DEF PoolInv
  <2>8. Owned(s) /\ (Held(m) => Held(s))
    BY <1>4, <2>3, <2>4, <2>6 DEF Owned, Held
  <2>9. SameChains(s, m) /\ s.node = m.node
    BY <1>3, <1>9, <2>2, <2>3 DEF SameChains
  <2> QED
    BY <1>4, <2>1, <2>3, <2>7, <2>8, <2>9 DEF Effect, r
<1> QED
  BY <1>2, <1>6, <1>8, <1>9 DEF r

(* Any request of the program, which names a size of at least 0. *)
LEMMA Allocates ==
  ASSUME NEW m, IsMem(m), PoolInv(m), Owned(m), NEW size \in Nat
  PROVE  Effect(AllocateMemory(m, size), m)
<1>1. CASE size < LargeMark
  <2>1. size \in 0 .. PoolSize
    BY <1>1, PoolConstants
  <2>2. SmallEffect(AllocateMinMemory(m, size), m)
    BY <2>1, MinAllocates
  <2>3. AllocateMemory(m, size) = AllocateMinMemory(m, size)
    BY <1>1 DEF AllocateMemory
  <2> QED
    BY <2>2, <2>3, SmallRequest
<1>2. CASE ~(size < LargeMark)
  BY <1>2, LargeAllocates DEF AllocateMemory
<1> QED
  BY <1>1, <1>2

(* A LargeNode that gives up its buffer. *)
LEMMA Forgotten ==
  ASSUME NEW large \in Seq(LargeNode), NEW k \in 1 .. Len(large),
         large[k].buf # NULL, Distinct(large)
  PROVE  LET less == [large EXCEPT ![k].buf = NULL]
         IN  /\ less \in Seq(LargeNode) /\ Len(less) = Len(large)
             /\ Bufs(less) = Bufs(large) \ {large[k].buf} /\ Distinct(less)
             /\ \A i \in 1 .. Len(large) : less[i].pool = large[i].pool
<1> DEFINE free == [large[k] EXCEPT !.buf = NULL]
           less == [large EXCEPT ![k] = free]
<1>1. [large EXCEPT ![k].buf = NULL] = less
  OBVIOUS
<1>2. free \in LargeNode /\ free.buf = NULL /\ free.pool = large[k].pool
  <2>1. large[k] \in LargeNode
    BY ElementOfSeq
  <2> QED
    BY <2>1 DEF LargeNode
<1> HIDE DEF free
<1>3. less \in Seq(LargeNode) /\ Len(less) = Len(large)
      /\ \A i \in 1 .. Len(large) : less[i] = IF i = k THEN free ELSE large[i]
  BY <1>2, ExceptSeq
<1> HIDE DEF less
<1>4. Bufs(less) = Bufs(large) \ {large[k].buf}
  <2>1. ASSUME NEW c, c # NULL
        PROVE  c \in Bufs(less) <=> c \in Bufs(large) /\ c # large[k].buf
    <3>1. c \in Bufs(less) <=> \E i \in 1 .. Len(large) : c = less[i].buf
      BY <1>3, <2>1 DEF Bufs
    <3>2. c \in Bufs(large) <=> \E i \in 1 .. Len(large) : c = large[i].buf
      BY <2>1 DEF Bufs
    <3>3. \A i \in 1 .. Len(large) : i # k => large[i].buf # large[k].buf
      BY DEF Distinct
    <3> QED
      BY <1>2, <1>3, <2>1, <3>1, <3>2, <3>3
  <2>2. NULL \notin Bufs(less) /\ NULL \notin Bufs(large)
    BY DEF Bufs
  <2> QED
    BY <2>1, <2>2
<1>5. Distinct(less)
  BY <1>2, <1>3 DEF Distinct
<1> QED
  BY <1>1, <1>2, <1>3, <1>4, <1>5

LEMMA LargeIsFreed ==
  ASSUME NEW m, IsMem(m), PoolInv(m), Owned(m), NEW buf \in Nat
  PROVE  LET r == FreeLargeMemory(m, buf)
         IN  /\ IsMem(r) /\ PoolInv(r) /\ Owned(r)
             /\ SameChains(r, m) /\ r.node = m.node
             /\ Held(m) => Held(r)
<1> DEFINE r == FreeLargeMemory(m, buf)
           holders == {i \in DOMAIN m.large : m.large[i].buf = buf}
           k == Min(holders)
<1>1. m.large \in Seq(LargeNode) /\ Len(m.large) \in Nat /\ DOMAIN m.large = 1 .. Len(m.large)
  BY LenProperties DEF PoolInv
<1>2. r = IF holders = {} THEN [m EXCEPT !.got = -1]
          ELSE [m EXCEPT !.large = Forget(@, k), !.bufs = @ \ {buf}, !.got = 0]
  BY Zenon DEF FreeLargeMemory
<1>3. CASE holders = {}
  <2>1. IsMem(r) /\ r.pools = m.pools /\ r.current = m.current /\ r.left = m.left
        /\ SameBuffers(r, m) /\ SameChains(r, m) /\ r.node = m.node
    BY <1>2, <1>3 DEF IsMem, Fields, SameBuffers, SameChains
  <2> HIDE DEF r
  <2> QED
    BY <2>1 DEF PoolInv, Owned, Held, SameBuffers, r
<1>4. CASE holders # {}
  <2>1. k \in 1 .. Len(m.large) /\ m.large[k].buf = buf /\ buf # NULL
    <3>1. holders \in SUBSET Nat
      BY <1>1
    <3>2. k \in holders
      <4> HIDE DEF holders
      <4> QED
        BY <1>4, <3>1, MinIsLeast
    <3> QED
      BY <1>1, <3>2, PoolConstants
  <2> DEFINE less == [m.large EXCEPT ![k].buf = NULL]
  <2>2. IsMem(r) /\ r.pools = m.pools /\ r.current = m.current /\ r.left = m.left
        /\ r.large = less /\ r.bufs = m.bufs \ {buf} /\ r.made = m.made
        /\ SameChains(r, m) /\ r.node = m.node
    <3> HIDE DEF r, k, holders
    <3> QED
      BY <1>2, <1>4 DEF IsMem, Fields, SameChains, Forget
  <2> HIDE DEF r, k, holders
  <2>3. /\ less \in Seq(LargeNode) /\ Len(less) = Len(m.large)
        /\ Bufs(less) = Bufs(m.large) \ {buf} /\ Distinct(less)
        /\ \A i \in 1 .. Len(m.large) : less[i].pool = m.large[i].pool
    <3>1. Distinct(m.large)
      BY DEF Owned
    <3> HIDE DEF less
    <3>2. \A l \in Seq(LargeNode) : \A j \in 1 .. Len(l) : l[j].buf # NULL /\ Distinct(l) =>
            LET s == [l EXCEPT ![j].buf = NULL]
            IN  /\ s \in Seq(LargeNode) /\ Len(s) = Len(l)
                /\ Bufs(s) = Bufs(l) \ {l[j].buf} /\ Distinct(s)
                /\ \A i \in 1 .. Len(l) : s[i].pool = l[i].pool
      BY Forgotten
    <3> QED
      BY <1>1, <2>1, <3>1, <3>2 DEF less
  <2> HIDE DEF less
  <2>4. PoolInv(r)
    BY <2>2, <2>3 DEF PoolInv
  <2>5. Owned(r) /\ (Held(m) => Held(r))
    BY <2>2, <2>3 DEF Owned, Held
  <2> QED
    BY <2>2, <2>4, <2>5 DEF r
<1> QED
  BY <1>3, <1>4

-----------------------------------------------------------------------------
(* The chains.                                                             *)

LEMMA ChainConstants ==
  /\ MaxNodes \in Nat /\ MaxLists \in Nat /\ MaxPools \in Nat /\ MaxBufs \in Nat
  /\ MaxBlocks \in Nat
  /\ BlockListSize \in 0 .. PoolSize /\ BlockSize \in Nat /\ ChainNodeSize \in Nat
  /\ Requests \subseteq Nat
  BY BlockChainAssumption, MemoryPoolAssumption

(* Links lead to nodes that there are, and the tail of a list that was     *)
(* made to one of them, whatever was taken from the list since.            *)
ChainInv(m) ==
  /\ m.nodes \in 0 .. MaxNodes /\ m.lists \in 0 .. MaxLists
  /\ m.next \in [Places -> 1 .. m.nodes \cup {NULL}]
  /\ m.tail \in [Lists -> Places]
  /\ \A l \in Lists : m.tail[l] \in 1 .. m.nodes \cup {HeadOf(l)}
  /\ \A l \in 1 .. m.lists : m.tail[l] \in 1 .. m.nodes

MemInv(m) == IsMem(m) /\ PoolInv(m) /\ Owned(m) /\ ChainInv(m)

LEMMA PlacesAre ==
  /\ Cache \in Places
  /\ \A n \in 1 .. MaxNodes : n \in Places
  /\ \A l \in Lists : HeadOf(l) \in Places
  BY ChainConstants DEF Places, Cache, Lists, HeadOf

(* A pool without chains. *)
LEMMA NoChainsIsMem ==
  ASSUME NEW m, IsMem(m) \/ m = InitPool
  PROVE  LET r == NoChains(m)
         IN  /\ IsMem(r) /\ ChainInv(r)
             /\ r.pools = m.pools /\ r.current = m.current /\ r.left = m.left
             /\ SameBuffers(r, m)
<1> DEFINE r == NoChains(m)
<1>1. /\ IsMem(r)
      /\ r.pools = m.pools /\ r.current = m.current /\ r.left = m.left
      /\ SameBuffers(r, m)
      /\ r.nodes = 0 /\ r.lists = 0 /\ r.next = [p \in Places |-> NULL]
      /\ r.tail = [l \in Lists |-> HeadOf(l)]
  BY DEF IsMem, Fields, InitPool, NoChains, SameBuffers
<1> HIDE DEF r
<1>2. ChainInv(r)
  BY <1>1, ChainConstants, PlacesAre DEF ChainInv
<1> QED
  BY <1>1, <1>2 DEF r

LEMMA LargeBufsAre ==
  ASSUME NEW m, m.large \in Seq(LargeNode)
  PROVE  LargeBufs(m) = Bufs(m.large)
<1>1. DOMAIN m.large = 1 .. Len(m.large)
  BY LenProperties
<1> QED
  BY <1>1 DEF LargeBufs, Bufs

LEMMA NoBufs == Bufs(<< >>) = {} /\ Distinct(<< >>)
<1>1. Len(<< >>) = 0
  BY EmptySeq
<1> QED
  BY <1>1 DEF Bufs, Distinct

LEMMA OneEmptyPool ==
  ASSUME NEW m, m.pools = <<EmptyPool>>, m.current = 1, m.large = << >>, m.left \in Nat
  PROVE  PoolInv(m)
<1>1. EmptyPool \in Pool
  BY PoolConstants DEF EmptyPool, Pool
<1>2. <<EmptyPool>> \in Seq(Pool) /\ Len(<<EmptyPool>>) = 1
  BY <1>1
<1>3. << >> \in Seq(LargeNode) /\ Len(<< >>) = 0
  BY EmptySeq
<1> QED
  BY <1>2, <1>3 DEF PoolInv

LEMMA Initial == MemInv(NoChains(InitPool)) /\ Held(NoChains(InitPool))
<1> DEFINE r == NoChains(InitPool)
<1>1. /\ IsMem(r) /\ ChainInv(r)
      /\ r.pools = InitPool.pools /\ r.current = InitPool.current /\ r.left = InitPool.left
      /\ SameBuffers(r, InitPool)
  BY NoChainsIsMem
<1> HIDE DEF r
<1>2. /\ r.pools = <<EmptyPool>> /\ r.current = 1 /\ r.left = 0 /\ r.large = << >>
      /\ r.bufs = {} /\ r.made = 0
  BY <1>1 DEF InitPool, SameBuffers
<1>3. PoolInv(r)
  BY <1>2, OneEmptyPool
<1> QED
  BY <1>1, <1>2, <1>3, NoBufs DEF MemInv, Owned, Held, r

LEMMA Resets ==
  ASSUME NEW m, MemInv(m)
  PROVE  LET r == NoChains(ResetPool(m)) IN MemInv(r) /\ (Held(m) => Held(r))
<1> DEFINE s == ResetPool(m)
           r == NoChains(s)
<1>1. /\ IsMem(s) /\ s.pools = <<EmptyPool>> /\ s.current = 1 /\ s.large = << >>
      /\ s.bufs = m.bufs \ LargeBufs(m) /\ s.made = m.made /\ s.left = m.left
  BY DEF ResetPool, MemInv, IsMem, Fields
<1> HIDE DEF s
<1>2. /\ IsMem(r) /\ ChainInv(r)
      /\ r.pools = s.pools /\ r.current = s.current /\ r.left = s.left
      /\ SameBuffers(r, s)
  BY <1>1, NoChainsIsMem
<1> HIDE DEF r
<1>3. PoolInv(r)
  BY <1>1, <1>2, OneEmptyPool DEF MemInv, PoolInv, SameBuffers
<1>4. LargeBufs(m) = Bufs(m.large)
  BY LargeBufsAre DEF MemInv, PoolInv
<1>5. Owned(r) /\ (Held(m) => Held(r))
  BY <1>1, <1>2, <1>4, NoBufs DEF MemInv, Owned, Held, SameBuffers
<1> QED
  BY <1>2, <1>3, <1>5 DEF MemInv, r, s

(* After the end there is no pool and no LargeNode. *)
LEMMA Ends ==
  ASSUME NEW m, MemInv(m)
  PROVE  LET r == NoChains(DestoryPool(m))
         IN  /\ IsMem(r) /\ ChainInv(r) /\ r.pools = << >> /\ r.large = << >>
             /\ Owned(r) /\ (Held(m) => Held(r))
<1> DEFINE s == DestoryPool(m)
           r == NoChains(s)
<1>1. /\ IsMem(s) /\ s.pools = << >> /\ s.large = << >>
      /\ s.bufs = m.bufs \ LargeBufs(m) /\ s.made = m.made
  BY DEF DestoryPool, MemInv, IsMem, Fields
<1> HIDE DEF s
<1>2. /\ IsMem(r) /\ ChainInv(r) /\ r.pools = s.pools /\ SameBuffers(r, s)
  BY <1>1, NoChainsIsMem
<1> HIDE DEF r
<1>3. LargeBufs(m) = Bufs(m.large)
  BY LargeBufsAre DEF MemInv, PoolInv
<1>4. Owned(r) /\ (Held(m) => Held(r))
  BY <1>1, <1>2, <1>3, NoBufs DEF MemInv, Owned, Held, SameBuffers
<1> QED
  BY <1>1, <1>2, <1>4 DEF SameBuffers, r, s

-----------------------------------------------------------------------------
(* Calls on chains, as functions of the pool.                              *)

(* What a call may do to a pool, with k new chain nodes at most. *)
Grown(r, m, k) ==
  /\ MemInv(r)
  /\ r.lists = m.lists /\ r.nodes \in m.nodes .. m.nodes + k
  /\ Held(m) /\ r.got # NULL => Held(r)

(* A request changes no chain. *)
LEMMA RequestKeepsChains ==
  ASSUME NEW m, MemInv(m), NEW size \in Nat
  PROVE  LET r == AllocateMemory(m, size)
         IN  MemInv(r) /\ Effect(r, m)
<1> DEFINE r == AllocateMemory(m, size)
<1>1. Effect(r, m)
  BY Allocates DEF MemInv
<1> HIDE DEF r
<1>2. ChainInv(r)
  BY <1>1 DEF Effect, SameChains, ChainInv, MemInv
<1> QED
  BY <1>1, <1>2 DEF Effect, MemInv, r

(* A change of fields that no part of the invariant reads. *)
LEMMA MemInvReads ==
  ASSUME NEW m, MemInv(m), NEW r, IsMem(r),
         r.pools = m.pools, r.current = m.current, r.left = m.left, SameBuffers(r, m),
         r.next = m.next, r.tail = m.tail, r.nodes = m.nodes, r.lists = m.lists
  PROVE  MemInv(r) /\ (Held(m) <=> Held(r))
  BY DEF MemInv, PoolInv, Owned, Held, SameBuffers, ChainInv

(* A change of links, tails and counts keeps the rest. *)
LEMMA MemInvChains ==
  ASSUME NEW m, MemInv(m), NEW r, IsMem(r), ChainInv(r),
         r.pools = m.pools, r.current = m.current, r.left = m.left, SameBuffers(r, m)
  PROVE  MemInv(r) /\ (Held(m) <=> Held(r))
  BY DEF MemInv, PoolInv, Owned, Held, SameBuffers

LEMMA NodeIsGot ==
  ASSUME NEW m, MemInv(m), m.nodes < MaxNodes
  PROVE  LET r == GetChainNode(m)
         IN  /\ Grown(r, m, 1)
             /\ r.got \in Nat \cup {NULL}
             /\ r.got # NULL => r.node \in 1 .. r.nodes
             /\ r.tail = m.tail
<1> DEFINE r == GetChainNode(m)
           new == AllocateMemory(m, ChainNodeSize)
           n == m.next[Cache]
<1>1. r = IF n # NULL THEN [PopCache(m) EXCEPT !.node = n, !.got = n]
          ELSE IF new.got = NULL THEN [new EXCEPT !.node = NULL]
          ELSE [new EXCEPT !.nodes = @ + 1, !.node = m.nodes + 1]
  BY Zenon DEF GetChainNode
<1>2. MemInv(new) /\ Effect(new, m)
  BY RequestKeepsChains, ChainConstants
<1>3. IsMem(m) /\ IsMem(new) /\ ChainInv(m) /\ ChainInv(new)
  BY <1>2 DEF MemInv
<1>4. m.nodes \in Nat /\ MaxNodes \in Nat /\ n \in 1 .. m.nodes \cup {NULL}
  BY <1>3, ChainConstants, PlacesAre DEF ChainInv
<1>5. new.nodes = m.nodes /\ new.lists = m.lists /\ new.tail = m.tail /\ new.next = m.next
      /\ new.got \in Nat \cup {NULL}
  BY <1>2 DEF Effect, SameChains
<1> HIDE DEF r, new
<1>6. CASE n # NULL
  <2>1. /\ IsMem(r) /\ r.pools = m.pools /\ r.current = m.current /\ r.left = m.left
        /\ SameBuffers(r, m) /\ r.next = [m.next EXCEPT ![Cache] = m.next[n]]
        /\ r.tail = m.tail /\ r.nodes = m.nodes /\ r.lists = m.lists
        /\ r.node = n /\ r.got = n
    BY <1>1, <1>3, <1>6 DEF IsMem, Fields, SameBuffers, PopCache
  <2>2. n \in Places /\ m.next[n] \in 1 .. m.nodes \cup {NULL} /\ n \in 1 .. m.nodes
    BY <1>3, <1>4, <1>6, PlacesAre, ChainConstants DEF ChainInv
  <2>3. r.next \in [Places -> 1 .. m.nodes \cup {NULL}]
    BY <1>3, <2>1, <2>2 DEF ChainInv
  <2>4. ChainInv(r)
    BY <1>3, <2>1, <2>3 DEF ChainInv
  <2>5. MemInv(r) /\ (Held(m) <=> Held(r))
    BY <2>1, <2>4, MemInvChains
  <2> QED
    BY <1>4, <2>1, <2>2, <2>5 DEF Grown, r
<1>7. CASE n = NULL /\ new.got = NULL
  <2>1. /\ IsMem(r) /\ r.pools = new.pools /\ r.current = new.current /\ r.left = new.left
        /\ SameBuffers(r, new) /\ r.next = new.next
        /\ r.tail = new.tail /\ r.nodes = new.nodes /\ r.lists = new.lists /\ r.got = NULL
    BY <1>1, <1>3, <1>7 DEF IsMem, Fields, SameBuffers
  <2>2. MemInv(r)
    BY <1>2, <2>1, MemInvReads
  <2> QED
    BY <1>4, <1>5, <2>1, <2>2 DEF Grown, r
<1>8. CASE n = NULL /\ new.got # NULL
  <2>1. /\ IsMem(r) /\ r.pools = new.pools /\ r.current = new.current /\ r.left = new.left
        /\ SameBuffers(r, new) /\ r.next = m.next /\ r.tail = m.tail
        /\ r.nodes = m.nodes + 1 /\ r.lists = m.lists
        /\ r.got = new.got /\ r.node = m.nodes + 1
    BY <1>1, <1>3, <1>5, <1>8 DEF IsMem, Fields, SameBuffers
  <2>2. ChainInv(r)
    <3>1. r.nodes \in 0 .. MaxNodes /\ \A x \in 1 .. m.nodes : x \in 1 .. r.nodes
      BY <1>4, <2>1
    <3>2. r.next \in [Places -> 1 .. r.nodes \cup {NULL}]
      BY <1>3, <2>1, <3>1 DEF ChainInv
    <3> QED
      BY <1>3, <2>1, <3>1, <3>2 DEF ChainInv
  <2>3. MemInv(r) /\ (Held(new) <=> Held(r))
    BY <1>2, <2>1, <2>2, MemInvChains
  <2>4. Held(m) => Held(r)
    BY <1>2, <1>8, <2>3 DEF Effect
  <2> QED
    BY <1>4, <1>5, <2>1, <2>3, <2>4 DEF Grown, r
<1> QED
  BY <1>6, <1>7, <1>8 DEF r

LEMMA NodeIsAppended ==
  ASSUME NEW m, MemInv(m), NEW l \in Lists, NEW n \in 1 .. m.nodes, NEW b
  PROVE  LET r == AppendNode(m, l, n, b)
         IN  /\ MemInv(r) /\ (Held(m) <=> Held(r))
             /\ r.lists = m.lists /\ r.nodes = m.nodes /\ r.got = m.got /\ r.tail[l] = n
<1> DEFINE r == AppendNode(m, l, n, b)
<1>1. IsMem(m) /\ ChainInv(m)
  BY DEF MemInv
<1>2. /\ IsMem(r) /\ r.pools = m.pools /\ r.current = m.current /\ r.left = m.left
      /\ SameBuffers(r, m)
      /\ r.next = [[m.next EXCEPT ![n] = NULL] EXCEPT ![m.tail[l]] = n]
      /\ r.tail = [m.tail EXCEPT ![l] = n]
      /\ r.lists = m.lists /\ r.nodes = m.nodes /\ r.got = m.got
  BY <1>1 DEF IsMem, Fields, SameBuffers, AppendNode
<1> HIDE DEF r
<1>3. m.nodes \in 0 .. MaxNodes /\ n \in Places /\ m.tail \in [Lists -> Places]
  BY <1>1, PlacesAre, ChainConstants DEF ChainInv
<1>4. r.next \in [Places -> 1 .. m.nodes \cup {NULL}]
  BY <1>1, <1>2, <1>3 DEF ChainInv
<1>5. ChainInv(r)
  <2>1. r.tail \in [Lists -> Places] /\ r.tail[l] = n
        /\ \A k \in Lists : k # l => r.tail[k] = m.tail[k]
    BY <1>2, <1>3
  <2>2. \A k \in 1 .. r.lists : k \in Lists
    BY <1>1, <1>2, ChainConstants DEF ChainInv, Lists
  <2> QED
    BY <1>1, <1>2, <1>4, <2>1, <2>2 DEF ChainInv
<1> QED
  BY <1>2, <1>3, <1>5, MemInvChains DEF r

LEMMA BlockIsAdded ==
  ASSUME NEW m, MemInv(m), m.nodes < MaxNodes, NEW l \in Lists
  PROVE  LET r == AddBlock(m, l)
         IN  Grown(r, m, 1) /\ (r.got # NULL => r.tail[l] \in 1 .. r.nodes)
<1> DEFINE r == AddBlock(m, l)
           taken == GetChainNode(m)
           room == AllocateMemory(taken, BlockSize)
           more == [room EXCEPT !.blocks = @ + 1]
<1>1. r = IF taken.got = NULL THEN taken
          ELSE IF room.got = NULL THEN room
          ELSE AppendNode(more, l, taken.node, m.blocks + 1)
  BY Zenon DEF AddBlock
<1>2. Grown(taken, m, 1) /\ (taken.got # NULL => taken.node \in 1 .. taken.nodes)
  BY NodeIsGot
<1>3. MemInv(taken)
  BY <1>2 DEF Grown
<1> HIDE DEF r, taken
<1>4. MemInv(room) /\ Effect(room, taken)
  BY <1>3, RequestKeepsChains, ChainConstants
<1>5. room.nodes = taken.nodes /\ room.lists = taken.lists
  BY <1>4 DEF Effect, SameChains
<1> HIDE DEF room
<1>6. CASE taken.got = NULL
  BY <1>1, <1>2, <1>6 DEF r
<1>7. CASE taken.got # NULL /\ room.got = NULL
  BY <1>1, <1>2, <1>4, <1>5, <1>7 DEF r, Grown
<1>8. CASE taken.got # NULL /\ room.got # NULL
  <2>1. /\ IsMem(more) /\ more.pools = room.pools /\ more.current = room.current
        /\ more.left = room.left /\ SameBuffers(more, room) /\ more.next = room.next
        /\ more.tail = room.tail /\ more.nodes = room.nodes /\ more.lists = room.lists
    BY <1>4 DEF MemInv, IsMem, Fields, SameBuffers
  <2> HIDE DEF more
  <2>2. MemInv(more) /\ (Held(room) <=> Held(more))
    BY <1>4, <2>1, MemInvReads
  <2>3. /\ MemInv(r) /\ (Held(more) <=> Held(r))
        /\ r.lists = more.lists /\ r.nodes = more.nodes /\ r.tail[l] = taken.node
    BY <1>1, <1>2, <1>5, <1>8, <2>1, <2>2, NodeIsAppended
  <2>4. Held(m) => Held(r)
    BY <1>2, <1>4, <1>8, <2>2, <2>3 DEF Grown, Effect
  <2> QED
    BY <1>2, <1>5, <1>8, <2>1, <2>3, <2>4 DEF r, Grown
<1> QED
  BY <1>6, <1>7, <1>8

(* The next of the nodes that InitBlockChain makes, unless malloc failed. *)
MakeStep(before, l) == IF before.got = NULL THEN before ELSE AddBlock(before, l)

IsMade(f, data, l, n) ==
  f = [i \in 0 .. n |-> IF i = 0 THEN data ELSE MakeStep(f[i - 1], l)]

LEMMA MadeExists ==
  ASSUME NEW data, NEW l, NEW num \in Nat
  PROVE  \E f : IsMade(f, data, l, num)
<1> DEFINE S == {n \in 0 .. num : \E f : IsMade(f, data, l, n)}
<1>1. 0 \in S
  <2> DEFINE f == [i \in 0 .. 0 |-> data]
  <2>1. f = [i \in 0 .. 0 |-> IF i = 0 THEN data ELSE MakeStep(f[i - 1], l)]
    OBVIOUS
  <2>2. IsMade(f, data, l, 0)
    BY <2>1 DEF IsMade
  <2> QED
    BY <2>2
<1>2. ASSUME NEW n \in 1 .. num, n - 1 \in S PROVE n \in S
  <2>1. PICK f : f = [i \in 0 .. n - 1 |-> IF i = 0 THEN data ELSE MakeStep(f[i - 1], l)]
    BY <1>2 DEF IsMade
  <2> DEFINE g == [i \in 0 .. n |-> IF i < n THEN f[i] ELSE MakeStep(f[n - 1], l)]
  <2>2. \A i \in 0 .. n : g[i] = IF i = 0 THEN data ELSE MakeStep(g[i - 1], l)
    <3>1. ASSUME NEW i \in 0 .. n, i # 0, i < n PROVE g[i] = MakeStep(g[i - 1], l)
      <4>1. i \in 0 .. n - 1 /\ i - 1 \in 0 .. n /\ i - 1 < n
        BY <3>1
      <4>2. f[i] = MakeStep(f[i - 1], l)
        BY <2>1, <3>1, <4>1
      <4> QED
        BY <3>1, <4>1, <4>2
    <3>2. ASSUME NEW i \in 0 .. n, i = n PROVE g[i] = MakeStep(g[i - 1], l)
      <4>1. n - 1 \in 0 .. n /\ n - 1 < n
        OBVIOUS
      <4> QED
        BY <3>2, <4>1
    <3>3. g[0] = data
      <4>1. 0 \in 0 .. n - 1 /\ 0 \in 0 .. n /\ 0 < n
        OBVIOUS
      <4> QED
        BY <2>1, <4>1
    <3> QED
      BY <3>1, <3>2, <3>3
  <2>3. g = [i \in 0 .. n |-> IF i = 0 THEN data ELSE MakeStep(g[i - 1], l)]
    BY <2>2
  <2>4. IsMade(g, data, l, n)
    BY <2>3 DEF IsMade
  <2>5. \E h : IsMade(h, data, l, n)
    BY <2>4
  <2> QED
    BY <2>5
<1> HIDE DEF S
<1>3. num \in S
  BY <1>1, <1>2, Climb
<1> QED
  BY <1>3 DEF S

LEMMA ListIsMade ==
  ASSUME NEW m, MemInv(m), NEW l, l = m.lists + 1, m.lists < MaxLists,
         NEW data, Grown(data, m, 0),
         NEW num \in Nat, m.nodes + num <= MaxNodes, num >= 1,
         NEW f, IsMade(f, data, l, num)
  PROVE  /\ Grown(f[num], m, num)
         /\ f[num].got # NULL => f[num].tail[l] \in 1 .. f[num].nodes
<1> DEFINE S == {i \in 0 .. num :
                   /\ Grown(f[i], m, i)
                   /\ i > 0 /\ f[i].got # NULL => f[i].tail[l] \in 1 .. f[i].nodes}
<1>1. f[0] = data /\ \A i \in 1 .. num : f[i] = MakeStep(f[i - 1], l)
  <2>1. f = [i \in 0 .. num |-> IF i = 0 THEN data ELSE MakeStep(f[i - 1], l)]
    BY DEF IsMade
  <2>2. \A i \in 1 .. num : i \in 0 .. num /\ i # 0
    OBVIOUS
  <2> HIDE DEF IsMade
  <2> QED
    BY <2>1, <2>2
<1>2. 0 \in S
  BY <1>1
<1>3. l \in Lists /\ m.nodes \in Nat
  BY ChainConstants DEF MemInv, ChainInv, Lists
<1>4. ASSUME NEW i \in 1 .. num, i - 1 \in S PROVE i \in S
  <2> DEFINE b == f[i - 1]
  <2>1. Grown(b, m, i - 1) /\ (i - 1 > 0 /\ b.got # NULL => b.tail[l] \in 1 .. b.nodes)
    BY <1>4
  <2>2. f[i] = MakeStep(b, l)
    BY <1>1
  <2> HIDE DEF b
  <2>3. CASE b.got = NULL
    <3>1. f[i] = b
      BY <2>2, <2>3 DEF MakeStep
    <3>2. Grown(b, m, i)
      BY <1>3, <2>1 DEF Grown
    <3> QED
      BY <2>3, <3>1, <3>2
  <2>4. CASE b.got # NULL
    <3> DEFINE r == AddBlock(b, l)
    <3>1. f[i] = r
      BY <2>2, <2>4 DEF MakeStep
    <3>2. MemInv(b) /\ b.nodes < MaxNodes
      BY <1>3, <2>1, ChainConstants DEF Grown
    <3>3. Grown(r, b, 1) /\ (r.got # NULL => r.tail[l] \in 1 .. r.nodes)
      BY <1>3, <3>2, BlockIsAdded
    <3> HIDE DEF r
    <3>4. Grown(r, m, i)
      BY <1>3, <2>1, <2>4, <3>3 DEF Grown
    <3> QED
      BY <3>1, <3>3, <3>4
  <2> QED
    BY <2>3, <2>4
<1> HIDE DEF S
<1>5. num \in S
  BY <1>2, <1>4, Climb
<1> QED
  BY <1>5 DEF S

LEMMA ChainIsMade ==
  ASSUME NEW m, MemInv(m), m.lists < MaxLists, NEW size \in Nat,
         NEW num \in {1, 2}, m.nodes + num <= MaxNodes
  PROVE  LET r == InitBlockChain(m, size, num)
         IN  MemInv(r) /\ (Held(m) /\ r.got \notin {NULL, -1} => Held(r))
<1> DEFINE l == m.lists + 1
           list == AllocateMinMemory(m, BlockListSize)
           data == IF list.got = NULL THEN list ELSE AllocateMemory(list, size * num)
           made[i \in 0 .. num] ==
             IF i = 0 THEN data
             ELSE LET before == made[i - 1]
                  IN  IF before.got = NULL THEN before ELSE AddBlock(before, l)
           whole == made[num]
           r == InitBlockChain(m, size, num)
<1>1. r = IF whole.got = NULL
          THEN [whole EXCEPT !.next[HeadOf(l)] = NULL, !.tail[l] = HeadOf(l), !.got = -1]
          ELSE [whole EXCEPT !.lists = l, !.got = l]
  BY Zenon DEF InitBlockChain
<1>2. IsMade(made, data, l, num)
  <2>1. \E f : IsMade(f, data, l, num)
    BY MadeExists
  <2>2. made = CHOOSE f : f = [i \in 0 .. num |->
                 IF i = 0 THEN data
                 ELSE IF f[i - 1].got = NULL THEN f[i - 1] ELSE AddBlock(f[i - 1], l)]
    BY Zenon
  <2> HIDE DEF made, data, l
  <2>3. made = CHOOSE f : IsMade(f, data, l, num)
    BY Zenon, <2>2 DEF IsMade, MakeStep
  <2> QED
    BY Zenon, <2>1, <2>3
<1> HIDE DEF made, r
<1>3. Grown(data, m, 0)
  <2>1. SmallEffect(list, m)
    BY ChainConstants, MinAllocates DEF MemInv
  <2> HIDE DEF list
  <2>2. Effect(list, m)
    BY <2>1, SmallRequest DEF MemInv
  <2>3. ChainInv(list)
    BY <2>1 DEF SmallEffect, SameChains, ChainInv, MemInv
  <2>4. MemInv(list) /\ list.lists = m.lists /\ list.nodes = m.nodes
    BY <2>2, <2>3 DEF Effect, MemInv, SameChains
  <2>5. m.nodes \in Nat
    BY DEF MemInv, ChainInv
  <2>6. CASE list.got = NULL
    BY <2>2, <2>4, <2>5, <2>6 DEF Grown, Effect
  <2>7. CASE list.got # NULL
    <3> DEFINE d == AllocateMemory(list, size * num)
    <3>1. size * num \in Nat
      BY SMT
    <3>2. MemInv(d) /\ Effect(d, list)
      BY <2>4, <3>1, RequestKeepsChains
    <3>3. data = d
      BY <2>7
    <3> HIDE DEF d, data
    <3>4. Grown(d, m, 0)
      BY <2>2, <2>4, <2>5, <2>7, <3>2 DEF Grown, Effect, SameChains
    <3> QED
      BY <3>3, <3>4
  <2> QED
    BY <2>6, <2>7
<1> HIDE DEF data
<1>4. /\ Grown(whole, m, num)
      /\ whole.got # NULL => whole.tail[l] \in 1 .. whole.nodes
  BY <1>2, <1>3, ListIsMade
<1> HIDE DEF whole
<1>5. MemInv(whole) /\ IsMem(whole) /\ ChainInv(whole) /\ whole.lists = m.lists
  BY <1>4 DEF Grown, MemInv
<1>6. l \in Lists /\ m.lists \in Nat /\ HeadOf(l) \in Places /\ l <= MaxLists
  <2>1. m.lists \in 0 .. MaxLists
    BY DEF MemInv, ChainInv
  <2>2. l \in Lists
    BY <2>1, ChainConstants DEF Lists
  <2> QED
    BY <2>1, <2>2, PlacesAre DEF Lists
<1>7. CASE whole.got = NULL
  <2>1. /\ IsMem(r) /\ r.pools = whole.pools /\ r.current = whole.current
        /\ r.left = whole.left /\ SameBuffers(r, whole)
        /\ r.next = [whole.next EXCEPT ![HeadOf(l)] = NULL]
        /\ r.tail = [whole.tail EXCEPT ![l] = HeadOf(l)]
        /\ r.nodes = whole.nodes /\ r.lists = whole.lists /\ r.got = -1
    BY <1>1, <1>5, <1>7 DEF IsMem, Fields, SameBuffers
  <2>2. r.next \in [Places -> 1 .. r.nodes \cup {NULL}]
    BY <1>5, <2>1 DEF ChainInv
  <2>3. r.tail \in [Lists -> Places] /\ r.tail[l] = HeadOf(l)
        /\ \A k \in Lists : k # l => r.tail[k] = whole.tail[k]
    BY <1>5, <1>6, <2>1 DEF ChainInv
  <2>4. \A k \in 1 .. r.lists : k \in Lists /\ k # l
    <3>1. r.lists = m.lists
      BY <1>5, <2>1
    <3> QED
      BY <1>6, <3>1, ChainConstants DEF Lists
  <2>5. ChainInv(r)
    BY <1>5, <2>1, <2>2, <2>3, <2>4 DEF ChainInv
  <2>6. MemInv(r)
    BY <1>5, <2>1, <2>5, MemInvChains
  <2> QED
    BY <2>1, <2>6 DEF r
<1>8. CASE whole.got # NULL
  <2>1. /\ IsMem(r) /\ r.pools = whole.pools /\ r.current = whole.current
        /\ r.left = whole.left /\ SameBuffers(r, whole)
        /\ r.next = whole.next /\ r.tail = whole.tail
        /\ r.nodes = whole.nodes /\ r.lists = l
    BY <1>1, <1>5, <1>8 DEF IsMem, Fields, SameBuffers
  <2>2. \A k \in 1 .. r.lists : k \in 1 .. whole.lists \/ k = l
    BY <1>5, <1>6, <2>1
  <2>3. r.lists \in 0 .. MaxLists
    BY <1>6, <2>1
  <2>4. ChainInv(r)
    BY <1>4, <1>5, <1>8, <2>1, <2>2, <2>3 DEF ChainInv
  <2>5. MemInv(r) /\ (Held(whole) <=> Held(r))
    BY <1>5, <2>1, <2>4, MemInvChains
  <2> QED
    BY <1>4, <1>8, <2>5 DEF Grown, r
<1> QED
  BY <1>7, <1>8

(* The nodes reached from a place, as far as walk takes them. *)
WalkStep(next, p, passed) ==
  LET at == IF passed = << >> THEN p ELSE Last(passed)
  IN  IF next[at] = NULL THEN passed ELSE Append(passed, next[at])

IsWalk(f, next, p, n) ==
  f = [i \in 0 .. n |-> IF i = 0 THEN << >> ELSE WalkStep(next, p, f[i - 1])]

LEMMA WalkExists ==
  ASSUME NEW next, NEW p, NEW max \in Nat
  PROVE  \E f : IsWalk(f, next, p, max)
<1> DEFINE S == {n \in 0 .. max : \E f : IsWalk(f, next, p, n)}
<1>1. 0 \in S
  <2> DEFINE f == [i \in 0 .. 0 |-> << >>]
  <2>1. f = [i \in 0 .. 0 |-> IF i = 0 THEN << >> ELSE WalkStep(next, p, f[i - 1])]
    OBVIOUS
  <2>2. IsWalk(f, next, p, 0)
    BY <2>1 DEF IsWalk
  <2> QED
    BY <2>2
<1>2. ASSUME NEW n \in 1 .. max, n - 1 \in S PROVE n \in S
  <2>1. PICK f : f = [i \in 0 .. n - 1 |->
                        IF i = 0 THEN << >> ELSE WalkStep(next, p, f[i - 1])]
    BY <1>2 DEF IsWalk
  <2> DEFINE g == [i \in 0 .. n |-> IF i < n THEN f[i] ELSE WalkStep(next, p, f[n - 1])]
  <2>2. \A i \in 0 .. n : g[i] = IF i = 0 THEN << >> ELSE WalkStep(next, p, g[i - 1])
    <3>1. ASSUME NEW i \in 0 .. n, i # 0, i < n PROVE g[i] = WalkStep(next, p, g[i - 1])
      <4>1. i \in 0 .. n - 1 /\ i - 1 \in 0 .. n /\ i - 1 < n
        BY <3>1
      <4>2. f[i] = WalkStep(next, p, f[i - 1])
        BY <2>1, <3>1, <4>1
      <4> QED
        BY <3>1, <4>1, <4>2
    <3>2. ASSUME NEW i \in 0 .. n, i = n PROVE g[i] = WalkStep(next, p, g[i - 1])
      <4>1. n - 1 \in 0 .. n /\ n - 1 < n
        OBVIOUS
      <4> QED
        BY <3>2, <4>1
    <3>3. g[0] = << >>
      <4>1. 0 \in 0 .. n - 1 /\ 0 \in 0 .. n /\ 0 < n
        OBVIOUS
      <4> QED
        BY <2>1, <4>1
    <3> QED
      BY <3>1, <3>2, <3>3
  <2>3. g = [i \in 0 .. n |-> IF i = 0 THEN << >> ELSE WalkStep(next, p, g[i - 1])]
    BY <2>2
  <2>4. IsWalk(g, next, p, n)
    BY <2>3 DEF IsWalk
  <2>5. \E h : IsWalk(h, next, p, n)
    BY <2>4
  <2> QED
    BY <2>5
<1> HIDE DEF S
<1>3. max \in S
  BY <1>1, <1>2, Climb
<1> QED
  BY <1>3 DEF S

(* What NodesFrom returns is a sequence of nodes, which only next decides. *)
LEMMA NodesFromIsSeq ==
  ASSUME NEW m, ChainInv(m), NEW p \in Places
  PROVE  NodesFrom(m, p) \in Seq(1 .. m.nodes)
<1> DEFINE N == 1 .. m.nodes
           walk[i \in 0 .. MaxNodes] ==
             IF i = 0 THEN << >>
             ELSE LET passed == walk[i - 1]
                      at == IF passed = << >> THEN p ELSE Last(passed)
                  IN  IF m.next[at] = NULL THEN passed ELSE Append(passed, m.next[at])
<1>1. NodesFrom(m, p) = walk[MaxNodes]
  BY Zenon DEF NodesFrom
<1>2. IsWalk(walk, m.next, p, MaxNodes)
  <2>1. \E f : IsWalk(f, m.next, p, MaxNodes)
    BY WalkExists, ChainConstants
  <2>2. walk = CHOOSE f : f = [i \in 0 .. MaxNodes |->
                 IF i = 0 THEN << >>
                 ELSE IF m.next[IF f[i - 1] = << >> THEN p ELSE Last(f[i - 1])] = NULL
                 THEN f[i - 1]
                 ELSE Append(f[i - 1], m.next[IF f[i - 1] = << >> THEN p ELSE Last(f[i - 1])])]
    BY Zenon
  <2> HIDE DEF walk
  <2>3. walk = CHOOSE f : IsWalk(f, m.next, p, MaxNodes)
    BY Zenon, <2>2 DEF IsWalk, WalkStep
  <2> QED
    BY Zenon, <2>1, <2>3
<1> HIDE DEF walk
<1>3. walk[0] = << >> /\ \A i \in 1 .. MaxNodes : walk[i] = WalkStep(m.next, p, walk[i - 1])
  <2>1. walk = [i \in 0 .. MaxNodes |->
                  IF i = 0 THEN << >> ELSE WalkStep(m.next, p, walk[i - 1])]
    BY <1>2 DEF IsWalk
  <2>2. 0 \in 0 .. MaxNodes /\ \A i \in 1 .. MaxNodes : i \in 0 .. MaxNodes /\ i # 0
    BY ChainConstants
  <2> QED
    BY <2>1, <2>2
<1>4. m.next \in [Places -> N \cup {NULL}] /\ \A n \in N : n \in Places
  BY PlacesAre, ChainConstants DEF ChainInv
<1> DEFINE S == {i \in 0 .. MaxNodes : walk[i] \in Seq(N)}
<1>5. 0 \in S
  <2>1. walk[0] \in Seq(N)
    BY <1>3, EmptySeq
  <2> QED
    BY <2>1, ChainConstants
<1>6. ASSUME NEW i \in 1 .. MaxNodes, i - 1 \in S PROVE i \in S
  <2> DEFINE b == walk[i - 1]
             at == IF b = << >> THEN p ELSE Last(b)
  <2>1. b \in Seq(N)
    BY <1>6
  <2>2. walk[i] = IF m.next[at] = NULL THEN b ELSE Append(b, m.next[at])
    BY <1>3 DEF WalkStep
  <2> HIDE DEF b
  <2>3. at \in Places
    <3>1. CASE b = << >>
      BY <3>1
    <3>2. CASE b # << >>
      <4>1. Len(b) \in 1 .. Len(b)
        BY <2>1, <3>2, EmptySeq
      <4>2. Last(b) \in N
        <5> HIDE DEF N
        <5> QED
          BY <2>1, <4>1, ElementOfSeq DEF Last
      <4> QED
        BY <1>4, <3>2, <4>2
    <3> QED
      BY <3>1, <3>2
  <2> HIDE DEF at
  <2>4. walk[i] \in Seq(N)
    <3>1. m.next[at] \in N \cup {NULL}
      BY <1>4, <2>3
    <3> HIDE DEF N
    <3> QED
      BY <2>1, <2>2, <3>1, AppendProperties
  <2> QED
    BY <2>4
<1> HIDE DEF S
<1>7. MaxNodes \in S
  BY <1>5, <1>6, Climb, ChainConstants
<1> QED
  BY <1>1, <1>7 DEF S

(* The next node of a copy, with block b. *)
CopyStep(before, dest, b) ==
  LET taken == GetChainNode(before)
  IN  IF before.got = NULL THEN before
      ELSE IF taken.got = NULL THEN taken
      ELSE AppendNode(taken, dest, taken.node, b)

IsCopy(f, base, dest, blocks, n) ==
  f = [i \in 0 .. n |-> IF i = 0 THEN base ELSE CopyStep(f[i - 1], dest, blocks[i])]

LEMMA CopyExists ==
  ASSUME NEW base, NEW dest, NEW blocks, NEW max \in Nat
  PROVE  \E f : IsCopy(f, base, dest, blocks, max)
<1> DEFINE S == {n \in 0 .. max : \E f : IsCopy(f, base, dest, blocks, n)}
<1>1. 0 \in S
  <2> DEFINE f == [i \in 0 .. 0 |-> base]
  <2>1. f = [i \in 0 .. 0 |-> IF i = 0 THEN base ELSE CopyStep(f[i - 1], dest, blocks[i])]
    OBVIOUS
  <2>2. IsCopy(f, base, dest, blocks, 0)
    BY <2>1 DEF IsCopy
  <2> QED
    BY <2>2
<1>2. ASSUME NEW n \in 1 .. max, n - 1 \in S PROVE n \in S
  <2>1. PICK f : f = [i \in 0 .. n - 1 |->
                        IF i = 0 THEN base ELSE CopyStep(f[i - 1], dest, blocks[i])]
    BY <1>2 DEF IsCopy
  <2> DEFINE g == [i \in 0 .. n |-> IF i < n THEN f[i] ELSE CopyStep(f[n - 1], dest, blocks[n])]
  <2>2. \A i \in 0 .. n : g[i] = IF i = 0 THEN base ELSE CopyStep(g[i - 1], dest, blocks[i])
    <3>1. ASSUME NEW i \in 0 .. n, i # 0, i < n PROVE g[i] = CopyStep(g[i - 1], dest, blocks[i])
      <4>1. i \in 0 .. n - 1 /\ i - 1 \in 0 .. n /\ i - 1 < n
        BY <3>1
      <4>2. f[i] = CopyStep(f[i - 1], dest, blocks[i])
        BY <2>1, <3>1, <4>1
      <4> QED
        BY <3>1, <4>1, <4>2
    <3>2. ASSUME NEW i \in 0 .. n, i = n PROVE g[i] = CopyStep(g[i - 1], dest, blocks[i])
      <4>1. n - 1 \in 0 .. n /\ n - 1 < n
        OBVIOUS
      <4> QED
        BY <3>2, <4>1
    <3>3. g[0] = base
      <4>1. 0 \in 0 .. n - 1 /\ 0 \in 0 .. n /\ 0 < n
        OBVIOUS
      <4> QED
        BY <2>1, <4>1
    <3> QED
      BY <3>1, <3>2, <3>3
  <2>3. g = [i \in 0 .. n |-> IF i = 0 THEN base ELSE CopyStep(g[i - 1], dest, blocks[i])]
    BY <2>2
  <2>4. IsCopy(g, base, dest, blocks, n)
    BY <2>3 DEF IsCopy
  <2>5. \E h : IsCopy(h, base, dest, blocks, n)
    BY <2>4
  <2> QED
    BY <2>5
<1> HIDE DEF S
<1>3. max \in S
  BY <1>1, <1>2, Climb
<1> QED
  BY <1>3 DEF S

LEMMA CopyGrows ==
  ASSUME NEW m, MemInv(m), NEW dest \in 1 .. m.lists, NEW blocks,
         NEW n \in Nat, m.nodes + n <= MaxNodes,
         NEW base, Grown(base, m, 0),
         NEW f, IsCopy(f, base, dest, blocks, n)
  PROVE  Grown(f[n], m, n)
<1> DEFINE S == {i \in 0 .. n : Grown(f[i], m, i)}
<1>1. f[0] = base /\ \A i \in 1 .. n : f[i] = CopyStep(f[i - 1], dest, blocks[i])
  <2>1. f = [i \in 0 .. n |-> IF i = 0 THEN base ELSE CopyStep(f[i - 1], dest, blocks[i])]
    BY DEF IsCopy
  <2>2. \A i \in 1 .. n : i \in 0 .. n /\ i # 0
    OBVIOUS
  <2> HIDE DEF IsCopy
  <2> QED
    BY <2>1, <2>2
<1>2. 0 \in S
  BY <1>1
<1>3. dest \in Lists /\ m.nodes \in Nat
  BY ChainConstants DEF MemInv, ChainInv, Lists
<1>4. ASSUME NEW i \in 1 .. n, i - 1 \in S PROVE i \in S
  <2> DEFINE b == f[i - 1]
             taken == GetChainNode(b)
             r == AppendNode(taken, dest, taken.node, blocks[i])
  <2>1. Grown(b, m, i - 1)
    BY <1>4
  <2>2. f[i] = CopyStep(b, dest, blocks[i])
    BY <1>1
  <2> HIDE DEF b
  <2>3. f[i] = IF b.got = NULL THEN b ELSE IF taken.got = NULL THEN taken ELSE r
    BY <2>2 DEF CopyStep
  <2>4. MemInv(b) /\ b.nodes < MaxNodes
    BY <1>3, <2>1, ChainConstants DEF Grown
  <2>5. Grown(taken, b, 1) /\ (taken.got # NULL => taken.node \in 1 .. taken.nodes)
    BY <2>4, NodeIsGot
  <2> HIDE DEF taken
  <2>6. CASE b.got = NULL
    BY <1>3, <2>1, <2>3, <2>6 DEF Grown
  <2>7. CASE b.got # NULL
    <3>1. Grown(taken, m, i)
      BY <1>3, <2>1, <2>5, <2>7 DEF Grown
    <3>2. CASE taken.got = NULL
      BY <2>3, <2>7, <3>1, <3>2
    <3>3. CASE taken.got # NULL
      <4>1. /\ MemInv(r) /\ (Held(taken) <=> Held(r))
            /\ r.lists = taken.lists /\ r.nodes = taken.nodes /\ r.got = taken.got
        BY <1>3, <2>5, <3>1, <3>3, NodeIsAppended DEF Grown
      <4> HIDE DEF r
      <4>2. Grown(r, m, i)
        BY <3>1, <4>1 DEF Grown
      <4> QED
        BY <2>3, <2>7, <3>3, <4>2
    <3> QED
      BY <3>2, <3>3
  <2> QED
    BY <2>6, <2>7
<1> HIDE DEF S
<1>5. n \in S
  BY <1>2, <1>4, Climb
<1> QED
  BY <1>5 DEF S

LEMMA ChainIsCopied ==
  ASSUME NEW m, MemInv(m), NEW dest \in 1 .. m.lists, NEW src \in 1 .. m.lists,
         m.nodes + Len(Chain(m, src)) <= MaxNodes
  PROVE  LET r == CopyBlockChain(m, dest, src)
         IN  MemInv(r) /\ (Held(m) /\ r.got # NULL => Held(r))
<1> DEFINE source == Chain(m, src)
           base == [m EXCEPT !.got = dest]
           copied[i \in 0 .. Len(source)] ==
             IF i = 0 THEN [m EXCEPT !.got = dest]
             ELSE LET before == copied[i - 1]
                      taken  == GetChainNode(before)
                  IN  IF before.got = NULL THEN before
                      ELSE IF taken.got = NULL THEN taken
                      ELSE AppendNode(taken, dest, taken.node, m.block[source[i]])
           blocks == [i \in 1 .. Len(source) |-> m.block[source[i]]]
           n == Len(source)
<1>1. CopyBlockChain(m, dest, src) = copied[n]
  BY Zenon DEF CopyBlockChain
<1>2. source \in Seq(1 .. m.nodes) /\ n \in Nat
  <2>1. HeadOf(src) \in Places
    BY PlacesAre, ChainConstants DEF MemInv, ChainInv, Lists
  <2>2. source \in Seq(1 .. m.nodes)
    BY <2>1, NodesFromIsSeq DEF MemInv, Chain
  <2> HIDE DEF source
  <2> QED
    BY <2>2, LenProperties
<1>3. IsCopy(copied, base, dest, blocks, n)
  <2>1. PICK f : IsCopy(f, base, dest, blocks, n)
    BY <1>2, CopyExists
  <2>2. copied = CHOOSE h : h = [i \in 0 .. n |->
          IF i = 0 THEN base
          ELSE IF h[i - 1].got = NULL THEN h[i - 1]
          ELSE IF GetChainNode(h[i - 1]).got = NULL THEN GetChainNode(h[i - 1])
          ELSE AppendNode(GetChainNode(h[i - 1]), dest, GetChainNode(h[i - 1]).node,
                          m.block[source[i]])]
    BY Zenon
  <2> HIDE DEF copied
  <2>3. \A i \in 0 .. n : i # 0 => blocks[i] = m.block[source[i]]
    BY <1>2
  <2> HIDE DEF base, n, source
  <2>4. ASSUME NEW h
        PROVE  [i \in 0 .. n |-> IF i = 0 THEN base ELSE CopyStep(h[i - 1], dest, blocks[i])]
               = [i \in 0 .. n |->
          IF i = 0 THEN base
          ELSE IF h[i - 1].got = NULL THEN h[i - 1]
          ELSE IF GetChainNode(h[i - 1]).got = NULL THEN GetChainNode(h[i - 1])
          ELSE AppendNode(GetChainNode(h[i - 1]), dest, GetChainNode(h[i - 1]).node,
                          m.block[source[i]])]
    <3> HIDE DEF blocks
    <3> QED
      BY <2>3 DEF CopyStep
  <2> HIDE DEF blocks
  <2>5. f = [i \in 0 .. n |->
          IF i = 0 THEN base
          ELSE IF f[i - 1].got = NULL THEN f[i - 1]
          ELSE IF GetChainNode(f[i - 1]).got = NULL THEN GetChainNode(f[i - 1])
          ELSE AppendNode(GetChainNode(f[i - 1]), dest, GetChainNode(f[i - 1]).node,
                          m.block[source[i]])]
    BY Zenon, <2>1, <2>4 DEF IsCopy
  <2>6. copied = [i \in 0 .. n |->
          IF i = 0 THEN base
          ELSE IF copied[i - 1].got = NULL THEN copied[i - 1]
          ELSE IF GetChainNode(copied[i - 1]).got = NULL THEN GetChainNode(copied[i - 1])
          ELSE AppendNode(GetChainNode(copied[i - 1]), dest, GetChainNode(copied[i - 1]).node,
                          m.block[source[i]])]
    BY Zenon, <2>2, <2>5
  <2> QED
    BY Zenon, <2>4, <2>6 DEF IsCopy
<1> HIDE DEF copied
<1>4. Grown(base, m, 0)
  <2>1. /\ IsMem(base) /\ base.pools = m.pools /\ base.current = m.current
        /\ base.left = m.left /\ SameBuffers(base, m) /\ base.next = m.next
        /\ base.tail = m.tail /\ base.nodes = m.nodes /\ base.lists = m.lists
    BY DEF MemInv, IsMem, Fields, SameBuffers
  <2> HIDE DEF base
  <2>2. MemInv(base) /\ (Held(m) <=> Held(base))
    BY <2>1, MemInvReads
  <2> QED
    BY <2>1, <2>2 DEF Grown, MemInv, ChainInv
<1>5. m.nodes + n <= MaxNodes
  OBVIOUS
<1> HIDE DEF base, blocks, n, source
<1>6. Grown(copied[n], m, n)
  BY <1>2, <1>3, <1>4, <1>5, CopyGrows
<1> QED
  BY <1>1, <1>6 DEF Grown

(* A node that was taken from a list, or a new one. *)
LEMMA NodeIsTaken ==
  ASSUME NEW m, MemInv(m), m.nodes < MaxNodes, NEW l \in Lists
  PROVE  LET r == GetFreeChainNode(m, l)
         IN  MemInv(r) /\ (Held(m) /\ r.got # NULL => Held(r))
<1> DEFINE r == GetFreeChainNode(m, l)
           n == m.next[HeadOf(l)]
           taken == GetChainNode(m)
           room == AllocateMemory(taken, BlockSize)
<1>1. r = IF n # NULL
          THEN [m EXCEPT !.next = [@ EXCEPT ![HeadOf(l)] = m.next[n], ![n] = NULL], !.node = n]
          ELSE IF taken.got = NULL THEN taken
          ELSE [room EXCEPT !.block[taken.node] = NULL, !.next[taken.node] = NULL]
  BY Zenon DEF GetFreeChainNode
<1>2. Grown(taken, m, 1)
  BY NodeIsGot
<1>3. MemInv(taken)
  BY <1>2 DEF Grown
<1> HIDE DEF r, taken
<1>4. MemInv(room) /\ Effect(room, taken)
  BY <1>3, RequestKeepsChains, ChainConstants
<1> HIDE DEF room
<1>5. IsMem(m) /\ ChainInv(m) /\ IsMem(room) /\ ChainInv(room)
  BY <1>4 DEF MemInv
<1>6. CASE n # NULL
  <2>1. /\ IsMem(r) /\ r.pools = m.pools /\ r.current = m.current /\ r.left = m.left
        /\ SameBuffers(r, m)
        /\ r.next = [[m.next EXCEPT ![HeadOf(l)] = m.next[n]] EXCEPT ![n] = NULL]
        /\ r.tail = m.tail /\ r.nodes = m.nodes /\ r.lists = m.lists
    BY <1>1, <1>5, <1>6 DEF IsMem, Fields, SameBuffers
  <2>2. n \in 1 .. m.nodes /\ n \in Places
    BY <1>5, <1>6, PlacesAre, ChainConstants DEF ChainInv
  <2>3. m.next[n] \in 1 .. m.nodes \cup {NULL}
    BY <1>5, <2>2 DEF ChainInv
  <2>4. r.next \in [Places -> 1 .. m.nodes \cup {NULL}]
    BY <1>5, <2>1, <2>3 DEF ChainInv
  <2>5. ChainInv(r)
    BY <1>5, <2>1, <2>4 DEF ChainInv
  <2> QED
    BY <2>1, <2>5, MemInvChains DEF r
<1>7. CASE n = NULL /\ taken.got = NULL
  BY <1>1, <1>2, <1>7 DEF Grown, r
<1>8. CASE n = NULL /\ taken.got # NULL
  <2>1. /\ IsMem(r) /\ r.pools = room.pools /\ r.current = room.current
        /\ r.left = room.left /\ SameBuffers(r, room)
        /\ r.next = [room.next EXCEPT ![taken.node] = NULL]
        /\ r.tail = room.tail /\ r.nodes = room.nodes /\ r.lists = room.lists
        /\ r.got = room.got
    BY <1>1, <1>5, <1>8 DEF IsMem, Fields, SameBuffers
  <2>2. r.next \in [Places -> 1 .. room.nodes \cup {NULL}]
    BY <1>5, <2>1 DEF ChainInv
  <2>3. ChainInv(r)
    BY <1>5, <2>1, <2>2 DEF ChainInv
  <2>4. MemInv(r) /\ (Held(room) <=> Held(r))
    BY <1>4, <2>1, <2>3, MemInvChains
  <2> QED
    BY <1>2, <1>4, <1>8, <2>1, <2>4 DEF Grown, Effect, r
<1> QED
  BY <1>6, <1>7, <1>8 DEF r

(* One node of the queue that UpdateChain goes through. *)
SortStep(m0, call, n) ==
  LET m1 == [m0 EXCEPT !.next[HeadOf(call.busy)] = m0.next[n]]
  IN  IF m0.next[HeadOf(call.busy)] # n \/ call.block[n] \in call.full THEN m0
      ELSE IF call.block[n] \notin call.own THEN Push(m1, Cache, n)
      ELSE Push(m1, HeadOf(call.free), n)

IsSort(f, base, call, queue, n) ==
  f = [i \in 0 .. n |-> IF i = 0 THEN base ELSE SortStep(f[i - 1], call, queue[i])]

LEMMA SortExists ==
  ASSUME NEW base, NEW call, NEW queue, NEW max \in Nat
  PROVE  \E f : IsSort(f, base, call, queue, max)
<1> DEFINE S == {n \in 0 .. max : \E f : IsSort(f, base, call, queue, n)}
<1>1. 0 \in S
  <2> DEFINE f == [i \in 0 .. 0 |-> base]
  <2>1. f = [i \in 0 .. 0 |-> IF i = 0 THEN base ELSE SortStep(f[i - 1], call, queue[i])]
    OBVIOUS
  <2>2. IsSort(f, base, call, queue, 0)
    BY <2>1 DEF IsSort
  <2> QED
    BY <2>2
<1>2. ASSUME NEW n \in 1 .. max, n - 1 \in S PROVE n \in S
  <2>1. PICK f : f = [i \in 0 .. n - 1 |->
                        IF i = 0 THEN base ELSE SortStep(f[i - 1], call, queue[i])]
    BY <1>2 DEF IsSort
  <2> DEFINE g == [i \in 0 .. n |-> IF i < n THEN f[i] ELSE SortStep(f[n - 1], call, queue[n])]
  <2>2. \A i \in 0 .. n : g[i] = IF i = 0 THEN base ELSE SortStep(g[i - 1], call, queue[i])
    <3>1. ASSUME NEW i \in 0 .. n, i # 0, i < n PROVE g[i] = SortStep(g[i - 1], call, queue[i])
      <4>1. i \in 0 .. n - 1 /\ i - 1 \in 0 .. n /\ i - 1 < n
        BY <3>1
      <4>2. f[i] = SortStep(f[i - 1], call, queue[i])
        BY <2>1, <3>1, <4>1
      <4> QED
        BY <3>1, <4>1, <4>2
    <3>2. ASSUME NEW i \in 0 .. n, i = n PROVE g[i] = SortStep(g[i - 1], call, queue[i])
      <4>1. n - 1 \in 0 .. n /\ n - 1 < n
        OBVIOUS
      <4> QED
        BY <3>2, <4>1
    <3>3. g[0] = base
      <4>1. 0 \in 0 .. n - 1 /\ 0 \in 0 .. n /\ 0 < n
        OBVIOUS
      <4> QED
        BY <2>1, <4>1
    <3> QED
      BY <3>1, <3>2, <3>3
  <2>3. g = [i \in 0 .. n |-> IF i = 0 THEN base ELSE SortStep(g[i - 1], call, queue[i])]
    BY <2>2
  <2>4. IsSort(g, base, call, queue, n)
    BY <2>3 DEF IsSort
  <2>5. \E h : IsSort(h, base, call, queue, n)
    BY <2>4
  <2> QED
    BY <2>5
<1> HIDE DEF S
<1>3. max \in S
  BY <1>1, <1>2, Climb
<1> QED
  BY <1>3 DEF S

(* What a change of links alone leaves of the pool. *)
Relinked(r, m) ==
  /\ MemInv(r) /\ (Held(m) <=> Held(r))
  /\ r.lists = m.lists /\ r.nodes = m.nodes

LEMMA LinkIsSet ==
  ASSUME NEW m, MemInv(m), NEW p, NEW x \in 1 .. m.nodes \cup {NULL}
  PROVE  LET r == [m EXCEPT !.next[p] = x]
         IN  Relinked(r, m) /\ r.next = [m.next EXCEPT ![p] = x] /\ r.tail = m.tail
<1> DEFINE r == [m EXCEPT !.next[p] = x]
<1>1. IsMem(m) /\ ChainInv(m)
  BY DEF MemInv
<1>2. /\ IsMem(r) /\ r.pools = m.pools /\ r.current = m.current /\ r.left = m.left
      /\ SameBuffers(r, m) /\ r.next = [m.next EXCEPT ![p] = x]
      /\ r.tail = m.tail /\ r.nodes = m.nodes /\ r.lists = m.lists
  BY <1>1 DEF IsMem, Fields, SameBuffers
<1> HIDE DEF r
<1>3. r.next \in [Places -> 1 .. m.nodes \cup {NULL}]
  BY <1>1, <1>2 DEF ChainInv
<1>4. ChainInv(r)
  BY <1>1, <1>2, <1>3 DEF ChainInv
<1> QED
  BY <1>2, <1>4, MemInvChains DEF Relinked, r

LEMMA NodeIsPushed ==
  ASSUME NEW m, MemInv(m), NEW p \in Places, NEW n \in 1 .. m.nodes
  PROVE  Relinked(Push(m, p, n), m)
<1> DEFINE r == Push(m, p, n)
<1>1. IsMem(m) /\ ChainInv(m)
  BY DEF MemInv
<1>2. /\ IsMem(r) /\ r.pools = m.pools /\ r.current = m.current /\ r.left = m.left
      /\ SameBuffers(r, m)
      /\ r.next = [[m.next EXCEPT ![n] = m.next[p]] EXCEPT ![p] = n]
      /\ r.tail = m.tail /\ r.nodes = m.nodes /\ r.lists = m.lists
  BY <1>1 DEF IsMem, Fields, SameBuffers, Push
<1> HIDE DEF r
<1>3. m.next[p] \in 1 .. m.nodes \cup {NULL}
  BY <1>1 DEF ChainInv
<1>4. r.next \in [Places -> 1 .. m.nodes \cup {NULL}]
  BY <1>1, <1>2, <1>3 DEF ChainInv
<1>5. ChainInv(r)
  BY <1>1, <1>2, <1>4 DEF ChainInv
<1> QED
  BY <1>2, <1>5, MemInvChains DEF Relinked, r

LEMMA NodeIsSorted ==
  ASSUME NEW m, MemInv(m), NEW call, call.free \in Lists, NEW n \in 1 .. m.nodes
  PROVE  Relinked(SortStep(m, call, n), m)
<1> DEFINE r == SortStep(m, call, n)
           m1 == [m EXCEPT !.next[HeadOf(call.busy)] = m.next[n]]
<1>1. r = IF m.next[HeadOf(call.busy)] # n \/ call.block[n] \in call.full THEN m
          ELSE IF call.block[n] \notin call.own THEN Push(m1, Cache, n)
          ELSE Push(m1, HeadOf(call.free), n)
  BY Zenon DEF SortStep
<1>2. n \in Places /\ m.next[n] \in 1 .. m.nodes \cup {NULL}
  BY PlacesAre, ChainConstants DEF MemInv, ChainInv
<1>3. Relinked(m1, m)
  BY <1>2, LinkIsSet
<1> HIDE DEF r, m1
<1>4. Cache \in Places /\ HeadOf(call.free) \in Places
  BY PlacesAre
<1>5. \A p \in Places : Relinked(Push(m1, p, n), m1)
  BY <1>3, NodeIsPushed DEF Relinked
<1>6. \A p \in Places : Relinked(Push(m1, p, n), m)
  BY <1>3, <1>5 DEF Relinked
<1>7. Relinked(m, m)
  BY DEF Relinked
<1> QED
  BY <1>1, <1>4, <1>6, <1>7 DEF r

LEMMA QueueIsSorted ==
  ASSUME NEW m, MemInv(m), NEW call, call.free \in Lists,
         NEW n \in Nat, NEW queue, \A i \in 1 .. n : queue[i] \in 1 .. m.nodes,
         NEW f, IsSort(f, m, call, queue, n)
  PROVE  Relinked(f[n], m)
<1> DEFINE S == {i \in 0 .. n : Relinked(f[i], m)}
<1>1. f[0] = m /\ \A i \in 1 .. n : f[i] = SortStep(f[i - 1], call, queue[i])
  <2>1. f = [i \in 0 .. n |-> IF i = 0 THEN m ELSE SortStep(f[i - 1], call, queue[i])]
    BY DEF IsSort
  <2>2. \A i \in 1 .. n : i \in 0 .. n /\ i # 0
    OBVIOUS
  <2> HIDE DEF IsSort
  <2> QED
    BY <2>1, <2>2
<1>2. 0 \in S
  BY <1>1 DEF Relinked
<1>3. ASSUME NEW i \in 1 .. n, i - 1 \in S PROVE i \in S
  <2> DEFINE b == f[i - 1]
  <2>1. Relinked(b, m)
    BY <1>3
  <2>2. f[i] = SortStep(b, call, queue[i])
    BY <1>1
  <2> HIDE DEF b
  <2>3. Relinked(f[i], b)
    BY <2>1, <2>2, NodeIsSorted DEF Relinked
  <2>4. Relinked(f[i], m)
    BY <2>1, <2>3 DEF Relinked
  <2> QED
    BY <2>4
<1> HIDE DEF S
<1>4. n \in S
  BY <1>2, <1>3, Climb
<1> QED
  BY <1>4 DEF S

LEMMA ChainIsUpdated ==
  ASSUME NEW m, MemInv(m), NEW free \in 1 .. m.lists, NEW busy \in 1 .. m.lists,
         NEW out \in 1 .. m.lists, NEW full, NEW own
  PROVE  LET r == UpdateChain(m, free, busy, out, full, own)
         IN  MemInv(r) /\ (Held(m) => Held(r))
<1> DEFINE joined == [m EXCEPT !.next[m.tail[busy]] = m.next[HeadOf(out)],
                               !.tail[busy] = m.tail[out]]
           queue == Chain(joined, busy)
           n == Len(queue)
           sorted[i \in 0 .. Len(queue)] ==
             IF i = 0 THEN joined
             ELSE LET m0 == sorted[i - 1]
                      k  == queue[i]
                      m1 == [m0 EXCEPT !.next[HeadOf(busy)] = m0.next[k]]
                  IN  IF m0.next[HeadOf(busy)] # k \/ m.block[k] \in full THEN m0
                      ELSE IF m.block[k] \notin own THEN Push(m1, Cache, k)
                      ELSE Push(m1, HeadOf(free), k)
           r == UpdateChain(m, free, busy, out, full, own)
           call == [block |-> m.block, free |-> free, busy |-> busy,
                    full |-> full, own |-> own]
<1>1. r = [sorted[n] EXCEPT !.got = free]
  BY Zenon DEF UpdateChain
<1> HIDE DEF r
<1>2. IsMem(m) /\ ChainInv(m) /\ {free, busy, out} \subseteq Lists
  BY ChainConstants DEF MemInv, ChainInv, Lists
<1>3. Relinked(joined, m)
  <2>1. /\ IsMem(joined) /\ joined.pools = m.pools /\ joined.current = m.current
        /\ joined.left = m.left /\ SameBuffers(joined, m)
        /\ joined.next = [m.next EXCEPT ![m.tail[busy]] = m.next[HeadOf(out)]]
        /\ joined.tail = [m.tail EXCEPT ![busy] = m.tail[out]]
        /\ joined.nodes = m.nodes /\ joined.lists = m.lists
    BY <1>2 DEF IsMem, Fields, SameBuffers
  <2> HIDE DEF joined
  <2>2. m.next[HeadOf(out)] \in 1 .. m.nodes \cup {NULL}
    BY <1>2, PlacesAre DEF ChainInv
  <2>3. joined.next \in [Places -> 1 .. m.nodes \cup {NULL}]
    BY <1>2, <2>1, <2>2 DEF ChainInv
  <2>4. m.tail[out] \in 1 .. m.nodes /\ m.tail[out] \in Places
    BY <1>2 DEF ChainInv
  <2>5. joined.tail \in [Lists -> Places] /\ joined.tail[busy] = m.tail[out]
        /\ \A l \in Lists : l # busy => joined.tail[l] = m.tail[l]
    BY <1>2, <2>1, <2>4 DEF ChainInv
  <2>6. \A l \in 1 .. m.lists : l \in Lists
    BY <1>2, ChainConstants DEF ChainInv, Lists
  <2>7. ChainInv(joined)
    BY <1>2, <2>1, <2>3, <2>4, <2>5, <2>6 DEF ChainInv
  <2> QED
    BY <2>1, <2>7, MemInvChains DEF Relinked
<1> HIDE DEF joined
<1>4. n \in Nat /\ \A i \in 1 .. n : queue[i] \in 1 .. joined.nodes
  <2>1. HeadOf(busy) \in Places
    BY <1>2, PlacesAre
  <2>2. queue \in Seq(1 .. joined.nodes)
    BY <1>3, <2>1, NodesFromIsSeq DEF Relinked, MemInv, Chain
  <2> HIDE DEF queue
  <2> QED
    BY <2>2, LenProperties, ElementOfSeq
<1>5. IsSort(sorted, joined, call, queue, n)
  <2>1. PICK f : IsSort(f, joined, call, queue, n)
    BY <1>4, SortExists
  <2>2. sorted = CHOOSE h : h = [i \in 0 .. n |->
          IF i = 0 THEN joined
          ELSE IF h[i - 1].next[HeadOf(busy)] # queue[i] \/ m.block[queue[i]] \in full
          THEN h[i - 1]
          ELSE IF m.block[queue[i]] \notin own
          THEN Push([h[i - 1] EXCEPT !.next[HeadOf(busy)] = h[i - 1].next[queue[i]]],
                    Cache, queue[i])
          ELSE Push([h[i - 1] EXCEPT !.next[HeadOf(busy)] = h[i - 1].next[queue[i]]],
                    HeadOf(free), queue[i])]
    BY Zenon
  <2>3. call.block = m.block /\ call.free = free /\ call.busy = busy
        /\ call.full = full /\ call.own = own
    OBVIOUS
  <2> HIDE DEF sorted, call, n, queue
  <2>4. sorted = CHOOSE h : IsSort(h, joined, call, queue, n)
    BY Zenon, <2>2, <2>3 DEF IsSort, SortStep
  <2> QED
    BY Zenon, <2>1, <2>4
<1> HIDE DEF sorted, n, queue
<1>6. call.free \in Lists
  BY <1>2
<1> HIDE DEF call
<1>7. Relinked(sorted[n], joined)
  BY <1>3, <1>4, <1>5, <1>6, QueueIsSorted DEF Relinked
<1> DEFINE last == sorted[n]
<1>8. Relinked(last, m)
  BY <1>3, <1>7 DEF Relinked
<1>9. r = [last EXCEPT !.got = free]
  BY <1>1
<1> HIDE DEF last
<1>10. /\ IsMem(r) /\ r.pools = last.pools /\ r.current = last.current
       /\ r.left = last.left /\ SameBuffers(r, last) /\ r.next = last.next
       /\ r.tail = last.tail /\ r.nodes = last.nodes /\ r.lists = last.lists
  BY <1>8, <1>9 DEF Relinked, MemInv, IsMem, Fields, SameBuffers
<1>11. MemInv(r) /\ (Held(last) <=> Held(r))
  BY <1>8, <1>10, MemInvReads DEF Relinked
<1> QED
  BY <1>8, <1>11 DEF Relinked, r

-----------------------------------------------------------------------------
(* The program.                                                            *)

(* PoolsOK and LargeOwned with what they need to be inductive: the fields, *)
(* the numbers in range, buffers that were made, and a tail_block of every *)
(* list that leads to a node.                                              *)
Inv ==
  /\ IsMem(mem) /\ Owned(mem) /\ ChainInv(mem)
  /\ ~ended => PoolInv(mem)
  /\ ended => mem.pools = << >> /\ mem.large = << >>
  /\ ~refused => Held(mem)

(* One call that gives m, with what Call does before and after it. *)
LEMMA CallKeepsInv ==
  ASSUME MemInv(mem), ~refused => Held(mem), ended' = ended,
         ~ended, NEW m, MemInv(m),
         Held(mem) /\ m.got \notin {NULL, -1} => Held(m),
         refused' = (refused \/ m.got \in {NULL, -1}),
         mem' = [m EXCEPT !.left = 0, !.got = 0, !.node = NULL]
  PROVE  Inv'
<1>1. IsMem(m) /\ PoolInv(m) /\ Owned(m) /\ ChainInv(m)
  BY DEF MemInv
<1>2. /\ IsMem(mem') /\ mem'.pools = m.pools /\ mem'.current = m.current
      /\ mem'.left = 0 /\ SameBuffers(mem', m) /\ mem'.next = m.next
      /\ mem'.tail = m.tail /\ mem'.nodes = m.nodes /\ mem'.lists = m.lists
  BY <1>1 DEF IsMem, Fields, SameBuffers
<1>3. Owned(mem') /\ (Held(m) => Held(mem'))
  BY <1>1, <1>2 DEF Owned, Held, SameBuffers
<1>4. PoolInv(mem')
  BY <1>1, <1>2 DEF PoolInv, SameBuffers
<1>5. ChainInv(mem')
  BY <1>1, <1>2 DEF ChainInv
<1>6. ~refused' => Held(mem')
  BY <1>3
<1> QED
  BY <1>2, <1>3, <1>4, <1>5, <1>6 DEF Inv

(* The pool as a call finds it. *)
LEMMA BudgetIsGiven ==
  ASSUME MemInv(mem), NEW budget \in Budgets
  PROVE  LET start == [mem EXCEPT !.left = budget]
         IN  /\ MemInv(start) /\ (Held(mem) <=> Held(start))
             /\ start.nodes = mem.nodes /\ start.lists = mem.lists /\ start.next = mem.next
<1> DEFINE start == [mem EXCEPT !.left = budget]
<1>1. IsMem(mem) /\ PoolInv(mem) /\ Owned(mem) /\ ChainInv(mem)
  BY DEF MemInv
<1>2. budget \in Nat
  BY ChainConstants DEF Budgets
<1>3. /\ IsMem(start) /\ start.pools = mem.pools /\ start.current = mem.current
      /\ start.left = budget /\ SameBuffers(start, mem) /\ start.next = mem.next
      /\ start.tail = mem.tail /\ start.nodes = mem.nodes /\ start.lists = mem.lists
  BY <1>1 DEF IsMem, Fields, SameBuffers
<1> HIDE DEF start
<1>4. PoolInv(start) /\ Owned(start) /\ ChainInv(start) /\ (Held(mem) <=> Held(start))
  BY <1>1, <1>2, <1>3 DEF PoolInv, Owned, Held, ChainInv, SameBuffers
<1> QED
  BY <1>3, <1>4 DEF MemInv, start

(* NodesFrom, of the links alone. *)
Walked(next, p) ==
  LET walk[i \in 0 .. MaxNodes] ==
        IF i = 0 THEN << >>
        ELSE LET passed == walk[i - 1]
                 at == IF passed = << >> THEN p ELSE Last(passed)
             IN  IF next[at] = NULL THEN passed ELSE Append(passed, next[at])
  IN  walk[MaxNodes]

LEMMA NodesFromReads ==
  ASSUME NEW m, NEW r, r.next = m.next, NEW p
  PROVE  NodesFrom(r, p) = NodesFrom(m, p)
<1>1. NodesFrom(r, p) = Walked(r.next, p) /\ NodesFrom(m, p) = Walked(m.next, p)
  BY Zenon DEF NodesFrom, Walked
<1> QED
  BY <1>1

LEMMA InvInitially == Init => Inv
<1> SUFFICES ASSUME Init PROVE Inv
  OBVIOUS
<1>1. MemInv(mem) /\ Held(mem) /\ ~ended
  BY Initial DEF Init
<1> QED
  BY <1>1 DEF MemInv, Inv

LEMMA InvMeansMemInv == Inv /\ ~ended => MemInv(mem)
  BY DEF Inv, MemInv

LEMMA AllocateKeepsInv == Inv /\ Allocate => Inv'
<1> SUFFICES ASSUME Inv, Allocate PROVE Inv'
  OBVIOUS
<1>1. PICK size \in Requests, budget \in Budgets :
        LET m == AllocateMemory([mem EXCEPT !.left = budget], size)
        IN  /\ refused' = (refused \/ m.got \in {NULL, -1})
            /\ mem' = [m EXCEPT !.left = 0, !.got = 0, !.node = NULL]
  BY DEF Allocate, Call
<1>2. ~ended /\ ended' = ended /\ size \in Nat
  BY ChainConstants DEF Allocate, Call
<1>3. MemInv(mem) /\ (~refused => Held(mem))
  BY <1>2, InvMeansMemInv DEF Inv
<1> DEFINE start == [mem EXCEPT !.left = budget]
           m == AllocateMemory(start, size)
<1>4. MemInv(start) /\ (Held(mem) <=> Held(start))
  BY <1>3, BudgetIsGiven
<1> HIDE DEF start
<1>5. MemInv(m) /\ (Held(start) /\ m.got # NULL => Held(m))
  BY <1>2, <1>4, RequestKeepsChains DEF Effect
<1>6. /\ refused' = (refused \/ m.got \in {NULL, -1})
      /\ mem' = [m EXCEPT !.left = 0, !.got = 0, !.node = NULL]
  BY <1>1 DEF start
<1> HIDE DEF m
<1> QED
  BY <1>2, <1>3, <1>4, <1>5, <1>6, CallKeepsInv

LEMMA FreeLargeKeepsInv == Inv /\ FreeLarge => Inv'
<1> SUFFICES ASSUME Inv, FreeLarge PROVE Inv'
  OBVIOUS
<1>1. PICK buf \in 1 .. mem.made : mem' = [FreeLargeMemory(mem, buf) EXCEPT !.got = 0]
  BY DEF FreeLarge
<1>2. ~ended /\ ended' = ended /\ refused' = refused
  BY DEF FreeLarge
<1>3. MemInv(mem)
  BY <1>2, InvMeansMemInv
<1>4. buf \in Nat
  BY <1>3 DEF MemInv, Owned
<1> DEFINE r == FreeLargeMemory(mem, buf)
<1>5. /\ IsMem(r) /\ PoolInv(r) /\ Owned(r)
      /\ SameChains(r, mem) /\ r.node = mem.node
      /\ Held(mem) => Held(r)
  BY <1>3, <1>4, LargeIsFreed DEF MemInv
<1> HIDE DEF r
<1>6. MemInv(r)
  BY <1>3, <1>5 DEF MemInv, ChainInv, SameChains
<1>7. mem' = [r EXCEPT !.got = 0]
  BY <1>1 DEF r
<1>8. /\ IsMem(mem') /\ mem'.pools = r.pools /\ mem'.current = r.current
      /\ mem'.left = r.left /\ SameBuffers(mem', r) /\ mem'.next = r.next
      /\ mem'.tail = r.tail /\ mem'.nodes = r.nodes /\ mem'.lists = r.lists
  BY <1>5, <1>7 DEF IsMem, Fields, SameBuffers
<1>9. MemInv(mem') /\ (Held(r) <=> Held(mem'))
  BY <1>6, <1>8, MemInvReads
<1> QED
  BY <1>2, <1>5, <1>9 DEF Inv, MemInv

LEMMA ResetKeepsInv == Inv /\ Reset => Inv'
<1> SUFFICES ASSUME Inv, Reset PROVE Inv'
  OBVIOUS
<1>1. ~ended /\ ended' = ended /\ refused' = refused /\ mem' = NoChains(ResetPool(mem))
  BY DEF Reset
<1>2. MemInv(mem)
  BY <1>1, InvMeansMemInv
<1>3. MemInv(mem') /\ (Held(mem) => Held(mem'))
  BY <1>1, <1>2, Resets
<1> QED
  BY <1>1, <1>3 DEF Inv, MemInv

LEMMA EndKeepsInv == Inv /\ End => Inv'
<1> SUFFICES ASSUME Inv, End PROVE Inv'
  OBVIOUS
<1>1. ~ended /\ ended' /\ refused' = refused /\ mem' = NoChains(DestoryPool(mem))
  BY DEF End
<1>2. MemInv(mem)
  BY <1>1, InvMeansMemInv
<1>3. /\ IsMem(mem') /\ ChainInv(mem') /\ mem'.pools = << >> /\ mem'.large = << >>
      /\ Owned(mem') /\ (Held(mem) => Held(mem'))
  BY <1>1, <1>2, Ends
<1> QED
  BY <1>1, <1>3 DEF Inv

LEMMA MakeListKeepsInv == Inv /\ MakeList => Inv'
<1> SUFFICES ASSUME Inv, MakeList PROVE Inv'
  OBVIOUS
<1>1. PICK size \in Requests, num \in 1 .. 2, budget \in Budgets :
        LET m == InitBlockChain([mem EXCEPT !.left = budget], size, num)
        IN  /\ mem.nodes + num <= MaxNodes
            /\ refused' = (refused \/ m.got \in {NULL, -1})
            /\ mem' = [m EXCEPT !.left = 0, !.got = 0, !.node = NULL]
  BY DEF MakeList, Call
<1>2. ~ended /\ ended' = ended /\ size \in Nat /\ num \in {1, 2} /\ mem.lists < MaxLists
  BY ChainConstants DEF MakeList, Call
<1>3. MemInv(mem) /\ (~refused => Held(mem))
  BY <1>2, InvMeansMemInv DEF Inv
<1> DEFINE start == [mem EXCEPT !.left = budget]
           m == InitBlockChain(start, size, num)
<1>4. /\ MemInv(start) /\ (Held(mem) <=> Held(start))
      /\ start.nodes = mem.nodes /\ start.lists = mem.lists
  BY <1>3, BudgetIsGiven
<1>5. /\ refused' = (refused \/ m.got \in {NULL, -1})
      /\ mem' = [m EXCEPT !.left = 0, !.got = 0, !.node = NULL]
  BY <1>1
<1> HIDE DEF start
<1>6. MemInv(m) /\ (Held(start) /\ m.got \notin {NULL, -1} => Held(m))
  BY <1>1, <1>2, <1>4, ChainIsMade
<1> HIDE DEF m
<1> QED
  BY <1>2, <1>3, <1>4, <1>5, <1>6, CallKeepsInv

LEMMA CopyListKeepsInv == Inv /\ CopyList => Inv'
<1> SUFFICES ASSUME Inv, CopyList PROVE Inv'
  OBVIOUS
<1>1. PICK dest \in Usable, src \in Usable, budget \in Budgets :
        LET m == CopyBlockChain([mem EXCEPT !.left = budget], dest, src)
        IN  /\ mem.nodes + Len(Chain(mem, src)) <= MaxNodes
            /\ refused' = (refused \/ m.got \in {NULL, -1})
            /\ mem' = [m EXCEPT !.left = 0, !.got = 0, !.node = NULL]
  BY DEF CopyList, Call
<1>2. ~ended /\ ended' = ended /\ dest \in 1 .. mem.lists /\ src \in 1 .. mem.lists
  BY DEF CopyList, Call, Usable
<1>3. MemInv(mem) /\ (~refused => Held(mem))
  BY <1>2, InvMeansMemInv DEF Inv
<1> DEFINE start == [mem EXCEPT !.left = budget]
           m == CopyBlockChain(start, dest, src)
<1>4. /\ MemInv(start) /\ (Held(mem) <=> Held(start)) /\ start.next = mem.next
      /\ start.nodes = mem.nodes /\ start.lists = mem.lists
  BY <1>3, BudgetIsGiven
<1>5. /\ refused' = (refused \/ m.got \in {NULL, -1})
      /\ mem' = [m EXCEPT !.left = 0, !.got = 0, !.node = NULL]
  BY <1>1
<1> HIDE DEF start
<1>6. Chain(start, src) = Chain(mem, src)
  BY <1>4, NodesFromReads DEF Chain
<1>7. start.nodes + Len(Chain(start, src)) <= MaxNodes
  BY <1>1, <1>4, <1>6
<1>8. MemInv(m) /\ (Held(start) /\ m.got # NULL => Held(m))
  BY <1>2, <1>4, <1>7, ChainIsCopied
<1> HIDE DEF m
<1> QED
  BY <1>2, <1>3, <1>4, <1>5, <1>8, CallKeepsInv

LEMMA TakeNodeKeepsInv == Inv /\ TakeNode => Inv'
<1> SUFFICES ASSUME Inv, TakeNode PROVE Inv'
  OBVIOUS
<1>1. PICK l \in Usable, budget \in Budgets :
        LET m == GetFreeChainNode([mem EXCEPT !.left = budget], l)
        IN  /\ refused' = (refused \/ m.got \in {NULL, -1})
            /\ mem' = [m EXCEPT !.left = 0, !.got = 0, !.node = NULL]
  BY DEF TakeNode, Call
<1>2. ~ended /\ ended' = ended /\ l \in 1 .. mem.lists /\ mem.nodes < MaxNodes
  BY DEF TakeNode, Call, Usable
<1>3. MemInv(mem) /\ (~refused => Held(mem))
  BY <1>2, InvMeansMemInv DEF Inv
<1>4. l \in Lists
  BY <1>2, <1>3, ChainConstants DEF MemInv, ChainInv, Lists
<1> DEFINE start == [mem EXCEPT !.left = budget]
           m == GetFreeChainNode(start, l)
<1>5. /\ MemInv(start) /\ (Held(mem) <=> Held(start))
      /\ start.nodes = mem.nodes
  BY <1>3, BudgetIsGiven
<1>6. /\ refused' = (refused \/ m.got \in {NULL, -1})
      /\ mem' = [m EXCEPT !.left = 0, !.got = 0, !.node = NULL]
  BY <1>1
<1> HIDE DEF start
<1>7. MemInv(m) /\ (Held(start) /\ m.got # NULL => Held(m))
  BY <1>2, <1>4, <1>5, NodeIsTaken
<1> HIDE DEF m
<1> QED
  BY <1>2, <1>3, <1>5, <1>6, <1>7, CallKeepsInv

LEMMA UpdateKeepsInv == Inv /\ Update => Inv'
<1> SUFFICES ASSUME Inv, Update PROVE Inv'
  OBVIOUS
<1>1. PICK free \in Usable, busy \in Usable, out \in Usable,
           full \in SUBSET (1 .. mem.blocks), own \in SUBSET (1 .. mem.blocks),
           budget \in Budgets :
        LET m == UpdateChain([mem EXCEPT !.left = budget], free, busy, out, full, own)
        IN  /\ refused' = (refused \/ m.got \in {NULL, -1})
            /\ mem' = [m EXCEPT !.left = 0, !.got = 0, !.node = NULL]
  <2>1. PICK free \in Usable, busy \in Usable, out \in Usable,
             full \in SUBSET (1 .. mem.blocks) :
          \E own \in SUBSET ((1 .. mem.blocks) \ full) :
            Call(LAMBDA m : UpdateChain(m, free, busy, out, full, own))
    BY Zenon DEF Update
  <2>2. PICK own \in SUBSET ((1 .. mem.blocks) \ full) :
          Call(LAMBDA m : UpdateChain(m, free, busy, out, full, own))
    BY <2>1
  <2>3. own \in SUBSET (1 .. mem.blocks)
    BY <2>2
  <2>4. PICK budget \in Budgets :
        LET m == UpdateChain([mem EXCEPT !.left = budget], free, busy, out, full, own)
        IN  /\ refused' = (refused \/ m.got \in {NULL, -1})
            /\ mem' = [m EXCEPT !.left = 0, !.got = 0, !.node = NULL]
    BY <2>2 DEF Call
  <2> QED
    BY <2>3, <2>4
<1>2. ~ended /\ ended' = ended
      /\ free \in 1 .. mem.lists /\ busy \in 1 .. mem.lists /\ out \in 1 .. mem.lists
  BY DEF Update, Call, Usable
<1>3. MemInv(mem) /\ (~refused => Held(mem))
  BY <1>2, InvMeansMemInv DEF Inv
<1> DEFINE start == [mem EXCEPT !.left = budget]
           m == UpdateChain(start, free, busy, out, full, own)
<1>4. /\ MemInv(start) /\ (Held(mem) <=> Held(start))
      /\ start.lists = mem.lists
  BY <1>3, BudgetIsGiven
<1>5. /\ refused' = (refused \/ m.got \in {NULL, -1})
      /\ mem' = [m EXCEPT !.left = 0, !.got = 0, !.node = NULL]
  BY <1>1
<1> HIDE DEF start
<1>6. MemInv(m) /\ (Held(start) => Held(m))
  BY <1>2, <1>4, ChainIsUpdated
<1> HIDE DEF m
<1> QED
  BY <1>2, <1>3, <1>4, <1>5, <1>6, CallKeepsInv

(* The pool keeps its invariant whatever calls the program makes, and      *)
(* wherever malloc fails.                                                  *)
THEOREM PoolInvariance == Spec => []Inv
<1>1. ASSUME Inv, [Next]_vars PROVE Inv'
  <2>1. CASE UNCHANGED vars
    BY <1>1, <2>1 DEF vars, Inv
  <2>2. CASE Next
    BY <1>1, <2>2, AllocateKeepsInv, FreeLargeKeepsInv, ResetKeepsInv, EndKeepsInv,
       MakeListKeepsInv, CopyListKeepsInv, TakeNodeKeepsInv, UpdateKeepsInv DEF Next
  <2> QED
    BY <1>1, <2>1, <2>2
<1> QED
  BY <1>1, InvInitially, PTL DEF Spec

(* AllocateMemory and the calls on chains never use a pool past its end,   *)
(* and current, next, tail_block and the LargeNodes always point to what   *)
(* is there, for pools, requests and chains of any size.                   *)
THEOREM PoolsAreSound == Spec => []PoolsOK
<1>1. ASSUME Inv PROVE PoolsOK
  <2>1. ASSUME NEW i \in DOMAIN mem.pools PROVE mem.pools[i].used \in 0 .. PoolSize
    <3>1. CASE ended
      <4>1. DOMAIN mem.pools = 1 .. 0
        BY <1>1, <3>1, EmptySeq DEF Inv
      <4> QED
        BY <2>1, <4>1
    <3>2. CASE ~ended
      <4>1. mem.pools \in Seq(Pool)
        BY <1>1, <3>2 DEF Inv, PoolInv
      <4>2. mem.pools[i] \in Pool
        BY <2>1, <4>1, LenProperties, ElementOfSeq
      <4> QED
        BY <4>2 DEF Pool
    <3> QED
      BY <3>1, <3>2
  <2>2. ~ended => mem.current \in DOMAIN mem.pools
    BY <1>1, LenProperties DEF Inv, PoolInv
  <2>3. ASSUME NEW i \in DOMAIN mem.large PROVE mem.large[i].pool \in DOMAIN mem.pools
    <3>1. CASE ended
      <4>1. DOMAIN mem.large = 1 .. 0
        BY <1>1, <3>1, EmptySeq DEF Inv
      <4> QED
        BY <2>3, <4>1
    <3>2. CASE ~ended
      BY <1>1, <2>3, <3>2, LenProperties DEF Inv, PoolInv
    <3> QED
      BY <3>1, <3>2
  <2>4. \A p \in Places : mem.next[p] \in 1 .. mem.nodes \cup {NULL}
    BY <1>1 DEF Inv, ChainInv
  <2>5. \A l \in Lists : mem.tail[l] \in 1 .. mem.nodes \cup {HeadOf(l)}
    BY <1>1 DEF Inv, ChainInv
  <2> QED
    BY <2>1, <2>2, <2>3, <2>4, <2>5 DEF PoolsOK
<1> QED
  BY <1>1, PoolInvariance, PTL

(* Every buffer of a LargeNode is allocated and in no other node, so that  *)
(* FreeLargeMemory and ResetPool free none twice, and as long as malloc    *)
(* did not fail every buffer is in a LargeNode and will be freed.          *)
THEOREM LargeBuffersAreOwned == Spec => []LargeOwned
<1>1. ASSUME Inv PROVE LargeOwned
  <2>1. mem.large \in Seq(LargeNode)
    BY <1>1, EmptySeq DEF Inv, PoolInv
  <2>2. LargeBufs(mem) = Bufs(mem.large) /\ DOMAIN mem.large = 1 .. Len(mem.large)
    BY <2>1, LargeBufsAre, LenProperties
  <2> QED
    BY <1>1, <2>2 DEF Inv, Owned, Distinct, Held, LargeOwned
<1> QED
  BY <1>1, PoolInvariance, PTL

=============================================================================
