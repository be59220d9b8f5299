----------------------------- MODULE MemoryPool -----------------------------
(***************************************************************************)
(* The pools of memorypool/memory_pool.cc: one PoolList that InitPool      *)
(* made, as a value, and every call as a function from that value to the   *)
(* next.  Memory is counted in words; what lies in a pool matters only     *)
(* for the nodes of large buffers.  There is no thread in it.              *)
(***************************************************************************)
EXTENDS Integers, Sequences, FiniteSetsExt

CONSTANTS
  PoolSize,       \* init_size of InitPool
  LargeMark,      \* requests from here on get a buffer of their own
  LargeNodeSize,  \* words of a LargeNode
  MaxFailures,    \* failed requests until current moves on, 4 in the code
  NULL

ASSUME MemoryPoolAssumption ==
  /\ {PoolSize, LargeMark, LargeNodeSize, MaxFailures} \subseteq Nat
  /\ LargeMark <= PoolSize /\ LargeNodeSize <= PoolSize
  /\ NULL \notin Nat

(* A pool: the words used of it (last - start) and failed_times.           *)
EmptyPool == [used |-> 0, failed_times |-> 0]

(* pools    the list from pool_head to pool_tail                           *)
(* current  the position in it where small requests start                  *)
(* large    the LargeNodes of pool_head, first to last: the buffer of each *)
(*          and the pool it lies in (no other pool ever gets one)          *)
(* bufs     buffers that malloc returned and nobody freed                  *)
(* made     how many buffers malloc returned so far                        *)
(* left     how many more times malloc will succeed in this call           *)
(* got      what the last call returned: the number of a pool, a buffer    *)
InitPool ==
  [pools |-> <<EmptyPool>>, current |-> 1, large |-> << >>,
   bufs |-> {}, made |-> 0, left |-> 0, got |-> 0]

-----------------------------------------------------------------------------
(* Faulty variant of Fits: the end of the pool is not looked at. *)
FitsAlways(pool, size) == TRUE

Fits(pool, size) == size <= PoolSize - pool.used

Fail(pool) == [pool EXCEPT !.failed_times = Min({@ + 1, MaxFailures + 1})]

(* A pool that failed too often is left behind if another follows it.      *)
Moves(m, tried) ==
  {i \in tried : m.pools[i].failed_times > MaxFailures /\ i < Len(m.pools)}

(* Each pool from current on that cannot serve the request counts a        *)
(* failure; the first that can serves it, or else a new pool at the tail.  *)
AllocateMinMemory(m, size) ==
  LET later == m.current .. Len(m.pools)
      able  == {i \in later : Fits(m.pools[i], size)}
      tried == IF able = {} THEN later ELSE m.current .. Min(able) - 1
      failing == [m EXCEPT
        !.pools = [i \in DOMAIN m.pools |->
                     IF i \in tried THEN Fail(m.pools[i]) ELSE m.pools[i]],
        !.current = Max({@} \cup {i + 1 : i \in Moves(m, tried)})]
  IN  IF able # {} THEN
        [failing EXCEPT !.pools[Min(able)].used = @ + size, !.got = Min(able)]
      ELSE IF m.left = 0 THEN [failing EXCEPT !.got = NULL]
      ELSE [failing EXCEPT !.pools = Append(@, [EmptyPool EXCEPT !.used = size]),
                           !.left = @ - 1,
                           !.got = Len(m.pools) + 1]

(* Only the first node is looked at for a place without a buffer.  When    *)
(* there is no room for a new node the buffer stays behind with nobody.    *)
AllocateLargeMemory(m) ==
  LET buf  == m.made + 1
      mine == [m EXCEPT !.bufs = @ \cup {buf}, !.made = buf, !.left = @ - 1]
      node == AllocateMinMemory(mine, LargeNodeSize)
  IN  IF m.left = 0 THEN [m EXCEPT !.got = NULL]
      ELSE IF m.large # << >> /\ m.large[1].buf = NULL
      THEN [mine EXCEPT !.large[1].buf = buf, !.got = buf]
      ELSE IF node.got = NULL THEN node
      ELSE [node EXCEPT !.large = <<[pool |-> node.got, buf |-> buf]>> \o @,
                        !.got = buf]

AllocateMemory(m, size) ==
  IF size < LargeMark THEN AllocateMinMemory(m, size) ELSE AllocateLargeMemory(m)

(* Faulty variant of Forget: the buffer is freed and its node keeps it. *)
ForgetKeeping(large, i) == large

Forget(large, i) == [large EXCEPT ![i].buf = NULL]

FreeLargeMemory(m, buf) ==
  LET holders == {i \in DOMAIN m.large : m.large[i].buf = buf}
  IN  IF holders = {} THEN [m EXCEPT !.got = -1]
      ELSE [m EXCEPT !.large = Forget(@, Min(holders)),
                     !.bufs = @ \ {buf}, !.got = 0]

LargeBufs(m) == {m.large[i].buf : i \in DOMAIN m.large} \ {NULL}

(* The nodes of large that lie in later pools are walked after those pools *)
(* were freed.  That is undefined; the model takes them to read what they  *)
(* held, since nothing is allocated between the two loops.                 *)
ResetPool(m) ==
  [m EXCEPT !.pools = <<EmptyPool>>, !.current = 1, !.large = << >>,
            !.bufs = @ \ LargeBufs(m)]

(* The head is first in the list, so its nodes are walked before the pools *)
(* they lie in are freed.                                                  *)
DestoryPool(m) ==
  [m EXCEPT !.pools = << >>, !.large = << >>, !.bufs = @ \ LargeBufs(m)]
=============================================================================
