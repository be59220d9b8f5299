----------------------------- MODULE BlockChain -----------------------------
(***************************************************************************)
(* The chains of blocks that memorypool/memory_pool.cc keeps in a pool,    *)
(* and the program that calls the pool.  A chain is a linked list of       *)
(* ChainNodes, each with a Block; nodes that are not needed any more are   *)
(* cached in pool_head->chain.  tail_block is a pointer to a pointer: it   *)
(* is modelled as the place whose next it points to.                       *)
(***************************************************************************)
EXTENDS MemoryPool, SequencesExt

CONSTANTS
  ChainNodeSize, BlockSize, BlockListSize,
  Requests,                       \* sizes that the program asks for
  MaxPools, MaxBufs, MaxLists, MaxNodes, MaxBlocks   \* bounds on the calls

ASSUME BlockChainAssumption ==
  /\ BlockListSize <= PoolSize /\ {BlockListSize, BlockSize, ChainNodeSize} \subseteq Nat
  /\ Requests \subseteq Nat
  /\ {MaxPools, MaxBufs, MaxLists, MaxNodes, MaxBlocks} \subseteq Nat

ChainNodes == 1 .. MaxNodes
Blocks == 1 .. MaxBlocks
Lists == 1 .. MaxLists

(* Places that hold a pointer to a chain node: a node's next, -l for the   *)
(* head_block of list l, and pool_head->chain.                             *)
HeadOf(l) == -l
Cache == 0
Places == -MaxLists .. MaxNodes

VARIABLES
  mem,      \* the pool, as in MemoryPool, with its chains
  spent,    \* history: lists that were given to UpdateChain as out
  refused,  \* history: malloc has failed
  ended     \* ~MemoryPool has run

vars == <<mem, spent, refused, ended>>

(* next, block  of the places and the nodes;  tail  the tail_block of each *)
(* list;  nodes, blocks, lists  how many there are;  node  the last node   *)
(* returned.  BlockList::current is written and never read; what a block   *)
(* holds is chosen when UpdateChain looks at it.  Before there is any:     *)
NoChains(pool) ==
  LET none == [next |-> [p \in Places |-> NULL], block |-> [n \in ChainNodes |-> NULL],
               tail |-> [l \in Lists |-> HeadOf(l)], nodes |-> 0, blocks |-> 0,
               lists |-> 0, node |-> NULL]
  IN  [f \in DOMAIN pool \cup DOMAIN none |->
         IF f \in DOMAIN none THEN none[f] ELSE pool[f]]

Init ==
  /\ mem = NoChains(InitPool)
  /\ spent = {} /\ refused = FALSE /\ ended = FALSE

(* The nodes reached from place p, first to last.                          *)
NodesFrom(m, p) ==
  LET walk[i \in 0 .. MaxNodes] ==
        IF i = 0 THEN << >>
        ELSE LET passed == walk[i - 1]
                 at == IF passed = << >> THEN p ELSE Last(passed)
             IN  IF m.next[at] = NULL THEN passed ELSE Append(passed, m.next[at])
  IN  walk[MaxNodes]

Chain(m, l) == NodesFrom(m, HeadOf(l))

-----------------------------------------------------------------------------
(* Faulty variant of PopCache: the node stays the first of the cache. *)
PopCacheKeeping(m) == m

PopCache(m) == [m EXCEPT !.next[Cache] = m.next[m.next[Cache]]]

(* A node of the cache is handed out with its old next and block.          *)
GetChainNode(m) ==
  LET new == AllocateMemory(m, ChainNodeSize)
      n   == m.next[Cache]
  IN  IF n # NULL THEN [PopCache(m) EXCEPT !.node = n, !.got = n]
      ELSE IF new.got = NULL THEN [new EXCEPT !.node = NULL]
      ELSE [new EXCEPT !.nodes = @ + 1, !.node = m.nodes + 1]

(* Node n with block b becomes the last of list l.                         *)
AppendNode(m, l, n, b) ==
  [m EXCEPT !.block[n] = b, !.next = [@ EXCEPT ![n] = NULL, ![m.tail[l]] = n],
            !.tail[l] = n]

AddBlock(m, l) ==
  LET taken == GetChainNode(m)
      room  == AllocateMemory(taken, BlockSize)
  IN  IF taken.got = NULL THEN taken
      ELSE IF room.got = NULL THEN room
      ELSE AppendNode([room EXCEPT !.blocks = @ + 1], l, taken.node, m.blocks + 1)

(* The memory of a chain that could not be completed is lost in the pool.  *)
InitBlockChain(m, size, num) ==
  LET l == m.lists + 1
      list == AllocateMinMemory(m, BlockListSize)
      data == IF list.got = NULL THEN list ELSE AllocateMemory(list, size * num)
      made[i \in 0 .. num] ==
        IF i = 0 THEN data
        ELSE LET before == made[i - 1]
             IN  IF before.got = NULL THEN before ELSE AddBlock(before, l)
      whole == made[num]
  IN  IF whole.got = NULL
      THEN [whole EXCEPT !.next[HeadOf(l)] = NULL, !.tail[l] = HeadOf(l), !.got = -1]
      ELSE [whole EXCEPT !.lists = l, !.got = l]

(* The copies share the blocks of the source.                              *)
CopyBlockChain(m, dest, src) ==
  LET source == Chain(m, src)
      copied[i \in 0 .. Len(source)] ==
        IF i = 0 THEN [m EXCEPT !.got = dest]
        ELSE LET before == copied[i - 1]
                 taken  == GetChainNode(before)
             IN  IF before.got = NULL THEN before
                 ELSE IF taken.got = NULL THEN taken
                 ELSE AppendNode(taken, dest, taken.node, m.block[source[i]])
  IN  copied[Len(source)]

(* tail_block stays where it was.  A node that is not from the list comes  *)
(* without a block: `if (b = NULL)' throws away what was allocated.        *)
GetFreeChainNode(m, l) ==
  LET n     == m.next[HeadOf(l)]
      taken == GetChainNode(m)
      room  == AllocateMemory(taken, BlockSize)
  IN  IF n # NULL
      THEN [m EXCEPT !.next = [@ EXCEPT ![HeadOf(l)] = m.next[n], ![n] = NULL], !.node = n]
      ELSE IF taken.got = NULL THEN taken
      ELSE [room EXCEPT !.block[taken.node] = NULL, !.next[taken.node] = NULL]

(* Faulty variant of Push: the pushed node does not lead to the others. *)
PushAlone(m, p, n) == [m EXCEPT !.next = [@ EXCEPT ![n] = NULL, ![p] = n]]

(* Node n goes in front of what place p leads to.                          *)
Push(m, p, n) == [m EXCEPT !.next = [@ EXCEPT ![n] = m.next[p], ![p] = n]]

(* out is appended to busy and keeps its nodes.  From busy the leading     *)
(* nodes whose blocks have no data are taken, to the list free or, if the  *)
(* block has another tag, to the cache.  full are the blocks with data     *)
(* (last # cur), own those with the tag of the call (which is not read of   *)
(* a block with data).                                                     *)
UpdateChain(m, free, busy, out, full, own) ==
  LET joined == [m EXCEPT !.next[m.tail[busy]] = m.next[HeadOf(out)],
                          !.tail[busy] = m.tail[out]]
      queue  == Chain(joined, busy)
      sorted[i \in 0 .. Len(queue)] ==
        IF i = 0 THEN joined
        ELSE LET m0 == sorted[i - 1]
                 n  == queue[i]
                 m1 == [m0 EXCEPT !.next[HeadOf(busy)] = m0.next[n]]
             IN  IF m0.next[HeadOf(busy)] # n \/ m.block[n] \in full THEN m0
                 ELSE IF m.block[n] \notin own THEN Push(m1, Cache, n)
                 ELSE Push(m1, HeadOf(free), n)
  IN  [sorted[Len(queue)] EXCEPT !.got = free]

-----------------------------------------------------------------------------
(* The program.  It has no thread but its own, and malloc may fail after   *)
(* any number of successes.                                                *)
Budgets == {0, 1, MaxBufs + MaxPools}

(* One call on the pool: Op gives its effect when malloc succeeds for as   *)
(* long as the call's budget lasts.                                        *)
Call(Op(_)) ==
  /\ ~ended
  /\ \E budget \in Budgets :
       LET m == Op([mem EXCEPT !.left = budget])
       IN  /\ Len(m.pools) <= MaxPools /\ m.made <= MaxBufs
           /\ refused' = (refused \/ m.got \in {NULL, -1})
           /\ mem' = [m EXCEPT !.left = 0, !.got = 0, !.node = NULL]
  /\ UNCHANGED ended

Allocate ==
  /\ \E size \in Requests : Call(LAMBDA m : AllocateMemory(m, size))
  /\ UNCHANGED spent

(* Also with a buffer that was freed before.                               *)
FreeLarge ==
  /\ ~ended
  /\ \E buf \in 1 .. mem.made : mem' = [FreeLargeMemory(mem, buf) EXCEPT !.got = 0]
  /\ UNCHANGED <<spent, refused, ended>>

(* The lists, nodes and blocks of before are gone with their memory.       *)
Reset ==
  /\ ~ended
  /\ mem' = NoChains(ResetPool(mem))
  /\ spent' = {}
  /\ UNCHANGED <<refused, ended>>

End ==
  /\ ~ended
  /\ mem' = NoChains(DestoryPool(mem))
  /\ ended' = TRUE
  /\ UNCHANGED <<spent, refused>>

MakeList ==
  /\ mem.lists < MaxLists
  /\ \E size \in Requests, num \in 1 .. 2 :
       /\ mem.nodes + num <= MaxNodes /\ mem.blocks + num <= MaxBlocks
       /\ Call(LAMBDA m : InitBlockChain(m, size, num))
  /\ UNCHANGED spent

Usable == (1 .. mem.lists) \ spent

(* tail_block points behind the last node.                                 *)
TailAtEnd(l) ==
  mem.tail[l] = IF Chain(mem, l) = << >> THEN HeadOf(l) ELSE Last(Chain(mem, l))

(* The program appends only to lists whose tail_block is at their end, and *)
(* does not use a list again that it gave to UpdateChain as out: neither   *)
(* GetFreeChainNode nor UpdateChain keeps up the tail of a list they take  *)
(* from, and UpdateChain does not empty out.                               *)
Legal(free, busy, out) ==
  Cardinality({free, busy, out}) = 3 /\ TailAtEnd(busy) /\ TailAtEnd(out)

CopyList ==
  /\ \E dest, src \in Usable :
       /\ dest # src /\ TailAtEnd(dest)
       /\ mem.nodes + Len(Chain(mem, src)) <= MaxNodes
       /\ Call(LAMBDA m : CopyBlockChain(m, dest, src))
  /\ UNCHANGED spent

TakeNode ==
  /\ mem.nodes < MaxNodes
  /\ \E l \in Usable : Call(LAMBDA m : GetFreeChainNode(m, l))
  /\ UNCHANGED spent

(* In the meantime the program may have written, read or tagged any block. *)
Update ==
  /\ \E free, busy, out \in Usable, full \in SUBSET (1 .. mem.blocks) :
     \E own \in SUBSET ((1 .. mem.blocks) \ full) :
       /\ Legal(free, busy, out)
       /\ Call(LAMBDA m : UpdateChain(m, free, busy, out, full, own))
       /\ spent' = spent \cup {out}

Next ==
  \/ Allocate \/ FreeLarge \/ Reset \/ End
  \/ MakeList \/ CopyList \/ TakeNode \/ Update

Spec == Init /\ [][Next]_vars

-----------------------------------------------------------------------------
(* Properties *)

(* No pool is used past its end, and current, next and tail_block point to *)
(* what is there.                                                          *)
PoolsOK ==
  /\ \A i \in DOMAIN mem.pools : mem.pools[i].used \in 0 .. PoolSize
  /\ ~ended => mem.current \in DOMAIN mem.pools
  /\ \A i \in DOMAIN mem.large : mem.large[i].pool \in DOMAIN mem.pools
  /\ \A p \in Places : mem.next[p] \in 1 .. mem.nodes \cup {NULL}
  /\ \A l \in Lists : mem.tail[l] \in 1 .. mem.nodes \cup {HeadOf(l)}

(* Every buffer that a LargeNode holds is allocated and in no other node,  *)
(* through every reuse of nodes, free and reset; so no buffer is freed     *)
(* twice.  And as long as malloc did not fail every buffer is held, so     *)
(* that it will be freed at the end.                                       *)
LargeOwned ==
  /\ LargeBufs(mem) \subseteq mem.bufs
  /\ \A i, j \in DOMAIN mem.large :
       mem.large[i].buf = mem.large[j].buf => i = j \/ mem.large[i].buf = NULL
  /\ ~refused => mem.bufs = LargeBufs(mem)

(* A chain node is in one of the lists or in the cache, and there once.    *)
(* Lists given to UpdateChain as out no longer count.                      *)
OneChain ==
  LET heads == {HeadOf(l) : l \in Usable} \cup {Cache}
  IN  /\ \A p, q \in heads :
           p # q => ToSet(NodesFrom(mem, p)) \cap ToSet(NodesFrom(mem, q)) = {}
      /\ \A p \in heads : IsInjective(NodesFrom(mem, p))

(* What UpdateChain is for, as sequences: of busy and out in a row, the    *)
(* leading nodes without data go to the front of free or, with another     *)
(* tag, of the cache, and the rest stays in busy.                          *)
UpdateSorts ==
  \A free, busy, out \in Usable, full \in SUBSET (1 .. mem.blocks) :
  \A own \in SUBSET ((1 .. mem.blocks) \ full) :
    Legal(free, busy, out) =>
      LET row    == Chain(mem, busy) \o Chain(mem, out)
          data   == {i \in DOMAIN row : mem.block[row[i]] \in full}
          idle   == SubSeq(row, 1, Min(data \cup {Len(row) + 1}) - 1)
          Ours(n)   == mem.block[n] \in own
          Others(n) == ~Ours(n)
          m      == UpdateChain(mem, free, busy, out, full, own)
      IN  /\ Chain(m, free) = Reverse(SelectSeq(idle, Ours)) \o Chain(mem, free)
          /\ NodesFrom(m, Cache) =
               Reverse(SelectSeq(idle, Others)) \o NodesFrom(mem, Cache)
          /\ idle \o Chain(m, busy) = row
=============================================================================
