------------------------------ MODULE UnitFifo ------------------------------
(***************************************************************************)
(* What a caller of ringbuffer/ring_buffer.cc is promised, with no slot,   *)
(* head or tail in sight: a queue of units.  Enqueue puts a non-empty      *)
(* prefix of the units its caller passes at the end of the queue, in one   *)
(* step, or refuses them all; Dequeue takes the units at the front, in one *)
(* step, and hands exactly those to its caller.                            *)
(***************************************************************************)
EXTENDS Naturals, Sequences

CONSTANTS
  Producers,  \* threads that call Enqueue
  Consumers,  \* threads that call Dequeue
  Units       \* what the array of a caller is made of

VARIABLES
  offered,    \* what each producer's running call was passed
  fifo,       \* units put and not yet taken, oldest first
  held        \* units each consumer's running call has taken

fifoVars == <<offered, fifo, held>>

FifoInit ==
  /\ offered = [p \in Producers |-> << >>]
  /\ fifo = << >>
  /\ held = [c \in Consumers |-> << >>]

Offer(p) ==
  /\ offered[p] = << >>
  /\ offered'[p] \in Seq(Units) \ {<< >>}
  /\ offered' = [offered EXCEPT ![p] = offered'[p]]
  /\ UNCHANGED <<fifo, held>>

Put(p) ==
  /\ \E n \in 1..Len(offered[p]) : fifo' = fifo \o SubSeq(offered[p], 1, n)
  /\ offered' = [offered EXCEPT ![p] = << >>]
  /\ UNCHANGED held

Refuse(p) ==
  /\ offered' = [offered EXCEPT ![p] = << >>]
  /\ UNCHANGED <<fifo, held>>

Take(c) ==
  /\ held[c] = << >>
  /\ \E n \in 1..Len(fifo) :
       /\ held' = [held EXCEPT ![c] = SubSeq(fifo, 1, n)]
       /\ fifo' = SubSeq(fifo, n + 1, Len(fifo))
  /\ UNCHANGED offered

HandOver(c) ==
  /\ held' = [held EXCEPT ![c] = << >>]
  /\ UNCHANGED <<offered, fifo>>

Empty ==
  /\ fifo' = << >>
  /\ UNCHANGED <<offered, held>>

FifoNext ==
  \/ \E p \in Producers : Offer(p) \/ Put(p) \/ Refuse(p)
  \/ \E c \in Consumers : Take(c) \/ HandOver(c)
  \/ Empty

FifoSpec == FifoInit /\ [][FifoNext]_fifoVars
=============================================================================
