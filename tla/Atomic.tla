------------------------------- MODULE Atomic -------------------------------
(***************************************************************************)
(* One atomic word of atomic/atomic.h, shared by threads that call its     *)
(* operations, over either base: AtomicBase, in assembly, or               *)
(* AtomicBaseGccCall.  A gcc builtin is one step.  In AtomicBase only the  *)
(* instruction with the lock prefix is, and what is read before or after   *)
(* it is a step of its own; a plain store waits in the thread's store      *)
(* buffer, which a locked instruction drains.                              *)
(*                                                                         *)
(* FetchAdd stands for FetchSub and operator--(int) too, AddFetch for      *)
(* SubFetch, Inc, Dec and the other increments and decrements, with the    *)
(* argument modulo the width of the word.                                  *)
(***************************************************************************)
EXTENDS Integers, Sequences, FiniteSets

CONSTANTS
  Threads,
  FewThreads, \* bound: those that make any call
  Modulus,    \* the range of the word, 2^32 in the code
  Values,     \* bound: the arguments they pass
  NULL,
  MaxHeld,    \* bound: the references a thread holds at a time
  MaxBuffer   \* bound: the stores in a store buffer

Words == 0 .. Modulus - 1

ASSUME AtomicAssumption ==
  /\ IsFiniteSet(Threads) /\ Threads # {}
  /\ Modulus \in Nat /\ 2 < Modulus /\ Cardinality(Threads) * MaxHeld < Modulus
  /\ FewThreads \subseteq Threads /\ Values \subseteq Words /\ NULL \notin Words
  /\ MaxHeld \in Nat \ {0} /\ MaxBuffer \in Nat \ {0}

VARIABLES
  base,      \* the base class of the word
  client,    \* what the threads use it for: see May
  t_,
  buffer,    \* the stores of each thread that are not in t_ yet
  pc,        \* "out" of a call, or how far the thread is in it
  call,      \* the thread's last call: its operation and arguments
  ret,       \* what was read for, or returned by, that call
  holds,     \* references, or locks, the thread holds
  sawZero,   \* history: who was told that it gave up the last reference
  start      \* history: what the thread saw in the word when it made its call,
             \* NULL once another thread has changed the word since

clientVars == <<base, client>>
history == <<sawZero, start>>
vars == <<clientVars, t_, buffer, pc, call, ret, holds, history>>

MinusOne == Modulus - 1
Calls ==
  [op : {"Load"}] \cup [op : {"Store", "FetchAdd", "AddFetch", "Exchange"}, value : Values]
    \cup [op : {"CompareAndSet"}, exp : Values, value : Values]

Init ==
  /\ base \in {"AtomicBase", "AtomicBaseGccCall"}
  /\ client \in {"any", "references", "lock"}
  /\ t_ = IF client = "references" THEN Cardinality(Threads) ELSE 0
  /\ buffer = [t \in Threads |-> << >>]
  /\ pc = [t \in Threads |-> "out"]
  /\ call = [t \in Threads |-> [op |-> "Load"]]
  /\ ret = [t \in Threads |-> 0]
  /\ holds = [t \in Threads |-> IF client = "references" THEN 1 ELSE 0]
  /\ sawZero = {}
  /\ start = [t \in Threads |-> NULL]

(* What the thread itself reads: its own last store, or the word.          *)
View(t) == IF buffer[t] = << >> THEN t_ ELSE buffer[t][Len(buffer[t])]

(* The word changes on behalf of t.                                        *)
Write(t, word) ==
  /\ t_' = word
  /\ start' = [u \in Threads |-> IF u = t \/ word = t_ THEN start[u] ELSE NULL]

-----------------------------------------------------------------------------
(* Clients.  Some share the word as a count of references: one who holds a *)
(* reference may take another with Inc, and gives each up with Dec.  Some  *)
(* use it as a spin lock, taken with Exchange and released with Store.     *)

Inc == [op |-> "AddFetch", value |-> 1]
Dec == [op |-> "AddFetch", value |-> MinusOne]
TakeLock == [op |-> "Exchange", value |-> 1]
ReleaseLock == [op |-> "Store", value |-> 0]

May(t) ==
  CASE client = "any" -> IF t \in FewThreads THEN Calls ELSE {}
    [] client = "references" ->
         {c \in {Inc, Dec} : holds[t] > 0 /\ (c = Inc => holds[t] < MaxHeld)}
    [] client = "lock" -> IF holds[t] > 0 THEN {ReleaseLock} ELSE {TakeLock}

Call(t) ==
  /\ pc[t] = "out"
  /\ \E c \in May(t) :
       /\ call' = [call EXCEPT ![t] = c]
       /\ holds' = [holds EXCEPT ![t] = IF client # "any" /\ c \in {Dec, ReleaseLock}
                                        THEN @ - 1 ELSE @]
  /\ pc' = [pc EXCEPT ![t] = "called"]
  /\ ret' = [ret EXCEPT ![t] = 0]
  /\ start' = [start EXCEPT ![t] = View(t)]
  /\ UNCHANGED <<clientVars, t_, buffer, sawZero>>

(* A call returns, and its client draws its conclusion from the answer.    *)
Return(t, answer) ==
  LET got == \/ client = "references" /\ call[t] = Inc
             \/ client = "lock" /\ call[t] = TakeLock /\ answer = 0
  IN  /\ pc' = [pc EXCEPT ![t] = "out"]
      /\ ret' = [ret EXCEPT ![t] = answer]
      /\ holds' = [holds EXCEPT ![t] = IF got THEN @ + 1 ELSE @]
      /\ sawZero' = IF client = "references" /\ call[t] = Dec /\ answer = 0
                    THEN sawZero \cup {t} ELSE sawZero

-----------------------------------------------------------------------------
(* Faulty variant of Effect: the sum is not cut to the width of the word. *)
EffectWide(c, word) == IF c.op \in {"FetchAdd", "AddFetch"} THEN word + c.value
                       ELSE IF c.op = "Load" THEN word ELSE c.value

(* What a call leaves in the word.                                         *)
Effect(c, word) ==
  CASE c.op = "Load" -> word
    [] c.op \in {"FetchAdd", "AddFetch"} -> (word + c.value) % Modulus
    [] c.op = "CompareAndSet" -> IF word = c.exp THEN c.value ELSE word
    [] c.op \in {"Store", "Exchange"} -> c.value

(* AtomicBaseGccCall: CompareAndSet answers with the word it met, which    *)
(* __atomic_compare_exchange leaves in exp.                                *)
GccAnswer(c, word) ==
  IF c.op \in {"AddFetch", "Store"} THEN Effect(c, word) ELSE word

GccCall(t) ==
  /\ base = "AtomicBaseGccCall" /\ pc[t] = "called"
  /\ Write(t, Effect(call[t], t_))
  /\ Return(t, GccAnswer(call[t], t_))
  /\ UNCHANGED <<clientVars, buffer, call>>

-----------------------------------------------------------------------------
(* AtomicBase *)

InAsm(t, op, place) ==
  base = "AtomicBase" /\ call[t].op = op /\ pc[t] = place

AsmLoad(t) ==
  /\ InAsm(t, "Load", "called")
  /\ Return(t, View(t))
  /\ UNCHANGED <<clientVars, t_, buffer, call, start>>

AsmStore(t) ==
  /\ InAsm(t, "Store", "called") /\ Len(buffer[t]) < MaxBuffer
  /\ buffer' = [buffer EXCEPT ![t] = Append(@, call[t].value)]
  /\ Return(t, call[t].value)
  /\ UNCHANGED <<clientVars, t_, call, start>>

Drain(t) ==
  /\ buffer[t] # << >>
  /\ Write(t, Head(buffer[t]))
  /\ buffer' = [buffer EXCEPT ![t] = Tail(@)]
  /\ UNCHANGED <<clientVars, pc, call, ret, holds, sawZero>>

Drained(t) == buffer[t] = << >>

(* temp = *t, in front of the locked instruction.                          *)
ReadFirst(t) ==
  /\ InAsm(t, "FetchAdd", "called")
  /\ ret' = [ret EXCEPT ![t] = View(t)]
  /\ pc' = [pc EXCEPT ![t] = "read"]
  /\ UNCHANGED <<clientVars, t_, buffer, call, holds, history>>

AsmFetchAdd(t) ==
  /\ InAsm(t, "FetchAdd", "read") /\ Drained(t)
  /\ Write(t, Effect(call[t], t_))
  /\ Return(t, ret[t])
  /\ UNCHANGED <<clientVars, buffer, call>>

AsmAddFetch(t) ==
  /\ InAsm(t, "AddFetch", "called") /\ Drained(t)
  /\ Write(t, Effect(call[t], t_))
  /\ pc' = [pc EXCEPT ![t] = "added"]
  /\ UNCHANGED <<clientVars, buffer, call, ret, holds, sawZero>>

(* Faulty variant of ReadAfter: the answer is what FetchAdd would answer.  *)
ReadAfterOld(t) ==
  /\ InAsm(t, "AddFetch", "added")
  /\ Return(t, (View(t) + Modulus - call[t].value) % Modulus)
  /\ UNCHANGED <<clientVars, t_, buffer, call, start>>

(* return *t, behind the locked instruction.                               *)
ReadAfter(t) ==
  /\ InAsm(t, "AddFetch", "added")
  /\ Return(t, View(t))
  /\ UNCHANGED <<clientVars, t_, buffer, call, start>>

(* exp is returned, whether the word had it or not.                        *)
AsmCompareAndSet(t) ==
  /\ InAsm(t, "CompareAndSet", "called") /\ Drained(t)
  /\ Write(t, Effect(call[t], t_))
  /\ Return(t, call[t].exp)
  /\ UNCHANGED <<clientVars, buffer, call>>

(* Faulty variant of AsmExchange: the word is read and written in two      *)
(* steps.                                                                  *)
AsmExchangeSplit(t) ==
  \/ /\ InAsm(t, "Exchange", "called") /\ Drained(t)
     /\ ret' = [ret EXCEPT ![t] = t_]
     /\ pc' = [pc EXCEPT ![t] = "read"]
     /\ UNCHANGED <<clientVars, t_, buffer, call, holds, history>>
  \/ /\ InAsm(t, "Exchange", "read")
     /\ Write(t, Effect(call[t], t_))
     /\ Return(t, ret[t])
     /\ UNCHANGED <<clientVars, buffer, call>>

AsmExchange(t) ==
  /\ InAsm(t, "Exchange", "called") /\ Drained(t)
  /\ Write(t, Effect(call[t], t_))
  /\ Return(t, t_)
  /\ UNCHANGED <<clientVars, buffer, call>>

AsmCall(t) ==
  \/ AsmLoad(t) \/ AsmStore(t) \/ ReadFirst(t) \/ AsmFetchAdd(t)
  \/ AsmAddFetch(t) \/ ReadAfter(t) \/ AsmCompareAndSet(t) \/ AsmExchange(t)

Next == \E t \in Threads : Call(t) \/ GccCall(t) \/ AsmCall(t) \/ Drain(t)

Spec == Init /\ [][Next]_vars

-----------------------------------------------------------------------------
(* Properties *)

TypeOK ==
  /\ t_ \in Words /\ ret \in [Threads -> Words]
  /\ buffer \in [Threads -> Seq(Words)] /\ call \in [Threads -> Calls \cup {Inc, Dec, TakeLock, ReleaseLock}]
  /\ pc \in [Threads -> {"out", "called", "read", "added"}]
  /\ holds \in [Threads -> 0 .. MaxHeld] /\ sawZero \subseteq Threads
  /\ start \in [Threads -> Words \cup {NULL}]

(* The word serves as a count of references over both bases, although      *)
(* AtomicBase reads the word some time after it has changed it: nobody is  *)
(* told 0 while a reference is left, so nothing is freed too early, and    *)
(* once no reference is left and all calls have returned, somebody has     *)
(* been told.  (Over AtomicBase more than one may be told.)                *)
ReferencesCounted ==
  client = "references" =>
    /\ sawZero # {} =>
         \A t \in Threads : holds[t] = 0 /\ pc[t] # "called"
    /\ (\A t \in Threads : holds[t] = 0 /\ pc[t] = "out") => sawZero # {}

(* And as a spin lock: no two threads hold it, although the store that     *)
(* releases it reaches the word later than the call that made it returned. *)
LockExclusive ==
  client = "lock" =>
    \A t, u \in Threads : holds[t] > 0 /\ holds[u] > 0 => t = u

(* The two bases agree: a call that no other thread disturbs answers the   *)
(* same over both, as the two halves of atomic/main.cc expect.  (Not       *)
(* CompareAndSet when it fails: AtomicBase answers with exp all the same.) *)
BasesAgree ==
  [][\A t \in Threads :
       /\ pc[t] # "out" /\ pc'[t] = "out" /\ start[t] # NULL
       /\ call[t].op = "CompareAndSet" => call[t].exp = start[t]
       => ret'[t] = GccAnswer(call[t], start[t])]_vars
=============================================================================
