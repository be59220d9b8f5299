---------------------------- MODULE AtomicProofs ----------------------------
(***************************************************************************)
(* Proofs about Atomic, for any number of threads and over both bases.     *)
(***************************************************************************)
EXTENDS Atomic, TLAPS, FiniteSetTheorems, SequenceTheorems

AllCalls == Calls \cup {Inc, Dec, TakeLock, ReleaseLock}
WithValue == {"Store", "FetchAdd", "AddFetch", "Exchange", "CompareAndSet"}

-----------------------------------------------------------------------------
(* Words and calls. *)

LEMMA CallTypes ==
  ASSUME NEW c \in AllCalls
  PROVE  /\ c.op \in WithValue \cup {"Load"}
         /\ c.op \in WithValue => c.value \in Words
         /\ c.op = "CompareAndSet" => c.exp \in Words
<1>1. 0 \in Words /\ 1 \in Words /\ MinusOne \in Words
  BY AtomicAssumption DEF Words, MinusOne
<1>2. CASE c \in Calls
  BY <1>2, AtomicAssumption DEF Calls, WithValue
<1>3. CASE c \in {Inc, Dec, TakeLock, ReleaseLock}
  BY <1>1, <1>3 DEF Inc, Dec, TakeLock, ReleaseLock, WithValue
<1> QED
  BY <1>2, <1>3 DEF AllCalls

LEMMA IncIsNotDec == Inc # Dec
<1>1. 1 # MinusOne
  BY AtomicAssumption DEF MinusOne
<1> QED
  BY <1>1 DEF Inc, Dec

LEMMA EffectTypes ==
  ASSUME NEW c \in AllCalls, NEW word \in Words
  PROVE  Effect(c, word) \in Words /\ GccAnswer(c, word) \in Words
<1>1. /\ c.op \in WithValue \cup {"Load"}
      /\ c.op \in WithValue => c.value \in Words
  BY CallTypes
<1>2. ASSUME NEW v \in Words PROVE (word + v) % Modulus \in Words
  BY AtomicAssumption DEF Words
<1>3. Effect(c, word) \in Words
  BY <1>1, <1>2 DEF Effect, WithValue
<1> QED
  BY <1>3 DEF GccAnswer

LEMMA OneStore ==
  ASSUME NEW v
  PROVE  Append(<< >>, v) = <<v>> /\ Tail(<<v>>) = << >> /\ Head(<<v>>) = v
  OBVIOUS

LEMMA ViewTypes ==
  ASSUME TypeOK, NEW t \in Threads
  PROVE  View(t) \in Words
  BY DEF TypeOK, View

-----------------------------------------------------------------------------
(* How far a thread can be in a call, and what its buffer then holds. *)
Phases ==
  /\ base \in {"AtomicBase", "AtomicBaseGccCall"}
  /\ client \in {"any", "references", "lock"}
  /\ \A t \in Threads :
       /\ base = "AtomicBaseGccCall" => buffer[t] = << >> /\ pc[t] \in {"out", "called"}
       /\ pc[t] = "read" => call[t].op = "FetchAdd"
       /\ pc[t] = "added" => call[t].op = "AddFetch" /\ buffer[t] = << >>

AnyUse == client = "any" => \A t \in Threads : holds[t] = 0

(* Those who count references call nothing but Inc and Dec, and hold a     *)
(* reference while they call Inc.                                          *)
ReferenceUse ==
  client = "references" =>
    \A t \in Threads :
      /\ buffer[t] = << >>
      /\ pc[t] # "out" => call[t] \in {Inc, Dec}
      /\ pc[t] # "out" /\ call[t] = Inc => 0 < holds[t] /\ holds[t] < MaxHeld

(* Who holds the lock is in no call; who releases it no longer holds it,   *)
(* and its store is the only one in its buffer.                            *)
LockUse ==
  client = "lock" =>
    \A t \in Threads :
      /\ holds[t] \in {0, 1}
      /\ holds[t] = 1 => pc[t] = "out" /\ buffer[t] = << >>
      /\ pc[t] # "out" => call[t] \in {TakeLock, ReleaseLock}
      /\ pc[t] # "out" /\ call[t] = ReleaseLock => buffer[t] = << >>
      /\ buffer[t] # << >> => buffer[t] = <<0>>

Typed == TypeOK /\ Phases /\ AnyUse /\ ReferenceUse /\ LockUse

LEMMA InitTyped == Init => Typed
<1> SUFFICES ASSUME Init PROVE Typed
  OBVIOUS
<1>1. /\ Cardinality(Threads) \in Nat /\ Cardinality(Threads) < Modulus
      /\ 0 \in Words
  <2>1. Cardinality(Threads) \in Nat
    BY AtomicAssumption, FS_CardinalityType
  <2>2. \A n \in Nat, m \in Nat \ {0} : n <= n * m
    OBVIOUS
  <2> QED
    BY <2>1, <2>2, AtomicAssumption DEF Words
<1>2. TypeOK
  BY <1>1, AtomicAssumption DEF Init, TypeOK, Words, Calls
<1>3. Phases /\ AnyUse /\ ReferenceUse /\ LockUse
  BY DEF Init, Phases, AnyUse, ReferenceUse, LockUse
<1> QED
  BY <1>2, <1>3 DEF Typed

LEMMA CallTyped ==
  ASSUME Typed, NEW t \in Threads, Call(t)
  PROVE  Typed'
<1>1. PICK c \in May(t) :
        /\ call' = [call EXCEPT ![t] = c]
        /\ holds' = [holds EXCEPT ![t] = IF client # "any" /\ c \in {Dec, ReleaseLock}
                                         THEN @ - 1 ELSE @]
  BY DEF Call
<1>2. /\ pc[t] = "out" /\ pc' = [pc EXCEPT ![t] = "called"]
      /\ ret' = [ret EXCEPT ![t] = 0]
      /\ start' = [start EXCEPT ![t] = View(t)]
      /\ UNCHANGED <<base, client, t_, buffer, sawZero>>
  BY DEF Call, clientVars
<1>3. c \in AllCalls
  BY <1>1 DEF May, AllCalls, Typed, Phases
<1>4. holds' \in [Threads -> 0..MaxHeld]
  <2>1. CASE client = "any"
    BY <1>1, <2>1 DEF Typed, TypeOK
  <2>2. CASE client = "references"
    BY <1>1, <2>2, AtomicAssumption DEF Typed, TypeOK, May
  <2>3. CASE client = "lock"
    BY <1>1, <2>3, AtomicAssumption DEF Typed, TypeOK, May, ReleaseLock, TakeLock, Dec
  <2> QED
    BY <2>1, <2>2, <2>3 DEF Typed, Phases
<1>5. TypeOK'
  BY <1>1, <1>2, <1>3, <1>4, ViewTypes, AtomicAssumption DEF Typed, TypeOK, AllCalls, Words
<1>6. Phases'
  BY <1>1, <1>2 DEF Typed, Phases, TypeOK
<1>7. AnyUse'
  BY <1>1, <1>2 DEF Typed, AnyUse, TypeOK
<1>8. ReferenceUse'
  <2>1. SUFFICES ASSUME client = "references", NEW u \in Threads
                 PROVE  /\ buffer'[u] = << >>
                        /\ pc'[u] # "out" => call'[u] \in {Inc, Dec}
                        /\ pc'[u] # "out" /\ call'[u] = Inc => 0 < holds'[u] /\ holds'[u] < MaxHeld
    BY <1>2 DEF ReferenceUse
  <2>2. c \in {Inc, Dec} /\ 0 < holds[t] /\ (c = Inc => c # Dec /\ c # ReleaseLock /\ holds[t] < MaxHeld)
    BY <1>1, <2>1, IncIsNotDec DEF May, Inc, ReleaseLock
  <2> QED
    BY <1>1, <1>2, <2>1, <2>2 DEF Typed, ReferenceUse, TypeOK
<1>9. LockUse'
  BY <1>1, <1>2 DEF Typed, LockUse, TypeOK, May, TakeLock, ReleaseLock, Dec
<1> QED
  BY <1>5, <1>6, <1>7, <1>8, <1>9 DEF Typed

(* What a step writes, and what it returns. *)
LEMMA WriteTypes ==
  ASSUME TypeOK, NEW t \in Threads, NEW word \in Words, Write(t, word)
  PROVE  t_' \in Words /\ start' \in [Threads -> Words \cup {NULL}]
  BY DEF Write, TypeOK

LEMMA ReturnTyped ==
  ASSUME Typed, NEW t \in Threads, NEW answer \in Words,
         pc[t] # "out", Return(t, answer),
         call[t] = TakeLock => buffer[t] = << >>,
         UNCHANGED <<clientVars, buffer, call>>,
         t_' \in Words, start' \in [Threads -> Words \cup {NULL}]
  PROVE  Typed'
<1> DEFINE got == \/ client = "references" /\ call[t] = Inc
                  \/ client = "lock" /\ call[t] = TakeLock /\ answer = 0
<1>1. /\ pc' = [pc EXCEPT ![t] = "out"]
      /\ ret' = [ret EXCEPT ![t] = answer]
      /\ holds' = [holds EXCEPT ![t] = IF got THEN @ + 1 ELSE @]
      /\ sawZero' \in {sawZero, sawZero \cup {t}}
      /\ UNCHANGED <<base, client, buffer, call>>
  BY DEF Return, clientVars
<1>2. got => holds[t] + 1 <= MaxHeld /\ client # "any"
  BY AtomicAssumption DEF Typed, ReferenceUse, LockUse, TypeOK
<1>3. client = "lock" /\ got => holds[t] = 0 /\ buffer[t] = << >>
  BY DEF Typed, LockUse
<1> HIDE DEF got
<1>4. TypeOK'
  BY <1>1, <1>2 DEF Typed, TypeOK
<1>5. Phases' /\ AnyUse'
  BY <1>1, <1>2 DEF Typed, Phases, AnyUse, TypeOK
<1>6. ReferenceUse'
  BY <1>1 DEF Typed, ReferenceUse, TypeOK
<1>7. LockUse'
  BY <1>1, <1>3 DEF Typed, LockUse, TypeOK
<1> QED
  BY <1>4, <1>5, <1>6, <1>7 DEF Typed

-----------------------------------------------------------------------------
(* One lemma per action: it keeps the types. *)

LEMMA GccCallTyped ==
  ASSUME Typed, NEW t \in Threads, GccCall(t)
  PROVE  Typed'
<1>1. call[t] \in AllCalls /\ t_ \in Words /\ buffer[t] = << >>
  BY DEF GccCall, Typed, TypeOK, Phases, AllCalls
<1>2. GccAnswer(call[t], t_) \in Words /\ Effect(call[t], t_) \in Words
  BY <1>1, EffectTypes
<1>3. t_' \in Words /\ start' \in [Threads -> Words \cup {NULL}]
  BY <1>2, WriteTypes DEF GccCall, Typed
<1> QED
  BY <1>1, <1>2, <1>3, ReturnTyped DEF GccCall, clientVars

LEMMA AsmReturnsTyped ==
  ASSUME Typed, NEW t \in Threads,
         \/ AsmLoad(t) \/ AsmFetchAdd(t) \/ ReadAfter(t)
         \/ AsmCompareAndSet(t) \/ AsmExchange(t)
  PROVE  Typed'
<1>1. /\ call[t] \in AllCalls /\ t_ \in Words /\ ret[t] \in Words /\ View(t) \in Words
      /\ start \in [Threads -> Words \cup {NULL}]
  BY ViewTypes DEF Typed, TypeOK, AllCalls
<1>2. Effect(call[t], t_) \in Words
  BY <1>1, EffectTypes
<1>3. call[t].op # "Exchange" => call[t] # TakeLock
  BY DEF TakeLock
<1>4. CASE AsmLoad(t) \/ ReadAfter(t)
  BY <1>1, <1>3, <1>4, ReturnTyped DEF AsmLoad, ReadAfter, InAsm, clientVars
<1>5. CASE AsmFetchAdd(t) \/ AsmExchange(t)
  <2>1. t_' \in Words /\ start' \in [Threads -> Words \cup {NULL}]
    BY <1>2, <1>5, WriteTypes DEF AsmFetchAdd, AsmExchange, Typed
  <2> QED
    BY <1>1, <1>3, <1>5, <2>1, ReturnTyped
       DEF AsmFetchAdd, AsmExchange, InAsm, Drained, clientVars
<1>6. CASE AsmCompareAndSet(t)
  <2>1. t_' \in Words /\ start' \in [Threads -> Words \cup {NULL}]
    BY <1>2, <1>6, WriteTypes DEF AsmCompareAndSet, Typed
  <2>2. call[t].exp \in Words
    BY <1>1, <1>6, CallTypes DEF AsmCompareAndSet, InAsm
  <2> QED
    BY <1>3, <1>6, <2>1, <2>2, ReturnTyped DEF AsmCompareAndSet, InAsm, Drained, clientVars
<1> QED
  BY <1>4, <1>5, <1>6

LEMMA AsmStoreTyped ==
  ASSUME Typed, NEW t \in Threads, AsmStore(t)
  PROVE  Typed'
<1> DEFINE v == call[t].value
<1>1. call[t].op = "Store" /\ base = "AtomicBase" /\ pc[t] = "called"
  BY DEF AsmStore, InAsm
<1>2. v \in Words
  BY <1>1, CallTypes DEF Typed, TypeOK, AllCalls, WithValue
<1>3. call[t] # Inc /\ call[t] # TakeLock /\ call[t] # Dec
  BY <1>1 DEF Inc, Dec, TakeLock
<1>4. /\ buffer' = [buffer EXCEPT ![t] = Append(@, v)]
      /\ pc' = [pc EXCEPT ![t] = "out"] /\ ret' = [ret EXCEPT ![t] = v]
      /\ holds' = holds /\ sawZero' = sawZero
      /\ UNCHANGED <<base, client, t_, call, start>>
  BY <1>3 DEF AsmStore, Return, clientVars, Typed, TypeOK
<1>5. client = "lock" => call[t] = ReleaseLock /\ v = 0 /\ Append(buffer[t], v) = <<0>>
  <2>1. client = "lock" => call[t] = ReleaseLock /\ buffer[t] = << >>
    BY <1>1, <1>3 DEF Typed, LockUse
  <2>2. client = "lock" => v = 0
    BY <2>1 DEF ReleaseLock
  <2>3. Append(<< >>, 0) = <<0>>
    BY OneStore
  <2> HIDE DEF v
  <2> QED
    BY <2>1, <2>2, <2>3
<1>6. client # "references"
  BY <1>1, <1>3 DEF Typed, ReferenceUse
<1> HIDE DEF v
<1>7. TypeOK'
  BY <1>2, <1>4 DEF Typed, TypeOK
<1>8. Phases' /\ AnyUse' /\ ReferenceUse'
  BY <1>1, <1>4, <1>6 DEF Typed, Phases, AnyUse, ReferenceUse, TypeOK
<1>9. LockUse'
  <2>1. client = "lock" => holds[t] = 0
    BY <1>1 DEF Typed, LockUse
  <2> QED
    BY <1>4, <1>5, <2>1 DEF Typed, LockUse, TypeOK
<1> QED
  BY <1>7, <1>8, <1>9 DEF Typed

(* Steps inside a call. *)
LEMMA AsmInsideTyped ==
  ASSUME Typed, NEW t \in Threads, ReadFirst(t) \/ AsmAddFetch(t)
  PROVE  Typed'
<1>1. /\ call[t] \in AllCalls /\ t_ \in Words /\ View(t) \in Words
      /\ call[t] # TakeLock /\ call[t] # ReleaseLock
  BY ViewTypes DEF ReadFirst, AsmAddFetch, InAsm, TakeLock, ReleaseLock, Typed, TypeOK, AllCalls
<1>2. CASE ReadFirst(t)
  <2> USE <1>2 DEF ReadFirst, InAsm, clientVars, history
  <2>1. TypeOK' /\ Phases' /\ AnyUse'
    BY <1>1 DEF Typed, TypeOK, Phases, AnyUse
  <2>2. ReferenceUse' /\ LockUse'
    BY <1>1 DEF Typed, TypeOK, ReferenceUse, LockUse
  <2> QED
    BY <2>1, <2>2 DEF Typed
<1>3. CASE AsmAddFetch(t)
  <2> USE <1>3 DEF AsmAddFetch, InAsm, Drained, clientVars
  <2>1. t_' \in Words /\ start' \in [Threads -> Words \cup {NULL}]
    BY <1>1, EffectTypes, WriteTypes DEF Typed
  <2>2. TypeOK'
    BY <2>1 DEF Typed, TypeOK
  <2>3. Phases' /\ AnyUse' /\ ReferenceUse' /\ LockUse'
    BY <1>1 DEF Typed, TypeOK, Phases, AnyUse, ReferenceUse, LockUse
  <2> QED
    BY <2>2, <2>3 DEF Typed
<1> QED
  BY <1>2, <1>3

LEMMA DrainTyped ==
  ASSUME Typed, NEW t \in Threads, Drain(t)
  PROVE  Typed'
<1>1. /\ buffer[t] \in Seq(Words) /\ buffer[t] # << >>
      /\ Head(buffer[t]) \in Words /\ Tail(buffer[t]) \in Seq(Words)
  BY DEF Drain, Typed, TypeOK
<1>2. /\ buffer' = [buffer EXCEPT ![t] = Tail(@)]
      /\ UNCHANGED <<base, client, pc, call, ret, holds, sawZero>>
  BY DEF Drain, clientVars
<1>3. t_' \in Words /\ start' \in [Threads -> Words \cup {NULL}]
  BY <1>1, WriteTypes DEF Drain, Typed
<1>4. TypeOK'
  BY <1>1, <1>2, <1>3 DEF Typed, TypeOK
<1>5. Phases' /\ AnyUse' /\ ReferenceUse'
  BY <1>1, <1>2 DEF Typed, TypeOK, Phases, AnyUse, ReferenceUse
<1>6. LockUse'
  <2>1. client = "lock" => Tail(buffer[t]) = << >>
    BY <1>1, OneStore DEF Typed, LockUse
  <2> QED
    BY <1>1, <1>2, <2>1 DEF Typed, TypeOK, LockUse
<1> QED
  BY <1>4, <1>5, <1>6 DEF Typed

LEMMA TypedStep == Typed /\ [Next]_vars => Typed'
<1> SUFFICES ASSUME Typed, [Next]_vars PROVE Typed'
  OBVIOUS
<1>1. CASE UNCHANGED vars
  BY <1>1 DEF vars, clientVars, history, Typed, TypeOK, Phases, AnyUse, ReferenceUse, LockUse
<1>2. ASSUME NEW t \in Threads, Call(t) \/ GccCall(t) \/ AsmCall(t) \/ Drain(t)
      PROVE  Typed'
  BY <1>2, CallTyped, GccCallTyped, AsmReturnsTyped, AsmStoreTyped, AsmInsideTyped, DrainTyped
     DEF AsmCall
<1> QED
  BY <1>1, <1>2 DEF Next

LEMMA ClientStays == [Next]_vars => UNCHANGED clientVars
<1>1. ASSUME NEW t \in Threads, Call(t) \/ GccCall(t) \/ AsmCall(t) \/ Drain(t)
      PROVE  UNCHANGED clientVars
  BY <1>1 DEF Call, GccCall, AsmCall, AsmLoad, AsmStore, ReadFirst, AsmFetchAdd, AsmAddFetch,
              ReadAfter, AsmCompareAndSet, AsmExchange, Drain
<1> QED
  BY <1>1 DEF Next, vars

(* Every variable keeps its type: the word its width, the counts of        *)
(* references and locks their bounds, for any number of threads.           *)
THEOREM TypeCorrect == Spec => []TypeOK
<1>1. Spec => []Typed
  BY InitTyped, TypedStep, PTL DEF Spec
<1>2. Typed => TypeOK
  BY DEF Typed
<1> QED
  BY <1>1, <1>2, PTL

-----------------------------------------------------------------------------
(* The lock.  A thread has it while it holds it, while it is about to      *)
(* release it, and as long as the store that releases it is in its buffer. *)
HasLock(t) ==
  \/ holds[t] > 0
  \/ pc[t] = "called" /\ call[t] = ReleaseLock
  \/ buffer[t] # << >>

(* One thread has it at most, and nobody does while the word is 0. *)
OneHasLock ==
  client = "lock" =>
    /\ \A t, u \in Threads : HasLock(t) /\ HasLock(u) => t = u
    /\ t_ = 0 => \A t \in Threads : ~HasLock(t)

LEMMA LockCalls ==
  /\ TakeLock.op = "Exchange" /\ TakeLock.value = 1
  /\ ReleaseLock.op = "Store" /\ ReleaseLock.value = 0
  /\ TakeLock # ReleaseLock
  /\ \A word \in Words : /\ Effect(TakeLock, word) = 1 /\ GccAnswer(TakeLock, word) = word
                         /\ Effect(ReleaseLock, word) = 0
<1>1. /\ TakeLock.op = "Exchange" /\ TakeLock.value = 1
      /\ ReleaseLock.op = "Store" /\ ReleaseLock.value = 0
  BY DEF TakeLock, ReleaseLock
<1>2. TakeLock # ReleaseLock
  BY <1>1
<1> QED
  BY <1>1, <1>2 DEF Effect, GccAnswer

LEMMA CallKeepsLock ==
  ASSUME Typed, OneHasLock, client = "lock", NEW t \in Threads, Call(t)
  PROVE  OneHasLock'
<1>1. PICK c \in May(t) :
        /\ call' = [call EXCEPT ![t] = c]
        /\ holds' = [holds EXCEPT ![t] = IF c \in {Dec, ReleaseLock} THEN @ - 1 ELSE @]
  BY DEF Call
<1>2. /\ pc[t] = "out" /\ pc' = [pc EXCEPT ![t] = "called"]
      /\ UNCHANGED <<client, t_, buffer>>
  BY DEF Call, clientVars
<1>3. /\ holds[t] > 0 => c = ReleaseLock
      /\ holds[t] = 0 => c = TakeLock /\ c # ReleaseLock /\ c # Dec
      /\ holds[t] \in {0, 1}
  BY <1>1, LockCalls DEF May, Typed, LockUse, Dec
<1>4. \A u \in Threads : HasLock(u)' => HasLock(u)
  BY <1>1, <1>2, <1>3 DEF HasLock, Typed, TypeOK
<1> QED
  BY <1>2, <1>4 DEF OneHasLock

(* A call that takes the lock, or only tries to. *)
LEMMA TakeKeepsLock ==
  ASSUME Typed, OneHasLock, client = "lock", NEW t \in Threads,
         pc[t] = "called", call[t] = TakeLock, buffer[t] = << >>,
         t_' = 1, Return(t, t_), UNCHANGED <<client, buffer, call>>
  PROVE  OneHasLock'
<1>1. /\ pc' = [pc EXCEPT ![t] = "out"]
      /\ holds' = [holds EXCEPT ![t] = IF t_ = 0 THEN @ + 1 ELSE @]
  BY DEF Return
<1>2. \A u \in Threads : HasLock(u)' => HasLock(u) \/ (u = t /\ t_ = 0)
  BY <1>1 DEF HasLock, Typed, TypeOK
<1>3. \A u, w \in Threads : HasLock(u)' /\ HasLock(w)' => u = w
  BY <1>2 DEF OneHasLock
<1> QED
  BY <1>3 DEF OneHasLock

(* A call that releases it. *)
LEMMA ReleaseKeepsLock ==
  ASSUME Typed, OneHasLock, client = "lock", NEW t \in Threads,
         pc[t] = "called", call[t] = ReleaseLock, NEW answer, Return(t, answer),
         UNCHANGED <<client, call>>,
         \/ t_' = t_ /\ \E b : buffer' = [buffer EXCEPT ![t] = b]
         \/ UNCHANGED buffer
  PROVE  OneHasLock'
<1>1. pc' = [pc EXCEPT ![t] = "out"] /\ holds' = holds
  BY LockCalls DEF Return, Typed, TypeOK
<1>2. HasLock(t) /\ \A u \in Threads : HasLock(u) => u = t
  BY DEF OneHasLock, HasLock
<1>3. holds[t] = 0 /\ buffer[t] = << >> /\ t_ # 0
  BY <1>2 DEF Typed, LockUse, OneHasLock
<1>4. \A u \in Threads : HasLock(u)' => u = t
  BY <1>1, <1>2 DEF HasLock, Typed, TypeOK
<1>5. UNCHANGED buffer => ~HasLock(t)'
  BY <1>1, <1>3 DEF HasLock, Typed, TypeOK
<1> QED
  BY <1>3, <1>4, <1>5 DEF OneHasLock

LEMMA DrainKeepsLock ==
  ASSUME Typed, OneHasLock, client = "lock", NEW t \in Threads, Drain(t)
  PROVE  OneHasLock'
<1>1. /\ buffer[t] = <<0>> /\ buffer' = [buffer EXCEPT ![t] = << >>]
      /\ UNCHANGED <<client, pc, call, holds>>
  BY OneStore DEF Drain, clientVars, Typed, LockUse
<1>2. \A u \in Threads : HasLock(u) => u = t
  BY <1>1 DEF HasLock, OneHasLock, Drain
<1>3. holds[t] = 0 /\ ~(pc[t] = "called" /\ call[t] = ReleaseLock)
  BY <1>1 DEF Typed, LockUse, Drain
<1>4. \A u \in Threads : ~HasLock(u)'
  BY <1>1, <1>2, <1>3 DEF HasLock, Typed, TypeOK
<1> QED
  BY <1>4 DEF OneHasLock

LEMMA LockStep == Typed /\ OneHasLock /\ [Next]_vars => OneHasLock'
<1> SUFFICES ASSUME Typed, OneHasLock, [Next]_vars, client = "lock" PROVE OneHasLock'
  BY ClientStays DEF OneHasLock, clientVars
<1>1. CASE UNCHANGED vars
  BY <1>1 DEF vars, clientVars, OneHasLock, HasLock
<1>2. ASSUME NEW t \in Threads, Call(t) \/ GccCall(t) \/ AsmCall(t) \/ Drain(t)
      PROVE  OneHasLock'
  <2>1. pc[t] # "out" => call[t] \in {TakeLock, ReleaseLock}
    BY DEF Typed, LockUse
  <2>2. t_ \in Words
    BY DEF Typed, TypeOK
  <2>3. CASE Call(t)
    BY <2>3, CallKeepsLock
  <2>4. CASE Drain(t)
    BY <2>4, DrainKeepsLock
  <2>5. CASE GccCall(t)
    <3>1. CASE call[t] = TakeLock
      BY <2>2, <2>5, <3>1, LockCalls, TakeKeepsLock DEF GccCall, Write, clientVars, Typed, Phases
    <3>2. CASE call[t] = ReleaseLock
      BY <2>5, <3>2, ReleaseKeepsLock DEF GccCall, clientVars
    <3> QED
      BY <2>1, <2>5, <3>1, <3>2 DEF GccCall
  <2>6. CASE AsmExchange(t)
    BY <2>1, <2>2, <2>6, LockCalls, TakeKeepsLock
       DEF AsmExchange, InAsm, Drained, Write, clientVars
  <2>7. CASE AsmStore(t)
    BY <2>1, <2>7, LockCalls, ReleaseKeepsLock DEF AsmStore, InAsm, clientVars
  <2>8. ~AsmLoad(t) /\ ~ReadFirst(t) /\ ~AsmFetchAdd(t) /\ ~AsmAddFetch(t)
        /\ ~ReadAfter(t) /\ ~AsmCompareAndSet(t)
    BY <2>1, LockCalls DEF AsmLoad, ReadFirst, AsmFetchAdd, AsmAddFetch, ReadAfter,
                           AsmCompareAndSet, InAsm
  <2> QED
    BY <1>2, <2>3, <2>4, <2>5, <2>6, <2>7, <2>8 DEF AsmCall
<1> QED
  BY <1>1, <1>2 DEF Next

(* No two threads hold the spin lock, however many compete for it and      *)
(* however long the store that releases it stays in its buffer.            *)
THEOREM LockIsExclusive == Spec => []LockExclusive
<1>1. Init => OneHasLock
  BY DEF Init, OneHasLock, HasLock
<1>2. Typed /\ OneHasLock => LockExclusive
  BY DEF OneHasLock, HasLock, LockExclusive
<1>3. Spec => [](Typed /\ OneHasLock)
  BY <1>1, InitTyped, TypedStep, LockStep, PTL DEF Spec
<1> QED
  BY <1>2, <1>3, PTL

-----------------------------------------------------------------------------
(* The count of references.  What a thread counts for in the word: what it *)
(* holds, the reference a Dec has not taken away yet, and the one an Inc   *)
(* has added and not returned.  The word is the number of all of these,    *)
(* each made a token of its own.                                           *)
Counted(t) ==
  holds[t] + (IF pc[t] = "called" /\ call[t] = Dec THEN 1 ELSE 0)
           + (IF pc[t] = "added" /\ call[t] = Inc THEN 1 ELSE 0)

Tokens == {p \in Threads \X (1 .. MaxHeld) : p[2] <= Counted(p[1])}

Counting ==
  client = "references" =>
    /\ t_ = Cardinality(Tokens)
    /\ \A t \in Threads : Counted(t) <= MaxHeld
    /\ sawZero # {} => t_ = 0
    /\ t_ = 0 => sawZero # {} \/ \E t \in Threads : pc[t] = "added" /\ call[t] = Dec

LEMMA CountedType ==
  ASSUME Typed, NEW t \in Threads
  PROVE  Counted(t) \in Nat
<1>1. holds[t] \in Nat
  BY AtomicAssumption DEF Typed, TypeOK
<1> QED
  BY <1>1 DEF Counted

LEMMA TokensBounded ==
  ASSUME NEW S \in SUBSET (Threads \X (1 .. MaxHeld))
  PROVE  IsFiniteSet(S) /\ Cardinality(S) \in Nat /\ Cardinality(S) < Modulus
<1> DEFINE All == Threads \X (1 .. MaxHeld)
<1>1. IsFiniteSet(1 .. MaxHeld) /\ Cardinality(1 .. MaxHeld) = MaxHeld
  BY FS_Interval, AtomicAssumption
<1>2. IsFiniteSet(All) /\ Cardinality(All) = Cardinality(Threads) * MaxHeld
  BY <1>1, FS_Product, AtomicAssumption
<1>3. S \in SUBSET All
  OBVIOUS
<1> HIDE DEF All
<1>4. /\ IsFiniteSet(S) /\ Cardinality(S) \in Nat
      /\ Cardinality(All) \in Nat /\ Cardinality(S) <= Cardinality(All)
  BY <1>2, <1>3, FS_Subset, FS_CardinalityType
<1> QED
  BY <1>2, <1>4, AtomicAssumption

LEMMA TokensCountable ==
  /\ IsFiniteSet(Tokens) /\ Cardinality(Tokens) \in Nat
  /\ Tokens' \in SUBSET (Threads \X (1 .. MaxHeld))
<1>1. Tokens \in SUBSET (Threads \X (1 .. MaxHeld))
  BY DEF Tokens
<1>2. Tokens' \in SUBSET (Threads \X (1 .. MaxHeld))
  BY DEF Tokens
<1> QED
  BY <1>1, <1>2, TokensBounded

(* A token more, and a token less. *)
LEMMA TokenGained ==
  ASSUME Typed, NEW t \in Threads, Counted(t)' = Counted(t) + 1, Counted(t) < MaxHeld,
         \A u \in Threads \ {t} : Counted(u)' = Counted(u)
  PROVE  Cardinality(Tokens') = Cardinality(Tokens) + 1
<1> DEFINE new == <<t, Counted(t) + 1>>
<1>1. Counted(t) \in Nat /\ MaxHeld \in Nat
  BY CountedType, AtomicAssumption
<1>2. new \notin Tokens
  BY <1>1 DEF Tokens
<1>3. Tokens' = Tokens \cup {new}
  <2>1. new \in Tokens' /\ \A p \in Tokens : p \in Tokens'
    BY <1>1 DEF Tokens
  <2>2. ASSUME NEW p \in Tokens', p # new PROVE p \in Tokens
    BY <1>1, <2>2 DEF Tokens
  <2> HIDE DEF new
  <2> QED
    BY <2>1, <2>2
<1> QED
  BY <1>2, <1>3, TokensCountable, FS_AddElement

LEMMA TokenLost ==
  ASSUME Typed, NEW t \in Threads, Counted(t)' + 1 = Counted(t),
         Counted(t)' \in Nat, Counted(t) <= MaxHeld,
         \A u \in Threads \ {t} : Counted(u)' = Counted(u)
  PROVE  Cardinality(Tokens') = Cardinality(Tokens) - 1
<1> DEFINE old == <<t, Counted(t)>>
<1>1. Counted(t) \in Nat /\ MaxHeld \in Nat
  BY CountedType, AtomicAssumption
<1>2. old \in Tokens
  BY <1>1 DEF Tokens
<1>3. Tokens' = Tokens \ {old}
  <2>1. old \notin Tokens' /\ \A p \in Tokens' : p \in Tokens
    BY <1>1 DEF Tokens
  <2>2. ASSUME NEW p \in Tokens, p # old PROVE p \in Tokens'
    BY <1>1, <2>2 DEF Tokens
  <2> HIDE DEF old
  <2> QED
    BY <2>1, <2>2
<1> QED
  BY <1>2, <1>3, TokensCountable, FS_RemoveElement

LEMMA TokensStay ==
  ASSUME \A u \in Threads : Counted(u)' = Counted(u)
  PROVE  Tokens' = Tokens
  BY DEF Tokens

(* Once the word is 0, nobody counts for anything. *)
LEMMA NothingCounted ==
  ASSUME Typed, Counting, client = "references", t_ = 0, NEW t \in Threads
  PROVE  Counted(t) = 0
<1>1. Tokens = {}
  BY TokensCountable, FS_EmptySet DEF Counting
<1>2. CASE Counted(t) >= 1
  <2>1. <<t, 1>> \in Tokens
    BY <1>2, AtomicAssumption DEF Tokens
  <2> QED
    BY <1>1, <2>1
<1> QED
  BY <1>2, CountedType

LEMMA InitCounting == Init => Counting
<1> SUFFICES ASSUME Init, client = "references" PROVE Counting
  BY DEF Counting
<1>1. \A t \in Threads : Counted(t) = 1
  BY DEF Init, Counted
<1>2. Tokens = Threads \X {1}
  BY <1>1, AtomicAssumption DEF Tokens
<1>3. Cardinality(Threads) \in Nat /\ Cardinality(Threads) # 0
  BY AtomicAssumption, FS_CardinalityType, FS_EmptySet
<1>4. IsFiniteSet({1}) /\ Cardinality({1}) = 1
  BY FS_Singleton
<1>5. Cardinality(Threads \X {1}) = Cardinality(Threads)
  BY <1>3, <1>4, FS_Product, AtomicAssumption
<1> QED
  BY <1>1, <1>2, <1>3, <1>5, AtomicAssumption DEF Init, Counting

LEMMA Products ==
  ASSUME NEW m \in Nat, NEW q \in Int
  PROVE  /\ q >= 2 => m * q >= 2 * m
         /\ q <= 0 => m * q <= 0
         /\ m * 1 = m
  OBVIOUS

(* A sum that exceeds the width by less than it wraps round once. *)
LEMMA WrapsOnce ==
  ASSUME NEW x \in Nat, NEW m \in Nat, 0 < m, m <= x, x < 2 * m
  PROVE  x % m = x - m
<1> DEFINE q == x \div m
           r == x % m
<1>1. q \in Int /\ r \in 0 .. m - 1 /\ x = m * q + r
  OBVIOUS
<1> HIDE DEF q, r
<1>2. q = 1
  <2>1. CASE q >= 2
    BY <1>1, <2>1, Products
  <2>2. CASE q <= 0
    BY <1>1, <2>2, Products
  <2> QED
    BY <1>1, <2>1, <2>2
<1> QED
  BY <1>1, <1>2, Products DEF r

LEMMA CountCalls ==
  /\ Inc.op = "AddFetch" /\ Dec.op = "AddFetch"
  /\ \A word \in Words : /\ word + 1 < Modulus => Effect(Inc, word) = word + 1
                         /\ 0 < word => Effect(Dec, word) = word - 1
                         /\ GccAnswer(Dec, word) = Effect(Dec, word)
<1>1. /\ Inc.op = "AddFetch" /\ Dec.op = "AddFetch"
      /\ Inc.value = 1 /\ Dec.value = MinusOne
  BY DEF Inc, Dec
<1>2. SUFFICES ASSUME NEW word \in Words
               PROVE  /\ word + 1 < Modulus => Effect(Inc, word) = word + 1
                      /\ 0 < word => Effect(Dec, word) = word - 1
                      /\ GccAnswer(Dec, word) = Effect(Dec, word)
  BY <1>1
<1> DEFINE sum == word + MinusOne
<1>3. Effect(Inc, word) = (word + 1) % Modulus
  BY <1>1 DEF Effect
<1>4. Effect(Dec, word) = sum % Modulus
  BY <1>1 DEF Effect
<1>5. GccAnswer(Dec, word) = Effect(Dec, word)
  BY <1>1 DEF GccAnswer
<1>6. word + 1 < Modulus => (word + 1) % Modulus = word + 1
  BY AtomicAssumption DEF Words
<1>7. ASSUME 0 < word PROVE sum % Modulus = word - 1
  <2>1. /\ sum \in Nat /\ Modulus <= sum /\ sum < 2 * Modulus
        /\ sum - Modulus = word - 1 /\ Modulus \in Nat /\ 0 < Modulus
    BY <1>7, AtomicAssumption DEF Words, MinusOne
  <2> HIDE DEF sum
  <2>2. sum % Modulus = sum - Modulus
    BY <2>1, WrapsOnce
  <2> QED
    BY <2>1, <2>2
<1> HIDE DEF sum
<1> QED
  BY <1>3, <1>4, <1>5, <1>6, <1>7

LEMMA CallKeepsCount ==
  ASSUME Typed, Counting, client = "references", NEW t \in Threads, Call(t)
  PROVE  Counting'
<1>1. PICK c \in May(t) :
        /\ call' = [call EXCEPT ![t] = c]
        /\ holds' = [holds EXCEPT ![t] = IF c \in {Dec, ReleaseLock} THEN @ - 1 ELSE @]
  BY DEF Call
<1>2. /\ pc[t] = "out" /\ pc' = [pc EXCEPT ![t] = "called"]
      /\ UNCHANGED <<client, t_, sawZero>>
  BY DEF Call, clientVars
<1>3. c \in {Inc, Dec} /\ holds[t] \in Nat /\ 0 < holds[t]
  BY <1>1, AtomicAssumption DEF May, Typed, TypeOK
<1>4. Inc # ReleaseLock /\ Inc # Dec
  BY CountCalls, LockCalls, IncIsNotDec
<1>5. \A u \in Threads : Counted(u)' = Counted(u)
  BY <1>1, <1>2, <1>3, <1>4 DEF Counted, Typed, TypeOK
<1>6. \A u \in Threads : pc[u] = "added" /\ call[u] = Dec => (pc[u] = "added" /\ call[u] = Dec)'
  BY <1>1, <1>2 DEF Typed, TypeOK
<1> QED
  BY <1>2, <1>5, <1>6, TokensStay DEF Counting

LEMMA IncKeepsCount ==
  ASSUME Typed, Counting, client = "references", NEW t \in Threads,
         pc[t] = "called", call[t] = Inc, t_' = Effect(Inc, t_),
         UNCHANGED <<client, call, sawZero>>,
         \/ pc' = [pc EXCEPT ![t] = "added"] /\ holds' = holds
         \/ pc' = [pc EXCEPT ![t] = "out"] /\ holds' = [holds EXCEPT ![t] = @ + 1]
  PROVE  Counting'
<1>1. holds[t] \in Nat /\ 0 < holds[t] /\ holds[t] < MaxHeld
  BY AtomicAssumption DEF Typed, TypeOK, ReferenceUse
<1>2. Counted(t) = holds[t] /\ Counted(t)' = holds[t] + 1
  BY <1>1, IncIsNotDec DEF Counted, Typed, TypeOK
<1>3. \A u \in Threads \ {t} : Counted(u)' = Counted(u)
  BY DEF Counted, Typed, TypeOK
<1>4. Cardinality(Tokens') = t_ + 1
  BY <1>1, <1>2, <1>3, TokenGained DEF Counting
<1>5. t_ \in Words /\ t_ + 1 < Modulus
  <2>1. Cardinality(Tokens') < Modulus
    BY TokensCountable, TokensBounded
  <2> QED
    BY <1>4, <2>1 DEF Typed, TypeOK
<1>6. t_' = t_ + 1
  BY <1>5, CountCalls
<1>7. t_ # 0 /\ t_' # 0
  BY <1>1, <1>2, <1>5, <1>6, NothingCounted DEF Words
<1>8. \A u \in Threads : Counted(u)' <= MaxHeld
  BY <1>1, <1>2, <1>3, AtomicAssumption DEF Counting
<1> QED
  BY <1>4, <1>6, <1>7, <1>8 DEF Counting

LEMMA DecKeepsCount ==
  ASSUME Typed, Counting, client = "references", NEW t \in Threads,
         pc[t] = "called", call[t] = Dec, t_' = Effect(Dec, t_),
         UNCHANGED <<client, call, holds>>,
         \/ pc' = [pc EXCEPT ![t] = "added"] /\ sawZero' = sawZero
         \/ /\ pc' = [pc EXCEPT ![t] = "out"]
            /\ sawZero' = IF t_' = 0 THEN sawZero \cup {t} ELSE sawZero
  PROVE  Counting'
<1>1. holds[t] \in Nat /\ t_ \in Words
  BY AtomicAssumption DEF Typed, TypeOK
<1>2. Counted(t) = holds[t] + 1 /\ Counted(t)' = holds[t]
  BY <1>1, IncIsNotDec DEF Counted, Typed, TypeOK
<1>3. \A u \in Threads \ {t} : Counted(u)' = Counted(u)
  BY DEF Counted, Typed, TypeOK
<1>4. Counted(t) <= MaxHeld
  BY DEF Counting
<1>5. Cardinality(Tokens') = t_ - 1
  BY <1>1, <1>2, <1>3, <1>4, TokenLost DEF Counting
<1>6. t_ # 0
  BY <1>1, <1>2, NothingCounted
<1>7. t_' = t_ - 1
  BY <1>1, <1>6, CountCalls DEF Words
<1>8. \A u \in Threads : Counted(u)' <= MaxHeld
  BY <1>1, <1>2, <1>3, <1>4, AtomicAssumption DEF Counting
<1>9. sawZero = {}
  BY <1>6 DEF Counting
<1>10. sawZero' # {} => t_' = 0
  BY <1>9
<1>11. t_' = 0 => sawZero' # {} \/ (pc'[t] = "added" /\ call'[t] = Dec)
  BY DEF Typed, TypeOK
<1> QED
  BY <1>5, <1>7, <1>8, <1>10, <1>11 DEF Counting

(* An Inc or a Dec of AtomicBase returns what it reads in the word. *)
LEMMA ReadKeepsCount ==
  ASSUME Typed, Counting, client = "references", NEW t \in Threads,
         pc[t] = "added", call[t] \in {Inc, Dec}, Return(t, t_),
         UNCHANGED <<client, call, t_>>
  PROVE  Counting'
<1>1. /\ holds[t] \in Nat
      /\ pc' = [pc EXCEPT ![t] = "out"]
      /\ holds' = [holds EXCEPT ![t] = IF call[t] = Inc THEN @ + 1 ELSE @]
      /\ sawZero' = IF call[t] = Dec /\ t_ = 0 THEN sawZero \cup {t} ELSE sawZero
  BY AtomicAssumption DEF Return, Typed, TypeOK
<1>2. \A u \in Threads : Counted(u)' = Counted(u)
  BY <1>1, IncIsNotDec DEF Counted, Typed, TypeOK
<1>3. t_ = 0 => call[t] = Dec
  BY <1>1, NothingCounted, IncIsNotDec DEF Counted
<1> QED
  BY <1>1, <1>2, <1>3, TokensStay DEF Counting

LEMMA CountingStep == Typed /\ Counting /\ [Next]_vars => Counting'
<1> SUFFICES ASSUME Typed, Counting, [Next]_vars, client = "references" PROVE Counting'
  BY ClientStays DEF Counting, clientVars
<1>1. CASE UNCHANGED vars
  BY <1>1 DEF vars, clientVars, history, Counting, Tokens, Counted
<1>2. ASSUME NEW t \in Threads, Call(t) \/ GccCall(t) \/ AsmCall(t) \/ Drain(t)
      PROVE  Counting'
  <2>1. /\ pc[t] # "out" => call[t] \in {Inc, Dec}
        /\ buffer[t] = << >> /\ View(t) = t_ /\ t_ \in Words
    BY DEF Typed, ReferenceUse, View, TypeOK
  <2>2. CASE Call(t)
    BY <2>2, CallKeepsCount
  <2>3. CASE GccCall(t)
    <3>1. pc[t] = "called" /\ t_' = Effect(call[t], t_) /\ UNCHANGED <<client, call>>
      BY <2>3 DEF GccCall, Write, clientVars
    <3>2. CASE call[t] = Inc
      <4>1. /\ pc' = [pc EXCEPT ![t] = "out"]
            /\ holds' = [holds EXCEPT ![t] = @ + 1] /\ sawZero' = sawZero
        BY <2>3, <3>2, IncIsNotDec DEF GccCall, Return
      <4> QED
        BY <3>1, <3>2, <4>1, IncKeepsCount
    <3>3. CASE call[t] = Dec
      <4>1. /\ pc' = [pc EXCEPT ![t] = "out"] /\ holds' = holds
            /\ sawZero' = IF t_' = 0 THEN sawZero \cup {t} ELSE sawZero
        BY <2>1, <2>3, <3>1, <3>3, CountCalls, IncIsNotDec DEF GccCall, Return, Typed, TypeOK
      <4> QED
        BY <3>1, <3>3, <4>1, DecKeepsCount
    <3> QED
      BY <2>1, <3>1, <3>2, <3>3
  <2>4. CASE AsmAddFetch(t)
    <3>1. /\ pc[t] = "called" /\ pc' = [pc EXCEPT ![t] = "added"]
          /\ t_' = Effect(call[t], t_) /\ UNCHANGED <<client, call, holds, sawZero>>
      BY <2>4 DEF AsmAddFetch, InAsm, Write, clientVars
    <3> QED
      BY <2>1, <3>1, IncKeepsCount, DecKeepsCount
  <2>5. CASE ReadAfter(t)
    BY <2>1, <2>5, ReadKeepsCount DEF ReadAfter, InAsm, clientVars
  <2>6. ~AsmLoad(t) /\ ~AsmStore(t) /\ ~ReadFirst(t) /\ ~AsmFetchAdd(t)
        /\ ~AsmCompareAndSet(t) /\ ~AsmExchange(t) /\ ~Drain(t)
    BY <2>1, CountCalls DEF AsmLoad, AsmStore, ReadFirst, AsmFetchAdd, AsmCompareAndSet,
                            AsmExchange, Drain, InAsm
  <2> QED
    BY <1>2, <2>2, <2>3, <2>4, <2>5, <2>6 DEF AsmCall
<1> QED
  BY <1>1, <1>2 DEF Next

(* The word serves as a count of references: nobody is told 0 while a      *)
(* reference is left or about to be given up, and when the last one is     *)
(* gone and every call has returned, somebody has been told.  The number   *)
(* of threads is arbitrary, as long as the references fit in the word.     *)
THEOREM ReferencesAreCounted == Spec => []ReferencesCounted
<1>1. Typed /\ Counting => ReferencesCounted
  <2> SUFFICES ASSUME Typed, Counting, client = "references"
               PROVE  ReferencesCounted!2
    BY DEF ReferencesCounted
  <2>1. ASSUME sawZero # {}, NEW t \in Threads
        PROVE  holds[t] = 0 /\ pc[t] # "called"
    <3>1. Counted(t) = 0 /\ holds[t] \in Nat
      BY <2>1, NothingCounted, AtomicAssumption DEF Counting, Typed, TypeOK
    <3>2. holds[t] = 0 /\ ~(pc[t] = "called" /\ call[t] = Dec)
      BY <3>1 DEF Counted
    <3> QED
      BY <3>2 DEF Typed, ReferenceUse
  <2>2. ASSUME \A t \in Threads : holds[t] = 0 /\ pc[t] = "out"
        PROVE  sawZero # {}
    <3>1. Tokens = {}
      <4>1. \A t \in Threads : Counted(t) = 0
        BY <2>2 DEF Counted
      <4> QED
        BY <4>1 DEF Tokens
    <3>2. t_ = 0
      BY <3>1, FS_EmptySet DEF Counting
    <3> QED
      BY <2>2, <3>2 DEF Counting
  <2> QED
    BY <2>1, <2>2
<1>2. Spec => [](Typed /\ Counting)
  BY InitTyped, TypedStep, InitCounting, CountingStep, PTL DEF Spec
<1> QED
  BY <1>1, <1>2, PTL

-----------------------------------------------------------------------------
(* The two bases.  As long as no other thread has changed the word since   *)
(* the call was made, what a thread sees is what it saw then, and behind   *)
(* the locked instruction of AddFetch what the call is to answer.          *)
AnswerFor(t) ==
  start[t] # NULL =>
    /\ pc[t] \in {"called", "read"} => View(t) = start[t]
    /\ pc[t] = "read" => ret[t] = start[t]
    /\ pc[t] = "added" => View(t) = GccAnswer(call[t], start[t])

Answers == \A t \in Threads : AnswerFor(t)

LEMMA OthersKeepAnswer ==
  ASSUME NEW u, AnswerFor(u),
         \/ start'[u] = NULL
         \/ start'[u] = start[u] /\ t_' = t_,
         buffer'[u] = buffer[u], pc'[u] = pc[u], call'[u] = call[u], ret'[u] = ret[u]
  PROVE  AnswerFor(u)'
  BY DEF AnswerFor, View

LEMMA WriteForOthers ==
  ASSUME NEW t \in Threads, NEW word, Write(t, word), NEW u \in Threads, u # t
  PROVE  start'[u] = NULL \/ (start'[u] = start[u] /\ t_' = t_)
  BY DEF Write

(* The last of a sequence is the last of its tail, if the tail has any.    *)
LEMMA LastOfTail ==
  ASSUME NEW b \in Seq(Words), b # << >>
  PROVE  b[Len(b)] = IF Tail(b) = << >> THEN Head(b) ELSE Tail(b)[Len(Tail(b))]
<1>1. /\ Len(b) \in Nat \ {0} /\ Head(b) = b[1]
      /\ Tail(b) \in Seq(Words) /\ Len(Tail(b)) = Len(b) - 1
  BY EmptySeq, HeadTailProperties
<1>2. \A i \in 1 .. Len(Tail(b)) : Tail(b)[i] = b[i + 1]
  BY HeadTailProperties
<1>3. CASE Tail(b) = << >>
  <2>1. Len(Tail(b)) = 0
    BY <1>3, EmptySeq
  <2>2. Len(b) = 1
    <3>1. \A n \in Nat \ {0} : n - 1 = 0 => n = 1
      OBVIOUS
    <3> QED
      BY <1>1, <2>1, <3>1, Zenon
  <2>3. b[Len(b)] = Head(b)
    BY <1>1, <2>2, Zenon
  <2> QED
    BY <1>3, <2>3, Zenon
<1>4. CASE Tail(b) # << >>
  <2>1. Len(Tail(b)) \in Nat \ {0}
    BY <1>1, <1>4, EmptySeq
  <2> QED
    BY <1>1, <1>4, <1>2, <2>1
<1> QED
  BY <1>3, <1>4

(* A store that leaves the buffer does not change what its thread sees.    *)
LEMMA DrainKeepsView ==
  ASSUME Typed, NEW t \in Threads, Drain(t)
  PROVE  View(t)' = View(t) /\ start'[t] = start[t]
<1>1. /\ buffer[t] \in Seq(Words) /\ buffer[t] # << >>
      /\ buffer'[t] = Tail(buffer[t]) /\ t_' = Head(buffer[t])
      /\ start'[t] = start[t]
  BY DEF Drain, Write, Typed, TypeOK
<1>2. View(t) = IF Tail(buffer[t]) = << >> THEN Head(buffer[t])
                ELSE Tail(buffer[t])[Len(Tail(buffer[t]))]
  BY <1>1, LastOfTail DEF View
<1> QED
  BY <1>1, <1>2 DEF View

LEMMA AnswersStep == Typed /\ Answers /\ [Next]_vars => Answers'
<1> SUFFICES ASSUME Typed, Answers, [Next]_vars PROVE Answers'
  OBVIOUS
<1>1. CASE UNCHANGED vars
  BY <1>1 DEF vars, clientVars, history, Answers, AnswerFor, View
<1>2. ASSUME NEW t \in Threads, Call(t) \/ GccCall(t) \/ AsmCall(t) \/ Drain(t)
      PROVE  Answers'
  <2>1. ASSUME NEW u \in Threads, u # t PROVE AnswerFor(u)'
    <3>1. /\ buffer'[u] = buffer[u] /\ pc'[u] = pc[u]
          /\ call'[u] = call[u] /\ ret'[u] = ret[u]
      BY <1>2, <2>1 DEF Typed, TypeOK, Call, GccCall, AsmCall, AsmLoad, AsmStore, ReadFirst,
           AsmFetchAdd, AsmAddFetch, ReadAfter, AsmCompareAndSet, AsmExchange, Drain, Return
    <3>2. start'[u] = NULL \/ (start'[u] = start[u] /\ t_' = t_)
      BY <1>2, <2>1, WriteForOthers DEF Typed, TypeOK, Call, GccCall, AsmCall, AsmLoad, AsmStore,
           ReadFirst, AsmFetchAdd, AsmAddFetch, ReadAfter, AsmCompareAndSet, AsmExchange, Drain, history
    <3> QED
      BY <3>1, <3>2, OthersKeepAnswer DEF Answers
  <2>2. AnswerFor(t)'
    <3>1. CASE Call(t)
      BY <3>1 DEF Call, AnswerFor, View, Typed, TypeOK
    <3>2. CASE pc'[t] = "out"
      BY <3>2 DEF AnswerFor
    <3>3. CASE ReadFirst(t)
      BY <3>3 DEF ReadFirst, InAsm, history, Answers, AnswerFor, View, Typed, TypeOK
    <3>4. CASE AsmAddFetch(t)
      <4>1. /\ pc'[t] = "added" /\ call'[t] = call[t] /\ call[t].op = "AddFetch"
            /\ buffer'[t] = << >> /\ buffer[t] = << >> /\ start'[t] = start[t]
            /\ t_' = Effect(call[t], t_) /\ pc[t] = "called"
        BY <3>4 DEF AsmAddFetch, InAsm, Drained, Write, Typed, TypeOK
      <4>2. start[t] # NULL => t_ = start[t]
        BY <4>1 DEF Answers, AnswerFor, View
      <4> QED
        BY <4>1, <4>2 DEF AnswerFor, View, GccAnswer
    <3>5. CASE Drain(t)
      <4>1. View(t)' = View(t) /\ start'[t] = start[t] /\ pc[t] # "added"
        BY <3>5, DrainKeepsView DEF Drain, Typed, Phases
      <4> QED
        BY <3>5, <4>1 DEF Drain, Answers, AnswerFor
    <3>6. CASE GccCall(t) \/ AsmLoad(t) \/ AsmStore(t) \/ AsmFetchAdd(t) \/ ReadAfter(t)
               \/ AsmCompareAndSet(t) \/ AsmExchange(t)
      <4>1. pc'[t] = "out"
        BY <3>6 DEF GccCall, AsmLoad, AsmStore, AsmFetchAdd, ReadAfter, AsmCompareAndSet,
                    AsmExchange, Return, Typed, TypeOK
      <4> QED
        BY <4>1, <3>2
    <3> QED
      BY <1>2, <3>1, <3>3, <3>4, <3>5, <3>6 DEF AsmCall
  <2> QED
    BY <2>1, <2>2 DEF Answers
<1> QED
  BY <1>1, <1>2 DEF Next

(* What a call returns that nobody has disturbed. *)
LEMMA ReturnsAnswer ==
  ASSUME Typed, Answers, NEW t \in Threads,
         Call(t) \/ GccCall(t) \/ AsmCall(t) \/ Drain(t),
         pc[t] # "out", pc'[t] = "out", start[t] # NULL,
         call[t].op = "CompareAndSet" => call[t].exp = start[t]
  PROVE  ret'[t] = GccAnswer(call[t], start[t])
<1>1. /\ pc[t] \in {"called", "read"} => View(t) = start[t]
      /\ pc[t] = "read" => ret[t] = start[t]
      /\ pc[t] = "added" => View(t) = GccAnswer(call[t], start[t])
  BY DEF Answers, AnswerFor
<1>2. ~Call(t) /\ ~Drain(t) /\ ~ReadFirst(t) /\ ~AsmAddFetch(t)
  BY DEF Call, Drain, ReadFirst, AsmAddFetch, Typed, TypeOK
<1>3. CASE GccCall(t)
  <2>1. pc[t] = "called" /\ View(t) = t_
    BY <1>3 DEF GccCall, Typed, Phases, View
  <2> QED
    BY <1>1, <1>3, <2>1 DEF GccCall, Return, Typed, TypeOK
<1>4. CASE AsmLoad(t) \/ AsmExchange(t) \/ AsmFetchAdd(t) \/ AsmCompareAndSet(t)
  <2>1. call[t].op \in {"Load", "Exchange", "FetchAdd", "CompareAndSet"}
    BY <1>4 DEF AsmLoad, AsmExchange, AsmFetchAdd, AsmCompareAndSet, InAsm
  <2>2. ret'[t] = start[t]
    BY <1>1, <1>4 DEF AsmLoad, AsmExchange, AsmFetchAdd, AsmCompareAndSet, InAsm, Drained,
                      Return, View, Typed, TypeOK
  <2> QED
    BY <2>1, <2>2 DEF GccAnswer
<1>5. CASE AsmStore(t)
  <2>1. call[t].op = "Store" /\ ret'[t] = call[t].value
    BY <1>5 DEF AsmStore, InAsm, Return, Typed, TypeOK
  <2> QED
    BY <2>1 DEF GccAnswer, Effect
<1>6. CASE ReadAfter(t)
  BY <1>1, <1>6 DEF ReadAfter, InAsm, Return, Typed, TypeOK
<1> QED
  BY <1>2, <1>3, <1>4, <1>5, <1>6 DEF AsmCall

(* The two bases give the same answer to a call that no other thread       *)
(* disturbs, however its own stores wait in the buffer.                    *)
THEOREM TheBasesAgree == Spec => BasesAgree
<1> DEFINE Agree ==
      \A t \in Threads :
        /\ pc[t] # "out" /\ pc'[t] = "out" /\ start[t] # NULL
        /\ call[t].op = "CompareAndSet" => call[t].exp = start[t]
        => ret'[t] = GccAnswer(call[t], start[t])
<1>1. Init => Answers
  BY DEF Init, Answers, AnswerFor
<1>2. Spec => [](Typed /\ Answers)
  BY <1>1, InitTyped, TypedStep, AnswersStep, PTL DEF Spec
<1>3. Typed /\ Answers /\ [Next]_vars => [Agree]_vars
  <2> SUFFICES ASSUME Typed, Answers, Next, NEW t \in Threads,
                      pc[t] # "out", pc'[t] = "out", start[t] # NULL,
                      call[t].op = "CompareAndSet" => call[t].exp = start[t]
               PROVE  ret'[t] = GccAnswer(call[t], start[t])
    OBVIOUS
  <2>1. PICK u \in Threads : Call(u) \/ GccCall(u) \/ AsmCall(u) \/ Drain(u)
    BY DEF Next
  <2>2. u = t
    BY <2>1 DEF Typed, TypeOK, Call, GccCall, AsmCall, AsmLoad, AsmStore, ReadFirst,
         AsmFetchAdd, AsmAddFetch, ReadAfter, AsmCompareAndSet, AsmExchange, Drain, Return
  <2> QED
    BY <2>1, <2>2, ReturnsAnswer
<1> QED
  BY <1>2, <1>3, PTL DEF Spec, BasesAgree
=============================================================================
