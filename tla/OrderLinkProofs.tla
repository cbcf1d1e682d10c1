-------------------------- MODULE OrderLinkProofs --------------------------
(***************************************************************************)
(* Theorems about OrderLink, for any orders, urgencies, stack, number of   *)
(* orders posted and of tries of the timed ones.                           *)
(***************************************************************************)
EXTENDS OrderLink, FiniteSetTheorems, TLAPS

(***************************************************************************)
(* Type correctness.                                                       *)
(***************************************************************************)
LEMMA CountType ==
  ASSUME NEW S, NEW f \in [S -> Nat], NEW o \in S
  PROVE  /\ Inc(f, o) \in [S -> Nat]
         /\ f[o] > 0 => Dec(f, o) \in [S -> Nat]
BY DEF Inc, Dec

LEMMA HeadsAreQueued == \A o \in Heads(queue) : o \in Ids /\ queue[o] > 0
BY DEF Heads

LEMMA EmitterType ==
  ASSUME TypeOK, Emitter
  PROVE  TypeOK'
<1> USE KindsAssumption DEF TypeOK
<1>1. ASSUME NEW o \in Ids, Take(o) PROVE TypeOK'
  <2>1. queue' \in [Ids -> Nat] /\ held' \in Ids
    BY <1>1, HeadsAreQueued, CountType DEF Take
  <2>2. UNCHANGED <<emit, flagVars, wireVars, inbox, ticket, ended, mainVars>> /\ emit = "take"
    BY <1>1 DEF Take
  <2> QED BY <2>1, <2>2 DEF flagVars, wireVars, mainVars
<1>2. CASE Refuse
  BY <1>2 DEF Refuse, flagVars, wireVars, mainVars
<1>3. CASE PutBack
  <2>0. held \in Ids
    BY <1>3 DEF PutBack
  <2>1. queue' \in [Ids -> Nat] /\ held' \in Ids \cup {None}
    <3>1. ASSUME NEW o \in Heads(queue), held' = o, queue' = Inc(Dec(queue, o), held)
          PROVE  queue' \in [Ids -> Nat] /\ held' \in Ids
      <4>1. Dec(queue, o) \in [Ids -> Nat] /\ o \in Ids
        BY HeadsAreQueued, CountType
      <4> QED BY <2>0, <3>1, <4>1, CountType
    <3> QED BY <1>3, <2>0, <3>1, CountType DEF PutBack
  <2>2. UNCHANGED <<flagVars, wireVars, inbox, ticket, ended, mainVars>> /\ emit' = "take"
    BY <1>3 DEF PutBack
  <2> QED BY <2>1, <2>2 DEF flagVars, wireVars, mainVars
<1>4. CASE orderSent
  <2>0. held \in Ids
    BY <1>4 DEF orderSent
  <2>1. waiting' \in [Ids -> BOOLEAN] /\ sendable' \in [Ids -> BOOLEAN]
    BY <1>4 DEF orderSent
  <2>2. UNCHANGED <<queue, held, wireVars, inbox, ticket, ended, mainVars>> /\ emit' = "write"
    BY <1>4 DEF orderSent
  <2> QED BY <2>0, <2>1, <2>2 DEF wireVars, mainVars
<1>5. CASE communiquer
  <2>0. held \in Ids
    BY <1>5 DEF communiquer
  <2>1. down' \in [Ids -> Nat] /\ held' = None /\ emit' = "take"
    BY <1>5, <2>0, CountType DEF communiquer
  <2>2. UNCHANGED <<queue, flagVars, slots, up, inbox, ticket, ended, mainVars>>
    BY <1>5 DEF communiquer
  <2> QED BY <2>1, <2>2 DEF flagVars, mainVars
<1> QED BY <1>1, <1>2, <1>3, <1>4, <1>5 DEF Emitter

LEMMA LowLevelType ==
  ASSUME TypeOK,
         \/ \E o \in Ids : handleNewCommand(o)
         \/ \E i \in Slots : executeStackedOrder(i)
  PROVE  TypeOK'
<1> USE KindsAssumption DEF TypeOK
<1>1. ASSUME NEW o \in Ids, handleNewCommand(o) PROVE TypeOK'
  <2>1. down' \in [Ids -> Nat] /\ up' \in [Ids -> Nat]
    BY <1>1, CountType DEF handleNewCommand
  <2>2. slots' \in [Slots -> Long \cup {None}]
    BY <1>1 DEF handleNewCommand, Free
  <2>3. UNCHANGED <<emitterVars, flagVars, inbox, ticket, ended, mainVars>>
    BY <1>1 DEF handleNewCommand
  <2> QED BY <2>1, <2>2, <2>3 DEF emitterVars, flagVars, mainVars
<1>2. ASSUME NEW i \in Slots, executeStackedOrder(i) PROVE TypeOK'
  <2>0. slots[i] \in Ids
    BY <1>2 DEF executeStackedOrder, Ids
  <2>1. up' \in [Ids -> Nat] /\ slots' \in [Slots -> Long \cup {None}]
    BY <1>2, <2>0, CountType DEF executeStackedOrder
  <2>2. UNCHANGED <<emitterVars, flagVars, down, inbox, ticket, ended, mainVars>>
    BY <1>2 DEF executeStackedOrder
  <2> QED BY <2>1, <2>2 DEF emitterVars, flagVars, mainVars
<1> QED BY <1>1, <1>2

LEMMA AnswerType ==
  ASSUME TypeOK, Processor \/ \E o \in Ids : answerReceived(o)
  PROVE  TypeOK'
<1> USE KindsAssumption DEF TypeOK
<1>1. ASSUME NEW o \in Ids, answerReceived(o) PROVE TypeOK'
  <2>1. up' \in [Ids -> Nat] /\ inbox' \in [Ids -> Nat]
    BY <1>1, CountType DEF answerReceived
  <2>2. waiting' \in [Ids -> BOOLEAN] /\ sendable' \in [Ids -> BOOLEAN]
    BY <1>1 DEF answerReceived
  <2>3. UNCHANGED <<emitterVars, down, slots, ticket, ended, mainVars>>
    BY <1>1 DEF answerReceived
  <2> QED BY <2>1, <2>2, <2>3 DEF emitterVars, mainVars
<1>2. CASE ProcessEnd
  <2>1. inbox' \in [Ids -> Nat]
    BY <1>2, CountType DEF ProcessEnd, Ids
  <2>2. ended' \in BOOLEAN /\ interrupted' \in BOOLEAN
    BY <1>2, Zenon DEF ProcessEnd
  <2>3. UNCHANGED <<emitterVars, flagVars, wireVars, ticket, main, closed, posted>>
    BY <1>2 DEF ProcessEnd
  <2> QED BY <2>1, <2>2, <2>3 DEF emitterVars, flagVars, wireVars
<1>3. ASSUME NEW o \in Ids, ProcessAnswer(o) PROVE TypeOK'
  <2>1. inbox' \in [Ids -> Nat] /\ ticket' \in [Ids -> BOOLEAN]
    BY <1>3, CountType DEF ProcessAnswer
  <2>2. UNCHANGED <<emitterVars, flagVars, wireVars, ended, mainVars>>
    BY <1>3 DEF ProcessAnswer
  <2> QED BY <2>1, <2>2 DEF emitterVars, flagVars, wireVars, mainVars
<1> QED BY <1>1, <1>2, <1>3 DEF Processor

LEMMA ClientType ==
  ASSUME TypeOK, Main \/ \E o \in Async : Post(o)
  PROVE  TypeOK'
<1> USE KindsAssumption DEF TypeOK
<1>1. Sync \subseteq Ids
  BY DEF Ids
<1>2. ASSUME NEW o \in Sync, Call(o) PROVE TypeOK'
  <2>1. queue' \in [Ids -> Nat] /\ main' \in Sync
    BY <1>1, <1>2, CountType DEF Call
  <2>2. UNCHANGED <<held, emit, flagVars, wireVars, inbox, ticket, ended, interrupted, closed, posted>>
    BY <1>2 DEF Call
  <2> QED BY <2>1, <2>2 DEF flagVars, wireVars
<1>3. CASE attendStatus
  <2>1. ticket' \in [Ids -> BOOLEAN] /\ main' = None
    BY <1>3 DEF attendStatus
  <2>2. UNCHANGED <<emitterVars, flagVars, wireVars, inbox, ended, interrupted, closed, posted>>
    BY <1>3 DEF attendStatus
  <2> QED BY <2>1, <2>2 DEF emitterVars, flagVars, wireVars
<1>4. CASE TryAgain
  <2>1. queue' \in [Ids -> Nat]
    BY <1>1, <1>4, CountType DEF TryAgain, Ids
  <2>2. UNCHANGED <<held, emit, flagVars, wireVars, inbox, ticket, ended, mainVars>>
    BY <1>4 DEF TryAgain
  <2> QED BY <2>1, <2>2 DEF flagVars, wireVars, mainVars
<1>5. CASE Interrupted
  <2>1. interrupted' \in BOOLEAN /\ main' = None
    BY <1>5, Zenon DEF Interrupted
  <2>2. UNCHANGED <<emitterVars, flagVars, wireVars, inbox, ticket, ended, closed, posted>>
    BY <1>5 DEF Interrupted
  <2> QED BY <2>1, <2>2 DEF emitterVars, flagVars, wireVars
<1>6. CASE destructor
  <2>1. closed' \in BOOLEAN
    BY <1>6, Zenon DEF destructor
  <2>2. UNCHANGED <<emitterVars, flagVars, wireVars, inbox, ticket, ended, main, interrupted, posted>>
    BY <1>6 DEF destructor
  <2> QED BY <2>1, <2>2 DEF emitterVars, flagVars, wireVars
<1>7. ASSUME NEW o \in Async, Post(o) PROVE TypeOK'
  <2>1. queue' \in [Ids -> Nat] /\ posted' \in [Async -> Nat]
    BY <1>7, CountType DEF Post, Async
  <2>2. UNCHANGED <<held, emit, flagVars, wireVars, inbox, ticket, ended, main, interrupted, closed>>
    BY <1>7 DEF Post
  <2> QED BY <2>1, <2>2 DEF flagVars, wireVars
<1> QED BY <1>2, <1>3, <1>4, <1>5, <1>6, <1>7 DEF Main

LEMMA TypeInit == Init => TypeOK
<1> SUFFICES ASSUME Init PROVE TypeOK
  OBVIOUS
<1>1. ended \in BOOLEAN /\ interrupted \in BOOLEAN /\ closed \in BOOLEAN
  BY Zenon DEF Init
<1>2. main \in Sync \cup {None}
  BY KindsAssumption DEF Init
<1>3. /\ queue \in [Ids -> Nat] /\ down \in [Ids -> Nat] /\ up \in [Ids -> Nat]
      /\ inbox \in [Ids -> Nat] /\ posted \in [Async -> Nat]
  BY DEF Init
<1>4. /\ waiting \in [Ids -> BOOLEAN] /\ sendable \in [Ids -> BOOLEAN]
      /\ ticket \in [Ids -> BOOLEAN] /\ slots \in [Slots -> Long \cup {None}]
  BY DEF Init
<1> QED BY <1>1, <1>2, <1>3, <1>4 DEF Init, TypeOK

LEMMA TypeStep == TypeOK /\ [Next]_vars => TypeOK'
<1> SUFFICES ASSUME TypeOK, [Next]_vars PROVE TypeOK'
  OBVIOUS
<1>1. CASE Next
  BY <1>1, EmitterType, LowLevelType, AnswerType, ClientType DEF Next
<1>2. CASE UNCHANGED vars
  BY <1>2 DEF TypeOK, vars, emitterVars, flagVars, wireVars, mainVars
<1> QED BY <1>1, <1>2

\* The type invariant: every count stays a natural number and every slot of the stack
\* of the low level holds a long order or nothing, whatever the threads interleave.
THEOREM TypeCorrect == Spec => []TypeOK
BY TypeInit, TypeStep, PTL DEF Spec

(***************************************************************************)
(* A long order exists once between orderSent() and answerReceived().      *)
(***************************************************************************)
Once(o) ==
  /\ InFlight(o) <= (IF sendable[o] THEN 0 ELSE 1)
  /\ \A i, j \in Slots : slots[i] = o /\ slots[j] = o => i = j

LEMMA OnceEmitter ==
  ASSUME TypeOK, NEW o \in Long, Once(o), Emitter
  PROVE  Once(o)'
<1> USE DEF TypeOK, Once, InFlight, Sending, Running
<1>0. o \in Ids /\ down[o] \in Nat /\ up[o] \in Nat /\ sendable[o] \in BOOLEAN
  BY DEF Ids
<1>1. CASE Refuse \/ PutBack \/ \E p \in Ids : Take(p)
  BY <1>0, <1>1 DEF Refuse, PutBack, Take, flagVars, wireVars
<1>2. CASE orderSent
  <2>1. UNCHANGED <<held, down, slots, up>> /\ emit = "take" /\ emit' = "write"
    BY <1>2 DEF orderSent, wireVars
  <2>2. CASE held = o
    <3>1. sendable[o] /\ ~sendable'[o]
      BY <1>0, <1>2, <2>2 DEF orderSent
    <3> QED BY <1>0, <2>1, <2>2, <3>1
  <2>3. CASE held # o
    <3>1. sendable'[o] = sendable[o]
      BY <1>0, <1>2, <2>3 DEF orderSent
    <3> QED BY <1>0, <2>1, <2>3, <3>1
  <2> QED BY <2>2, <2>3
<1>3. CASE communiquer
  <2>1. /\ UNCHANGED <<sendable, slots, up>> /\ emit = "write" /\ emit' = "take"
        /\ down' = Inc(down, held) /\ held \in Ids
    BY <1>3 DEF communiquer, flagVars
  <2>2. down'[o] = IF held = o THEN down[o] + 1 ELSE down[o]
    BY <1>0, <2>1 DEF Inc
  <2> QED BY <1>0, <2>1, <2>2
<1> QED BY <1>1, <1>2, <1>3 DEF Emitter

LEMMA OnceCommand ==
  ASSUME TypeOK, NEW o \in Long, Once(o), NEW p \in Ids, handleNewCommand(p)
  PROVE  Once(o)'
<1> USE KindsAssumption DEF TypeOK, Once, InFlight, Sending, Running
<1>0. /\ o \in Ids /\ down[o] \in Nat /\ up[o] \in Nat /\ sendable[o] \in BOOLEAN
      /\ o # None
  BY DEF Ids
<1>1. /\ UNCHANGED <<held, emit, sendable>> /\ down' = Dec(down, p) /\ down[p] > 0
      /\ up'[o] = up[o]
  BY <1>0 DEF handleNewCommand, emitterVars, flagVars, Inc
<1>2. down'[o] = IF p = o THEN down[o] - 1 ELSE down[o]
  BY <1>0, <1>1 DEF Dec
<1>3. \/ slots' = slots
      \/ \E i \in Slots : slots[i] = None /\ slots' = [slots EXCEPT ![i] = p]
  BY DEF handleNewCommand, Free
<1>4. CASE p # o
  <2>1. \A i \in Slots : slots'[i] = o <=> slots[i] = o
    BY <1>0, <1>3, <1>4
  <2> QED BY <1>0, <1>1, <1>2, <1>4, <2>1
<1>5. CASE p = o
  <2>1. ~Running(o) /\ down[o] = 1 /\ up[o] = 0 /\ Sending(o) = 0 /\ ~sendable[o]
    BY <1>0, <1>1, <1>5
  <2>2. \A i, j \in Slots : slots'[i] = o /\ slots'[j] = o => i = j
    BY <1>0, <1>3, <1>5, <2>1
  <2> QED BY <1>0, <1>1, <1>2, <1>5, <2>1, <2>2
<1> QED BY <1>4, <1>5

LEMMA OnceExecuted ==
  ASSUME TypeOK, NEW o \in Long, Once(o), NEW i \in Slots, executeStackedOrder(i)
  PROVE  Once(o)'
<1> USE KindsAssumption DEF TypeOK, Once, InFlight, Sending, Running
<1>0. /\ o \in Ids /\ down[o] \in Nat /\ up[o] \in Nat /\ sendable[o] \in BOOLEAN
      /\ o # None /\ slots[i] \in Ids
  BY DEF Ids, executeStackedOrder
<1>1. /\ UNCHANGED <<held, emit, sendable, down>>
      /\ up' = Inc(up, slots[i]) /\ slots' = [slots EXCEPT ![i] = None]
  BY DEF executeStackedOrder, emitterVars, flagVars
<1>2. \A j, k \in Slots : slots'[j] = o /\ slots'[k] = o => j = k
  BY <1>0, <1>1
<1>3. CASE slots[i] = o
  <2>1. ~Running(o)' /\ Running(o)
    BY <1>0, <1>1, <1>3
  <2>2. up'[o] = up[o] + 1
    BY <1>0, <1>1, <1>3 DEF Inc
  <2> QED BY <1>0, <1>1, <1>2, <2>1, <2>2
<1>4. CASE slots[i] # o
  <2>1. \A j \in Slots : slots'[j] = o <=> slots[j] = o
    BY <1>0, <1>1, <1>4
  <2>2. up'[o] = up[o]
    BY <1>0, <1>1, <1>4 DEF Inc
  <2> QED BY <1>0, <1>1, <1>2, <2>1, <2>2
<1> QED BY <1>3, <1>4

LEMMA OnceAnswered ==
  ASSUME TypeOK, NEW o \in Long, Once(o), NEW p \in Ids, answerReceived(p)
  PROVE  Once(o)'
<1> USE DEF TypeOK, Once, InFlight, Sending, Running
<1>0. o \in Ids /\ down[o] \in Nat /\ up[o] \in Nat /\ sendable[o] \in BOOLEAN
  BY DEF Ids
<1>1. UNCHANGED <<held, emit, down, slots>> /\ up[p] > 0
  BY DEF answerReceived, emitterVars
<1>2. CASE p = o
  <2>1. up'[o] = up[o] - 1 /\ sendable'[o]
    BY <1>0, <1>2 DEF answerReceived, Dec
  <2> QED BY <1>0, <1>1, <1>2, <2>1
<1>3. CASE p # o
  <2>1. up'[o] = up[o] /\ sendable'[o] = sendable[o]
    BY <1>0, <1>3 DEF answerReceived, Dec
  <2> QED BY <1>0, <1>1, <2>1
<1> QED BY <1>2, <1>3

LEMMA OnceElse ==
  ASSUME TypeOK, NEW o \in Long, Once(o),
         Processor \/ Main \/ (\E p \in Async : Post(p)) \/ UNCHANGED vars
  PROVE  Once(o)'
<1>1. UNCHANGED <<held, emit, sendable, down, slots, up>>
  BY DEF Processor, ProcessEnd, ProcessAnswer, Main, Call, attendStatus, TryAgain, Interrupted,
         destructor, Post, vars, emitterVars, flagVars, wireVars
<1> QED BY <1>1 DEF Once, InFlight, Sending, Running

LEMMA OnceInit == Init => OneInFlight
<1> SUFFICES ASSUME Init, NEW o \in Long PROVE Once(o)
  BY DEF OneInFlight, Once
<1>1. o \in Ids /\ o # None
  BY KindsAssumption DEF Ids
<1> QED BY <1>1 DEF Init, Once, InFlight, Sending, Running

LEMMA OnceStep == TypeOK /\ OneInFlight /\ [Next]_vars => OneInFlight'
<1> SUFFICES ASSUME TypeOK, OneInFlight, [Next]_vars, NEW o \in Long PROVE Once(o)'
  BY DEF OneInFlight, Once
<1>1. Once(o)
  BY DEF OneInFlight, Once
<1> QED
  BY <1>1, OnceEmitter, OnceCommand, OnceExecuted, OnceAnswered, OnceElse DEF Next

\* Whatever the interleaving of the threads, a long order that was sent is in one place,
\* at most one slot of the stack, until its answer is read: it is never launched twice.
THEOREM OneInFlightHolds == Spec => []OneInFlight
BY OnceInit, OnceStep, TypeCorrect, PTL DEF Spec

(***************************************************************************)
(* The stack of the low level never overflows.                             *)
(***************************************************************************)
LEMMA RoomFromOnce == TypeOK /\ OneInFlight => RoomForLong
<1> SUFFICES ASSUME TypeOK, OneInFlight, NEW o \in Long, down[o] > 0, Free = {}
             PROVE  FALSE
  BY DEF RoomForLong
<1> USE DEF TypeOK
<1>1. o \in Ids /\ down[o] \in Nat /\ up[o] \in Nat /\ StackSize \in Nat
  BY SizesAssumption DEF Ids
<1>2. ~Running(o)
  BY <1>1 DEF OneInFlight, InFlight, Sending
<1>3. slots \in [Slots -> Long \ {o}]
  BY <1>2 DEF Free, Running
<1>4. IsFiniteSet(Long \ {o}) /\ Cardinality(Long \ {o}) = Cardinality(Long) - 1
  BY StackAssumption, FS_RemoveElement
<1>5. IsFiniteSet(Slots) /\ Cardinality(Slots) = StackSize
  BY <1>1, FS_Interval DEF Slots
<1>6. Cardinality(Long) \in Nat
  BY StackAssumption, FS_CardinalityType
<1>7. PICK i, j \in Slots : i # j /\ slots[i] = slots[j]
  <2>1. Cardinality(Long \ {o}) < Cardinality(Slots)
    BY <1>1, <1>4, <1>5, <1>6, StackAssumption
  <2> QED BY <1>3, <1>4, <1>5, <2>1, FS_PigeonHole
<1>8. slots[i] \in Long
  BY <1>3
<1> QED BY <1>7, <1>8 DEF OneInFlight

\* A stack with as many slots as there are long orders in use never overflows, because
\* no order of the stack is sent again: none is dropped without an answer.
THEOREM RoomForLongHolds == Spec => []RoomForLong
BY TypeCorrect, OneInFlightHolds, RoomFromOnce, PTL

(***************************************************************************)
(* OrderLink implements OrderService.                                      *)
(***************************************************************************)
AskedBar == [o \in Long |-> Asked(o)]
LifeOf(o) == IF Running(o) THEN "running" ELSE IF up[o] > 0 THEN "answered" ELSE "idle"
LifeBar == [o \in Long |-> LifeOf(o)]

LEMMA OnePlace ==
  ASSUME TypeOK, OneInFlight, NEW o \in Long
  PROVE  /\ o \in Ids /\ o # None /\ queue[o] \in Nat /\ down[o] \in Nat /\ up[o] \in Nat
         /\ down[o] > 0 => ~Running(o) /\ up[o] = 0
         /\ up[o] > 0 => ~Running(o) /\ up[o] = 1
         /\ \A i, j \in Slots : slots[i] = o /\ slots[j] = o => i = j
<1>1. o \in Ids /\ o # None /\ queue[o] \in Nat /\ down[o] \in Nat /\ up[o] \in Nat
  BY KindsAssumption DEF Ids, TypeOK
<1>2. Once(o) /\ Sending(o) \in Nat
  BY DEF OneInFlight, Once, Sending
<1>3. Sending(o) + down[o] + (IF Running(o) THEN 1 ELSE 0) + up[o] <= 1
  BY <1>1, <1>2 DEF Once, InFlight
<1> QED BY <1>1, <1>2, <1>3 DEF Once

LEMMA KeepsBar ==
  ASSUME \A o \in Long : Asked(o)' = Asked(o) /\ LifeOf(o)' = LifeOf(o)
  PROVE  AskedBar' = AskedBar /\ LifeBar' = LifeBar
BY DEF AskedBar, LifeBar

LEMMA AsksBar ==
  ASSUME TypeOK, NEW o \in Ids, queue' = Inc(queue, o),
         UNCHANGED <<held, down, slots, up>>
  PROVE  \/ o \in Long /\ Service!Ask(o)
         \/ AskedBar' = AskedBar /\ LifeBar' = LifeBar
<1>1. \A p \in Long : LifeOf(p)' = LifeOf(p)
  BY DEF LifeOf, Running
<1>2. \A p \in Long : Asked(p)' = IF p = o THEN Asked(p) + 1 ELSE Asked(p)
  BY DEF Asked, Inc, TypeOK, Ids
<1>3. CASE o \in Long
  <2>1. AskedBar' = [AskedBar EXCEPT ![o] = @ + 1]
    BY <1>2, <1>3 DEF AskedBar
  <2> QED BY <1>1, <1>3, <2>1 DEF Service!Ask, AskedBar, LifeBar, LifeOf
<1>4. CASE o \notin Long
  BY <1>1, <1>2, <1>4, KeepsBar
<1> QED BY <1>3, <1>4

\* The emitter only moves orders along.
LEMMA EmitterAsked ==
  ASSUME TypeOK, Emitter, NEW o \in Ids
  PROVE  Asked(o)' = Asked(o)
<1> USE KindsAssumption DEF TypeOK
<1>0. o # None /\ queue[o] \in Nat /\ down[o] \in Nat
  OBVIOUS
<1>1. ASSUME NEW p \in Ids, Take(p) PROVE Asked(o)' = Asked(o)
  <2>1. held = None /\ held' = p /\ queue' = Dec(queue, p) /\ down' = down
    BY <1>1 DEF Take, wireVars
  <2> QED BY <1>0, <2>1 DEF Asked, Dec
<1>2. CASE Refuse \/ orderSent
  BY <1>2 DEF Refuse, orderSent, wireVars, Asked
<1>3. CASE PutBack
  <2>1. held \in Ids /\ down' = down
    BY <1>3 DEF PutBack, wireVars
  <2>2. CASE held' = None /\ queue' = Inc(queue, held)
    BY <1>0, <2>1, <2>2 DEF Asked, Inc
  <2>3. ASSUME NEW p \in Ids, held' = p, queue' = Inc(Dec(queue, p), held)
        PROVE  Asked(o)' = Asked(o)
    BY <1>0, <2>1, <2>3 DEF Asked, Inc, Dec
  <2> QED BY <1>3, <2>2, <2>3, HeadsAreQueued DEF PutBack
<1>4. CASE communiquer
  <2>1. held \in Ids /\ held' = None /\ queue' = queue /\ down' = Inc(down, held)
    BY <1>4 DEF communiquer
  <2> QED BY <1>0, <2>1 DEF Asked, Inc
<1> QED BY <1>1, <1>2, <1>3, <1>4 DEF Emitter

LEMMA EmitterBar ==
  ASSUME TypeOK, Emitter
  PROVE  AskedBar' = AskedBar /\ LifeBar' = LifeBar
<1>1. UNCHANGED <<slots, up>>
  BY DEF Emitter, Take, Refuse, PutBack, orderSent, communiquer, wireVars
<1>2. \A o \in Long : LifeOf(o)' = LifeOf(o)
  BY <1>1 DEF LifeOf, Running
<1>3. \A o \in Long : Asked(o)' = Asked(o)
  BY EmitterAsked DEF Ids
<1> QED BY <1>2, <1>3, KeepsBar

LEMMA CommandBar ==
  ASSUME TypeOK, OneInFlight, RoomForLong, NEW p \in Ids, handleNewCommand(p)
  PROVE  \/ p \in Long /\ Service!Launch(p)
         \/ AskedBar' = AskedBar /\ LifeBar' = LifeBar
<1> USE KindsAssumption DEF TypeOK
<1>0. /\ UNCHANGED <<queue, held>> /\ down[p] > 0 /\ down' = Dec(down, p)
      /\ \A o \in Long : o \in Ids /\ o # None /\ up'[o] = up[o]
  BY DEF handleNewCommand, emitterVars, Inc, Ids
<1>1. ASSUME NEW o \in Long
      PROVE  Asked(o)' = IF o = p THEN Asked(o) - 1 ELSE Asked(o)
  BY <1>0, <1>1 DEF Asked, Dec, Ids
<1>2. CASE p \notin Long
  <2>1. slots' = slots
    BY <1>2 DEF handleNewCommand
  <2>2. \A o \in Long : LifeOf(o)' = LifeOf(o)
    BY <1>0, <2>1 DEF LifeOf, Running
  <2> QED BY <1>1, <1>2, <2>2, KeepsBar
<1>3. CASE p \in Long
  <2>1. PICK i \in Slots : slots[i] = None /\ slots' = [slots EXCEPT ![i] = p]
    BY <1>0, <1>3 DEF handleNewCommand, RoomForLong, Free
  <2>2. ~Running(p) /\ up[p] = 0
    BY <1>0, <1>3, OnePlace
  <2>3. LifeOf(p) = "idle" /\ LifeOf(p)' = "running"
    BY <2>1, <2>2 DEF LifeOf, Running
  <2>4. \A o \in Long : o # p => LifeOf(o)' = LifeOf(o)
    <3>1. \A o \in Long : o # p => (Running(o)' <=> Running(o))
      BY <1>0, <2>1 DEF Running
    <3> QED BY <1>0, <3>1 DEF LifeOf
  <2>5. AskedBar[p] > 0 /\ AskedBar' = [AskedBar EXCEPT ![p] = @ - 1]
    <3>1. Asked(p) > 0
      BY <1>0 DEF Asked
    <3>2. AskedBar' = [AskedBar EXCEPT ![p] = @ - 1]
      BY <1>1, <1>3 DEF AskedBar
    <3> QED BY <1>3, <3>1, <3>2 DEF AskedBar
  <2>6. LifeBar[p] = "idle" /\ LifeBar' = [LifeBar EXCEPT ![p] = "running"]
    BY <1>3, <2>3, <2>4 DEF LifeBar
  <2>7. Service!Launch(p)
    BY <2>5, <2>6 DEF Service!Launch, Service!Move, AskedBar, LifeBar, LifeOf
  <2> QED BY <1>3, <2>7
<1> QED BY <1>2, <1>3

LEMMA ExecutedBar ==
  ASSUME TypeOK, OneInFlight, NEW i \in Slots, NEW p \in Long, slots[i] = p,
         executeStackedOrder(i)
  PROVE  Service!Finish(p)
<1> USE KindsAssumption DEF TypeOK
<1>0. /\ p \in Ids /\ p # None /\ UNCHANGED <<queue, held, down>>
      /\ up' = Inc(up, p) /\ slots' = [slots EXCEPT ![i] = None]
  BY DEF executeStackedOrder, emitterVars, Ids
<1>1. AskedBar' = AskedBar
  BY <1>0 DEF AskedBar, Asked
<1>2. LifeOf(p) = "running" /\ LifeOf(p)' = "answered"
  <2>0. \A j \in Slots : slots[j] = p => j = i
    BY <1>0, OnePlace
  <2>1. Running(p) /\ ~Running(p)'
    <3>1. Running(p)
      BY DEF Running
    <3>2. \A j \in Slots : slots'[j] # p
      BY <1>0, <2>0
    <3> QED BY <3>1, <3>2 DEF Running
  <2>2. up'[p] > 0
    BY <1>0 DEF Inc
  <2> QED BY <2>1, <2>2 DEF LifeOf
<1>3. \A o \in Long : o # p => LifeOf(o)' = LifeOf(o)
  <2>1. \A o \in Long : o # p => up'[o] = up[o]
    BY <1>0 DEF Inc, Ids
  <2>2. \A o \in Long : o # p => (Running(o)' <=> Running(o))
    BY <1>0 DEF Running, Ids
  <2> QED BY <2>1, <2>2 DEF LifeOf
<1>4. LifeBar[p] = "running" /\ LifeBar' = [LifeBar EXCEPT ![p] = "answered"]
  BY <1>0, <1>2, <1>3 DEF LifeBar
<1> QED
  BY <1>1, <1>4 DEF Service!Finish, Service!Move, AskedBar, LifeBar, LifeOf

LEMMA AnsweredBar ==
  ASSUME TypeOK, OneInFlight, NEW p \in Ids, answerReceived(p)
  PROVE  \/ p \in Long /\ Service!Collect(p)
         \/ AskedBar' = AskedBar /\ LifeBar' = LifeBar
<1> USE KindsAssumption DEF TypeOK
<1>0. UNCHANGED <<queue, held, down, slots>> /\ up[p] > 0 /\ up' = Dec(up, p)
  BY DEF answerReceived, emitterVars
<1>1. AskedBar' = AskedBar
  BY <1>0 DEF AskedBar, Asked
<1>2. \A o \in Long : o # p => LifeOf(o)' = LifeOf(o)
  BY <1>0 DEF LifeOf, Running, Dec, Ids
<1>3. CASE p \in Long
  <2>1. up[p] = 1 /\ ~Running(p)
    BY <1>0, <1>3, OnePlace
  <2>2. LifeOf(p) = "answered" /\ LifeOf(p)' = "idle"
    BY <1>0, <2>1 DEF LifeOf, Running, Dec
  <2>3. LifeBar[p] = "answered" /\ LifeBar' = [LifeBar EXCEPT ![p] = "idle"]
    BY <1>2, <1>3, <2>2 DEF LifeBar
  <2> QED
    BY <1>1, <1>3, <2>3 DEF Service!Collect, Service!Move, AskedBar, LifeBar, LifeOf
<1>4. CASE p \notin Long
  BY <1>1, <1>2, <1>4 DEF LifeBar
<1> QED BY <1>3, <1>4

LEMMA StepBar ==
  ASSUME TypeOK, OneInFlight, RoomForLong, [Next]_vars
  PROVE  Service!Next \/ (AskedBar' = AskedBar /\ LifeBar' = LifeBar)
<1>0. Sync \subseteq Ids /\ Async \subseteq Ids /\ Timed \subseteq Ids
  <2>1. Sync \subseteq Ids
    BY KindsAssumption DEF Ids
  <2>2. Timed \subseteq Ids
    BY KindsAssumption DEF Ids
  <2> QED BY <2>1, <2>2 DEF Async
<1>1. CASE Emitter
  BY <1>1, EmitterBar
<1>2. CASE \E o \in Ids : handleNewCommand(o)
  BY <1>2, CommandBar DEF Service!Next
<1>3. ASSUME NEW i \in Slots, executeStackedOrder(i) PROVE Service!Next
  <2>1. PICK p \in Long : slots[i] = p
    BY <1>3 DEF executeStackedOrder, TypeOK
  <2> QED BY <1>3, <2>1, ExecutedBar DEF Service!Next
<1>4. CASE \E o \in Ids : answerReceived(o)
  BY <1>4, AnsweredBar DEF Service!Next
<1>5. ASSUME NEW o \in Ids, queue' = Inc(queue, o), UNCHANGED <<held, down, slots, up>>
      PROVE  Service!Next \/ (AskedBar' = AskedBar /\ LifeBar' = LifeBar)
  BY <1>5, AsksBar DEF Service!Next
<1>6. CASE (\E o \in Sync : Call(o)) \/ TryAgain \/ \E o \in Async : Post(o)
  <2>1. \E o \in Ids : queue' = Inc(queue, o) /\ UNCHANGED <<held, down, slots, up>>
    BY <1>0, <1>6 DEF Call, TryAgain, Post, wireVars
  <2> QED BY <1>5, <2>1
<1>7. CASE Processor \/ attendStatus \/ Interrupted \/ destructor \/ UNCHANGED vars
  <2>1. UNCHANGED <<queue, held, down, slots, up>>
    BY <1>7 DEF Processor, ProcessEnd, ProcessAnswer, attendStatus, Interrupted, destructor,
                vars, emitterVars, wireVars
  <2> QED BY <2>1 DEF AskedBar, LifeBar, Asked, LifeOf, Running
<1> QED BY <1>1, <1>2, <1>3, <1>4, <1>6, <1>7 DEF Next, Main

\* The whole path of a long order, its retries in the priority queue, the flags, the
\* connection and the stack, implements the service: launched once, answered once.
THEOREM ServesOrdersHolds == Spec => ServesOrders
<1>1. Init => Service!Init
  <2> SUFFICES ASSUME Init PROVE Service!Init
    OBVIOUS
  <2>1. \A o \in Long : o \in Ids /\ o # None /\ o # main
    BY KindsAssumption DEF Init, Ids
  <2>2. \A o \in Long : Asked(o) = 0 /\ LifeOf(o) = "idle"
    BY <2>1 DEF Init, Asked, LifeOf, Running
  <2> QED BY <2>2 DEF Service!Init, LifeOf
<1>2. TypeOK /\ OneInFlight /\ RoomForLong /\ [Next]_vars
        => [Service!Next]_<<AskedBar, LifeBar>>
  BY StepBar
<1>3. <<AskedBar, LifeBar>> = <<[o \in Long |-> Asked(o)],
                                [o \in Long |-> IF Running(o) THEN "running"
                                 ELSE IF up[o] > 0 THEN "answered" ELSE "idle"]>>
  BY DEF AskedBar, LifeBar, LifeOf
<1> QED
  BY <1>1, <1>2, TypeCorrect, OneInFlightHolds, RoomForLongHolds, PTL
  DEF Spec, ServesOrders, Service!Spec, AskedBar, LifeBar, LifeOf

(***************************************************************************)
(* An answer is expected, and goes to the call it belongs to.              *)
(***************************************************************************)
\* A long order under way waits for its answer.
Waits(o) == InFlight(o) > 0 => waiting[o]

\* Before the end of the match an order the main thread calls, and does not send again,
\* is under way at most once, and only for the call that waits.
Called(o) ==
  /\ UnderWay(o) <= (IF main = o THEN 1 ELSE 0)
  /\ o \in Short /\ Sending(o) + down[o] + up[o] > 0 => waiting[o]

AnswerInv ==
  /\ TypeOK /\ OneInFlight
  /\ \A o \in Long : Waits(o)
  /\ \A o \in Silent : up[o] = 0
  /\ ~ended => ~interrupted /\ \A o \in Sync \ Timed : Called(o)

LEMMA AnswerInit == Init => AnswerInv
<1> SUFFICES ASSUME Init PROVE AnswerInv
  OBVIOUS
<1>1. TypeOK /\ OneInFlight
  BY TypeInit, OnceInit
<1>2. \A o \in Ids : /\ o # None /\ Sending(o) = 0 /\ ~Running(o) /\ down[o] = 0 /\ up[o] = 0
                     /\ inbox[o] = 0 /\ ~ticket[o] /\ held = None
                     /\ queue[o] = IF main = o THEN 1 ELSE 0
  BY KindsAssumption DEF Init, Sending, Running
<1>3. Long \subseteq Ids /\ Silent \subseteq Ids /\ Sync \subseteq Ids
  BY KindsAssumption DEF Ids
<1>4. \A o \in Long : InFlight(o) = 0
  BY <1>2, <1>3 DEF InFlight
<1>5. \A o \in Sync : UnderWay(o) = IF main = o THEN 1 ELSE 0
  BY <1>2, <1>3 DEF UnderWay, Asked
<1>6. ~interrupted
  BY DEF Init
<1> QED BY <1>1, <1>2, <1>3, <1>4, <1>5, <1>6 DEF AnswerInv, Waits, Called

\* Long orders: waiting is set when the order is sent and taken back with its only answer.
LEMMA WaitsStep ==
  ASSUME TypeOK, OneInFlight, [Next]_vars, NEW o \in Long, Waits(o)
  PROVE  Waits(o)'
<1> USE KindsAssumption DEF TypeOK, Waits, InFlight, Sending
<1>0. /\ o \in Ids /\ o # None /\ down[o] \in Nat /\ up[o] \in Nat /\ o \notin Silent
      /\ Once(o)
  BY DEF Ids, OneInFlight, Once
<1>1. CASE orderSent
  <2>1. UNCHANGED <<held, down, slots, up>> /\ emit = "take" /\ emit' = "write"
    BY <1>1 DEF orderSent, wireVars
  <2>2. held = o => waiting'[o]
    BY <1>0, <1>1 DEF orderSent
  <2>3. waiting[o] => waiting'[o]
    BY <1>0, <1>1 DEF orderSent
  <2> QED BY <1>0, <2>1, <2>2, <2>3 DEF Running
<1>2. ASSUME NEW p \in Ids, answerReceived(p) PROVE Waits(o)'
  <2>1. UNCHANGED <<held, emit, down, slots>>
    BY <1>2 DEF answerReceived, emitterVars
  <2>2. CASE p = o
    <3>1. up'[o] = up[o] - 1 /\ up[o] > 0
      BY <1>0, <1>2, <2>2 DEF answerReceived, Dec
    <3> QED BY <1>0, <2>1, <3>1 DEF Once, Running
  <2>3. CASE p # o
    BY <1>0, <1>2, <2>1, <2>3 DEF answerReceived, Dec, Running
  <2> QED BY <2>2, <2>3
<1>3. ASSUME waiting' = waiting, InFlight(o)' > 0 => InFlight(o) > 0
      PROVE  Waits(o)'
  BY <1>3
<1>4. CASE Refuse \/ PutBack \/ \E p \in Ids : Take(p)
  <2>1. waiting' = waiting /\ UNCHANGED <<down, slots, up>> /\ emit' # "write"
    BY <1>4 DEF Refuse, PutBack, Take, flagVars, wireVars
  <2> QED BY <1>0, <1>3, <2>1 DEF Running
<1>5. CASE communiquer
  <2>1. /\ UNCHANGED <<waiting, slots, up>> /\ emit = "write" /\ emit' = "take"
        /\ down' = Inc(down, held) /\ held \in Ids
    BY <1>5 DEF communiquer, flagVars
  <2>2. down'[o] = IF held = o THEN down[o] + 1 ELSE down[o]
    BY <1>0, <2>1 DEF Inc
  <2> QED BY <1>0, <1>3, <2>1, <2>2 DEF Running
<1>6. ASSUME NEW p \in Ids, handleNewCommand(p) PROVE Waits(o)'
  <2>1. /\ UNCHANGED <<held, emit, waiting>> /\ down' = Dec(down, p) /\ down[p] > 0
        /\ up'[o] = up[o]
    BY <1>0, <1>6 DEF handleNewCommand, emitterVars, flagVars, Inc
  <2>2. CASE p = o
    BY <1>0, <1>3, <2>1, <2>2 DEF Running
  <2>3. CASE p # o
    <3>1. Running(o)' = Running(o)
      BY <1>0, <1>6, <2>3 DEF handleNewCommand, Free, Running
    <3> QED BY <1>0, <1>3, <2>1, <2>3, <3>1 DEF Dec
  <2> QED BY <2>2, <2>3
<1>7. ASSUME NEW i \in Slots, executeStackedOrder(i) PROVE Waits(o)'
  <2>1. /\ UNCHANGED <<held, emit, waiting, down>> /\ slots[i] # None
        /\ up' = Inc(up, slots[i]) /\ slots' = [slots EXCEPT ![i] = None]
    BY <1>7 DEF executeStackedOrder, emitterVars, flagVars
  <2>2. CASE slots[i] = o
    BY <1>0, <1>3, <2>1, <2>2 DEF Running
  <2>3. CASE slots[i] # o
    BY <1>0, <1>3, <2>1, <2>3 DEF Running, Inc
  <2> QED BY <2>2, <2>3
<1>8. CASE Processor \/ Main \/ (\E p \in Async : Post(p)) \/ UNCHANGED vars
  <2>1. UNCHANGED <<held, emit, waiting, down, slots, up>>
    BY <1>8 DEF Processor, ProcessEnd, ProcessAnswer, Main, Call, attendStatus, TryAgain,
         Interrupted, destructor, Post, vars, emitterVars, flagVars, wireVars
  <2> QED BY <2>1 DEF Running
<1> QED BY <1>1, <1>2, <1>4, <1>5, <1>6, <1>7, <1>8 DEF Next, Emitter

\* Orders without an answer have none.
LEMMA SilentStep ==
  ASSUME TypeOK, [Next]_vars, NEW o \in Silent, up[o] = 0
  PROVE  up'[o] = 0
<1> USE KindsAssumption DEF TypeOK
<1>0. o \in Ids /\ o \notin Long /\ o \notin Short /\ o # None
  BY DEF Ids
<1>1. ASSUME NEW p \in Ids, handleNewCommand(p) PROVE up'[o] = 0
  BY <1>0, <1>1 DEF handleNewCommand, Inc
<1>2. ASSUME NEW i \in Slots, executeStackedOrder(i) PROVE up'[o] = 0
  BY <1>0, <1>2 DEF executeStackedOrder, Inc
<1>3. ASSUME NEW p \in Ids, answerReceived(p) PROVE up'[o] = 0
  BY <1>0, <1>3 DEF answerReceived, Dec
<1>4. CASE Emitter \/ Processor \/ Main \/ (\E p \in Async : Post(p)) \/ UNCHANGED vars
  <2>1. up' = up
    BY <1>4 DEF Emitter, Refuse, PutBack, Take, orderSent, communiquer, Processor, ProcessEnd,
       ProcessAnswer, Main, Call, attendStatus, TryAgain, Interrupted, destructor, Post,
       vars, wireVars
  <2> QED BY <2>1
<1> QED BY <1>1, <1>2, <1>3, <1>4 DEF Next

\* What becomes of a call, step by step: the emitter...
LEMMA CalledEmitter ==
  ASSUME TypeOK, Emitter, NEW o \in Sync, Called(o)
  PROVE  Called(o)'
<1> USE KindsAssumption DEF TypeOK
<1>0. o \in Ids /\ o # None /\ o \notin Silent /\ down[o] \in Nat /\ up[o] \in Nat
  BY DEF Ids
<1>1. UNCHANGED <<slots, up, inbox, ticket, main>>
  BY DEF Emitter, Take, Refuse, PutBack, orderSent, communiquer, wireVars, mainVars
<1>2. UnderWay(o)' = UnderWay(o)
  BY <1>0, <1>1, EmitterAsked DEF UnderWay, Running
<1>3. Sending(o)' + down'[o] + up'[o] > 0 => waiting'[o] \/ Sending(o) + down[o] + up[o] > 0
  <2>1. CASE Refuse \/ PutBack \/ \E p \in Ids : Take(p)
    <3>1. UNCHANGED <<down, up>> /\ emit' # "write"
      BY <2>1 DEF Refuse, PutBack, Take, wireVars
    <3> QED BY <1>0, <3>1 DEF Sending
  <2>2. CASE orderSent
    <3>1. UNCHANGED <<held, down, up>> /\ emit = "take"
      BY <2>2 DEF orderSent, wireVars
    <3>2. held = o => waiting'[o]
      BY <1>0, <2>2 DEF orderSent
    <3> QED BY <1>0, <3>1, <3>2 DEF Sending
  <2>3. CASE communiquer
    <3>1. /\ up' = up /\ emit = "write" /\ emit' = "take"
          /\ down' = Inc(down, held) /\ held \in Ids
      BY <2>3 DEF communiquer
    <3>2. down'[o] = IF held = o THEN down[o] + 1 ELSE down[o]
      BY <1>0, <3>1 DEF Inc
    <3> QED BY <1>0, <3>1, <3>2 DEF Sending
  <2> QED BY <2>1, <2>2, <2>3 DEF Emitter
<1>4. waiting[o] => waiting'[o]
  BY <1>0 DEF Emitter, Take, Refuse, PutBack, orderSent, communiquer, flagVars
<1> QED BY <1>1, <1>2, <1>3, <1>4 DEF Called

\* ... the low level, where a long order is in one slot...
LEMMA CalledLowLevel ==
  ASSUME TypeOK, OneInFlight, NEW o \in Sync, Called(o),
         \/ \E p \in Ids : handleNewCommand(p)
         \/ \E i \in Slots : executeStackedOrder(i)
  PROVE  Called(o)'
<1> USE KindsAssumption DEF TypeOK
<1>0. /\ o \in Ids /\ o # None /\ (o \in Short => o \notin Long)
      /\ queue[o] \in Nat /\ down[o] \in Nat /\ up[o] \in Nat /\ inbox[o] \in Nat
  BY DEF Ids
<1>1. ASSUME NEW p \in Ids, handleNewCommand(p) PROVE Called(o)'
  <2>1. /\ UNCHANGED <<queue, held, emit, waiting, inbox, ticket, main>>
        /\ down[p] > 0 /\ down' = Dec(down, p)
    BY <1>1 DEF handleNewCommand, emitterVars, flagVars, mainVars
  <2>2. CASE p # o
    <3>1. down'[o] = down[o] /\ up'[o] = up[o]
      BY <1>0, <1>1, <2>1, <2>2 DEF handleNewCommand, Dec, Inc
    <3>2. Running(o)' = Running(o)
      BY <1>0, <1>1, <2>2 DEF handleNewCommand, Free, Running
    <3> QED BY <1>0, <2>1, <3>1, <3>2 DEF Called, UnderWay, Asked, Sending
  <2>3. CASE p = o
    <3>1. down'[o] = down[o] - 1 /\ down[o] > 0
      BY <1>0, <2>1, <2>3 DEF Dec
    <3>2. CASE o \in Short
      <4>1. up'[o] = up[o] + 1 /\ slots' = slots
        BY <1>0, <1>1, <2>3, <3>2 DEF handleNewCommand, Inc
      <4>2. UnderWay(o)' = UnderWay(o) /\ waiting'[o]
        BY <1>0, <2>1, <3>1, <3>2, <4>1 DEF Called, UnderWay, Asked, Sending, Running
      <4> QED BY <2>1, <3>2, <4>2 DEF Called
    <3>3. CASE o \notin Short
      <4>1. up'[o] = up[o]
        BY <1>0, <1>1, <2>3, <3>3 DEF handleNewCommand
      <4>2. UnderWay(o)' <= UnderWay(o)
        BY <1>0, <2>1, <3>1, <4>1 DEF UnderWay, Asked
      <4>3. UnderWay(o) \in Nat /\ UnderWay(o)' \in Nat
        BY <1>0, <2>1, <3>1, <4>1 DEF UnderWay, Asked
      <4> QED BY <2>1, <3>3, <4>2, <4>3 DEF Called
    <3> QED BY <3>2, <3>3
  <2> QED BY <2>2, <2>3
<1>2. ASSUME NEW i \in Slots, executeStackedOrder(i) PROVE Called(o)'
  <2>1. /\ UNCHANGED <<queue, held, emit, waiting, down, inbox, ticket, main>>
        /\ slots[i] \in Long /\ up' = Inc(up, slots[i]) /\ slots' = [slots EXCEPT ![i] = None]
    BY <1>2 DEF executeStackedOrder, emitterVars, flagVars, mainVars
  <2>2. CASE slots[i] = o
    <3>1. o \notin Short /\ Running(o) /\ up'[o] = up[o] + 1
      BY <1>0, <2>1, <2>2 DEF Inc, Running
    <3>2. ~Running(o)'
      BY <1>0, <2>1, <2>2 DEF Running, OneInFlight
    <3> QED BY <1>0, <2>1, <3>1, <3>2 DEF Called, UnderWay, Asked
  <2>3. CASE slots[i] # o
    <3>1. up'[o] = up[o] /\ Running(o)' = Running(o)
      BY <1>0, <2>1, <2>3 DEF Inc, Running
    <3> QED BY <1>0, <2>1, <3>1 DEF Called, UnderWay, Asked, Sending
  <2> QED BY <2>2, <2>3
<1> QED BY <1>1, <1>2

\* ... and the threads that read the answer.
LEMMA CalledAnswer ==
  ASSUME TypeOK, NEW o \in Sync, Called(o), NEW p \in Ids, answerReceived(p) \/ ProcessAnswer(p)
  PROVE  Called(o)'
<1> USE KindsAssumption DEF TypeOK
<1>0. /\ o \in Ids /\ queue[o] \in Nat /\ down[o] \in Nat /\ up[o] \in Nat /\ inbox[o] \in Nat
      /\ Sending(o) \in Nat /\ Sending(o) <= (IF held = o THEN 1 ELSE 0)
  BY DEF Ids, Sending
<1>1. UNCHANGED <<queue, held, emit, down, slots, main>>
  BY DEF answerReceived, ProcessAnswer, emitterVars, wireVars, mainVars
<1>2. CASE answerReceived(p)
  <2>1. up[p] > 0 /\ up' = Dec(up, p) /\ inbox' = Inc(inbox, p) /\ ticket' = ticket
        /\ waiting' = [waiting EXCEPT ![p] = FALSE]
    BY <1>2 DEF answerReceived
  <2>2. CASE p = o
    <3>1. up'[o] = up[o] - 1 /\ inbox'[o] = inbox[o] + 1 /\ up[o] > 0
      BY <1>0, <2>1, <2>2 DEF Inc, Dec
    <3>2. UnderWay(o)' = UnderWay(o)
      BY <1>0, <1>1, <2>1, <3>1 DEF UnderWay, Asked, Running
    <3>3. Sending(o)' + down'[o] + up'[o] = 0
      BY <1>0, <1>1, <3>1 DEF Called, UnderWay, Asked, Sending
    <3> QED BY <1>1, <3>2, <3>3 DEF Called
  <2>3. CASE p # o
    <3>1. up'[o] = up[o] /\ inbox'[o] = inbox[o] /\ waiting'[o] = waiting[o]
      BY <1>0, <2>1, <2>3 DEF Inc, Dec
    <3> QED BY <1>0, <1>1, <2>1, <3>1 DEF Called, UnderWay, Asked, Running, Sending
  <2> QED BY <2>2, <2>3
<1>3. CASE ProcessAnswer(p)
  <2>1. /\ inbox[p] > 0 /\ inbox' = Dec(inbox, p) /\ ticket' = [ticket EXCEPT ![p] = TRUE]
        /\ UNCHANGED <<up, waiting>>
    BY <1>3 DEF ProcessAnswer, flagVars, wireVars
  <2>2. UnderWay(o)' <= UnderWay(o) /\ UnderWay(o) \in Nat /\ UnderWay(o)' \in Nat
    <3>1. inbox'[o] = (IF p = o THEN inbox[o] - 1 ELSE inbox[o]) /\ (p = o => inbox[o] > 0)
          /\ (p # o => ticket'[o] = ticket[o])
      BY <1>0, <2>1 DEF Dec
    <3> QED BY <1>0, <1>1, <2>1, <3>1 DEF UnderWay, Asked, Running
  <2> QED BY <1>1, <2>1, <2>2 DEF Called, Sending
<1> QED BY <1>2, <1>3

\* A new call begins only when the one before has returned with its answer.
LEMMA CalledClient ==
  ASSUME TypeOK, NEW o \in Sync \ Timed, Called(o), Main \/ \E p \in Async : Post(p), ~interrupted
  PROVE  Called(o)'
<1> USE KindsAssumption DEF TypeOK
<1>0. /\ o \in Ids /\ queue[o] \in Nat /\ down[o] \in Nat /\ up[o] \in Nat /\ inbox[o] \in Nat
      /\ o # None /\ Timed \subseteq Ids /\ Sync \subseteq Ids
  BY DEF Ids
<1>1. UNCHANGED <<held, emit, waiting, down, slots, up, inbox>>
  BY DEF Main, Call, attendStatus, TryAgain, Interrupted, destructor, Post,
     emitterVars, flagVars, wireVars
<1>2. ASSUME NEW p \in Sync, Call(p) PROVE Called(o)'
  <2>1. main = None /\ main' = p /\ queue' = Inc(queue, p) /\ ticket' = ticket
    BY <1>2 DEF Call
  <2>2. queue'[o] = IF p = o THEN queue[o] + 1 ELSE queue[o]
    BY <1>0, <2>1 DEF Inc
  <2> QED BY <1>0, <1>1, <2>1, <2>2 DEF Called, UnderWay, Asked, Running, Sending
<1>3. CASE attendStatus
  <2>1. /\ main \in Sync /\ ticket[main] /\ queue' = queue
        /\ ticket' = [ticket EXCEPT ![main] = FALSE] /\ main' = None
    BY <1>3 DEF attendStatus, emitterVars
  <2>2. ticket'[o] = (IF main = o THEN FALSE ELSE ticket[o]) /\ (main = o => ticket[o])
    BY <1>0, <2>1
  <2> QED BY <1>0, <1>1, <2>1, <2>2 DEF Called, UnderWay, Asked, Running, Sending
<1>4. ASSUME NEW p \in Ids, p # o, queue' = Inc(queue, p), UNCHANGED <<main, ticket>>
      PROVE  Called(o)'
  <2>1. queue'[o] = queue[o]
    BY <1>0, <1>4 DEF Inc
  <2> QED BY <1>0, <1>1, <1>4, <2>1 DEF Called, UnderWay, Asked, Running, Sending
<1>5. CASE TryAgain
  BY <1>0, <1>4, <1>5 DEF TryAgain, mainVars
<1>6. ASSUME NEW p \in Async, Post(p) PROVE Called(o)'
  BY <1>4, <1>6 DEF Post, Async
<1>7. CASE destructor
  <2>1. UNCHANGED <<queue, main, ticket>>
    BY <1>7 DEF destructor, emitterVars
  <2> QED BY <1>1, <2>1 DEF Called, UnderWay, Asked, Running, Sending
<1> QED BY <1>2, <1>3, <1>5, <1>6, <1>7 DEF Main, Interrupted

LEMMA AnswerStep == AnswerInv /\ [Next]_vars => AnswerInv'
<1> SUFFICES ASSUME AnswerInv, [Next]_vars PROVE AnswerInv'
  OBVIOUS
<1>1. TypeOK' /\ OneInFlight'
  BY TypeStep, OnceStep DEF AnswerInv
<1>2. (\A o \in Long : Waits(o))' /\ (\A o \in Silent : up[o] = 0)'
  BY WaitsStep, SilentStep DEF AnswerInv
<1>3. ASSUME ~ended' PROVE ~interrupted' /\ (\A o \in Sync \ Timed : Called(o))'
  <2>1. ~ProcessEnd /\ ~ended
    BY <1>3 DEF ProcessEnd, Next, Emitter, Refuse, PutBack, Take, orderSent, communiquer,
       handleNewCommand, executeStackedOrder, answerReceived, Processor, ProcessAnswer, Main,
       Call, attendStatus, TryAgain, Interrupted, destructor, Post, vars
  <2>2. ~interrupted
    BY <2>1 DEF AnswerInv
  <2>3. ~interrupted'
    BY <2>1, <2>2 DEF Next, Emitter, Refuse, PutBack, Take, orderSent, communiquer,
       handleNewCommand, executeStackedOrder, answerReceived, Processor, ProcessAnswer, Main,
       Call, attendStatus, TryAgain, Interrupted, destructor, Post, vars, mainVars
  <2>4. ASSUME NEW o \in Sync \ Timed PROVE Called(o)'
    <3>1. Called(o) /\ TypeOK /\ OneInFlight
      BY <2>1 DEF AnswerInv
    <3>2. CASE UNCHANGED vars
      BY <3>1, <3>2 DEF vars, emitterVars, flagVars, wireVars, mainVars, Called, UnderWay, Asked,
         Running, Sending
    <3> QED
      BY <2>1, <2>2, <3>1, <3>2, CalledEmitter, CalledLowLevel, CalledAnswer, CalledClient
      DEF Next, Processor
  <2> QED BY <2>3, <2>4
<1> QED BY <1>1, <1>2, <1>3 DEF AnswerInv

LEMMA AnswerGives == AnswerInv => AnswerExpected /\ FreshAnswer
<1> SUFFICES ASSUME AnswerInv PROVE AnswerExpected /\ FreshAnswer
  OBVIOUS
<1> USE KindsAssumption DEF TypeOK, AnswerInv
<1>1. \A o \in Ids : /\ queue[o] \in Nat /\ down[o] \in Nat /\ up[o] \in Nat /\ inbox[o] \in Nat
                     /\ Sending(o) \in Nat
  BY DEF Sending
<1>2. ASSUME NEW o \in Ids \ Timed, up[o] > 0, ended => o \in Long PROVE waiting[o]
  <2>1. CASE o \in Long
    BY <1>1, <1>2, <2>1 DEF Waits, InFlight
  <2>2. CASE o \in Short
    BY <1>1, <1>2, <2>2 DEF Called
  <2>3. CASE o \in Silent
    BY <1>2, <2>3
  <2> QED BY <2>1, <2>2, <2>3 DEF Ids
<1>3. ASSUME NEW o \in Sync \ Timed, ticket[o], ~ended PROVE main = o
  <2>1. o \in Ids /\ UnderWay(o) <= (IF main = o THEN 1 ELSE 0)
    BY <1>3 DEF Called, Ids
  <2> QED BY <1>1, <1>3, <2>1 DEF UnderWay, Asked
<1> QED BY <1>2, <1>3 DEF AnswerExpected, FreshAnswer

\* An answer always finds its order waiting, unless the order is sent again after a timeout
\* (CommProtocol.Id.answerReceived).
THEOREM AnswerExpectedHolds == Spec => []AnswerExpected
BY AnswerInit, AnswerStep, AnswerGives, PTL DEF Spec

\* A call never returns with the answer of an earlier one (Ticket, attendStatus).
THEOREM FreshAnswerHolds == Spec => []FreshAnswer
BY AnswerInit, AnswerStep, AnswerGives, PTL DEF Spec

=============================================================================
