----------------------------- MODULE OrderLink -----------------------------
(***************************************************************************)
(* The path of an order from the high level program to the low level       *)
(* master and of its answer back: OutgoingOrderBuffer, the state kept by   *)
(* CommProtocol.Id, Ticket and the three communication threads on one      *)
(* side, OrderMgr and its stack of long orders on the other.               *)
(*                                                                         *)
(* The threads of the high level program interleave at every access to     *)
(* what they share.  An order is its identifier: what it carries does not  *)
(* change its path.  The identifiers on the connection and in the buffer   *)
(* of packets are counted: the order among packets of different            *)
(* identifiers matters to nothing here.  The connection neither loses nor  *)
(* repeats anything: it is TCP, and neither medium ever opens again a      *)
(* connection that the other end has closed.                               *)
(***************************************************************************)
EXTENDS Integers, FiniteSets

CONSTANTS
  Long,      \* long orders, answered when their execution is over
  Short,     \* immediate orders with an answer
  Silent,    \* immediate orders without an answer
  Sync,      \* orders whose answer the main thread waits for
  Timed,     \* the orders it sends again after a timeout (PING)
  Chrono,    \* START_MATCH_CHRONO
  Urgency,   \* Id.priority, the lowest is served first
  StackSize, \* EXEC_STACK_SIZE
  Posts,     \* bound of the model: how often each other order is sent
  MaxTries,  \* bound of the model: tries of a timed order under way at once
  None

Ids   == Long \cup Short \cup Silent
Async == Ids \ Sync
Slots == 1 .. StackSize

ASSUME KindsAssumption ==
  /\ Long \cap Short = {} /\ Long \cap Silent = {} /\ Short \cap Silent = {}
  /\ Short \subseteq Sync /\ Sync \subseteq Long \cup Short
  /\ Timed \subseteq Short /\ Chrono \in Long \ Sync
  /\ None \notin Ids
ASSUME UrgencyAssumption == Urgency \in [Ids -> Int]
ASSUME SizesAssumption ==
  StackSize \in Nat /\ MaxTries \in Nat /\ Posts \in [Async -> Nat]

\* The stack has EXEC_STACK_SIZE = 16 slots.  The high level program has 17 long
\* orders and never sends one of them, STOP_ARM.
ASSUME StackAssumption == IsFiniteSet(Long) /\ Cardinality(Long) <= StackSize

VARIABLES
  queue,     \* OutgoingOrderBuffer.buffer, a priority queue
  held,      \* the local o of take(), then the order being written
  emit,      \* where ThreadCommEmitter stands
  waiting,   \* Id.waitingForAnswer
  sendable,  \* Id.sendIsPossible
  down,      \* orders on the connection
  slots,     \* OrderMgr::orderStack, the order of each running slot
  up,        \* answers on the connection
  inbox,     \* IncomingOrderBuffer
  ticket,    \* Id.ticket holds an answer
  main,      \* the order whose ticket the main thread waits for
  ended,     \* ThreadCommProcess got the end of the match and sleeps for ever
  interrupted, \* interrupt status of the main thread
  closed,    \* the destructor has closed the connection
  posted     \* how often each asynchronous order was sent

emitterVars == <<queue, held, emit>>
flagVars    == <<waiting, sendable>>
wireVars    == <<down, slots, up>>
mainVars    == <<main, interrupted, closed, posted>>
vars == <<emitterVars, flagVars, wireVars, inbox, ticket, ended, mainVars>>

\* The first thing the main thread does is to call the low level until it answers.
Init ==
  /\ main \in (IF Timed = {} THEN {None} ELSE Timed)
  /\ queue = [o \in Ids |-> IF o = main THEN 1 ELSE 0] /\ held = None /\ emit = "take"
  /\ waiting = [o \in Ids |-> FALSE] /\ sendable = [o \in Ids |-> TRUE]
  /\ down = [o \in Ids |-> 0] /\ up = [o \in Ids |-> 0] /\ inbox = [o \in Ids |-> 0]
  /\ slots = [i \in Slots |-> None]
  /\ ticket = [o \in Ids |-> FALSE]
  /\ ended = FALSE /\ interrupted = FALSE /\ closed = FALSE
  /\ posted = [o \in Async |-> 0]

Inc(f, o) == [f EXCEPT ![o] = @ + 1]
Dec(f, o) == [f EXCEPT ![o] = @ - 1]

-----------------------------------------------------------------------------
(* ThreadCommEmitter                                                       *)

\* PriorityBlockingQueue breaks ties as it likes.
Heads(q) == {o \in Ids : q[o] > 0 /\ \A p \in Ids : q[p] > 0 => Urgency[o] <= Urgency[p]}

\* buffer.take()
Take(o) ==
  /\ emit = "take" /\ held = None /\ o \in Heads(queue)
  /\ held' = o /\ queue' = Dec(queue, o)
  /\ UNCHANGED <<emit, flagVars, wireVars, inbox, ticket, ended, mainVars>>

\* isSendPossible() is false: the order must wait.
Refuse ==
  /\ emit = "take" /\ held # None /\ ~sendable[held]
  /\ emit' = "refused"
  /\ UNCHANGED <<queue, held, flagVars, wireVars, inbox, ticket, ended, mainVars>>

\* Mutant: the refused order is forgotten.
ForgetfulPutBackMutant ==
  /\ emit = "refused" /\ emit' = "take"
  /\ \/ \E o \in Heads(queue) : held' = o /\ queue' = Dec(queue, o)
     \/ Heads(queue) = {} /\ held' = None /\ queue' = queue
  /\ UNCHANGED <<flagVars, wireVars, inbox, ticket, ended, mainVars>>

\* poll() the next order, if any, before the refused one goes back to the queue.
PutBack ==
  /\ emit = "refused" /\ emit' = "take"
  /\ \/ \E o \in Heads(queue) : held' = o /\ queue' = Inc(Dec(queue, o), held)
     \/ Heads(queue) = {} /\ held' = None /\ queue' = Inc(queue, held)
  /\ UNCHANGED <<flagVars, wireVars, inbox, ticket, ended, mainVars>>

\* Mutant: a long order may be sent again before its answer.
ResendMutant ==
  /\ emit = "take" /\ held # None /\ sendable[held]
  /\ emit' = "write"
  /\ waiting' = IF held \in Silent THEN waiting ELSE [waiting EXCEPT ![held] = TRUE]
  /\ UNCHANGED <<queue, held, sendable, wireVars, inbox, ticket, ended, mainVars>>

\* Mutant: only immediate orders are marked as waiting.
NotWaitingMutant ==
  /\ emit = "take" /\ held # None /\ sendable[held]
  /\ emit' = "write"
  /\ waiting'  = IF held \in Short THEN [waiting EXCEPT ![held] = TRUE] ELSE waiting
  /\ sendable' = IF held \in Long THEN [sendable EXCEPT ![held] = FALSE] ELSE sendable
  /\ UNCHANGED <<queue, held, wireVars, inbox, ticket, ended, mainVars>>

\* Id.orderSent(), just before the order is written.
orderSent ==
  /\ emit = "take" /\ held # None /\ sendable[held]
  /\ emit' = "write"
  /\ waiting'  = IF held \in Silent THEN waiting ELSE [waiting EXCEPT ![held] = TRUE]
  /\ sendable' = IF held \in Long THEN [sendable EXCEPT ![held] = FALSE] ELSE sendable
  /\ UNCHANGED <<queue, held, wireVars, inbox, ticket, ended, mainVars>>

\* communiquer(): nothing is written any more once the connection is closed, what
\* the emitter still takes until it is stopped goes nowhere.
communiquer ==
  /\ emit = "write" /\ ~closed
  /\ emit' = "take" /\ held' = None /\ down' = Inc(down, held)
  /\ UNCHANGED <<queue, flagVars, slots, up, inbox, ticket, ended, mainVars>>

-----------------------------------------------------------------------------
(* The low level master: OrderMgr                                          *)

Free == {i \in Slots : slots[i] = None}
Running(o) == \E i \in Slots : slots[i] = o

\* Mutant: a long order is acknowledged when it is launched.
EarlyAnswerMutant(o) ==
  /\ down[o] > 0 /\ down' = Dec(down, o)
  /\ up' = IF o \in Silent THEN up ELSE Inc(up, o)
  /\ IF o \in Long /\ Free # {}
     THEN \E i \in Free : (\A j \in Free : i <= j) /\ slots' = [slots EXCEPT ![i] = o]
     ELSE slots' = slots
  /\ UNCHANGED <<emitterVars, flagVars, inbox, ticket, ended, mainVars>>

\* handleNewCommand(): a long order takes the first free slot, and is dropped
\* without an answer when there is none.
handleNewCommand(o) ==
  /\ down[o] > 0 /\ down' = Dec(down, o)
  /\ up' = IF o \in Short THEN Inc(up, o) ELSE up
  /\ IF o \in Long /\ Free # {}
     THEN \E i \in Free : (\A j \in Free : i <= j) /\ slots' = [slots EXCEPT ![i] = o]
     ELSE slots' = slots
  /\ UNCHANGED <<emitterVars, flagVars, inbox, ticket, ended, mainVars>>

\* Mutant: deleteOrder() is forgotten.
KeptSlotMutant(i) ==
  /\ slots[i] # None
  /\ up' = Inc(up, slots[i]) /\ slots' = slots
  /\ UNCHANGED <<emitterVars, flagVars, down, inbox, ticket, ended, mainVars>>

\* executeStackedOrders(): the order of slot i is finished, is answered and freed.
executeStackedOrder(i) ==
  /\ slots[i] # None
  /\ up' = Inc(up, slots[i]) /\ slots' = [slots EXCEPT ![i] = None]
  /\ UNCHANGED <<emitterVars, flagVars, down, inbox, ticket, ended, mainVars>>

-----------------------------------------------------------------------------
(* ThreadCommListener and ThreadCommProcess                                *)

\* Mutant: sendIsPossible stays false.
OnceOnlyMutant(o) ==
  /\ ~closed /\ up[o] > 0 /\ up' = Dec(up, o)
  /\ waiting' = [waiting EXCEPT ![o] = FALSE]
  /\ inbox' = Inc(inbox, o)
  /\ UNCHANGED <<emitterVars, sendable, down, slots, ticket, ended, mainVars>>

\* readPaquet(): answerReceived(), then the packet goes to IncomingOrderBuffer.
answerReceived(o) ==
  /\ ~closed /\ up[o] > 0 /\ up' = Dec(up, o)
  /\ waiting' = [waiting EXCEPT ![o] = FALSE]
  /\ sendable' = [sendable EXCEPT ![o] = TRUE]
  /\ inbox' = Inc(inbox, o)
  /\ UNCHANGED <<emitterVars, down, slots, ticket, ended, mainVars>>

\* ticket.set(): offer() drops the answer when the ticket already holds one.
ProcessAnswer(o) ==
  /\ ~ended /\ o # Chrono /\ inbox[o] > 0 /\ inbox' = Dec(inbox, o)
  /\ ticket' = [ticket EXCEPT ![o] = TRUE]
  /\ UNCHANGED <<emitterVars, flagVars, wireVars, ended, mainVars>>

\* The end of the match: the main thread is interrupted, this one sleeps for ever.
ProcessEnd ==
  /\ ~ended /\ inbox[Chrono] > 0 /\ inbox' = Dec(inbox, Chrono)
  /\ ended' = TRUE /\ interrupted' = TRUE
  /\ UNCHANGED <<emitterVars, flagVars, wireVars, ticket, main, closed, posted>>

-----------------------------------------------------------------------------
(* The main thread, and the others that send orders without waiting        *)

\* An order followed by attendStatus() on its ticket.
Call(o) ==
  /\ main = None /\ ~closed /\ o \in Sync \ Timed
  /\ main' = o /\ queue' = Inc(queue, o)
  /\ UNCHANGED <<held, emit, flagVars, wireVars, inbox, ticket, ended, interrupted, closed, posted>>

attendStatus ==
  /\ main # None /\ ticket[main] /\ ~interrupted
  /\ ticket' = [ticket EXCEPT ![main] = FALSE] /\ main' = None
  /\ UNCHANGED <<emitterVars, flagVars, wireVars, inbox, ended, interrupted, closed, posted>>

\* Orders of o under way, from the priority queue to the ticket.
Sending(o) == IF emit = "write" /\ held = o THEN 1 ELSE 0
Asked(o) == queue[o] + (IF held = o THEN 1 ELSE 0) + down[o]
UnderWay(o) ==
  Asked(o) + (IF Running(o) THEN 1 ELSE 0) + up[o] + inbox[o] + (IF ticket[o] THEN 1 ELSE 0)

\* attendStatus(500) returns null and the loop of initialize() sends another PING.
TryAgain ==
  /\ main \in Timed /\ ~ticket[main] /\ UnderWay(main) < MaxTries
  /\ queue' = Inc(queue, main)
  /\ UNCHANGED <<held, emit, flagVars, wireVars, inbox, ticket, ended, mainVars>>

\* InterruptedException is thrown out of the call; finally clauses may call again.
Interrupted ==
  /\ interrupted /\ interrupted' = FALSE /\ main' = None
  /\ UNCHANGED <<emitterVars, flagVars, wireVars, inbox, ticket, ended, closed, posted>>

\* Senpai.destructor()
destructor ==
  /\ ended /\ ~interrupted /\ main = None /\ ~closed
  /\ closed' = TRUE
  /\ UNCHANGED <<emitterVars, flagVars, wireVars, inbox, ticket, ended, main, interrupted, posted>>

\* The other threads have nothing to send before the low level has answered.
Post(o) ==
  /\ ~closed /\ main \notin Timed /\ posted[o] < Posts[o]
  /\ posted' = Inc(posted, o) /\ queue' = Inc(queue, o)
  /\ UNCHANGED <<held, emit, flagVars, wireVars, inbox, ticket, ended, main, interrupted, closed>>

-----------------------------------------------------------------------------
Emitter   == Refuse \/ PutBack \/ orderSent \/ communiquer \/ \E o \in Ids : Take(o)
Processor == ProcessEnd \/ \E o \in Ids : ProcessAnswer(o)
Main == attendStatus \/ TryAgain \/ Interrupted \/ destructor \/ \E o \in Sync : Call(o)

Next ==
  \/ Emitter \/ Processor \/ Main
  \/ \E o \in Ids : handleNewCommand(o) \/ answerReceived(o)
  \/ \E i \in Slots : executeStackedOrder(i)
  \/ \E o \in Async : Post(o)

Spec == Init /\ [][Next]_vars

\* The threads run, the connection delivers, and every long order terminates: a
\* travel ends (MotionControl), the arm answers or times out, the match lasts 100 s.
\* Emptying the queue takes microseconds and an answer milliseconds, so that an order
\* that is again and again at the head of the queue is taken (strong fairness).
Fairness ==
  /\ WF_vars(Emitter) /\ WF_vars(ProcessEnd) /\ \A o \in Ids : SF_vars(Take(o))
  /\ \A o \in Ids :
       WF_vars(handleNewCommand(o)) /\ WF_vars(answerReceived(o)) /\ WF_vars(ProcessAnswer(o))
  /\ \A i \in Slots : WF_vars(executeStackedOrder(i))
  /\ WF_vars(attendStatus) /\ WF_vars(Interrupted) /\ WF_vars(destructor)

FairSpec == Spec /\ Fairness

-----------------------------------------------------------------------------
TypeOK ==
  /\ queue \in [Ids -> Nat] /\ held \in Ids \cup {None}
  /\ emit \in {"take", "refused", "write"} /\ (emit # "take" => held # None)
  /\ waiting \in [Ids -> BOOLEAN] /\ sendable \in [Ids -> BOOLEAN]
  /\ down \in [Ids -> Nat] /\ up \in [Ids -> Nat] /\ inbox \in [Ids -> Nat]
  /\ slots \in [Slots -> Long \cup {None}]
  /\ ticket \in [Ids -> BOOLEAN]
  /\ main \in Sync \cup {None}
  /\ ended \in BOOLEAN /\ interrupted \in BOOLEAN /\ closed \in BOOLEAN
  /\ posted \in [Async -> Nat]

(***************************************************************************)
(* Properties.                                                             *)
(***************************************************************************)

\* From orderSent() to answerReceived() a long order exists once: on the connection,
\* in the stack of the low level or as an answer, and never while it may be sent.
\* So an order of the stack, a singleton with one state, is never launched twice.
InFlight(o) == Sending(o) + down[o] + (IF Running(o) THEN 1 ELSE 0) + up[o]
OneInFlight ==
  \A o \in Long :
    /\ InFlight(o) <= (IF sendable[o] THEN 0 ELSE 1)
    /\ \A i, j \in Slots : slots[i] = o /\ slots[j] = o => i = j

\* The assertion of answerReceived(): an answer is only received for an order that waits
\* for one, unless the order is sent again after a timeout.  Once the match has ended, an
\* interrupted call may be made again; a long order is even then not sent twice.
AnswerExpected ==
  \A o \in Ids \ Timed : up[o] > 0 /\ (ended => o \in Long) => waiting[o]

\* The same assertion for an order that is sent again after a timeout.
RetryExpected == \A o \in Timed : up[o] > 0 => waiting[o]

\* Until the match ends, a ticket only ever holds the answer of the call that waits: no
\* call returns at once with the answer of an earlier one, unless that one was tried again.
FreshAnswer == \A o \in Sync \ Timed : ticket[o] /\ ~ended => main = o

\* Every long order finds a free slot, so that none is dropped unanswered.
RoomForLong == \A o \in Long : down[o] > 0 => Free # {}

\* A call made before the end of the match returns, by its answer or interrupted.
CallReturns == \A o \in Sync : (main = o /\ ~ended) ~> (main # o)

\* Every order queued is sent in the end, refused and put back as it may be.
Emitted == \A o \in Ids : []<>(queue[o] = 0 \/ closed)

\* The end of the match stops the program: the main thread gets to the destructor.
MatchStops == ended ~> closed

\* The long orders are served as OrderService says.
Service == INSTANCE OrderService WITH
  asked <- [o \in Long |-> Asked(o)],
  life  <- [o \in Long |-> IF Running(o) THEN "running"
                           ELSE IF up[o] > 0 THEN "answered" ELSE "idle"]
ServesOrders == Service!Spec

=============================================================================
