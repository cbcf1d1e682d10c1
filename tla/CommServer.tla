----------------------------- MODULE CommServer -----------------------------
(***************************************************************************)
(* The communication server of the master: bytes of several sources become *)
(* commands, commands wait in a ring until OrderMgr executes them, and the *)
(* traces of the interrupt wait in two vectors that are exchanged.         *)
(*                                                                         *)
(* Sources are the sockets and, numbered last, the serial line.  The main  *)
(* loop is cut where a client, the network or the interrupt may act.  A    *)
(* frame on its way keeps the command its sender meant; the server only    *)
(* reads the bytes.                                                        *)
(***************************************************************************)
EXTENDS Integers, Sequences, FiniteSets, TLC

CONSTANTS
  MAX_SOCK_NUM, COMMAND_BUFFER_SIZE, COMMAND_MAX_DATA_SIZE, CHANNEL_MAX_NB, HEADER_BYTE,
  DEFAULT_SUSCRIPTION, \* a set of channels
  Commands,  \* what clients send: records of an id and the data
  MaxCuts,   \* bound of the model: connections cut
  MaxEvents  \* bound of the model: frames, cuts and traces of the interrupt

ASSUME SizeAssumption ==
  /\ MAX_SOCK_NUM \in Nat \ {0} /\ COMMAND_BUFFER_SIZE = MAX_SOCK_NUM + 1
  /\ COMMAND_MAX_DATA_SIZE \in 0 .. 255 /\ HEADER_BYTE \in 0 .. 255
ASSUME CommandAssumption ==
  Commands \subseteq [id : 0 .. 255, data : {d \in Seq(0 .. 255) : Len(d) <= COMMAND_MAX_DATA_SIZE}]
ASSUME ChannelAssumption ==
  /\ CHANNEL_MAX_NB \in 3 .. 256 /\ DEFAULT_SUSCRIPTION \subseteq 0 .. CHANNEL_MAX_NB - 1
ASSUME BoundAssumption == MaxCuts \in Nat /\ MaxEvents \in Nat

VARIABLES
  pc,          \* where the main loop stands
  source,      \* the source it reads next
  read,        \* receivedAtLeastOneByte
  open,        \* the sockets with a client at the other end
  wire,        \* for each source, what is left of the frames on their way
  clients,     \* the sockets in ethernetClients
  serialConnected,
  started, receptionBuffer,  \* of the reception handlers
  ring, cBufferHead, cBufferTail,
  subscriptionList,
  traceVect, bisTraceVectUsed,
  sent,        \* history: the traces sent
  frames, cuts, traces, \* history: how many frames, cuts and traces there were
  executed,    \* history: how many commands of each source were executed
  clean        \* history: the sources whose connection was never cut within a frame

loopVars == <<pc, source, read>>
clientVars == <<open, wire, frames, cuts, clean>>
serverVars == <<clients, serialConnected, subscriptionList>>
receptionVars == <<started, receptionBuffer>>
ringVars == <<ring, cBufferHead, cBufferTail>>
traceVars == <<traceVect, bisTraceVectUsed, sent, traces>>
vars == <<loopVars, clientVars, serverVars, receptionVars, ringVars, traceVars, executed>>

-----------------------------------------------------------------------------
(* Frames and the ring                                                     *)

Sockets == 0 .. MAX_SOCK_NUM - 1
Serial == MAX_SOCK_NUM
Sources == 0 .. MAX_SOCK_NUM

NoCommand == [id |-> -1, data |-> <<>>]
NoRingEntry == [source |-> -1, command |-> NoCommand]

Frame(c) == [bytes |-> <<HEADER_BYTE, c.id, Len(c.data)>> \o c.data, command |-> c]

IsSubscription(c) == c.id < CHANNEL_MAX_NB

available ==
  IF cBufferHead >= cBufferTail
  THEN cBufferHead - cBufferTail
  ELSE COMMAND_BUFFER_SIZE + cBufferHead - cBufferTail

\* Mutant of Following: the index does not go back to the beginning.
FollowingMutant(i) == i + 1

Following(i) == IF i + 1 = COMMAND_BUFFER_SIZE THEN 0 ELSE i + 1

Init ==
  /\ pc = "orders" /\ source = 0 /\ read = FALSE
  /\ open = {} /\ wire = [s \in Sources |-> <<>>]
  /\ clients = {} /\ serialConnected = FALSE
  /\ started = [s \in Sources |-> FALSE] /\ receptionBuffer = [s \in Sources |-> <<>>]
  /\ ring = [i \in 0 .. COMMAND_BUFFER_SIZE - 1 |-> NoRingEntry]
  /\ cBufferHead = 0 /\ cBufferTail = 0
  /\ subscriptionList = [s \in Sources |-> IF s = Serial THEN {2} ELSE {}]
  /\ traceVect = [bis \in BOOLEAN |-> <<>>] /\ bisTraceVectUsed = FALSE /\ sent = <<>>
  /\ frames = 0 /\ cuts = 0 /\ traces = 0
  /\ executed = [s \in Sources |-> 0] /\ clean = Sources

\* Bound of the model.
More == frames + cuts + traces < MaxEvents

-----------------------------------------------------------------------------
(* The clients                                                             *)

Connect ==
  /\ \E s \in Sockets \ (open \cup clients) : wire[s] = <<>> /\ open' = open \cup {s}
  /\ UNCHANGED <<loopVars, wire, frames, cuts, clean, serverVars, receptionVars, ringVars,
                 traceVars, executed>>

SendFrame ==
  /\ More /\ frames' = frames + 1
  /\ \E s \in open \cup {Serial}, c \in Commands : wire' = [wire EXCEPT ![s] = Append(@, Frame(c))]
  /\ UNCHANGED <<loopVars, open, cuts, clean, serverVars, receptionVars, ringVars, traceVars,
                 executed>>

\* The connection is cut after n frames and k bytes of the next one.
Close ==
  /\ More /\ cuts < MaxCuts /\ cuts' = cuts + 1
  /\ \E s \in open :
       /\ open' = open \ {s}
       /\ \/ /\ \E n \in 0 .. Len(wire[s]) : wire' = [wire EXCEPT ![s] = SubSeq(@, 1, n)]
             /\ clean' = IF wire'[s] = <<>> /\ started[s] THEN clean \ {s} ELSE clean
          \/ /\ \E n \in DOMAIN wire[s] : \E k \in 1 .. Len(wire[s][n].bytes) - 1 :
                  wire' = [wire EXCEPT ![s] =
                             Append(SubSeq(@, 1, n - 1),
                                    [bytes |-> SubSeq(@[n].bytes, 1, k), command |-> NoCommand])]
             /\ clean' = clean \ {s}
  /\ UNCHANGED <<loopVars, frames, serverVars, receptionVars, ringVars, traceVars, executed>>

-----------------------------------------------------------------------------
(* CommunicationServer::communicate()                                      *)

\* The loop begins again.  ethernetServer.available() is a socket with something to read, or none.
Accept ==
  /\ pc = "orders" /\ available = 0
  /\ LET ready == {s \in Sockets : wire[s] # <<>>} IN
     \/ /\ ready = {} /\ UNCHANGED clients
        /\ subscriptionList' = [subscriptionList EXCEPT ![Serial] =
                                  IF serialConnected THEN @ ELSE DEFAULT_SUSCRIPTION]
     \/ \E s \in ready :
          /\ clients' = clients \cup {s}
          /\ subscriptionList' = [t \in Sources |->
               IF (t = s /\ s \notin clients) \/ (t = Serial /\ ~serialConnected)
               THEN DEFAULT_SUSCRIPTION ELSE subscriptionList[t]]
  /\ serialConnected' = TRUE
  /\ pc' = "receive" /\ source' = 0 /\ read' = FALSE
  /\ UNCHANGED <<clientVars, receptionVars, ringVars, traceVars, executed>>

Readable(s) == s \in clients \cup {Serial} /\ wire[s] # <<>>

\* Mutant of AfterByte: a header byte in the data begins a new frame.
AfterByteMutant(s, b) ==
  LET bytes == Append(receptionBuffer[s], b)
      waits == [started |-> TRUE, buffer |-> bytes, command |-> NoCommand]
      idle == [started |-> FALSE, buffer |-> <<>>, command |-> NoCommand]
      tooLong == Len(bytes) >= 2 /\ bytes[2] > COMMAND_MAX_DATA_SIZE
      complete == Len(bytes) >= 2 /\ bytes[2] = Len(bytes) - 2
  IN  CASE ~started[s] \/ b = HEADER_BYTE -> [idle EXCEPT !.started = (b = HEADER_BYTE)]
        [] started[s] /\ b # HEADER_BYTE /\ tooLong -> idle
        [] started[s] /\ b # HEADER_BYTE /\ ~tooLong /\ complete ->
             [idle EXCEPT !.command = [id |-> bytes[1], data |-> SubSeq(bytes, 3, Len(bytes))]]
        [] OTHER -> waits

\* CommandReceptionHandler::addByte(): what the handler of s holds after the byte b.
AfterByte(s, b) ==
  LET bytes == Append(receptionBuffer[s], b)
      waits == [started |-> TRUE, buffer |-> bytes, command |-> NoCommand]
      idle == [started |-> FALSE, buffer |-> <<>>, command |-> NoCommand]
      tooLong == Len(bytes) >= 2 /\ bytes[2] > COMMAND_MAX_DATA_SIZE
      complete == Len(bytes) >= 2 /\ bytes[2] = Len(bytes) - 2
  IN  CASE ~started[s] -> [idle EXCEPT !.started = (b = HEADER_BYTE)]
        [] started[s] /\ tooLong -> idle
        [] started[s] /\ ~tooLong /\ complete ->
             [idle EXCEPT !.command = [id |-> bytes[1], data |-> SubSeq(bytes, 3, Len(bytes))]]
        [] OTHER -> waits

\* processOrAddCommandToBuffer(): a subscription is carried out, another command stored if
\* there is room.
Subscribe(s, c) ==
  /\ IF Len(c.data) # 1
     THEN UNCHANGED subscriptionList
     ELSE subscriptionList' = [subscriptionList EXCEPT ![s] =
            IF c.data[1] # 0 THEN @ \cup {c.id} ELSE @ \ {c.id}]
  /\ UNCHANGED ringVars

\* Mutant of HasRoom: the ring may be filled to its last slot, and then looks empty.
HasRoomMutant == available < COMMAND_BUFFER_SIZE

\* Mutant of HasRoom: the ring refuses its last free slot but one.
HasRoomOffMutant == available < COMMAND_BUFFER_SIZE - 2

HasRoom == available < COMMAND_BUFFER_SIZE - 1

Store(s, c) ==
  /\ IF HasRoom
     THEN /\ ring' = [ring EXCEPT ![cBufferHead] = [source |-> s, command |-> c]]
          /\ cBufferHead' = Following(cBufferHead)
     ELSE UNCHANGED <<ring, cBufferHead>>
  /\ UNCHANGED <<cBufferTail, subscriptionList>>

\* The byte leaves the wire, with its frame if it was the last.
Shorter(s) ==
  LET bytes == wire[s][1].bytes IN
  IF Len(bytes) = 1 THEN Tail(wire[s])
  ELSE [wire[s] EXCEPT ![1].bytes = Tail(bytes)]

ReadByte(s) ==
  LET after == AfterByte(s, wire[s][1].bytes[1]) IN
  /\ wire' = [wire EXCEPT ![s] = Shorter(s)]
  /\ started' = [started EXCEPT ![s] = after.started]
  /\ receptionBuffer' = [receptionBuffer EXCEPT ![s] = after.buffer]
  /\ CASE after.command = NoCommand -> UNCHANGED <<ringVars, subscriptionList>>
       [] after.command # NoCommand /\ IsSubscription(after.command) -> Subscribe(s, after.command)
       [] OTHER -> Store(s, after.command)

\* One byte of each source, again and again while there are some, the time is not over and the
\* ring had no command at the beginning of the pass.
NextSource ==
  IF source < Serial
  THEN source' = source + 1 /\ UNCHANGED pc
  ELSE source' = 0 /\ pc' \in (IF read' THEN {"receive", "swap"} ELSE {"swap"})

Receive ==
  /\ pc = "receive"
  /\ source = 0 => available < COMMAND_BUFFER_SIZE - MAX_SOCK_NUM
  /\ IF Readable(source)
     THEN ReadByte(source) /\ read' = TRUE
     ELSE UNCHANGED <<wire, receptionVars, ringVars, subscriptionList>>
          /\ read' = (read /\ source # 0)
  /\ NextSource
  /\ UNCHANGED <<open, frames, cuts, clean, clients, serialConnected, traceVars, executed>>

ReceptionSuspended ==
  /\ pc = "receive" /\ source = 0 /\ available >= COMMAND_BUFFER_SIZE - MAX_SOCK_NUM
  /\ pc' = "swap" /\ read' = FALSE /\ UNCHANGED source
  /\ UNCHANGED <<clientVars, serverVars, receptionVars, ringVars, traceVars, executed>>

\* The two vectors of traces are exchanged with the interrupts off...
Swap ==
  /\ pc = "swap" /\ bisTraceVectUsed' = ~bisTraceVectUsed /\ pc' = "send"
  /\ UNCHANGED <<source, read, clientVars, serverVars, receptionVars, ringVars, traceVect, sent,
                 traces, executed>>

\* Mutant of Unused: the vector that is filled is the one that is sent.
UsedMutant == bisTraceVectUsed

\* ... and the one the interrupt does not use is sent, and emptied.
Unused == ~bisTraceVectUsed

SendTraces ==
  /\ pc = "send" /\ pc' = "clear"
  /\ sent' = sent \o traceVect[Unused]
  /\ UNCHANGED <<source, read, clientVars, serverVars, receptionVars, ringVars, traceVect,
                 bisTraceVectUsed, traces, executed>>

Clear == traceVect' = [traceVect EXCEPT ![Unused] = <<>>]

\* connected() is true as long as something is left to be read.  The handler is not told.
Disconnect ==
  LET gone == {s \in clients : s \notin open /\ wire[s] = <<>>} IN
  /\ clients' = clients \ gone
  /\ subscriptionList' = [s \in Sources |-> IF s \in gone THEN {} ELSE subscriptionList[s]]

EndOfCommunicate ==
  /\ pc = "clear" /\ pc' = "orders"
  /\ Clear /\ Disconnect
  /\ UNCHANGED <<source, read, clientVars, serialConnected, receptionVars, ringVars,
                 bisTraceVectUsed, sent, traces, executed>>

\* OrderMgr::execute(): every command of the ring is executed, then the orders of the stack.
getLastCommand ==
  /\ pc = "orders" /\ available > 0
  /\ LET oldest == ring[cBufferTail] IN executed' = [executed EXCEPT ![oldest.source] = @ + 1]
  /\ ring' = [ring EXCEPT ![cBufferTail] = NoRingEntry]
  /\ cBufferTail' = Following(cBufferTail)
  /\ UNCHANGED <<loopVars, clientVars, serverVars, receptionVars, cBufferHead, traceVars>>

-----------------------------------------------------------------------------
(* The interrupt                                                           *)

asynchronous_trace ==
  /\ More /\ traces' = traces + 1
  /\ traceVect' = [traceVect EXCEPT ![bisTraceVectUsed] = Append(@, traces')]
  /\ UNCHANGED <<loopVars, clientVars, serverVars, receptionVars, ringVars, bisTraceVectUsed,
                 sent, executed>>

-----------------------------------------------------------------------------

MainLoop ==
  \/ Accept \/ Receive \/ ReceptionSuspended \/ Swap \/ SendTraces \/ EndOfCommunicate
  \/ getLastCommand

Next == MainLoop \/ Connect \/ SendFrame \/ Close \/ asynchronous_trace

Spec == Init /\ [][Next]_vars /\ WF_vars(MainLoop)

-----------------------------------------------------------------------------
(* Properties                                                              *)

\* The values of the variables.
TypeOK ==
  /\ pc \in {"orders", "receive", "swap", "send", "clear"}
  /\ source \in Sources /\ {read, serialConnected, bisTraceVectUsed} \subseteq BOOLEAN
  /\ open \subseteq Sockets /\ clients \subseteq Sockets /\ clean \subseteq Sources
  /\ cBufferHead \in DOMAIN ring /\ cBufferTail \in DOMAIN ring
  /\ {frames, cuts, traces} \subseteq 0 .. MaxEvents
  /\ \A s \in Sources :
       /\ started[s] \in BOOLEAN /\ executed[s] \in Nat
       /\ subscriptionList[s] \subseteq 0 .. CHANNEL_MAX_NB - 1
       /\ receptionBuffer[s] # <<>> => started[s]

\* As long as its connection was never cut within a frame, each frame of a source gives with
\* its last byte, and no byte before, the command its sender meant, whatever its data
\* (CommandReceptionHandler.addByte).
FramesRead ==
  \A s \in clean : wire[s] # <<>> =>
    LET frame == wire[s][1] IN
    AfterByte(s, frame.bytes[1]).command =
      IF Len(frame.bytes) = 1 THEN frame.command ELSE NoCommand

\* The ring only refuses the last source, the serial line, and then holds a command of each
\* socket (CommunicationServer.communicate, processOrAddCommandToBuffer).
RefusesLast ==
  pc = "receive" /\ source # 0 /\ ~HasRoom =>
    /\ source = Serial
    /\ \A t \in Sockets : \E i \in DOMAIN ring : ring[i].source = t

\* The commands of s in the ring, the oldest first, and those on their way.
Stored(s) ==
  LET entries == [i \in 1 .. available |-> ring[(cBufferTail + i - 1) % COMMAND_BUFFER_SIZE]]
      mine == SelectSeq(entries, LAMBDA e : e.source = s)
  IN  [i \in DOMAIN mine |-> mine[i].command]

OnTheirWay(s) ==
  LET orders == SelectSeq(wire[s], LAMBDA f : ~IsSubscription(f.command))
  IN  [i \in DOMAIN orders |-> orders[i].command]

Service == INSTANCE CommandService WITH
  Source <- Sources,
  Order <- {c \in Commands : ~IsSubscription(c)},
  pending <- [s \in Sources |-> IF s \in clean THEN Stored(s) \o OnTheirWay(s) ELSE <<>>],
  executed <- [s \in Sources |-> IF s \in clean THEN executed[s] ELSE 0]

\* The server keeps the promise of CommandService: through the byte-wise reception, the ring and
\* the reconnections the commands of a source are executed in their order, once, and each of
\* them in the end; one is only refused while every other source has one waiting
\* (CommunicationServer.communicate, OrderMgr.execute).
ServesCommands == Service!Spec

\* The traces of the interrupt are sent in their order, each of them once, wherever it
\* interrupts the exchange of the two vectors (CommunicationServer.asynchronous_trace).
TracesKept ==
  sent \o (IF pc = "clear" THEN <<>> ELSE traceVect[~bisTraceVectUsed]) \o traceVect[bisTraceVectUsed]
    = [i \in 1 .. traces |-> i]

=============================================================================
