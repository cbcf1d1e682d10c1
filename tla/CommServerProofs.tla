-------------------------- MODULE CommServerProofs --------------------------
(***************************************************************************)
(* Proofs about CommServer for any number of sockets, clients and          *)
(* commands: the traces of the interrupt, the types, the bytes that become *)
(* commands and the room there is for them.                                *)
(***************************************************************************)
EXTENDS CommServer, SequenceTheorems, TLAPS

-----------------------------------------------------------------------------
(* The exchange of the two vectors of traces                               *)

\* What TracesKept says the three sequences of traces make together.
FirstTraces(n) == [i \in 1 .. n |-> i]

\* The vector the interrupt does not fill is empty until the exchange.
TraceInv ==
  /\ traces \in Nat /\ sent \in Seq(Nat)
  /\ bisTraceVectUsed \in BOOLEAN /\ traceVect \in [BOOLEAN -> Seq(Nat)]
  /\ pc \in {"orders", "receive", "swap"} => traceVect[~bisTraceVectUsed] = <<>>
  /\ TracesKept

\* One more trace.
LEMMA OneMore ==
  ASSUME NEW n \in Nat
  PROVE  Append(FirstTraces(n), n + 1) = FirstTraces(n + 1)
<1>1. FirstTraces(n) \in Seq(Nat) /\ Len(FirstTraces(n)) = n
  BY DEF FirstTraces
<1>2. /\ Append(FirstTraces(n), n + 1) \in Seq(Nat)
      /\ Len(Append(FirstTraces(n), n + 1)) = n + 1
      /\ \A i \in 1 .. n + 1 : Append(FirstTraces(n), n + 1)[i] = i
  BY <1>1 DEF FirstTraces
<1>3. /\ FirstTraces(n + 1) \in Seq(Nat)
      /\ Len(FirstTraces(n + 1)) = n + 1
      /\ \A i \in 1 .. n + 1 : FirstTraces(n + 1)[i] = i
  BY DEF FirstTraces
<1> QED
  BY <1>2, <1>3, SeqEqual

\* A trace at the end of the last sequence is at the end of them all.
LEMMA AppendLast ==
  ASSUME NEW s \in Seq(Nat), NEW t \in Seq(Nat), NEW e \in Nat
  PROVE  s \o Append(t, e) = Append(s \o t, e)
<1>1. /\ s \o Append(t, e) \in Seq(Nat)
      /\ Append(s \o t, e) \in Seq(Nat)
      /\ Len(s \o Append(t, e)) = Len(Append(s \o t, e))
  OBVIOUS
<1>2. \A i \in 1 .. Len(s \o Append(t, e)) : (s \o Append(t, e))[i] = Append(s \o t, e)[i]
  OBVIOUS
<1> QED
  BY <1>1, <1>2, SeqEqual

\* The invariant holds at the beginning.
LEMMA TraceInit == Init => TraceInv
<1> SUFFICES ASSUME Init PROVE TraceInv
  OBVIOUS
<1>1. FirstTraces(0) = <<>>
  <2>1. FirstTraces(0) \in Seq(Nat) /\ Len(FirstTraces(0)) = 0
    BY DEF FirstTraces
  <2> QED
    BY <2>1
<1>2. TracesKept
  <2>1. /\ sent = <<>> /\ pc = "orders" /\ traces = 0
        /\ traceVect[bisTraceVectUsed] = <<>> /\ traceVect[~bisTraceVectUsed] = <<>>
    BY DEF Init
  <2>2. <<>> \o <<>> \o <<>> = <<>>
    OBVIOUS
  <2> QED
    <3>1. TracesKept <=> <<>> \o <<>> \o <<>> = FirstTraces(0)
      BY <2>1, Zenon DEF TracesKept, FirstTraces
    <3> QED
      BY <1>1, <2>2, <3>1
<1>3. /\ traces \in Nat /\ sent \in Seq(Nat) /\ bisTraceVectUsed \in BOOLEAN
      /\ traceVect \in [BOOLEAN -> Seq(Nat)] /\ traceVect[~bisTraceVectUsed] = <<>>
  <2>1. <<>> \in Seq(Nat)
    OBVIOUS
  <2>2. traces = 0 /\ sent = <<>> /\ bisTraceVectUsed = FALSE /\ traceVect = [bis \in BOOLEAN |-> <<>>]
    BY DEF Init
  <2>3. traceVect \in [BOOLEAN -> Seq(Nat)]
    BY <2>1, <2>2
  <2>4. traceVect[~bisTraceVectUsed] = <<>>
    BY <2>2
  <2> QED
    BY <2>1, <2>2, <2>3, <2>4
<1> QED
  BY <1>2, <1>3 DEF TraceInv

\* And after every step: only four of them touch the traces.
LEMMA TraceStep == TraceInv /\ [Next]_vars => TraceInv'
<1> SUFFICES ASSUME TraceInv, [Next]_vars PROVE TraceInv'
  OBVIOUS
<1> USE DEF TraceInv
<1> DEFINE used == traceVect[bisTraceVectUsed]
           other == traceVect[~bisTraceVectUsed]
<1>0. used \in Seq(Nat) /\ other \in Seq(Nat) /\ (~bisTraceVectUsed) \in BOOLEAN
  OBVIOUS
<1>1. CASE UNCHANGED traceVars /\ (pc' \in {"orders", "receive", "swap"} => pc \in {"orders", "receive", "swap"})
           /\ (pc' = "clear" <=> pc = "clear")
  BY <1>1 DEF traceVars, TracesKept
<1>2. CASE Accept
  BY <1>1, <1>2 DEF Accept
<1>3. CASE Receive
  BY <1>1, <1>3 DEF Receive, NextSource
<1>4. CASE ReceptionSuspended
  BY <1>1, <1>4 DEF ReceptionSuspended
<1>5. CASE getLastCommand
  BY <1>1, <1>5 DEF getLastCommand, loopVars
<1>6. CASE Connect
  BY <1>1, <1>6 DEF Connect, loopVars
<1>7. CASE SendFrame
  BY <1>1, <1>7 DEF SendFrame, loopVars
<1>8. CASE Close
  BY <1>1, <1>8 DEF Close, loopVars
<1>9. CASE UNCHANGED vars
  BY <1>1, <1>9 DEF vars, loopVars
<1>10. CASE Swap
  <2>1. /\ UNCHANGED <<traceVect, sent, traces>> /\ bisTraceVectUsed' = ~bisTraceVectUsed
        /\ pc = "swap" /\ pc' = "send" /\ other = <<>>
    BY <1>10 DEF Swap
  <2>2. sent \o other \o used = FirstTraces(traces)
    BY <2>1 DEF TracesKept, FirstTraces
  <2>3. sent \o used \o other = sent \o other \o used
    <3>1. sent \o other = sent /\ (sent \o used) \o other = sent \o used
      BY <1>0, <2>1, ConcatEmptySeq, ConcatProperties
    <3> QED
      BY <3>1
  <2>4. TracesKept'
    <3>1. traceVect'[~bisTraceVectUsed'] = used /\ traceVect'[bisTraceVectUsed'] = other
      BY <2>1
    <3> QED
      BY <2>1, <2>2, <2>3, <3>1 DEF TracesKept, FirstTraces
  <2> QED
    BY <2>1, <2>4
<1>11. CASE SendTraces
  <2>1. /\ UNCHANGED <<traceVect, bisTraceVectUsed, traces>> /\ sent' = sent \o other
        /\ pc = "send" /\ pc' = "clear"
    BY <1>11 DEF SendTraces, Unused
  <2>2. sent' \in Seq(Nat)
    BY <1>0, <2>1, ConcatProperties
  <2>3. (sent \o other) \o <<>> = sent \o other
    BY <1>0, ConcatEmptySeq, ConcatProperties
  <2>4. TracesKept'
    BY <2>1, <2>3 DEF TracesKept
  <2> QED
    BY <2>1, <2>2, <2>4
<1>12. CASE EndOfCommunicate
  <2>1. /\ UNCHANGED <<bisTraceVectUsed, sent, traces>> /\ pc = "clear" /\ pc' = "orders"
        /\ traceVect' = [traceVect EXCEPT ![~bisTraceVectUsed] = <<>>]
    BY <1>12 DEF EndOfCommunicate, Clear, Unused
  <2>2. traceVect'[~bisTraceVectUsed] = <<>> /\ traceVect'[bisTraceVectUsed] = used
    BY <2>1
  <2>3. traceVect' \in [BOOLEAN -> Seq(Nat)]
    BY <2>1
  <2>4. TracesKept'
    BY <2>1, <2>2 DEF TracesKept
  <2> QED
    BY <2>1, <2>2, <2>3, <2>4
<1>13. CASE asynchronous_trace
  <2>1. /\ UNCHANGED <<pc, bisTraceVectUsed, sent>> /\ traces' = traces + 1
        /\ traceVect' = [traceVect EXCEPT ![bisTraceVectUsed] = Append(@, traces')]
    BY <1>13 DEF asynchronous_trace, loopVars
  <2>2. /\ traceVect'[~bisTraceVectUsed] = other
        /\ traceVect'[bisTraceVectUsed] = Append(used, traces + 1)
    BY <2>1
  <2>3. traceVect' \in [BOOLEAN -> Seq(Nat)] /\ traces' \in Nat
    BY <1>0, <2>1
  <2> DEFINE waiting == IF pc = "clear" THEN <<>> ELSE other
  <2>4. waiting \in Seq(Nat)
    <3>1. CASE pc = "clear"
      BY <3>1
    <3>2. CASE pc # "clear"
      BY <1>0, <3>2
    <3> QED
      BY <3>1, <3>2
  <2> HIDE DEF waiting
  <2>5. sent \o waiting \in Seq(Nat)
    BY <2>4, ConcatProperties
  <2> HIDE DEF used
  <2>6. (sent \o waiting) \o Append(used, traces + 1) = Append(sent \o waiting \o used, traces + 1)
    <3>1. traces + 1 \in Nat
      OBVIOUS
    <3> QED
      BY <1>0, <2>5, <3>1, AppendLast
  <2>7. sent \o waiting \o used = FirstTraces(traces)
    BY DEF waiting, used, TracesKept, FirstTraces
  <2>8. (sent \o waiting) \o Append(used, traces + 1) = FirstTraces(traces + 1)
    BY <2>6, <2>7, OneMore
  <2>9. TracesKept'
    BY <2>1, <2>2, <2>8 DEF waiting, used, TracesKept, FirstTraces
  <2> QED
    BY <2>1, <2>2, <2>3, <2>9
<1> QED
  BY <1>2, <1>3, <1>4, <1>5, <1>6, <1>7, <1>8, <1>9, <1>10, <1>11, <1>12, <1>13
  DEF Next, MainLoop

\* The traces of the interrupt are sent in their order, each of them once
\* (CommunicationServer.asynchronous_trace), for any number of them.
THEOREM TracesKeptHolds == Spec => []TracesKept
<1>1. TraceInv => TracesKept
  BY DEF TraceInv
<1> QED
  BY <1>1, TraceInit, TraceStep, PTL DEF Spec

-----------------------------------------------------------------------------
(* From the bytes of a source to its commands                              *)

Byte == 0 .. 255
Received == [id : Byte, data : Seq(Byte)]
WireFrames == {f \in [bytes : Seq(Byte), command : Commands \cup {NoCommand}] : f.bytes # <<>>}

Bytes(c) == Frame(c).bytes

\* What is left of a frame once its first k bytes were read.
Left(bytes, k, full) ==
  /\ Len(bytes) + k = Len(full)
  /\ \A i \in 1 .. Len(bytes) : bytes[i] = full[i + k]

\* The reception handler of s is in the middle of the first frame on the way, or between two.
InFrame(s) ==
  LET frame == wire[s][1]
      full == Bytes(frame.command)
  IN  IF started[s]
      THEN /\ Left(frame.bytes, Len(receptionBuffer[s]) + 1, full)
           /\ \A i \in 1 .. Len(receptionBuffer[s]) : receptionBuffer[s][i] = full[i + 1]
      ELSE Left(frame.bytes, 0, full)

InStep(s) ==
  /\ \A i \in DOMAIN wire[s] :
       /\ wire[s][i].command \in Commands
       /\ i > 1 => Left(wire[s][i].bytes, 0, Bytes(wire[s][i].command))
  /\ started[s] => wire[s] # <<>>
  /\ wire[s] # <<>> => InFrame(s)

\* The commands of this pass of the loop are in the ring, those of the first sources first.
Slot(i) ==
  IF cBufferTail + i >= COMMAND_BUFFER_SIZE
  THEN cBufferTail + i - COMMAND_BUFFER_SIZE ELSE cBufferTail + i

RingTypes ==
  /\ ring = [i \in 0 .. COMMAND_BUFFER_SIZE - 1 |-> ring[i]]
  /\ cBufferHead \in 0 .. COMMAND_BUFFER_SIZE - 1 /\ cBufferTail \in 0 .. COMMAND_BUFFER_SIZE - 1

PassInv ==
  pc = "receive" /\ source # 0 =>
    /\ available <= source
    /\ available = source => \A t \in 0 .. source - 1 : ring[Slot(t)].source = t

ServerTypes ==
  /\ pc \in {"orders", "receive", "swap", "send", "clear"} /\ source \in Sources
  /\ read \in BOOLEAN /\ serialConnected \in BOOLEAN /\ bisTraceVectUsed \in BOOLEAN
  /\ open \subseteq Sockets /\ clients \subseteq Sockets /\ clean \subseteq Sources
  /\ frames \in 0 .. MaxEvents /\ cuts \in 0 .. MaxEvents /\ traces \in 0 .. MaxEvents
  /\ wire \in [Sources -> Seq(WireFrames)]
  /\ started \in [Sources -> BOOLEAN] /\ receptionBuffer \in [Sources -> Seq(Byte)]
  /\ \A s \in Sources : receptionBuffer[s] # <<>> => started[s]
  /\ executed \in [Sources -> Nat]
  /\ subscriptionList \in [Sources -> SUBSET (0 .. CHANNEL_MAX_NB - 1)]

ServerInv == ServerTypes /\ RingTypes /\ PassInv /\ \A s \in clean : InStep(s)

LEMMA ByteFacts == \A x : x \in Byte <=> x \in Nat /\ x <= 255
BY DEF Byte

LEMMA Constants ==
  /\ MAX_SOCK_NUM \in Nat \ {0} /\ COMMAND_BUFFER_SIZE = MAX_SOCK_NUM + 1
  /\ COMMAND_MAX_DATA_SIZE \in Byte /\ HEADER_BYTE \in Byte
  /\ Serial \in Sources /\ Sockets \subseteq Sources /\ Serial \notin Sockets
  /\ \A c \in Commands : /\ c \in Received /\ c # NoCommand
                         /\ Len(c.data) <= COMMAND_MAX_DATA_SIZE
<1>1. COMMAND_BUFFER_SIZE = MAX_SOCK_NUM + 1
  BY SizeAssumption
<1>2. \A c \in Commands : /\ c \in Received /\ c # NoCommand
                          /\ Len(c.data) <= COMMAND_MAX_DATA_SIZE
  <2> SUFFICES ASSUME NEW c \in Commands
               PROVE  c \in Received /\ c # NoCommand /\ Len(c.data) <= COMMAND_MAX_DATA_SIZE
    OBVIOUS
  <2>1. c \in [id : 0 .. 255, data : {d \in Seq(0 .. 255) : Len(d) <= COMMAND_MAX_DATA_SIZE}]
    BY CommandAssumption
  <2>2. c.id \in 0 .. 255 /\ c.data \in {d \in Seq(0 .. 255) : Len(d) <= COMMAND_MAX_DATA_SIZE}
    BY <2>1
  <2>3. c.data \in Seq(0 .. 255) /\ Len(c.data) <= COMMAND_MAX_DATA_SIZE
    BY <2>2
  <2>4. c = [id |-> c.id, data |-> c.data]
    BY <2>1
  <2>5. c.id # -1
    <3>1. c.id \in 0 .. 255
      BY <2>1
    <3> QED BY <3>1
  <2>6. NoCommand.id = -1
    BY DEF NoCommand
  <2>7. c \in [id : 0 .. 255, data : Seq(0 .. 255)]
    BY <2>2, <2>3, <2>4
  <2> QED BY <2>3, <2>5, <2>6, <2>7 DEF Received, Byte
<1> QED BY <1>1, <1>2, SizeAssumption DEF Serial, Sources, Sockets, Byte

LEMMA FrameBytes ==
  ASSUME NEW c \in Commands
  PROVE  /\ Bytes(c) \in Seq(Byte) /\ c.data \in Seq(Byte) /\ Len(c.data) \in Nat
         /\ Len(Bytes(c)) = Len(c.data) + 3
         /\ Bytes(c)[1] = HEADER_BYTE /\ Bytes(c)[2] = c.id /\ Bytes(c)[3] = Len(c.data)
         /\ \A i \in 1 .. Len(c.data) : Bytes(c)[i + 3] = c.data[i]
<1>1. c.data \in Seq(Byte) /\ c.id \in Byte /\ Len(c.data) \in Byte /\ HEADER_BYTE \in Byte
  <2>1. c \in [id : 0 .. 255, data : Seq(0 .. 255)] /\ Len(c.data) <= COMMAND_MAX_DATA_SIZE
    BY Constants DEF Received, Byte
  <2>2. c.data \in Seq(0 .. 255) /\ c.id \in 0 .. 255 /\ Len(c.data) \in Nat
    BY <2>1
  <2>3. HEADER_BYTE \in Byte /\ COMMAND_MAX_DATA_SIZE \in Nat /\ COMMAND_MAX_DATA_SIZE <= 255
    BY Constants, ByteFacts
  <2>4. Len(c.data) \in Byte
    <3>1. Len(c.data) <= COMMAND_MAX_DATA_SIZE
      BY <2>1
    <3>2. Len(c.data) \in Nat
      BY <2>2
    <3>3. Len(c.data) <= 255
      BY <2>3, <3>1, <3>2
    <3> QED BY <3>2, <3>3, ByteFacts
  <2> QED BY <2>2, <2>3, <2>4 DEF Byte
<1> DEFINE h == <<HEADER_BYTE, c.id, Len(c.data)>>
<1>2. /\ h \in Seq(Byte) /\ Len(h) = 3
      /\ h[1] = HEADER_BYTE /\ h[2] = c.id /\ h[3] = Len(c.data)
  BY <1>1
<1>3. Bytes(c) = h \o c.data
  BY DEF Bytes, Frame
<1> HIDE DEF h
<1>4. /\ h \o c.data \in Seq(Byte) /\ Len(h \o c.data) = 3 + Len(c.data)
      /\ \A i \in 1 .. 3 + Len(c.data) :
           (h \o c.data)[i] = IF i <= 3 THEN h[i] ELSE c.data[i - 3]
  <2>1. /\ h \o c.data \in Seq(Byte) /\ Len(h \o c.data) = Len(h) + Len(c.data)
        /\ \A i \in 1 .. Len(h) + Len(c.data) :
             (h \o c.data)[i] = IF i <= Len(h) THEN h[i] ELSE c.data[i - Len(h)]
    BY <1>1, <1>2, ConcatProperties
  <2> QED BY <1>2, <2>1
<1>5. Len(c.data) \in Nat
  BY <1>1
<1> QED BY <1>1, <1>2, <1>3, <1>4, <1>5

\* addByte(), line by line: the bytes of the frame so far, and what the handler holds after b.
ByteAdded(s, b, bytes, after) ==
  /\ bytes \in Seq(Byte) /\ Len(bytes) = Len(receptionBuffer[s]) + 1
  /\ ~started[s] => /\ after.started = (b = HEADER_BYTE) /\ after.buffer = <<>>
                    /\ after.command = NoCommand
  /\ started[s] /\ Len(bytes) < 2 =>
       after.started = TRUE /\ after.buffer = bytes /\ after.command = NoCommand
  /\ started[s] /\ Len(bytes) >= 2 /\ bytes[2] > COMMAND_MAX_DATA_SIZE =>
       after.started = FALSE /\ after.buffer = <<>> /\ after.command = NoCommand
  /\ started[s] /\ Len(bytes) >= 2 /\ bytes[2] <= COMMAND_MAX_DATA_SIZE =>
       /\ bytes[2] = Len(bytes) - 2 =>
            /\ after.started = FALSE /\ after.buffer = <<>>
            /\ after.command = [id |-> bytes[1], data |-> SubSeq(bytes, 3, Len(bytes))]
       /\ bytes[2] # Len(bytes) - 2 =>
            after.started = TRUE /\ after.buffer = bytes /\ after.command = NoCommand

LEMMA AfterByteCases ==
  ASSUME NEW s \in Sources, NEW b \in Byte,
         started[s] \in BOOLEAN, receptionBuffer[s] \in Seq(Byte)
  PROVE  ByteAdded(s, b, Append(receptionBuffer[s], b), AfterByte(s, b))
<1> SUFFICES ASSUME NEW bytes, bytes = Append(receptionBuffer[s], b),
                    NEW after, after = AfterByte(s, b)
             PROVE  ByteAdded(s, b, bytes, after)
  OBVIOUS
<1>1. bytes \in Seq(Byte) /\ Len(bytes) = Len(receptionBuffer[s]) + 1 /\ Len(bytes) \in Nat
  OBVIOUS
<1>2. Len(bytes) >= 2 => bytes[2] \in Int
  <2>1. SUFFICES ASSUME Len(bytes) >= 2 PROVE bytes[2] \in Byte
    BY ByteFacts
  <2>2. 2 \in 1 .. Len(bytes)
    BY <1>1, <2>1
  <2> QED BY <1>1, <2>2, ElementOfSeq
<1>3. COMMAND_MAX_DATA_SIZE \in Int
  BY Constants, ByteFacts
<1> DEFINE waits == [started |-> TRUE, buffer |-> bytes, command |-> NoCommand]
           idle == [started |-> FALSE, buffer |-> <<>>, command |-> NoCommand]
           whole == [id |-> bytes[1], data |-> SubSeq(bytes, 3, Len(bytes))]
           tooLong == Len(bytes) >= 2 /\ bytes[2] > COMMAND_MAX_DATA_SIZE
           complete == Len(bytes) >= 2 /\ bytes[2] = Len(bytes) - 2
<1>4. after =
        CASE ~started[s] -> [idle EXCEPT !.started = (b = HEADER_BYTE)]
          [] started[s] /\ tooLong -> idle
          [] started[s] /\ ~tooLong /\ complete -> [idle EXCEPT !.command = whole]
          [] OTHER -> waits
  BY DEF AfterByte
<1> HIDE DEF tooLong, complete
<1>5. /\ ~started[s] => after = [idle EXCEPT !.started = (b = HEADER_BYTE)]
      /\ started[s] /\ tooLong => after = idle
      /\ started[s] /\ ~tooLong /\ complete => after = [idle EXCEPT !.command = whole]
      /\ started[s] /\ ~tooLong /\ ~complete => after = waits
  BY <1>4
<1>6. Len(bytes) < 2 => ~tooLong /\ ~complete
  BY <1>1 DEF tooLong, complete
<1>7. Len(bytes) >= 2 /\ bytes[2] > COMMAND_MAX_DATA_SIZE => tooLong
  BY DEF tooLong
<1>8. Len(bytes) >= 2 /\ bytes[2] <= COMMAND_MAX_DATA_SIZE =>
        ~tooLong /\ (complete <=> bytes[2] = Len(bytes) - 2)
  BY <1>2, <1>3 DEF tooLong, complete
<1>9. ~started[s] => /\ after.started = (b = HEADER_BYTE) /\ after.buffer = <<>>
                     /\ after.command = NoCommand
  BY <1>5
<1>10. started[s] /\ ~tooLong /\ complete =>
         after.started = FALSE /\ after.buffer = <<>> /\ after.command = whole
  BY <1>5
<1>11. started[s] /\ ~tooLong /\ ~complete =>
         after.started = TRUE /\ after.buffer = bytes /\ after.command = NoCommand
  BY <1>5
<1>12. started[s] /\ tooLong => after.started = FALSE /\ after.buffer = <<>> /\ after.command = NoCommand
  BY <1>5
<1> HIDE DEF whole
<1> QED BY <1>1, <1>6, <1>7, <1>8, <1>9, <1>10, <1>11, <1>12 DEF whole, ByteAdded

LEMMA AfterByteType ==
  ASSUME NEW s \in Sources, NEW b \in Byte,
         started[s] \in BOOLEAN, receptionBuffer[s] \in Seq(Byte),
         NEW after, after = AfterByte(s, b)
  PROVE  /\ after.started \in BOOLEAN /\ after.buffer \in Seq(Byte)
         /\ after.buffer # <<>> => after.started
         /\ after.command \in Received \cup {NoCommand}
<1> DEFINE bytes == Append(receptionBuffer[s], b)
<1>0. bytes \in Seq(Byte) /\ Len(bytes) \in Nat /\ ByteAdded(s, b, bytes, after)
  BY AfterByteCases
<1> HIDE DEF bytes
<1>1. CASE ~started[s]
  <2>1. <<>> \in Seq(Byte) /\ (b = HEADER_BYTE) \in BOOLEAN
    OBVIOUS
  <2> QED BY <1>0, <1>1, <2>1 DEF ByteAdded
<1>2. CASE started[s] /\ Len(bytes) < 2
  BY <1>0, <1>2 DEF ByteAdded
<1>3. CASE started[s] /\ Len(bytes) >= 2
  <2>1. bytes[2] \in Int /\ bytes[1] \in Byte /\ COMMAND_MAX_DATA_SIZE \in Int
    <3>1. 1 \in 1 .. Len(bytes) /\ 2 \in 1 .. Len(bytes)
      BY <1>0, <1>3
    <3> QED BY <1>0, <3>1, ElementOfSeq, ByteFacts, Constants
  <2>2. SubSeq(bytes, 3, Len(bytes)) \in Seq(Byte)
    BY <1>0, SubSeqProperties
  <2>3. [id |-> bytes[1], data |-> SubSeq(bytes, 3, Len(bytes))] \in Received
    BY <2>1, <2>2 DEF Received
  <2>a. <<>> \in Seq(Byte)
    OBVIOUS
  <2>4. CASE bytes[2] > COMMAND_MAX_DATA_SIZE
    BY <1>0, <1>3, <2>4, <2>a DEF ByteAdded
  <2>5. CASE bytes[2] <= COMMAND_MAX_DATA_SIZE
    BY <1>0, <1>3, <2>3, <2>5, <2>a DEF ByteAdded
  <2> QED BY <2>1, <2>4, <2>5
<1> QED BY <1>0, <1>1, <1>2, <1>3

\* A byte of the frame of c gives c if it is the last, and leaves the handler in the frame
\* otherwise.
FrameRead(c, bytes, after) ==
  /\ Len(bytes) = 1 => after.command = c /\ after.started = FALSE /\ after.buffer = <<>>
  /\ Len(bytes) # 1 =>
       /\ after.command = NoCommand /\ after.started = TRUE
       /\ Left(Tail(bytes), Len(after.buffer) + 1, Bytes(c))
       /\ \A i \in 1 .. Len(after.buffer) : after.buffer[i] = Bytes(c)[i + 1]

LEMMA ReadsFrame ==
  ASSUME NEW s \in Sources, NEW c \in Commands,
         started[s] \in BOOLEAN, receptionBuffer[s] \in Seq(Byte),
         receptionBuffer[s] # <<>> => started[s],
         NEW bytes \in Seq(Byte), bytes # <<>>,
         started[s] => /\ Left(bytes, Len(receptionBuffer[s]) + 1, Bytes(c))
                       /\ \A i \in 1 .. Len(receptionBuffer[s]) :
                            receptionBuffer[s][i] = Bytes(c)[i + 1],
         ~started[s] => Left(bytes, 0, Bytes(c)),
         NEW after, after = AfterByte(s, bytes[1])
  PROVE  FrameRead(c, bytes, after)
<1> USE DEF FrameRead
<1> DEFINE buf == receptionBuffer[s]
           b == bytes[1]
           more == Append(buf, b)
           full == Bytes(c)
           d == Len(c.data)
<1> HIDE DEF full, d
<1>1. /\ full \in Seq(Byte) /\ c.data \in Seq(Byte) /\ d \in Nat /\ Len(full) = d + 3
      /\ full[1] = HEADER_BYTE /\ full[2] = c.id /\ full[3] = d
      /\ \A i \in 1 .. d : full[i + 3] = c.data[i]
  BY FrameBytes DEF full, d
<1>2. d <= COMMAND_MAX_DATA_SIZE /\ c = [id |-> c.id, data |-> c.data]
  BY Constants DEF d, Received
<1>3. /\ Len(bytes) \in Nat /\ Len(bytes) >= 1 /\ b \in Byte
      /\ Tail(bytes) \in Seq(Byte) /\ Len(Tail(bytes)) = Len(bytes) - 1
      /\ \A i \in 1 .. Len(bytes) - 1 : Tail(bytes)[i] = bytes[i + 1]
  OBVIOUS
<1>a. d \in Nat /\ Len(full) = d + 3
  BY <1>1
<1>b. Len(bytes) \in Nat
  BY <1>3
<1>4. ByteAdded(s, b, more, after)
  BY <1>3, AfterByteCases
<1>5. CASE ~started[s]
  <2>1. Len(bytes) = d + 3 /\ b = HEADER_BYTE /\ \A i \in 1 .. d + 3 : bytes[i] = full[i]
    <3>1. Left(bytes, 0, full)
      BY <1>5 DEF full
    <3>2. Len(bytes) + 0 = Len(full) /\ \A i \in 1 .. Len(bytes) : bytes[i] = full[i + 0]
      BY <3>1 DEF Left
    <3>3. \A i \in Int : i + 0 = i
      OBVIOUS
    <3>4. Len(bytes) = d + 3
      <4>1. Len(bytes) + 0 = d + 3
        BY <1>a, <3>2
      <4> QED BY <1>a, <1>b, <4>1
    <3>5. \A i \in 1 .. d + 3 : bytes[i] = full[i]
      BY <1>1, <3>2, <3>3, <3>4
    <3>6. 1 \in 1 .. d + 3
      BY <1>1
    <3> QED BY <1>1, <3>4, <3>5, <3>6
  <2>2. after.started = TRUE /\ after.buffer = <<>> /\ after.command = NoCommand
    BY <1>4, <1>5, <2>1 DEF ByteAdded
  <2>3. Left(Tail(bytes), 1, full)
    BY <1>1, <1>3, <2>1 DEF Left
  <2>4. Len(<<>>) = 0 /\ Len(bytes) # 1
    BY <1>1, <2>1
  <2> QED BY <2>2, <2>3, <2>4 DEF full
<1>6. CASE started[s]
  <2> DEFINE n == Len(buf)
  <2>0. n \in Nat
    OBVIOUS
  <2>1. /\ Len(bytes) = d + 2 - n /\ \A i \in 1 .. Len(bytes) : bytes[i] = full[i + (n + 1)]
        /\ \A i \in 1 .. n : buf[i] = full[i + 1]
    <3>1. Left(bytes, n + 1, full) /\ \A i \in 1 .. n : buf[i] = full[i + 1]
      BY <1>6 DEF full
    <3>2. n + 1 \in Nat
      BY <2>0
    <3> HIDE DEF n
    <3>3. /\ Len(bytes) + (n + 1) = Len(full)
          /\ \A i \in 1 .. Len(bytes) : bytes[i] = full[i + (n + 1)]
      BY <3>1 DEF Left
    <3>4. Len(bytes) = d + 2 - n
      <4>1. Len(bytes) + (n + 1) = d + 3
        BY <1>a, <3>3
      <4> QED BY <1>a, <1>b, <2>0, <4>1
    <3> QED BY <3>1, <3>3, <3>4
  <2>2. /\ more \in Seq(Byte) /\ Len(more) = n + 1 /\ more[n + 1] = b
        /\ \A i \in 1 .. n : more[i] = buf[i]
    BY <1>3
  <2> HIDE DEF n, more, buf
  <2>3. \A i \in 1 .. n + 1 : more[i] = full[i + 1]
    <3>1. b = full[n + 2]
      BY <1>3, <2>0, <2>1
    <3>2. \A i \in 1 .. n + 1 : i \in 1 .. n \/ i = n + 1
      BY <2>0
    <3>3. more[n + 1] = full[(n + 1) + 1]
      BY <2>0, <2>2, <3>1
    <3>4. \A i \in 1 .. n : more[i] = full[i + 1]
      BY <2>1, <2>2
    <3> QED BY <3>2, <3>3, <3>4
  <2>4. Len(bytes) # 1 => Left(Tail(bytes), n + 2, full)
    BY <1>1, <1>3, <2>0, <2>1 DEF Left
  <2>5. CASE n + 1 < 2
    <3>1. after.started = TRUE /\ after.buffer = more /\ after.command = NoCommand
      BY <1>4, <1>6, <2>2, <2>5 DEF ByteAdded
    <3>2. Len(bytes) # 1
      BY <1>1, <2>0, <2>1, <2>5
    <3> QED BY <2>0, <2>2, <2>3, <2>4, <3>1, <3>2 DEF full
  <2>6. CASE n + 1 >= 2 /\ Len(bytes) # 1
    <3>1. more[2] = d /\ d # Len(more) - 2
      BY <1>1, <2>0, <2>1, <2>2, <2>3, <2>6
    <3>2. after.started = TRUE /\ after.buffer = more /\ after.command = NoCommand
      BY <1>2, <1>4, <1>6, <2>2, <2>6, <3>1 DEF ByteAdded
    <3> QED BY <2>0, <2>2, <2>3, <2>4, <2>6, <3>2 DEF full
  <2>7. CASE n + 1 >= 2 /\ Len(bytes) = 1
    <3>1. n = d + 1 /\ more[2] = d /\ d = Len(more) - 2 /\ more[1] = c.id
      <4>1. n = d + 1 /\ d = Len(more) - 2
        <5>1. d + 2 - n = 1 /\ Len(more) = n + 1
          BY <2>1, <2>2, <2>7
        <5> QED BY <1>1, <2>0, <5>1
      <4>2. more[1] = full[2] /\ more[2] = full[3]
        BY <2>0, <2>3, <2>7
      <4> QED BY <1>1, <4>1, <4>2
    <3>2. /\ after.started = FALSE /\ after.buffer = <<>>
          /\ after.command = [id |-> more[1], data |-> SubSeq(more, 3, Len(more))]
      BY <1>2, <1>4, <1>6, <2>2, <2>7, <3>1 DEF ByteAdded
    <3>3. SubSeq(more, 3, Len(more)) = c.data
      <4> DEFINE t == SubSeq(more, 3, d + 2)
      <4>1. /\ t \in Seq(Byte) /\ Len(t) = d
            /\ \A i \in 1 .. d : t[i] = more[i + 2]
        <5>1. \A i \in 3 .. d + 2 : more[i] \in Byte
          BY <2>2, <3>1, <1>1
        <5>2. /\ t \in Seq(Byte) /\ Len(t) = IF 3 <= d + 2 THEN d + 2 - 3 + 1 ELSE 0
              /\ \A i \in 1 .. d + 2 - 3 + 1 : t[i] = more[3 + i - 1]
          BY <1>1, <5>1, SubSeqProperties
        <5> QED BY <1>1, <5>2
      <4> HIDE DEF t
      <4>2. \A i \in 1 .. d : t[i] = c.data[i]
        BY <1>1, <2>3, <3>1, <4>1
      <4>3. t = c.data
        BY <1>1, <4>1, <4>2, SeqEqual DEF d
      <4>4. Len(more) = d + 2
        BY <1>1, <2>2, <3>1
      <4> QED BY <4>3, <4>4 DEF t
    <3> QED BY <1>2, <2>7, <3>1, <3>2, <3>3
  <2>8. n + 1 < 2 \/ n + 1 >= 2
    BY <2>0
  <2> QED BY <2>5, <2>6, <2>7, <2>8
<1> QED BY <1>5, <1>6

-----------------------------------------------------------------------------
(* The frames on their way                                                 *)

LEMMA FrameOnWire ==
  ASSUME NEW c \in Commands
  PROVE  Frame(c) \in WireFrames /\ Frame(c).command = c /\ Frame(c).bytes = Bytes(c)
<1>1. Frame(c) = [bytes |-> Bytes(c), command |-> c]
  BY DEF Frame, Bytes
<1>2. Bytes(c) \in Seq(Byte) /\ Len(Bytes(c)) # 0
  <2>1. Len(Bytes(c)) = Len(c.data) + 3 /\ Len(c.data) \in Nat /\ Bytes(c) \in Seq(Byte)
    BY FrameBytes
  <2> QED BY <2>1
<1>3. Bytes(c) # <<>>
  BY <1>2
<1> QED BY <1>1, <1>2, <1>3 DEF WireFrames

LEMMA FirstFrame ==
  ASSUME NEW s \in Sources, wire[s] \in Seq(WireFrames), wire[s] # <<>>
  PROVE  /\ wire[s][1].bytes \in Seq(Byte) /\ wire[s][1].bytes # <<>>
         /\ wire[s][1].bytes[1] \in Byte /\ Len(wire[s][1].bytes) \in Nat
         /\ 1 \in DOMAIN wire[s] /\ DOMAIN wire[s] = 1 .. Len(wire[s]) /\ Len(wire[s]) \in Nat
         /\ wire[s][1].command \in Commands \cup {NoCommand}
<1>1. /\ 1 \in 1 .. Len(wire[s]) /\ DOMAIN wire[s] = 1 .. Len(wire[s]) /\ Len(wire[s]) \in Nat
      /\ wire[s][1] \in WireFrames
  OBVIOUS
<1>2. /\ wire[s][1].bytes \in Seq(Byte) /\ wire[s][1].bytes # <<>>
      /\ wire[s][1].command \in Commands \cup {NoCommand}
  BY <1>1 DEF WireFrames
<1>3. wire[s][1].bytes[1] \in Byte /\ Len(wire[s][1].bytes) \in Nat
  BY <1>2
<1> QED BY <1>1, <1>2, <1>3

\* What a byte less leaves on the way.
OneByteLess(s, bytes, rest) ==
  /\ rest \in Seq(WireFrames)
  /\ Len(bytes) = 1 => /\ Len(rest) = Len(wire[s]) - 1
                       /\ \A i \in 1 .. Len(rest) : rest[i] = wire[s][i + 1]
  /\ Len(bytes) # 1 => /\ Len(rest) = Len(wire[s]) /\ rest[1].bytes = Tail(bytes)
                       /\ rest[1].command = wire[s][1].command
                       /\ \A i \in 2 .. Len(rest) : rest[i] = wire[s][i]

LEMMA ShorterFacts ==
  ASSUME NEW s \in Sources, wire[s] \in Seq(WireFrames), wire[s] # <<>>
  PROVE  OneByteLess(s, wire[s][1].bytes, Shorter(s))
<1> SUFFICES ASSUME NEW rest, rest = Shorter(s), NEW bytes, bytes = wire[s][1].bytes
             PROVE  OneByteLess(s, bytes, rest)
  OBVIOUS
<1> USE DEF OneByteLess
<1>1. /\ bytes \in Seq(Byte) /\ bytes # <<>> /\ Len(bytes) \in Nat
      /\ Len(wire[s]) \in Nat /\ 1 \in 1 .. Len(wire[s])
  BY FirstFrame
<1>2. CASE Len(bytes) = 1
  <2>1. rest = Tail(wire[s])
    BY <1>2 DEF Shorter
  <2> QED BY <1>2, <2>1, HeadTailProperties
<1>3. CASE Len(bytes) # 1
  <2> DEFINE f == wire[s][1]
             g == [f EXCEPT !.bytes = Tail(bytes)]
  <2>1. f \in WireFrames
    BY <1>1
  <2>2. Tail(bytes) \in Seq(Byte) /\ Tail(bytes) # <<>>
    <3>1. Len(Tail(bytes)) = Len(bytes) - 1 /\ Tail(bytes) \in Seq(Byte)
      BY <1>1
    <3>2. Len(Tail(bytes)) # 0
      BY <1>1, <1>3, <3>1
    <3> QED BY <3>1, <3>2
  <2>3. g \in WireFrames /\ g.bytes = Tail(bytes) /\ g.command = f.command
    BY <2>1, <2>2 DEF WireFrames
  <2>4. rest = [wire[s] EXCEPT ![1] = g]
    BY <1>3 DEF Shorter
  <2> HIDE DEF g
  <2>5. /\ rest \in Seq(WireFrames) /\ Len(rest) = Len(wire[s])
        /\ \A j \in 1 .. Len(wire[s]) : rest[j] = IF j = 1 THEN g ELSE wire[s][j]
    BY <1>1, <2>3, <2>4, ExceptSeq
  <2> QED BY <1>1, <1>3, <2>3, <2>5
<1> QED BY <1>2, <1>3

\* The sources that nothing happened to.
LEMMA SameInStep ==
  ASSUME NEW s \in Sources, InStep(s), wire'[s] = wire[s], started'[s] = started[s],
         receptionBuffer'[s] = receptionBuffer[s]
  PROVE  InStep(s)'
BY DEF InStep, InFrame

-----------------------------------------------------------------------------
(* The steps                                                               *)

LEMMA SameRing ==
  ASSUME RingTypes, PassInv, UNCHANGED ringVars,
         UNCHANGED <<pc, source>> \/ (pc' = "receive" => source' = 0)
  PROVE  RingTypes' /\ PassInv'
BY DEF RingTypes, PassInv, ringVars, available, Slot

\* Everything the steps of the clients and most steps of the loop leave alone.
LEMMA ConnectInv ==
  ASSUME ServerInv, Connect
  PROVE  ServerInv'
<1>1. ServerTypes'
  BY DEF Connect, ServerInv, ServerTypes, loopVars, serverVars, receptionVars, traceVars
<1>2. RingTypes' /\ PassInv'
  BY SameRing DEF Connect, ServerInv, loopVars
<1>3. \A s \in clean' : InStep(s)'
  BY SameInStep DEF Connect, ServerInv, ServerTypes, receptionVars
<1> QED BY <1>1, <1>2, <1>3 DEF ServerInv

LEMMA SendFrameInv ==
  ASSUME ServerInv, SendFrame
  PROVE  ServerInv'
<1> USE DEF ServerInv
<1>0. PICK s \in open \cup {Serial}, c \in Commands : wire' = [wire EXCEPT ![s] = Append(@, Frame(c))]
  BY DEF SendFrame
<1>1. s \in Sources /\ Frame(c) \in WireFrames /\ Frame(c).command = c /\ Frame(c).bytes = Bytes(c)
  BY Constants, FrameOnWire DEF ServerTypes
<1>2. /\ wire[s] \in Seq(WireFrames) /\ wire'[s] = Append(wire[s], Frame(c))
      /\ \A t \in Sources : t # s => wire'[t] = wire[t]
  BY <1>0, <1>1 DEF ServerTypes
<1>3. ServerTypes'
  <2>1. wire' \in [Sources -> Seq(WireFrames)]
    BY <1>0, <1>1, <1>2 DEF ServerTypes
  <2>2. frames' \in 0 .. MaxEvents
    BY BoundAssumption DEF SendFrame, More, ServerTypes
  <2> QED BY <2>1, <2>2 DEF SendFrame, ServerTypes, loopVars, serverVars, receptionVars, traceVars
<1>4. RingTypes' /\ PassInv'
  BY SameRing DEF SendFrame, loopVars
<1>5. ASSUME NEW t \in clean', t = s PROVE InStep(t)'
  <2>1. InStep(s) /\ UNCHANGED receptionVars
    BY <1>5 DEF SendFrame
  <2>2. /\ Len(wire'[s]) = Len(wire[s]) + 1 /\ Len(wire[s]) \in Nat
        /\ DOMAIN wire'[s] = 1 .. Len(wire[s]) + 1 /\ DOMAIN wire[s] = 1 .. Len(wire[s])
        /\ \A i \in 1 .. Len(wire[s]) : wire'[s][i] = wire[s][i]
        /\ wire'[s][Len(wire[s]) + 1] = Frame(c)
    BY <1>1, <1>2
  <2>3. Left(Bytes(c), 0, Bytes(c))
    <3>1. Bytes(c) \in Seq(Byte) /\ \A i \in 1 .. Len(Bytes(c)) : i + 0 = i
      BY FrameBytes
    <3> QED BY <3>1 DEF Left
  <2>4. \A i \in DOMAIN wire'[s] :
          /\ wire'[s][i].command \in Commands
          /\ i > 1 => Left(wire'[s][i].bytes, 0, Bytes(wire'[s][i].command))
    BY <1>1, <2>1, <2>2, <2>3 DEF InStep
  <2>5. wire'[s] # <<>>
    BY <2>2
  <2>6. InFrame(s)'
    <3>1. CASE wire[s] = <<>>
      <4>1. wire'[s][1] = Frame(c) /\ ~started[s]
        BY <2>1, <2>2, <3>1 DEF InStep
      <4> QED BY <1>1, <2>1, <2>3, <4>1 DEF InFrame, receptionVars
    <3>2. CASE wire[s] # <<>>
      <4>1. wire'[s][1] = wire[s][1]
        BY <1>2, <2>2, <3>2
      <4> QED BY <2>1, <3>2, <4>1 DEF InStep, InFrame, receptionVars
    <3> QED BY <3>1, <3>2
  <2> QED BY <1>5, <2>4, <2>5, <2>6 DEF InStep
<1>6. ASSUME NEW t \in clean', t # s PROVE InStep(t)'
  BY <1>2, <1>6, SameInStep DEF SendFrame, ServerTypes, receptionVars
<1> QED BY <1>3, <1>4, <1>5, <1>6

\* A connection cut between two frames leaves the first one whole; one cut in a frame is not
\* clean any more.
LEMMA CloseInv ==
  ASSUME ServerInv, Close
  PROVE  ServerInv'
<1> USE DEF ServerInv
<1>0. PICK s \in open :
        /\ open' = open \ {s}
        /\ \/ /\ \E n \in 0 .. Len(wire[s]) : wire' = [wire EXCEPT ![s] = SubSeq(@, 1, n)]
              /\ clean' = IF wire'[s] = <<>> /\ started[s] THEN clean \ {s} ELSE clean
           \/ /\ \E n \in DOMAIN wire[s] : \E k \in 1 .. Len(wire[s][n].bytes) - 1 :
                   wire' = [wire EXCEPT ![s] =
                              Append(SubSeq(@, 1, n - 1),
                                     [bytes |-> SubSeq(@[n].bytes, 1, k), command |-> NoCommand])]
              /\ clean' = clean \ {s}
  BY DEF Close
<1>1. s \in Sources /\ wire[s] \in Seq(WireFrames) /\ Len(wire[s]) \in Nat
  BY Constants DEF ServerTypes
<1>2. /\ UNCHANGED <<loopVars, frames, serverVars, receptionVars, ringVars, traceVars, executed>>
      /\ cuts' \in 0 .. MaxEvents
  BY BoundAssumption DEF Close, More, ServerTypes
<1> DEFINE Kept ==
             /\ wire'[s] \in Seq(WireFrames) /\ wire' = [wire EXCEPT ![s] = wire'[s]]
             /\ clean' \subseteq clean
             /\ s \in clean' => /\ Len(wire'[s]) <= Len(wire[s])
                                /\ \A i \in 1 .. Len(wire'[s]) : wire'[s][i] = wire[s][i]
                                /\ started[s] => wire'[s] # <<>>
<1>3. Kept
  <2>1. ASSUME NEW n \in 0 .. Len(wire[s]), wire' = [wire EXCEPT ![s] = SubSeq(@, 1, n)],
               clean' = IF wire'[s] = <<>> /\ started[s] THEN clean \ {s} ELSE clean
        PROVE  Kept
    <3>1. wire'[s] = SubSeq(wire[s], 1, n)
      BY <1>1, <2>1 DEF ServerTypes
    <3>2. /\ wire'[s] \in Seq(WireFrames) /\ Len(wire'[s]) = n
          /\ \A i \in 1 .. n : wire'[s][i] = wire[s][i]
      BY <1>1, <3>1
    <3>3. wire' = [wire EXCEPT ![s] = wire'[s]]
      BY <1>1, <2>1, <3>1 DEF ServerTypes
    <3> QED BY <1>1, <2>1, <3>2, <3>3
  <2>2. ASSUME NEW n \in DOMAIN wire[s], NEW k \in 1 .. Len(wire[s][n].bytes) - 1,
               wire' = [wire EXCEPT ![s] =
                          Append(SubSeq(@, 1, n - 1),
                                 [bytes |-> SubSeq(@[n].bytes, 1, k), command |-> NoCommand])],
               clean' = clean \ {s}
        PROVE  Kept
    <3> DEFINE piece == [bytes |-> SubSeq(wire[s][n].bytes, 1, k), command |-> NoCommand]
               before == SubSeq(wire[s], 1, n - 1)
    <3>1. wire'[s] = Append(before, piece) /\ wire' = [wire EXCEPT ![s] = Append(before, piece)]
      BY <1>1, <2>2 DEF ServerTypes
    <3>2. n \in 1 .. Len(wire[s]) /\ wire[s][n] \in WireFrames
      BY <1>1
    <3>3. wire[s][n].bytes \in Seq(Byte)
      BY <3>2 DEF WireFrames
    <3>4. SubSeq(wire[s][n].bytes, 1, k) \in Seq(Byte) /\ Len(SubSeq(wire[s][n].bytes, 1, k)) = k
      BY <3>3
    <3>5. piece \in WireFrames
      <4>1. SubSeq(wire[s][n].bytes, 1, k) # <<>>
        BY <3>4
      <4> QED BY <3>4, <4>1 DEF WireFrames
    <3>6. before \in Seq(WireFrames)
      BY <1>1, <3>2
    <3> HIDE DEF piece, before
    <3>7. Append(before, piece) \in Seq(WireFrames)
      BY <3>5, <3>6
    <3> QED BY <2>2, <3>1, <3>7
  <2> QED BY <1>0, <2>1, <2>2
<1>4. wire' \in [Sources -> Seq(WireFrames)] /\ \A t \in Sources : t # s => wire'[t] = wire[t]
  BY <1>1, <1>3 DEF ServerTypes
<1>5. ServerTypes'
  BY <1>0, <1>2, <1>3, <1>4 DEF ServerTypes, loopVars, serverVars, receptionVars, traceVars
<1>6. RingTypes' /\ PassInv'
  BY <1>2, SameRing DEF loopVars
<1>7. ASSUME NEW t \in clean', t # s PROVE InStep(t)'
  BY <1>2, <1>3, <1>4, <1>7, SameInStep DEF ServerTypes, receptionVars
<1>8. ASSUME NEW t \in clean', t = s PROVE InStep(t)'
  <2>1. InStep(s) /\ UNCHANGED receptionVars
    BY <1>2, <1>3, <1>8
  <2>2. /\ DOMAIN wire'[s] = 1 .. Len(wire'[s]) /\ DOMAIN wire[s] = 1 .. Len(wire[s])
        /\ DOMAIN wire'[s] \subseteq DOMAIN wire[s]
        /\ \A i \in DOMAIN wire'[s] : wire'[s][i] = wire[s][i]
        /\ wire'[s] # <<>> => wire'[s][1] = wire[s][1] /\ wire[s] # <<>>
    BY <1>1, <1>3, <1>8
  <2> QED BY <1>3, <1>8, <2>1, <2>2 DEF InStep, InFrame, receptionVars
<1> QED BY <1>5, <1>6, <1>7, <1>8

LEMMA AcceptInv ==
  ASSUME ServerInv, Accept
  PROVE  ServerInv'
<1> USE DEF ServerInv
<1>1. clients' \subseteq Sockets
  BY DEF Accept, ServerTypes
<1>2. subscriptionList' \in [Sources -> SUBSET (0 .. CHANNEL_MAX_NB - 1)]
  <2>1. DEFAULT_SUSCRIPTION \in SUBSET (0 .. CHANNEL_MAX_NB - 1)
    BY ChannelAssumption
  <2> QED BY <2>1 DEF Accept, ServerTypes
<1>3. 0 \in Sources
  BY Constants DEF Sources
<1>4. ServerTypes'
  BY <1>1, <1>2, <1>3 DEF Accept, ServerTypes, clientVars, receptionVars, traceVars
<1>5. RingTypes' /\ PassInv'
  BY SameRing DEF Accept
<1>6. \A s \in clean' : InStep(s)'
  BY SameInStep DEF Accept, ServerTypes, clientVars, receptionVars
<1> QED BY <1>4, <1>5, <1>6

LEMMA LoopInv ==
  ASSUME ServerInv, ReceptionSuspended \/ Swap \/ SendTraces \/ asynchronous_trace
  PROVE  ServerInv'
<1> USE DEF ServerInv
<1>1. traces' \in 0 .. MaxEvents
  BY BoundAssumption
  DEF ReceptionSuspended, Swap, SendTraces, asynchronous_trace, More, ServerTypes, traceVars
<1>2. ServerTypes'
  BY <1>1 DEF ReceptionSuspended, Swap, SendTraces, asynchronous_trace, ServerTypes, loopVars,
              clientVars, serverVars, receptionVars, traceVars
<1>3. RingTypes' /\ PassInv'
  BY SameRing DEF ReceptionSuspended, Swap, SendTraces, asynchronous_trace, loopVars
<1>4. \A s \in clean' : InStep(s)'
  BY SameInStep DEF ReceptionSuspended, Swap, SendTraces, asynchronous_trace, ServerTypes,
                    clientVars, receptionVars
<1> QED BY <1>2, <1>3, <1>4

LEMMA EndOfCommunicateInv ==
  ASSUME ServerInv, EndOfCommunicate
  PROVE  ServerInv'
<1> USE DEF ServerInv
<1>1. clients' \subseteq Sockets /\ subscriptionList' \in [Sources -> SUBSET (0 .. CHANNEL_MAX_NB - 1)]
  BY DEF EndOfCommunicate, Disconnect, ServerTypes
<1>2. ServerTypes'
  BY <1>1 DEF EndOfCommunicate, ServerTypes, clientVars, receptionVars
<1>3. RingTypes' /\ PassInv'
  BY SameRing DEF EndOfCommunicate
<1>4. \A s \in clean' : InStep(s)'
  BY SameInStep DEF EndOfCommunicate, ServerTypes, clientVars, receptionVars
<1> QED BY <1>2, <1>3, <1>4

LEMMA getLastCommandInv ==
  ASSUME ServerInv, getLastCommand
  PROVE  ServerInv'
<1> USE DEF ServerInv
<1>1. executed' \in [Sources -> Nat]
  <2>1. executed \in [Sources -> Nat] /\ \A n \in Nat : n + 1 \in Nat
    BY DEF ServerTypes
  <2>2. PICK x : executed' = [executed EXCEPT ![x] = @ + 1]
    BY DEF getLastCommand
  <2>3. \A s \in Sources : executed'[s] = IF s = x THEN executed[s] + 1 ELSE executed[s]
    BY <2>1, <2>2
  <2> QED BY <2>1, <2>2, <2>3
<1>2. ServerTypes'
  BY <1>1 DEF getLastCommand, ServerTypes, loopVars, clientVars, serverVars, receptionVars, traceVars
<1>3. RingTypes' /\ PassInv'
  <2>1. cBufferTail' \in 0 .. COMMAND_BUFFER_SIZE - 1
    BY Constants DEF getLastCommand, RingTypes, Following
  <2>2. ring' = [i \in 0 .. COMMAND_BUFFER_SIZE - 1 |-> ring'[i]]
    BY DEF getLastCommand, RingTypes
  <2> QED BY <2>1, <2>2 DEF getLastCommand, RingTypes, PassInv, loopVars
<1>4. \A s \in clean' : InStep(s)'
  BY SameInStep DEF getLastCommand, ServerTypes, clientVars, receptionVars
<1> QED BY <1>2, <1>3, <1>4

\* A command that is stored takes the next slot.
LEMMA RingStore ==
  ASSUME RingTypes, HasRoom
  PROVE  /\ available \in 0 .. MAX_SOCK_NUM - 1
         /\ cBufferHead = Slot(available) /\ cBufferHead \in 0 .. COMMAND_BUFFER_SIZE - 1
         /\ Following(cBufferHead) \in 0 .. COMMAND_BUFFER_SIZE - 1
         /\ cBufferHead' = Following(cBufferHead) /\ cBufferTail' = cBufferTail =>
              available' = available + 1
         /\ \A t \in 0 .. available - 1 : Slot(t) # cBufferHead
<1> DEFINE N == COMMAND_BUFFER_SIZE
           head == cBufferHead
           tail == cBufferTail
<1>1. /\ N \in Nat /\ N = MAX_SOCK_NUM + 1 /\ MAX_SOCK_NUM \in Nat
      /\ head \in 0 .. N - 1 /\ tail \in 0 .. N - 1
  BY Constants DEF RingTypes
<1>2. available = IF head >= tail THEN head - tail ELSE N + head - tail
  BY DEF available
<1>3. available < N - 1
  BY DEF HasRoom
<1>4. Following(head) = IF head + 1 = N THEN 0 ELSE head + 1
  BY DEF Following
<1>5. \A t : Slot(t) = IF tail + t >= N THEN tail + t - N ELSE tail + t
  BY DEF Slot
<1>6. available' = IF head' >= tail' THEN head' - tail' ELSE N + head' - tail'
  BY DEF available
<1> HIDE DEF head, tail, N
<1>7. available \in 0 .. MAX_SOCK_NUM - 1
  BY <1>1, <1>2, <1>3
<1>8. head = Slot(available)
  BY <1>1, <1>2, <1>5
<1>9. Following(head) \in 0 .. N - 1
  BY <1>1, <1>4
<1>10. ASSUME head' = Following(head), tail' = tail PROVE available' = available + 1
  <2>1. CASE head + 1 = N
    BY <1>1, <1>2, <1>3, <1>4, <1>6, <1>10, <2>1
  <2>2. CASE head + 1 # N
    BY <1>1, <1>2, <1>3, <1>4, <1>6, <1>10, <2>2
  <2> QED BY <2>1, <2>2
<1>11. \A t \in 0 .. available - 1 : Slot(t) # head
  BY <1>1, <1>2, <1>5, <1>7
<1> QED BY <1>1, <1>7, <1>8, <1>9, <1>10, <1>11 DEF head, tail, N

LEMMA AvailableType ==
  ASSUME RingTypes
  PROVE  available \in 0 .. MAX_SOCK_NUM
BY Constants DEF RingTypes, available

\* What a byte may do to the ring.
LEMMA ReadRing ==
  ASSUME RingTypes, NEW s \in Sources,
         UNCHANGED ringVars \/ \E c \in Received : Store(s, c)
  PROVE  /\ RingTypes' /\ cBufferTail' = cBufferTail
         /\ \/ available' = available
            \/ /\ available' = available + 1 /\ ring'[Slot(available)].source = s
               /\ \A t \in 0 .. available - 1 : ring'[Slot(t)] = ring[Slot(t)]
<1>1. CASE UNCHANGED ringVars
  BY <1>1 DEF RingTypes, ringVars, available
<1>2. ASSUME NEW c \in Received, Store(s, c), HasRoom
      PROVE  /\ RingTypes' /\ cBufferTail' = cBufferTail
             /\ available' = available + 1 /\ ring'[Slot(available)].source = s
             /\ \A t \in 0 .. available - 1 : ring'[Slot(t)] = ring[Slot(t)]
  <2>1. /\ ring' = [ring EXCEPT ![cBufferHead] = [source |-> s, command |-> c]]
        /\ cBufferHead' = Following(cBufferHead) /\ cBufferTail' = cBufferTail
    BY <1>2 DEF Store
  <2>2. /\ ring' = [i \in 0 .. COMMAND_BUFFER_SIZE - 1 |-> ring'[i]]
        /\ ring'[cBufferHead] = [source |-> s, command |-> c]
        /\ \A i \in 0 .. COMMAND_BUFFER_SIZE - 1 : i # cBufferHead => ring'[i] = ring[i]
    BY <2>1 DEF RingTypes
  <2>3. \A t \in 0 .. available - 1 : Slot(t) \in 0 .. COMMAND_BUFFER_SIZE - 1
    BY <1>2, Constants DEF RingTypes, HasRoom, available, Slot
  <2>4. RingTypes'
    BY <1>2, <2>1, <2>2, RingStore DEF RingTypes
  <2>5. ring'[Slot(available)].source = s
    BY <1>2, <2>2, RingStore
  <2> QED BY <1>2, <2>1, <2>2, <2>3, <2>4, <2>5, RingStore
<1>3. ASSUME NEW c \in Received, Store(s, c), ~HasRoom
      PROVE  RingTypes' /\ cBufferTail' = cBufferTail /\ available' = available
  BY <1>3 DEF Store, RingTypes, available
<1> QED BY <1>1, <1>2, <1>3

\* A pass of the reception: a command of each source at most.
LEMMA PassStep ==
  ASSUME ServerInv, Receive,
         UNCHANGED ringVars \/ \E c \in Received : Store(source, c)
  PROVE  RingTypes' /\ PassInv'
<1> USE DEF ServerInv
<1>0. source \in Sources /\ RingTypes
  BY DEF ServerTypes
<1>1. /\ RingTypes' /\ cBufferTail' = cBufferTail
      /\ \/ available' = available
         \/ /\ available' = available + 1 /\ ring'[Slot(available)].source = source
            /\ \A t \in 0 .. available - 1 : ring'[Slot(t)] = ring[Slot(t)]
  BY <1>0, ReadRing
<1>2. SUFFICES ASSUME source' # 0 PROVE PassInv'
  BY <1>1 DEF PassInv
<1>3. source' = source + 1 /\ pc' = "receive" /\ pc = "receive" /\ source \in Nat
  BY <1>0, <1>2 DEF Receive, NextSource, Sources
<1>4. available \in Nat /\ available <= source
  <2>1. available \in Nat
    BY AvailableType, Constants
  <2>2. CASE source = 0
    BY <2>1, <2>2, Constants DEF Receive
  <2> QED BY <1>3, <2>1, <2>2 DEF PassInv
<1> DEFINE n == available
<1>5. \A t : Slot(t)' = Slot(t)
  BY <1>1 DEF Slot
<1>6. CASE available' = available
  BY <1>3, <1>4, <1>6 DEF PassInv
<1>7. CASE /\ available' = available + 1 /\ ring'[Slot(available)].source = source
           /\ \A t \in 0 .. available - 1 : ring'[Slot(t)] = ring[Slot(t)]
  <2>1. available' <= source'
    BY <1>3, <1>4, <1>7
  <2>2. ASSUME available' = source', NEW t \in 0 .. source' - 1
        PROVE  ring'[Slot(t)].source = t
    <3>1. available = source
      BY <1>3, <1>4, <1>7, <2>2
    <3>2. CASE t = source
      BY <1>7, <3>1, <3>2
    <3>3. CASE t # source
      <4>1. t \in 0 .. source - 1 /\ source # 0
        BY <1>3, <2>2, <3>3
      <4>2. ring[Slot(t)].source = t
        BY <1>3, <3>1, <4>1 DEF PassInv
      <4> QED BY <1>7, <3>1, <4>1, <4>2
    <3> QED BY <3>2, <3>3
  <2> QED BY <1>5, <2>1, <2>2 DEF PassInv
<1> QED BY <1>1, <1>6, <1>7

\* What the handler of a clean source reads is in step with what is on the way.
LEMMA ReadInStep ==
  ASSUME NEW s \in Sources, InStep(s), wire[s] \in Seq(WireFrames), wire[s] # <<>>,
         started[s] \in BOOLEAN, receptionBuffer[s] \in Seq(Byte),
         receptionBuffer[s] # <<>> => started[s]
  PROVE  LET frame == wire[s][1]
             after == AfterByte(s, frame.bytes[1])
         IN  /\ after.command = IF Len(frame.bytes) = 1 THEN frame.command ELSE NoCommand
             /\ wire'[s] = Shorter(s) /\ started'[s] = after.started
                  /\ receptionBuffer'[s] = after.buffer => InStep(s)'
<1> DEFINE frame == wire[s][1]
           bytes == frame.bytes
           c == frame.command
<1>1. /\ bytes \in Seq(Byte) /\ bytes # <<>> /\ Len(bytes) \in Nat /\ c \in Commands
      /\ 1 \in DOMAIN wire[s] /\ DOMAIN wire[s] = 1 .. Len(wire[s]) /\ Len(wire[s]) \in Nat
  BY FirstFrame DEF InStep
<1> DEFINE after == AfterByte(s, bytes[1])
<1>2. FrameRead(c, bytes, after)
  <2>1. started[s] => /\ Left(bytes, Len(receptionBuffer[s]) + 1, Bytes(c))
                      /\ \A i \in 1 .. Len(receptionBuffer[s]) :
                           receptionBuffer[s][i] = Bytes(c)[i + 1]
    BY DEF InStep, InFrame
  <2>2. ~started[s] => Left(bytes, 0, Bytes(c))
    BY DEF InStep, InFrame
  <2> HIDE DEF bytes, c, after
  <2>3. after = AfterByte(s, bytes[1])
    BY DEF after
  <2> QED BY <1>1, <2>1, <2>2, <2>3, ReadsFrame
<1> HIDE DEF after
<1>3. ASSUME wire'[s] = Shorter(s), started'[s] = after.started, receptionBuffer'[s] = after.buffer
      PROVE  InStep(s)'
  <2> DEFINE rest == wire'[s]
  <2>1. /\ rest \in Seq(WireFrames)
        /\ Len(bytes) = 1 => /\ Len(rest) = Len(wire[s]) - 1
                             /\ \A i \in 1 .. Len(rest) : rest[i] = wire[s][i + 1]
        /\ Len(bytes) # 1 => /\ Len(rest) = Len(wire[s]) /\ rest[1].bytes = Tail(bytes)
                             /\ rest[1].command = c
                             /\ \A i \in 2 .. Len(rest) : rest[i] = wire[s][i]
    BY <1>3, ShorterFacts DEF OneByteLess
  <2>2. DOMAIN rest = 1 .. Len(rest) /\ Len(rest) \in Nat /\ (rest # <<>> => Len(rest) >= 1)
    BY <2>1
  <2> HIDE DEF rest
  <2>3. CASE Len(bytes) = 1
    <3>1. \A i \in 1 .. Len(rest) : /\ rest[i].command \in Commands
                                    /\ Left(rest[i].bytes, 0, Bytes(rest[i].command))
      <4> SUFFICES ASSUME NEW i \in 1 .. Len(rest)
                   PROVE  /\ rest[i].command \in Commands
                          /\ Left(rest[i].bytes, 0, Bytes(rest[i].command))
        OBVIOUS
      <4>1. i + 1 \in DOMAIN wire[s] /\ i + 1 > 1 /\ rest[i] = wire[s][i + 1]
        BY <1>1, <2>1, <2>2, <2>3
      <4> QED BY <4>1 DEF InStep
    <3>2. started'[s] = FALSE
      BY <1>2, <1>3, <2>3 DEF FrameRead
    <3>3. rest # <<>> => InFrame(s)'
      BY <2>2, <3>1, <3>2 DEF InFrame, rest
    <3> QED BY <2>2, <3>1, <3>2, <3>3 DEF InStep, rest
  <2>4. CASE Len(bytes) # 1
    <3>1. /\ started'[s] = TRUE /\ rest[1].bytes = Tail(bytes) /\ rest[1].command = c
          /\ Left(Tail(bytes), Len(after.buffer) + 1, Bytes(c))
          /\ \A i \in 1 .. Len(after.buffer) : after.buffer[i] = Bytes(c)[i + 1]
      BY <1>2, <1>3, <2>1, <2>4 DEF FrameRead
    <3>2. InFrame(s)'
      BY <1>3, <3>1 DEF InFrame, rest
    <3>3. rest # <<>>
      <4>1. Len(rest) >= 1
        BY <1>1, <2>1, <2>4
      <4> QED BY <2>1, <4>1 DEF rest
    <3>4. \A i \in 1 .. Len(rest) : /\ rest[i].command \in Commands
                                    /\ i > 1 => Left(rest[i].bytes, 0, Bytes(rest[i].command))
      <4> SUFFICES ASSUME NEW i \in 1 .. Len(rest)
                   PROVE  /\ rest[i].command \in Commands
                          /\ i > 1 => Left(rest[i].bytes, 0, Bytes(rest[i].command))
        OBVIOUS
      <4>1. CASE i = 1
        BY <1>1, <3>1, <4>1
      <4>2. CASE i # 1
        <5>1. i \in DOMAIN wire[s] /\ i \in 2 .. Len(rest) /\ rest[i] = wire[s][i] /\ i > 1
          BY <1>1, <2>1, <2>2, <2>4, <4>2
        <5> QED BY <5>1 DEF InStep
      <4> QED BY <4>1, <4>2
    <3>5. \A i \in DOMAIN rest : /\ rest[i].command \in Commands
                                 /\ i > 1 => Left(rest[i].bytes, 0, Bytes(rest[i].command))
      BY <2>2, <3>4
    <3> HIDE DEF bytes, c
    <3>6. \A i \in DOMAIN wire'[s] :
            /\ wire'[s][i].command \in Commands
            /\ i > 1 => Left(wire'[s][i].bytes, 0, Bytes(wire'[s][i].command))
      BY <3>5 DEF rest
    <3>7. wire'[s] # <<>>
      BY <3>3 DEF rest
    <3> QED BY <3>2, <3>6, <3>7 DEF InStep
  <2> QED BY <2>3, <2>4
<1>4. after.command = IF Len(bytes) = 1 THEN c ELSE NoCommand
  BY <1>2 DEF FrameRead
<1> QED BY <1>3, <1>4 DEF after

LEMMA ReadKeepsInStep ==
  ASSUME NEW s \in Sources, InStep(s), wire[s] \in Seq(WireFrames), wire[s] # <<>>,
         started[s] \in BOOLEAN, receptionBuffer[s] \in Seq(Byte),
         receptionBuffer[s] # <<>> => started[s], wire'[s] = Shorter(s),
         started'[s] = AfterByte(s, wire[s][1].bytes[1]).started,
         receptionBuffer'[s] = AfterByte(s, wire[s][1].bytes[1]).buffer
  PROVE  InStep(s)'
BY ReadInStep

LEMMA ReceiveInv ==
  ASSUME ServerInv, Receive
  PROVE  ServerInv'
<1> USE DEF ServerInv
<1> DEFINE s == source
<1>0. /\ s \in Sources /\ wire[s] \in Seq(WireFrames) /\ started[s] \in BOOLEAN
      /\ receptionBuffer[s] \in Seq(Byte) /\ (receptionBuffer[s] # <<>> => started[s])
  BY DEF ServerTypes
<1>1. /\ source' \in Sources /\ pc' \in {"receive", "swap"}
  BY <1>0, Constants DEF Receive, NextSource, Sources, Serial
<1>2. /\ UNCHANGED <<open, frames, cuts, clean, clients, serialConnected, traceVars, executed>>
      /\ read' \in BOOLEAN
  BY DEF Receive, ServerTypes
<1>3. CASE Readable(s) /\ ReadByte(s)
  <2> DEFINE b == wire[s][1].bytes[1]
             after == AfterByte(s, b)
  <2>1. wire[s] # <<>> /\ b \in Byte
    BY <1>0, <1>3, FirstFrame DEF Readable
  <2>2. /\ after.started \in BOOLEAN /\ after.buffer \in Seq(Byte)
        /\ after.buffer # <<>> => after.started
        /\ after.command \in Received \cup {NoCommand}
    BY <1>0, <2>1, AfterByteType
  <2> HIDE DEF after
  <2>3. /\ wire' = [wire EXCEPT ![s] = Shorter(s)]
        /\ started' = [started EXCEPT ![s] = after.started]
        /\ receptionBuffer' = [receptionBuffer EXCEPT ![s] = after.buffer]
        /\ \/ UNCHANGED <<ringVars, subscriptionList>>
           \/ /\ after.command # NoCommand /\ IsSubscription(after.command)
              /\ Subscribe(s, after.command)
           \/ after.command # NoCommand /\ Store(s, after.command)
    BY <1>3 DEF ReadByte, after
  <2>4. Shorter(s) \in Seq(WireFrames)
    BY <1>0, <2>1, ShorterFacts DEF OneByteLess
  <2>5. /\ wire' \in [Sources -> Seq(WireFrames)] /\ wire'[s] = Shorter(s)
        /\ started' \in [Sources -> BOOLEAN] /\ started'[s] = after.started
        /\ receptionBuffer' \in [Sources -> Seq(Byte)] /\ receptionBuffer'[s] = after.buffer
        /\ \A t \in Sources : t # s => /\ wire'[t] = wire[t] /\ started'[t] = started[t]
                                       /\ receptionBuffer'[t] = receptionBuffer[t]
    BY <1>0, <2>2, <2>3, <2>4 DEF ServerTypes
  <2>6. subscriptionList' \in [Sources -> SUBSET (0 .. CHANNEL_MAX_NB - 1)]
    <3>1. CASE UNCHANGED subscriptionList
      BY <3>1 DEF ServerTypes
    <3>2. CASE after.command # NoCommand /\ IsSubscription(after.command) /\ Subscribe(s, after.command)
      <4> DEFINE id == after.command.id
      <4>1. after.command \in Received
        BY <2>2, <3>2
      <4>2. id \in Byte
        BY <4>1 DEF Received
      <4>3. id \in 0 .. CHANNEL_MAX_NB - 1
        BY <3>2, <4>2, ByteFacts, ChannelAssumption DEF IsSubscription
      <4> HIDE DEF id
      <4>4. /\ subscriptionList[s] \cup {id} \in SUBSET (0 .. CHANNEL_MAX_NB - 1)
            /\ subscriptionList[s] \ {id} \in SUBSET (0 .. CHANNEL_MAX_NB - 1)
        BY <1>0, <4>3 DEF ServerTypes
      <4>5. \/ UNCHANGED subscriptionList
            \/ subscriptionList' = [subscriptionList EXCEPT ![s] = subscriptionList[s] \cup {id}]
            \/ subscriptionList' = [subscriptionList EXCEPT ![s] = subscriptionList[s] \ {id}]
        BY <1>0, <3>2 DEF Subscribe, ServerTypes, id
      <4> QED BY <1>0, <4>4, <4>5 DEF ServerTypes
    <3> QED BY <2>3, <3>1, <3>2 DEF Store
  <2>7. ServerTypes'
    <3>1. \A t \in Sources : receptionBuffer'[t] # <<>> => started'[t]
      BY <2>2, <2>5 DEF ServerTypes
    <3> QED BY <1>1, <1>2, <2>5, <2>6, <3>1 DEF ServerTypes, traceVars
  <2>8. RingTypes' /\ PassInv'
    <3>1. UNCHANGED ringVars \/ \E c \in Received : Store(s, c)
      BY <2>2, <2>3 DEF Subscribe
    <3> QED BY <3>1, PassStep
  <2>9. ASSUME NEW t \in clean' PROVE InStep(t)'
    <3>1. t \in clean /\ t \in Sources /\ InStep(t)
      BY <1>2, <2>9 DEF ServerTypes
    <3>2. CASE t # s
      BY <2>5, <3>1, <3>2, SameInStep
    <3>3. CASE t = s
      <4>1. /\ wire'[t] = Shorter(t)
            /\ started'[t] = AfterByte(t, wire[t][1].bytes[1]).started
            /\ receptionBuffer'[t] = AfterByte(t, wire[t][1].bytes[1]).buffer
        BY <2>5, <3>3 DEF after
      <4>2. /\ wire[t] \in Seq(WireFrames) /\ wire[t] # <<>> /\ started[t] \in BOOLEAN
            /\ receptionBuffer[t] \in Seq(Byte) /\ (receptionBuffer[t] # <<>> => started[t])
        BY <1>0, <2>1, <3>3
      <4> QED BY <3>1, <4>1, <4>2, ReadKeepsInStep
    <3> QED BY <3>2, <3>3
  <2> QED BY <2>7, <2>8, <2>9
<1>4. CASE UNCHANGED <<wire, receptionVars, ringVars, subscriptionList>>
  <2>1. ServerTypes'
    BY <1>1, <1>2, <1>4 DEF ServerTypes, receptionVars, traceVars
  <2>2. RingTypes' /\ PassInv'
    BY <1>4, PassStep
  <2>3. \A t \in clean' : InStep(t)'
    BY <1>2, <1>4, SameInStep DEF ServerTypes, receptionVars
  <2> QED BY <2>1, <2>2, <2>3
<1> QED BY <1>3, <1>4 DEF Receive

LEMMA ServerInit == Init => ServerInv
<1> SUFFICES ASSUME Init PROVE ServerInv
  OBVIOUS
<1> USE DEF Init
<1>1. ServerTypes
  <2>1. 0 \in Sources /\ 2 \in 0 .. CHANNEL_MAX_NB - 1
    BY Constants, ChannelAssumption DEF Sources
  <2>2. <<>> \in Seq(WireFrames) /\ <<>> \in Seq(Byte)
    OBVIOUS
  <2> QED BY <2>1, <2>2, BoundAssumption DEF ServerTypes
<1>2. RingTypes /\ PassInv
  BY Constants DEF RingTypes, PassInv
<1>3. \A s \in clean : InStep(s)
  <2>1. ASSUME NEW s \in Sources PROVE wire[s] = <<>> /\ started[s] = FALSE
    OBVIOUS
  <2>2. DOMAIN <<>> = {}
    OBVIOUS
  <2> QED BY <2>1, <2>2 DEF InStep
<1> QED BY <1>1, <1>2, <1>3 DEF ServerInv

LEMMA ServerStep == ServerInv /\ [Next]_vars => ServerInv'
<1> SUFFICES ASSUME ServerInv, [Next]_vars PROVE ServerInv'
  OBVIOUS
<1>1. CASE Connect \/ SendFrame \/ Close
  BY <1>1, ConnectInv, SendFrameInv, CloseInv
<1>2. CASE MainLoop
  BY <1>2, AcceptInv, ReceiveInv, LoopInv, EndOfCommunicateInv, getLastCommandInv DEF MainLoop
<1>3. CASE asynchronous_trace
  BY <1>3, LoopInv
<1>4. CASE UNCHANGED vars
  <2>1. ServerTypes'
    BY <1>4 DEF ServerInv, ServerTypes, vars, loopVars, clientVars, serverVars, receptionVars, traceVars
  <2>2. RingTypes' /\ PassInv'
    BY <1>4, SameRing DEF ServerInv, vars, loopVars
  <2>3. \A s \in clean' : InStep(s)'
    BY <1>4, SameInStep DEF ServerInv, ServerTypes, vars, clientVars, receptionVars
  <2> QED BY <2>1, <2>2, <2>3 DEF ServerInv
<1> QED BY <1>1, <1>2, <1>3, <1>4 DEF Next

LEMMA ServerInvHolds == Spec => []ServerInv
BY ServerInit, ServerStep, PTL DEF Spec

\* The variables of the server keep their types, whatever bytes arrive: the channels subscribed
\* to exist and the indices stay in the ring (CommunicationServer.communicate).
THEOREM TypeCorrect == Spec => []TypeOK
<1>1. ServerInv => TypeOK
  <2> SUFFICES ASSUME ServerInv PROVE TypeOK
    OBVIOUS
  <2>1. DOMAIN ring = 0 .. COMMAND_BUFFER_SIZE - 1
    BY DEF ServerInv, RingTypes
  <2> QED BY <2>1 DEF ServerInv, ServerTypes, RingTypes, TypeOK
<1> QED BY <1>1, ServerInvHolds, PTL

\* Frames are read as they were written: the last byte of a frame gives its command, whatever
\* its data and however the bytes of the sources are mixed (CommandReceptionHandler.addByte).
THEOREM FramesReadHolds == Spec => []FramesRead
<1>1. ServerInv => FramesRead
  <2> SUFFICES ASSUME ServerInv, NEW s \in clean, wire[s] # <<>>
               PROVE  AfterByte(s, wire[s][1].bytes[1]).command =
                        IF Len(wire[s][1].bytes) = 1 THEN wire[s][1].command ELSE NoCommand
    BY DEF FramesRead
  <2> QED BY ReadInStep DEF ServerInv, ServerTypes
<1> QED BY <1>1, ServerInvHolds, PTL

\* The ring only refuses a command of the serial line, once each socket has one in it, for any
\* number of sockets (processOrAddCommandToBuffer).
THEOREM RefusesLastHolds == Spec => []RefusesLast
<1>1. ServerInv => RefusesLast
  <2> SUFFICES ASSUME ServerInv, pc = "receive", source # 0, ~HasRoom
               PROVE  /\ source = Serial
                      /\ \A t \in Sockets : \E i \in DOMAIN ring : ring[i].source = t
    BY DEF RefusesLast
  <2> USE DEF ServerInv
  <2>1. available \in 0 .. MAX_SOCK_NUM /\ source \in 0 .. MAX_SOCK_NUM /\ available <= source
    BY AvailableType DEF ServerTypes, Sources, PassInv
  <2>2. available = MAX_SOCK_NUM /\ source = Serial
    BY <2>1, Constants DEF HasRoom, Serial
  <2>3. ASSUME NEW t \in Sockets PROVE \E i \in DOMAIN ring : ring[i].source = t
    <3>1. ring[Slot(t)].source = t
      BY <2>2 DEF PassInv, Serial, Sockets
    <3>2. Slot(t) \in 0 .. COMMAND_BUFFER_SIZE - 1
      BY Constants DEF RingTypes, Slot, Sockets
    <3> QED BY <3>1, <3>2 DEF RingTypes
  <2> QED BY <2>2, <2>3
<1> QED BY <1>1, ServerInvHolds, PTL

-----------------------------------------------------------------------------
(* The order of the ring                                                   *)

\* The sources of the ring follow one another, those of this pass before the one that is read.
InTurn ==
  /\ \A i \in 0 .. available - 1 :
       /\ ring[Slot(i)].source \in Sources
       /\ pc = "receive" /\ source # 0 => ring[Slot(i)].source < source
  /\ \A i, j \in 0 .. available - 1 : i < j => ring[Slot(i)].source < ring[Slot(j)].source

LEMMA ReceiveStores ==
  ASSUME ServerInv, Receive
  PROVE  UNCHANGED ringVars \/ \E c \in Received : Store(source, c)
<1> DEFINE s == source
           b == wire[s][1].bytes[1]
           after == AfterByte(s, b)
<1>1. CASE ~ReadByte(s)
  BY <1>1 DEF Receive, ringVars
<1>2. CASE Readable(s) /\ ReadByte(s)
  <2>1. /\ s \in Sources /\ wire[s] \in Seq(WireFrames) /\ started[s] \in BOOLEAN
        /\ receptionBuffer[s] \in Seq(Byte) /\ wire[s] # <<>>
    BY <1>2 DEF ServerInv, ServerTypes, Readable
  <2>2. b \in Byte
    BY <2>1, FirstFrame
  <2>3. after.command \in Received \cup {NoCommand}
    BY <2>1, <2>2, AfterByteType
  <2>4. UNCHANGED ringVars \/ (after.command # NoCommand /\ Store(s, after.command))
    <3>1. \/ UNCHANGED <<ringVars, subscriptionList>>
          \/ /\ after.command # NoCommand /\ IsSubscription(after.command)
             /\ Subscribe(s, after.command)
          \/ after.command # NoCommand /\ Store(s, after.command)
      BY <1>2 DEF ReadByte
    <3> HIDE DEF after
    <3> QED BY <3>1 DEF Subscribe
  <2> QED BY <2>3, <2>4
<1> QED BY <1>1, <1>2 DEF Receive

LEMMA TurnInit == Init => InTurn
BY Constants DEF Init, InTurn, available

LEMMA TurnSame ==
  ASSUME InTurn, source \in Nat, UNCHANGED ringVars,
         \/ UNCHANGED <<pc, source>>
         \/ pc' # "receive" \/ source' = 0
         \/ pc = "receive" /\ source # 0 /\ source' = source + 1
         \/ available = 0
  PROVE  InTurn'
<1>1. available' = available /\ ring' = ring /\ \A i : Slot(i)' = Slot(i)
  BY DEF ringVars, available, Slot
<1>2. ASSUME NEW i \in 0 .. available - 1
      PROVE  /\ ring[Slot(i)].source \in Sources
             /\ pc' = "receive" /\ source' # 0 => ring[Slot(i)].source < source'
  <2>1. ring[Slot(i)].source \in Sources
    BY <1>2 DEF InTurn
  <2>2. CASE pc = "receive" /\ source # 0 /\ source' = source + 1
    <3>1. ring[Slot(i)].source < source
      BY <1>2, <2>2 DEF InTurn
    <3> QED BY <2>1, <2>2, <3>1, Constants DEF Sources
  <2>3. CASE available = 0
    BY <1>2, <2>3
  <2>4. CASE UNCHANGED <<pc, source>>
    BY <1>2, <2>1, <2>4 DEF InTurn
  <2> QED BY <2>1, <2>2, <2>3, <2>4
<1>3. \A i, j \in 0 .. available - 1 : i < j => ring[Slot(i)].source < ring[Slot(j)].source
  BY DEF InTurn
<1> QED BY <1>1, <1>2, <1>3 DEF InTurn

LEMMA TurnReceive ==
  ASSUME ServerInv, InTurn, Receive
  PROVE  InTurn'
<1>1. source \in Nat /\ source \in Sources /\ RingTypes /\ available \in Nat
  BY AvailableType, Constants DEF ServerInv, ServerTypes, Sources
<1>2. pc = "receive" /\ (source = 0 => available = 0)
  BY <1>1, Constants DEF Receive
<1>3. source' = source + 1 \/ source' = 0
  BY DEF Receive, NextSource
<1>4. CASE UNCHANGED ringVars
  <2>1. CASE source = 0
    BY <1>1, <1>2, <1>4, <2>1, TurnSame
  <2>2. CASE source # 0
    BY <1>1, <1>2, <1>3, <1>4, <2>2, TurnSame
  <2> QED BY <2>1, <2>2
<1>5. ASSUME NEW n \in Nat, n = available, available' = n + 1, ring'[Slot(n)].source = source,
             cBufferTail' = cBufferTail, \A t \in 0 .. n - 1 : ring'[Slot(t)] = ring[Slot(t)]
      PROVE  InTurn'
  <2>1. \A t : Slot(t)' = Slot(t)
    BY <1>5 DEF Slot
  <2>2. \A i \in 0 .. n - 1 : /\ ring'[Slot(i)].source \in Sources
                              /\ ring'[Slot(i)].source < source
    BY <1>2, <1>5 DEF InTurn
  <2>3. \A i, j \in 0 .. n - 1 : i < j => ring'[Slot(i)].source < ring'[Slot(j)].source
    BY <1>5 DEF InTurn
  <2>4. \A i \in 0 .. n : i \in 0 .. n - 1 \/ i = n
    BY <1>5
  <2>5. \A i \in 0 .. n : ring'[Slot(i)].source \in Sources
    BY <1>1, <1>5, <2>2, <2>4
  <2>6. ASSUME source' # 0, NEW i \in 0 .. n PROVE ring'[Slot(i)].source < source'
    <3>1. source' = source + 1
      BY <1>3, <2>6
    <3>2. CASE i = n
      BY <1>1, <1>5, <3>1, <3>2
    <3>3. CASE i \in 0 .. n - 1
      <4>1. ring'[Slot(i)].source < source /\ ring'[Slot(i)].source \in Nat
        BY <2>2, <3>3, Constants DEF Sources
      <4> QED BY <1>1, <3>1, <4>1
    <3> QED BY <2>4, <3>2, <3>3
  <2>7. ASSUME NEW i \in 0 .. n, NEW j \in 0 .. n, i < j
        PROVE  ring'[Slot(i)].source < ring'[Slot(j)].source
    <3>1. i \in 0 .. n - 1
      BY <1>5, <2>7
    <3>2. CASE j = n
      BY <1>5, <2>2, <3>1, <3>2
    <3>3. CASE j \in 0 .. n - 1
      BY <2>3, <2>7, <3>1, <3>3
    <3> QED BY <2>4, <3>2, <3>3
  <2>8. 0 .. available' - 1 = 0 .. n
    BY <1>5
  <2> QED BY <2>1, <2>5, <2>6, <2>7, <2>8 DEF InTurn
<1>6. CASE available' = available /\ \E c \in Received : Store(source, c)
  <2>1. UNCHANGED ringVars
    <3>1. ~HasRoom
      BY <1>1, <1>6, RingStore DEF Store
    <3> QED BY <1>6, <3>1 DEF Store, ringVars
  <2> QED BY <1>4, <2>1
<1> QED BY <1>1, <1>4, <1>5, <1>6, ReceiveStores, ReadRing

LEMMA TurnPop ==
  ASSUME ServerInv, InTurn, getLastCommand
  PROVE  InTurn'
<1> DEFINE N == COMMAND_BUFFER_SIZE
           head == cBufferHead
           tail == cBufferTail
<1>1. /\ N \in Nat /\ N = MAX_SOCK_NUM + 1 /\ MAX_SOCK_NUM \in Nat \ {0}
      /\ head \in 0 .. N - 1 /\ tail \in 0 .. N - 1
  BY Constants, SizeAssumption DEF ServerInv, RingTypes
<1>2. available = IF head >= tail THEN head - tail ELSE N + head - tail
  BY DEF available
<1>3. available' = IF head' >= tail' THEN head' - tail' ELSE N + head' - tail'
  BY DEF available
<1>4. /\ head' = head /\ tail' = IF tail + 1 = N THEN 0 ELSE tail + 1
      /\ available > 0
  BY DEF getLastCommand, Following
<1>5. \A i : Slot(i) = IF tail + i >= N THEN tail + i - N ELSE tail + i
  BY DEF Slot
<1>6. \A i : Slot(i)' = IF tail' + i >= N THEN tail' + i - N ELSE tail' + i
  BY DEF Slot
<1>7. ring' = [ring EXCEPT ![tail] = NoRingEntry] /\ pc = "orders" /\ pc' = "orders"
  BY DEF getLastCommand, loopVars
<1>8. \A i \in 0 .. N - 1 : i # tail => ring'[i] = ring[i]
  BY <1>7 DEF ServerInv, RingTypes
<1> HIDE DEF head, tail, N
<1>9. available \in 1 .. N - 1 /\ available' = available - 1
  BY <1>1, <1>2, <1>3, <1>4
<1>10. ASSUME NEW i \in 0 .. available' - 1
       PROVE  i + 1 \in 0 .. available - 1 /\ ring'[Slot(i)'] = ring[Slot(i + 1)]
  <2>1. i \in Nat /\ i + 1 <= available - 1 /\ i + 1 < N
    BY <1>1, <1>9, <1>10
  <2>2. Slot(i)' = Slot(i + 1) /\ Slot(i + 1) \in 0 .. N - 1 /\ Slot(i + 1) # tail
    BY <1>1, <1>4, <1>5, <1>6, <2>1
  <2> QED BY <1>8, <1>9, <2>1, <2>2
<1> QED BY <1>7, <1>9, <1>10 DEF InTurn

LEMMA TurnStep == ServerInv /\ InTurn /\ [Next]_vars => InTurn'
<1> SUFFICES ASSUME ServerInv, InTurn, [Next]_vars PROVE InTurn'
  OBVIOUS
<1>1. CASE Receive
  BY <1>1, TurnReceive
<1>2. CASE getLastCommand
  BY <1>2, TurnPop
<1>3. CASE /\ UNCHANGED ringVars
           /\ UNCHANGED <<pc, source>> \/ pc' # "receive" \/ source' = 0
  <2>1. source \in Nat
    BY Constants DEF ServerInv, ServerTypes, Sources
  <2> QED BY <1>3, <2>1, TurnSame
<1> QED BY <1>1, <1>2, <1>3
        DEF Next, MainLoop, Accept, ReceptionSuspended, Swap, SendTraces, EndOfCommunicate,
            Connect, SendFrame, Close, asynchronous_trace, loopVars, vars

\* The commands of the ring stand in the order of their sources, and no source ever has two there:
\* with FramesRead, each source has its commands executed in the order they were sent, for any
\* number of sockets (CommunicationServer.communicate, processOrAddCommandToBuffer).
THEOREM InTurnHolds == Spec => []InTurn
BY TurnInit, TurnStep, ServerInvHolds, PTL DEF Spec

=============================================================================
