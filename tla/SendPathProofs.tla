--------------------------- MODULE SendPathProofs ---------------------------
(***************************************************************************)
(* Theorems about SendPath for any senders, messages, packet length and    *)
(* room in the kernel: the buffered copy of what is sent leaves in order,  *)
(* and epoll is asked for EPOLLOUT exactly while some of it waits.         *)
(***************************************************************************)
EXTENDS SendPath, SequenceLemmas

(* A packet is a sequence of Length bytes, and not empty.                  *)
LEMMA PacketIsBytes ==
  ASSUME NEW s \in Senders, NEW k \in 1 .. Messages
  PROVE  /\ Packet(s, k) \in Seq(Byte)
         /\ Len(Packet(s, k)) = Length
         /\ Packet(s, k) # <<>>
<1>1. Length \in Nat \ {0}
  BY LengthAssumption
<1>2. Packet(s, k) \in [1 .. Length -> Byte]
  BY DEF Packet, Byte
<1>3. Packet(s, k) \in Seq(Byte) /\ Len(Packet(s, k)) = Length
  BY <1>1, <1>2, LenProperties
<1> QED
  BY <1>1, <1>3, EmptySeq

(* The kernel takes no more than it is offered and than it has room for.   *)
LEMMA AcceptsBounds ==
  ASSUME NEW n \in Nat, unread \in 0 .. Room
  PROVE  Accepts(n) \in 0 .. n /\ unread + Accepts(n) \in 0 .. Room
BY RoomAssumption DEF Accepts, Minimum

-----------------------------------------------------------------------------
(* Types.                                                                  *)

(* Send, and the writes of the loop, keep the types.                       *)
LEMMA TypeStep == TypeOK /\ [Next]_vars => TypeOK'
<1> SUFFICES ASSUME TypeOK, [Next]_vars PROVE TypeOK'
  OBVIOUS
<1> USE DEF TypeOK, data
<1>1. ASSUME NEW s \in Senders, Send(s) PROVE TypeOK'
  <2> DEFINE packet == Packet(s, sends[s] + 1)
             n      == IF Broken THEN 0 ELSE Accepts(Len(packet))
  <2>1. sends[s] + 1 \in 1 .. Messages
    BY <1>1, MessagesAssumption DEF Send
  <2>2. packet \in Seq(Byte) /\ Len(packet) \in Nat
    BY <2>1, PacketIsBytes, LengthAssumption
  <2>3. n \in 0 .. Len(packet) /\ unread + n \in 0 .. Room
    <3>1. CASE Broken
      BY <2>2, <3>1, RoomAssumption
    <3>2. CASE ~Broken
      BY <2>2, <3>2, AcceptsBounds
    <3> QED
      BY <3>1, <3>2
  <2>4. Prefix(packet, n) \in Seq(Byte)
    BY <2>2, <2>3, CutAt DEF Prefix
  <2> HIDE DEF packet, n
  <2>5. /\ sends' = [sends EXCEPT ![s] = @ + 1] /\ unread' = unread + n
        /\ writeBuffer' = writeBuffer \o packet /\ queued' = queued \o packet
        /\ wire' = wire \o Prefix(packet, n)
        /\ interest' \in {interest, "inout"}
        /\ alive' \in BOOLEAN /\ client' \in {client, "broken"}
        /\ UNCHANGED <<loop, outReady, conn, flushed>>
    BY <1>1 DEF Send, WriteOnBroken, InterestAfterSend, packet, n
  <2>6. /\ writeBuffer' \in Seq(Byte) /\ queued' \in Seq(Byte) /\ wire' \in Seq(Byte)
    BY <2>2, <2>4, <2>5, ConcatProperties
  <2> QED
    BY <2>1, <2>3, <2>5, <2>6
<1>2. CASE EpollWait \/ ReadEnds \/ WriteBlocked \/ Destroy \/ ClientCloses \/ ResetArrives
  BY <1>2 DEF EpollWait, OutReported, ReadEnds, WriteBlocked, Destroy, ClientCloses, ResetArrives
<1>3. CASE WriteFails
  BY <1>3 DEF WriteFails, WriteOnBroken
<1>4. CASE ClientReads
  BY <1>4, RoomAssumption DEF ClientReads
<1>5. CASE WriteSome
  <2> DEFINE n == Accepts(Len(writeBuffer))
  <2>1. n \in 0 .. Len(writeBuffer) /\ unread + n \in 0 .. Room
    BY AcceptsBounds, LenProperties
  <2>2. Prefix(writeBuffer, n) \in Seq(Byte) /\ LeftAfterWrite(n) \in Seq(Byte)
    BY <2>1, CutAt DEF Prefix, LeftAfterWrite
  <2> HIDE DEF n
  <2>3. /\ writeBuffer' = LeftAfterWrite(n) /\ unread' = unread + n
        /\ flushed' = flushed \o Prefix(writeBuffer, n)
        /\ wire' = wire \o Prefix(writeBuffer, n)
        /\ interest' \in {interest, "in"} /\ loop' = "polling"
        /\ UNCHANGED <<sends, queued, outReady, client, conn, alive>>
    BY <1>5 DEF WriteSome, InterestAfterWrite, n
  <2>4. flushed' \in Seq(Byte) /\ wire' \in Seq(Byte)
    BY <2>2, <2>3, ConcatProperties
  <2> QED
    BY <2>1, <2>2, <2>3, <2>4
<1>6. CASE UNCHANGED vars
  BY <1>6 DEF vars
<1> QED
  BY <1>1, <1>2, <1>3, <1>4, <1>5, <1>6 DEF Next, LoopStep

(* Every variable keeps its type; in particular no write takes more than   *)
(* the kernel has room for.                                                *)
THEOREM TypeCorrect == Spec => []TypeOK
<1>1. Init => TypeOK
  <2>1. <<>> \in Seq(Byte) /\ 0 \in 0 .. Messages /\ 0 \in 0 .. Room
    BY EmptySeq, MessagesAssumption, RoomAssumption
  <2> QED
    BY <2>1 DEF Init, TypeOK
<1> QED
  BY <1>1, TypeStep, PTL DEF Spec

-----------------------------------------------------------------------------
(* What Send and Write make of the buffer.                                 *)

\* A step leaves the buffer and what goes with it alone.
Untouched == UNCHANGED <<writeBuffer, interest, queued, flushed>>

(* Only Send and a successful Write touch the buffer.                      *)
LEMMA OthersLeaveBuffer ==
  [Next]_vars => Untouched \/ WriteSome \/ \E s \in Senders : Send(s)
BY DEF Next, LoopStep, EpollWait, ReadEnds, WriteBlocked, WriteFails, Destroy,
       ClientReads, ClientCloses, ResetArrives, Untouched, vars, data

(* Interest and buffer change together: Send fills the buffer and sees to  *)
(* it that epoll watches, Write takes the interest back with the last byte.*)
LEMMA InterestStep ==
  TypeOK /\ InterestMatchesBuffer /\ [Next]_vars => InterestMatchesBuffer'
<1> SUFFICES ASSUME TypeOK, InterestMatchesBuffer, [Next]_vars PROVE InterestMatchesBuffer'
  OBVIOUS
<1> USE DEF InterestMatchesBuffer
<1>1. CASE Untouched
  BY <1>1 DEF Untouched
<1>2. ASSUME NEW s \in Senders, Send(s) PROVE InterestMatchesBuffer'
  <2>1. PICK packet \in Seq(Byte) : packet # <<>> /\ writeBuffer' = writeBuffer \o packet
    <3>1. sends[s] + 1 \in 1 .. Messages
      BY <1>2, MessagesAssumption DEF Send, TypeOK
    <3> QED
      BY <1>2, <3>1, PacketIsBytes DEF Send
  <2>2. writeBuffer' # <<>>
    BY <2>1, ConcatProperties, EmptySeq, LenProperties DEF TypeOK
  <2>3. interest' = "inout"
    BY <1>2 DEF Send, InterestAfterSend, TypeOK
  <2> QED
    BY <2>2, <2>3
<1>3. CASE WriteSome
  <2>1. writeBuffer # <<>>
    <3>1. Accepts(Len(writeBuffer)) > 0 /\ Accepts(Len(writeBuffer)) \in 0 .. Len(writeBuffer)
      BY <1>3, AcceptsBounds, LenProperties DEF WriteSome, TypeOK
    <3> QED
      BY <3>1, EmptySeq
  <2>2. interest = "inout" /\ interest' = IF writeBuffer' = <<>> THEN "in" ELSE interest
    BY <1>3, <2>1 DEF WriteSome, InterestAfterWrite, TypeOK
  <2> QED
    BY <2>2
<1> QED
  BY <1>1, <1>2, <1>3, OthersLeaveBuffer

(* Send appends to both sides, Write moves a prefix from one part to the   *)
(* other.                                                                  *)
LEMMA FlushStep ==
  TypeOK /\ FlushedInOrder /\ [Next]_vars => FlushedInOrder'
<1> SUFFICES ASSUME TypeOK, FlushedInOrder, [Next]_vars PROVE FlushedInOrder'
  OBVIOUS
<1> USE DEF FlushedInOrder
<1>1. CASE Untouched
  BY <1>1 DEF Untouched
<1>2. ASSUME NEW s \in Senders, Send(s) PROVE FlushedInOrder'
  <2>1. PICK packet \in Seq(Byte) : /\ writeBuffer' = writeBuffer \o packet
                                    /\ queued' = queued \o packet
    <3>1. sends[s] + 1 \in 1 .. Messages
      BY <1>2, MessagesAssumption DEF Send, TypeOK
    <3> QED
      BY <1>2, <3>1, PacketIsBytes DEF Send
  <2>2. UNCHANGED flushed
    BY <1>2 DEF Send
  <2> QED
    <3>1. flushed \in Seq(Byte) /\ writeBuffer \in Seq(Byte)
      BY DEF TypeOK
    <3>2. (flushed \o writeBuffer) \o packet = flushed \o (writeBuffer \o packet)
      BY <3>1, ConcatAssociative
    <3> QED
      BY <2>1, <2>2, <3>2
<1>3. CASE WriteSome
  <2> DEFINE n == Accepts(Len(writeBuffer))
  <2>1. n \in 0 .. Len(writeBuffer) /\ writeBuffer \in Seq(Byte) /\ flushed \in Seq(Byte)
    BY AcceptsBounds, LenProperties DEF TypeOK
  <2>2. /\ Prefix(writeBuffer, n) \in Seq(Byte) /\ LeftAfterWrite(n) \in Seq(Byte)
        /\ Prefix(writeBuffer, n) \o LeftAfterWrite(n) = writeBuffer
    BY <2>1, CutAt DEF Prefix, LeftAfterWrite
  <2>3. /\ writeBuffer' = LeftAfterWrite(n) /\ UNCHANGED queued
        /\ flushed' = flushed \o Prefix(writeBuffer, n)
    BY <1>3 DEF WriteSome
  <2> HIDE DEF n
  <2>4. PICK part \in Seq(Byte), rest \in Seq(Byte) :
          /\ part \o rest = writeBuffer /\ writeBuffer' = rest /\ flushed' = flushed \o part
    BY <2>2, <2>3
  <2>5. (flushed \o part) \o rest = flushed \o (part \o rest)
    BY <2>1, ConcatAssociative
  <2> QED
    BY <2>3, <2>4, <2>5
<1> QED
  BY <1>1, <1>2, <1>3, OthersLeaveBuffer

(* EPOLLOUT is watched exactly while bytes wait, whatever workers and loop *)
(* do in between: nothing waits unseen and the loop does not spin.         *)
THEOREM InterestIsRight == Spec => []InterestMatchesBuffer
<1>1. Init => InterestMatchesBuffer
  BY DEF Init, InterestMatchesBuffer
<1> QED
  BY <1>1, TypeCorrect, InterestStep, PTL DEF Spec

(* The bytes that Write has taken, and those that still wait, are those    *)
(* that Send has queued, in this order.                                    *)
THEOREM FlushesInOrder == Spec => []FlushedInOrder
<1>1. Init => FlushedInOrder
  BY ConcatEmptySeq, EmptySeq DEF Init, FlushedInOrder
<1> QED
  BY <1>1, TypeCorrect, FlushStep, PTL DEF Spec
=============================================================================
