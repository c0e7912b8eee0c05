------------------------- MODULE ReceivePathProofs --------------------------
(***************************************************************************)
(* Theorems about ReceivePath for any messages, header length and size of  *)
(* the chunks in which Read empties the kernel's queue: what the business  *)
(* code gets are the client's messages, whole and in order.                *)
(*                                                                         *)
(* The stream of the client is a recursive function.  That its equation    *)
(* has a solution, and what holds of each of its values, is shown by the   *)
(* least number that would be an exception.                                *)
(***************************************************************************)
EXTENDS ReceivePath, SequenceLemmas, WellFoundedInduction

-----------------------------------------------------------------------------
(* The least number of a set.                                              *)

Less == {p \in Nat \X Nat : p[1] < p[2]}

(* A set of natural numbers that is not empty has a least element.         *)
LEMMA LeastElement ==
  ASSUME NEW T \in SUBSET Nat, T # {}
  PROVE  \E n \in T : \A m \in 0 .. n - 1 : m \notin T
<1>1. IsWellFoundedOn(Less, Nat)
  BY NatLessThanWellFounded DEF Less, OpToRel
<1>2. PICK n \in T : \A m \in T : ~(<<m, n>> \in Less)
  BY <1>1, WFMin
<1>3. ASSUME NEW m \in 0 .. n - 1, m \in T PROVE FALSE
  <2>1. m \in Nat /\ n \in Nat /\ m < n
    BY <1>3
  <2>2. <<m, n>> \in Less
    BY <2>1 DEF Less
  <2> QED
    BY <1>2, <1>3, <2>2
<1> QED
  BY <1>3

-----------------------------------------------------------------------------
(* The stream.                                                             *)

(* The bytes of a message: a sequence that begins with its number.         *)
LEMMA BytesProperties ==
  ASSUME NEW m \in 1 .. Count
  PROVE  /\ Bytes(m) \in Seq(Byte)
         /\ Len(Bytes(m)) = HeaderLen + Body[m]
         /\ Len(Bytes(m)) \in Nat \ {0}
         /\ Bytes(m)[1] = <<m, 1>>
<1>1. Body[m] \in Nat /\ HeaderLen \in Nat \ {0}
  BY BodyAssumption, HeaderLenAssumption, ElementOfSeq DEF Count
<1>2. HeaderLen + Body[m] \in Nat \ {0}
  BY <1>1
<1>3. Bytes(m) \in [1 .. HeaderLen + Body[m] -> Byte]
  <2>1. DOMAIN Bytes(m) = 1 .. HeaderLen + Body[m]
    BY DEF Bytes
  <2>2. \A i \in DOMAIN Bytes(m) : Bytes(m)[i] \in Byte
    BY DEF Byte
  <2>3. Bytes(m) = [i \in DOMAIN Bytes(m) |-> Bytes(m)[i]]
    BY DEF Bytes
  <2> QED
    BY <2>1, <2>2, <2>3
<1>4. Bytes(m) \in Seq(Byte) /\ Len(Bytes(m)) = HeaderLen + Body[m]
  BY <1>2, <1>3
<1>5. Bytes(m)[1] = <<m, 1>>
  <2>1. 1 \in 1 .. HeaderLen + Body[m]
    BY <1>1, <1>2
  <2> QED
    BY <2>1 DEF Bytes
<1> QED
  BY <1>2, <1>4, <1>5

\* f solves the equation of Stream up to n.
Solves(f, n) == f = [m \in 0 .. n |-> IF m = 0 THEN <<>> ELSE f[m - 1] \o Bytes(m)]

(* The equation of Stream has a solution on every initial interval.        *)
LEMMA StreamExists == \A n \in Nat : \E f : Solves(f, n)
<1> DEFINE T == {n \in Nat : ~\E f : Solves(f, n)}
<1>1. SUFFICES ASSUME T # {} PROVE FALSE
  OBVIOUS
<1>2. PICK n \in T : \A m \in 0 .. n - 1 : m \notin T
  BY <1>1, LeastElement
<1>3. CASE n = 0
  <2> DEFINE g == [m \in 0 .. 0 |-> <<>>]
  <2>1. Solves(g, 0)
    BY DEF Solves
  <2> QED
    BY <1>2, <1>3, <2>1
<1>4. CASE n # 0
  <2>1. n - 1 \in Nat /\ n - 1 \in 0 .. n - 1
    BY <1>2, <1>4
  <2>2. PICK f : Solves(f, n - 1)
    BY <1>2, <2>1
  <2> DEFINE g == [m \in 0 .. n |-> IF m = n THEN f[n - 1] \o Bytes(n) ELSE f[m]]
  <2>3. ASSUME NEW m \in 0 .. n
        PROVE  g[m] = IF m = 0 THEN <<>> ELSE g[m - 1] \o Bytes(m)
    <3>1. CASE m = n
      <4>1. m # 0 /\ m - 1 \in 0 .. n /\ m - 1 # n
        BY <1>4, <2>1, <3>1
      <4> QED
        BY <3>1, <4>1
    <3>2. CASE m # n
      <4>1. m \in 0 .. n - 1
        BY <2>1, <3>2
      <4>2. f[m] = IF m = 0 THEN <<>> ELSE f[m - 1] \o Bytes(m)
        BY <2>2, <4>1 DEF Solves
      <4>3. g[m] = f[m] /\ (m # 0 => g[m - 1] = f[m - 1])
        BY <2>1, <3>2
      <4> QED
        BY <4>2, <4>3
    <3> QED
      BY <3>1, <3>2
  <2> HIDE DEF g
  <2>4. g = [m \in 0 .. n |-> g[m]]
    BY DEF g
  <2>5. Solves(g, n)
    BY <2>3, <2>4 DEF Solves
  <2> QED
    BY <1>2, <2>5
<1> QED
  BY <1>3, <1>4

(* Stream is empty at first and grows by one message at a time.            *)
LEMMA StreamEquation ==
  /\ Stream[0] = <<>>
  /\ \A m \in 1 .. Count : Stream[m] = Stream[m - 1] \o Bytes(m)
<1>1. Count \in Nat
  BY BodyAssumption, LenProperties DEF Count
<1>2. Solves(Stream, Count)
  <2>1. \E f : Solves(f, Count)
    BY <1>1, StreamExists
  <2> QED
    BY <2>1 DEF Solves, Stream
<1>3. ASSUME NEW m \in 0 .. Count
      PROVE  Stream[m] = IF m = 0 THEN <<>> ELSE Stream[m - 1] \o Bytes(m)
  BY <1>2 DEF Solves
<1>4. 0 \in 0 .. Count /\ \A m \in 1 .. Count : m \in 0 .. Count /\ m # 0
  BY <1>1
<1> QED
  BY <1>3, <1>4

(* Each value of Stream is a sequence of bytes.                            *)
LEMMA StreamType == \A m \in 0 .. Count : Stream[m] \in Seq(Byte)
<1> DEFINE T == {m \in 0 .. Count : Stream[m] \notin Seq(Byte)}
<1>0. Count \in Nat
  BY BodyAssumption, LenProperties DEF Count
<1>1. SUFFICES ASSUME T # {} PROVE FALSE
  OBVIOUS
<1>2. PICK n \in T : \A m \in 0 .. n - 1 : m \notin T
  <2>1. T \in SUBSET Nat
    BY <1>0
  <2> QED
    BY <1>1, <2>1, LeastElement
<1>3. n # 0
  BY <1>2, StreamEquation, EmptySeq
<1>4. n \in 1 .. Count /\ n - 1 \in 0 .. n - 1 /\ n - 1 \in 0 .. Count
  BY <1>0, <1>2, <1>3
<1>5. Stream[n - 1] \in Seq(Byte) /\ Bytes(n) \in Seq(Byte)
  BY <1>2, <1>4, BytesProperties
<1>6. Stream[n] \in Seq(Byte)
  BY <1>4, <1>5, StreamEquation, ConcatProperties
<1> QED
  BY <1>2, <1>6

(* The stream of the first messages is the beginning of that of more.      *)
LEMMA StreamPrefix ==
  ASSUME NEW j \in 0 .. Count, NEW k \in j .. Count
  PROVE  \E rest \in Seq(Byte) : Stream[k] = Stream[j] \o rest
<1> DEFINE T == {m \in j .. Count : ~\E rest \in Seq(Byte) : Stream[m] = Stream[j] \o rest}
<1>0. Count \in Nat /\ j \in Nat
  BY BodyAssumption, LenProperties DEF Count
<1>1. SUFFICES ASSUME T # {} PROVE FALSE
  OBVIOUS
<1>2. PICK n \in T : \A m \in 0 .. n - 1 : m \notin T
  <2>1. T \in SUBSET Nat
    BY <1>0
  <2> QED
    BY <1>1, <2>1, LeastElement
<1>3. n # j
  BY <1>0, <1>2, StreamType, ConcatEmptySeq, EmptySeq
<1>4. n \in 1 .. Count /\ n - 1 \in 0 .. n - 1 /\ n - 1 \in j .. Count
  BY <1>0, <1>2, <1>3
<1>5. PICK rest \in Seq(Byte) : Stream[n - 1] = Stream[j] \o rest
  BY <1>2, <1>4
<1>6. /\ Bytes(n) \in Seq(Byte) /\ Stream[j] \in Seq(Byte)
      /\ rest \o Bytes(n) \in Seq(Byte)
  BY <1>4, <1>5, BytesProperties, StreamType, ConcatProperties
<1>7. Stream[n] = (Stream[j] \o rest) \o Bytes(n)
  BY <1>4, <1>5, StreamEquation
<1>8. Stream[n] = Stream[j] \o (rest \o Bytes(n))
  <2>1. \A s, t, u \in Seq(Byte) : (s \o t) \o u = s \o (t \o u)
    BY ConcatAssociative
  <2> QED
    BY <1>6, <1>7, <2>1
<1> QED
  BY <1>2, <1>6, <1>8

(* Lengths.                                                                *)
LEMMA StreamLengths ==
  ASSUME NEW j \in 0 .. Count, NEW k \in j .. Count
  PROVE  Len(Stream[j]) \in Nat /\ Len(Stream[k]) \in Nat /\ Len(Stream[j]) <= Len(Stream[k])
<1>0. Count \in Nat /\ k \in 0 .. Count
  BY BodyAssumption, LenProperties DEF Count
<1>1. PICK rest \in Seq(Byte) : Stream[k] = Stream[j] \o rest
  BY StreamPrefix
<1>2. Stream[j] \in Seq(Byte) /\ Stream[k] \in Seq(Byte)
  BY <1>0, StreamType
<1> QED
  BY <1>1, <1>2, LenProperties, ConcatProperties

-----------------------------------------------------------------------------
(* What has arrived: as many bytes as counted, those of the stream.        *)
LEMMA ArrivedProperties ==
  ASSUME TypeOK
  PROVE  /\ Arrived \in Seq(Byte)
         /\ Len(Arrived) = sent
         /\ \A i \in 1 .. sent : Arrived[i] = Stream[Count][i]
<1>1. Count \in 0 .. Count
  BY BodyAssumption, LenProperties DEF Count
<1>2. Stream[Count] \in Seq(Byte) /\ sent \in 0 .. Len(Stream[Count])
  BY <1>1, StreamType DEF TypeOK
<1> QED
  BY <1>2, CutAt DEF Arrived

-----------------------------------------------------------------------------
(* The steps.                                                              *)

\* The frame at the front of the buffer: what ParseMessage relies on.
Handled == Len(handled)

(* As long as the bytes handled, buffered and queued are those that have   *)
(* arrived, a buffer that is not empty begins with the next message, as    *)
(* far as it goes, and that message exists.                                *)
LEMMA FrontOfBuffer ==
  ASSUME TypeOK, HandledIntact, buffer # <<>>
  PROVE  /\ Handled + 1 \in 1 .. Count
         /\ buffer[1] = <<Handled + 1, 1>>
         /\ \A i \in 1 .. Len(buffer) :
              i <= Len(Bytes(Handled + 1)) => buffer[i] = Bytes(Handled + 1)[i]
<1> DEFINE k == Handled
           a == Stream[k]
<1>1. Count \in Nat /\ k \in 0 .. Count /\ Count \in k .. Count
  BY BodyAssumption, LenProperties DEF Count, HandledIntact, TypeOK, Handled
<1>2. /\ a \in Seq(Byte) /\ buffer \in Seq(Byte) /\ inbox \in Seq(Byte)
      /\ Stream[Count] \in Seq(Byte)
  BY <1>1, StreamType DEF TypeOK
<1>3. /\ Len(a) \in Nat /\ Len(buffer) \in Nat \ {0} /\ Len(inbox) \in Nat
      /\ sent \in 0 .. Len(Stream[Count]) /\ Len(Stream[Count]) \in Nat
  BY <1>2, LenProperties, EmptySeq DEF TypeOK
<1> HIDE DEF a, k
<1>4. (a \o buffer) \o inbox = Arrived
  BY DEF HandledIntact, a, k, Handled
<1>5. /\ a \o buffer \in Seq(Byte) /\ Len(a \o buffer) = Len(a) + Len(buffer)
      /\ \A i \in 1 .. Len(buffer) : (a \o buffer)[Len(a) + i] = buffer[i]
  <2>1. /\ a \o buffer \in Seq(Byte) /\ Len(a \o buffer) = Len(a) + Len(buffer)
        /\ \A i \in 1 .. Len(a) + Len(buffer) : (a \o buffer)[i] =
              IF i <= Len(a) THEN a[i] ELSE buffer[i - Len(a)]
    BY <1>2, ConcatProperties
  <2>2. ASSUME NEW i \in 1 .. Len(buffer) PROVE (a \o buffer)[Len(a) + i] = buffer[i]
    <3>1. /\ Len(a) + i \in 1 .. Len(a) + Len(buffer) /\ ~(Len(a) + i <= Len(a))
          /\ (Len(a) + i) - Len(a) = i
      BY <1>3
    <3> QED
      BY <2>1, <3>1
  <2> QED
    BY <2>1, <2>2
<1>6. /\ sent = Len(a) + Len(buffer) + Len(inbox)
      /\ \A i \in 1 .. Len(a) + Len(buffer) : Arrived[i] = (a \o buffer)[i]
  <2>1. /\ Len((a \o buffer) \o inbox) = Len(a \o buffer) + Len(inbox)
        /\ \A i \in 1 .. Len(a \o buffer) + Len(inbox) : ((a \o buffer) \o inbox)[i] =
              IF i <= Len(a \o buffer) THEN (a \o buffer)[i] ELSE inbox[i - Len(a \o buffer)]
    BY <1>2, <1>5, ConcatProperties
  <2>2. Len(Arrived) = sent
    BY ArrivedProperties
  <2>3. \A i \in 1 .. Len(a) + Len(buffer) :
          i \in 1 .. Len(a \o buffer) + Len(inbox) /\ i <= Len(a \o buffer)
    BY <1>3, <1>5
  <2> QED
    BY <1>4, <1>5, <2>1, <2>2, <2>3
<1>7. \A i \in 1 .. Len(buffer) : Stream[Count][Len(a) + i] = buffer[i]
  <2> TAKE i \in 1 .. Len(buffer)
  <2>1. Len(a) + i \in 1 .. Len(a) + Len(buffer) /\ Len(a) + i \in 1 .. sent
    BY <1>3, <1>6
  <2>2. Arrived[Len(a) + i] = Stream[Count][Len(a) + i]
    BY <2>1, ArrivedProperties
  <2> QED
    BY <1>5, <1>6, <2>1, <2>2
<1>8. k + 1 \in 1 .. Count
  <2>1. k # Count
    BY <1>3, <1>6 DEF a
  <2> QED
    BY <1>1, <2>1
<1>9. /\ k + 1 \in 0 .. Count /\ Count \in k + 1 .. Count /\ (k + 1) - 1 = k
  BY <1>1, <1>8
<1>10. PICK rest \in Seq(Byte) : Stream[Count] = Stream[k + 1] \o rest
  BY <1>9, StreamPrefix
<1>11. Stream[k + 1] = a \o Bytes(k + 1)
  BY <1>8, <1>9, StreamEquation DEF a
<1>12. /\ Bytes(k + 1) \in Seq(Byte) /\ Len(Bytes(k + 1)) \in Nat \ {0}
       /\ Bytes(k + 1)[1] = <<k + 1, 1>>
  BY <1>8, BytesProperties
<1> DEFINE b == Bytes(k + 1)
<1> HIDE DEF b
<1>13. \A i \in 1 .. Len(b) : Stream[Count][Len(a) + i] = b[i]
  <2>0. b \in Seq(Byte) /\ Len(b) \in Nat
    BY <1>12 DEF b
  <2>1. /\ a \o b \in Seq(Byte) /\ Len(a \o b) = Len(a) + Len(b)
        /\ \A i \in 1 .. Len(a) + Len(b) : (a \o b)[i] =
              IF i <= Len(a) THEN a[i] ELSE b[i - Len(a)]
    BY <1>2, <2>0, ConcatProperties
  <2>2. \A i \in 1 .. Len(a \o b) + Len(rest) : ((a \o b) \o rest)[i] =
              IF i <= Len(a \o b) THEN (a \o b)[i] ELSE rest[i - Len(a \o b)]
    BY <2>1, ConcatProperties
  <2>3. Stream[Count] = (a \o b) \o rest
    BY <1>10, <1>11 DEF b
  <2> TAKE i \in 1 .. Len(b)
  <2>4. /\ Len(a) + i \in 1 .. Len(a) + Len(b) /\ ~(Len(a) + i <= Len(a))
        /\ (Len(a) + i) - Len(a) = i
    BY <1>3, <2>0
  <2>5. Len(a) + i \in 1 .. Len(a \o b) + Len(rest) /\ Len(a) + i <= Len(a \o b)
    BY <2>1, <2>4, LenProperties
  <2>6. (a \o b)[Len(a) + i] = b[i]
    BY <2>1, <2>4
  <2> QED
    BY <2>2, <2>3, <2>5, <2>6
<1>14. \A i \in 1 .. Len(buffer) : i <= Len(b) => buffer[i] = b[i]
  <2> SUFFICES ASSUME NEW i \in 1 .. Len(buffer), i <= Len(b) PROVE buffer[i] = b[i]
    OBVIOUS
  <2>1. i \in 1 .. Len(b)
    BY <1>3, <1>12 DEF b
  <2> QED
    BY <1>7, <1>13, <2>1
<1>15. buffer[1] = <<k + 1, 1>>
  BY <1>3, <1>12, <1>14 DEF b
<1> QED
  BY <1>8, <1>14, <1>15 DEF b, k

(* A complete frame is the next message, and without it the buffer still   *)
(* continues the stream.                                                   *)
LEMMA FrameIsNextMessage ==
  ASSUME TypeOK, HandledIntact, FrameComplete(buffer)
  PROVE  /\ Handled + 1 \in 1 .. Count
         /\ FrameLength(buffer) \in 0 .. Len(buffer)
         /\ Frame(buffer) = Bytes(Handled + 1)
<1> DEFINE b == Bytes(Handled + 1)
<1>1. buffer # <<>>
  BY HeaderLenAssumption, EmptySeq DEF FrameComplete
<1>2. /\ Handled + 1 \in 1 .. Count
      /\ buffer[1] = <<Handled + 1, 1>>
      /\ \A i \in 1 .. Len(buffer) : i <= Len(b) => buffer[i] = b[i]
  BY <1>1, FrontOfBuffer
<1>3. b \in Seq(Byte) /\ Len(b) = HeaderLen + Body[Handled + 1] /\ Len(b) \in Nat
  BY <1>2, BytesProperties
<1>4. FrameLength(buffer) = Len(b)
  BY <1>2, <1>3 DEF FrameLength
<1> HIDE DEF b
<1>5. buffer \in Seq(Byte) /\ Len(buffer) \in Nat /\ Len(b) \in 0 .. Len(buffer)
  BY <1>3, <1>4, LenProperties DEF FrameComplete, TypeOK
<1>6. /\ SubSeq(buffer, 1, Len(b)) \in Seq(Byte)
      /\ Len(SubSeq(buffer, 1, Len(b))) = Len(b)
      /\ \A i \in 1 .. Len(b) : SubSeq(buffer, 1, Len(b))[i] = buffer[i]
  BY <1>5, CutAt
<1>7. \A i \in 1 .. Len(b) : SubSeq(buffer, 1, Len(b))[i] = b[i]
  BY <1>2, <1>5, <1>6
<1>8. SubSeq(buffer, 1, Len(b)) = b
  BY <1>3, <1>6, <1>7, SeqEqual
<1> QED
  BY <1>2, <1>4, <1>5, <1>8 DEF Frame, b

-----------------------------------------------------------------------------
(* Types and the promise about what is handled, step by step.              *)
ReceiveInv == TypeOK /\ HandledIntact

(* Arrive appends to the queue what it counts.                             *)
LEMMA ArriveKeeps == ReceiveInv /\ Arrive => ReceiveInv'
<1> SUFFICES ASSUME TypeOK, HandledIntact, Arrive PROVE TypeOK' /\ HandledIntact'
  BY DEF ReceiveInv
<1> DEFINE all == Stream[Count]
<1>1. all \in Seq(Byte) /\ Len(all) \in Nat /\ sent \in 0 .. Len(all)
  <2>1. Count \in 0 .. Count
    BY BodyAssumption, LenProperties DEF Count
  <2> QED
    BY <2>1, StreamType, LenProperties DEF TypeOK
<1>2. PICK n \in sent + 1 .. Len(all) :
        /\ inbox' = inbox \o SubSeq(all, sent + 1, n)
        /\ sent' = n
  BY DEF Arrive
<1>3. UNCHANGED <<ending, conn, buffer, handled>>
  BY DEF Arrive
<1> DEFINE more == SubSeq(all, sent + 1, n)
<1>4. more \in Seq(Byte)
  <2>1. \A i \in sent + 1 .. n : all[i] \in Byte
    BY <1>1, ElementOfSeq
  <2> QED
    BY <1>1, <2>1, SubSeqProperties
<1>5. SubSeq(all, 1, sent) \o more = SubSeq(all, 1, n)
  <2>1. 1 \in 1 .. Len(all) + 1 /\ sent \in 1 - 1 .. Len(all) /\ n \in sent .. Len(all)
    BY <1>1
  <2> QED
    BY <1>1, <2>1, ConcatAdjacentSubSeq
<1>6. inbox \in Seq(Byte) /\ Stream[Len(handled)] \o buffer \in Seq(Byte)
  BY StreamType, ConcatProperties, LenProperties DEF HandledIntact, TypeOK
<1>7. inbox' \in Seq(Byte)
  BY <1>2, <1>4, <1>6, ConcatProperties
<1>8. TypeOK'
  BY <1>1, <1>2, <1>3, <1>7 DEF TypeOK
<1>9. Stream[Len(handled)] \o buffer \o inbox' = SubSeq(all, 1, n)
  <2>1. \A s, t, u \in Seq(Byte) : (s \o t) \o u = s \o (t \o u)
    BY ConcatAssociative
  <2>2. (Stream[Len(handled)] \o buffer) \o (inbox \o more)
          = ((Stream[Len(handled)] \o buffer) \o inbox) \o more
    BY <1>4, <1>6, <2>1
  <2> QED
    BY <1>2, <1>5, <2>2 DEF HandledIntact, Arrived
<1> QED
  BY <1>2, <1>3, <1>8, <1>9 DEF HandledIntact, Arrived

(* ReadChunk moves bytes from the front of the queue to the end of the     *)
(* buffer.                                                                 *)
LEMMA ReadChunkKeeps == ReceiveInv /\ ReadChunk => ReceiveInv'
<1> SUFFICES ASSUME TypeOK, HandledIntact, ReadChunk PROVE TypeOK' /\ HandledIntact'
  BY DEF ReceiveInv
<1> DEFINE n == Minimum(ChunkSize, Len(inbox))
           a == Stream[Len(handled)]
           taken == SubSeq(inbox, 1, n)
           kept == SubSeq(inbox, n + 1, Len(inbox))
<1>1. inbox \in Seq(Byte) /\ buffer \in Seq(Byte) /\ a \in Seq(Byte) /\ n \in 0 .. Len(inbox)
  <2>1. Len(inbox) \in Nat /\ Len(handled) \in 0 .. Count
    BY LenProperties DEF HandledIntact, TypeOK
  <2> QED
    BY <2>1, StreamType, ChunkSizeAssumption DEF TypeOK, Minimum
<1>2. taken \in Seq(Byte) /\ kept \in Seq(Byte) /\ taken \o kept = inbox
  BY <1>1, CutAt
<1>3. /\ buffer' = buffer \o taken /\ inbox' = kept
      /\ UNCHANGED <<sent, ending, conn, handled>>
  BY DEF ReadChunk
<1> HIDE DEF n, a, taken, kept
<1>4. TypeOK'
  BY <1>1, <1>2, <1>3, ConcatProperties DEF TypeOK
<1>5. (a \o (buffer \o taken)) \o kept = (a \o buffer) \o inbox
  <2>1. \A s, t, u \in Seq(Byte) : s \o t \in Seq(Byte) /\ (s \o t) \o u = s \o (t \o u)
    BY ConcatAssociative, ConcatProperties
  <2>2. a \o (buffer \o taken) = (a \o buffer) \o taken
    BY <1>1, <1>2, <2>1
  <2>3. ((a \o buffer) \o taken) \o kept = (a \o buffer) \o (taken \o kept)
    <3>1. a \o buffer \in Seq(Byte)
      BY <1>1, <2>1
    <3> QED
      BY <1>2, <2>1, <3>1
  <2> QED
    BY <1>2, <2>2, <2>3
<1> QED
  BY <1>3, <1>4, <1>5 DEF HandledIntact, Arrived, a

(* ParseMessage takes the next message, whole, from the buffer.            *)
LEMMA ParseMessageKeeps == ReceiveInv /\ ParseMessage => ReceiveInv'
<1> SUFFICES ASSUME TypeOK, HandledIntact, ParseMessage PROVE TypeOK' /\ HandledIntact'
  BY DEF ReceiveInv
<1> DEFINE k == Len(handled)
           n == FrameLength(buffer)
           b == Bytes(k + 1)
           rest == SubSeq(buffer, n + 1, Len(buffer))
<1>1. /\ handled' = Append(handled, Frame(buffer)) /\ buffer' = rest /\ conn' = AfterParse
      /\ UNCHANGED <<inbox, sent, ending>> /\ FrameComplete(buffer)
  BY DEF ParseMessage
<1>2. k + 1 \in 1 .. Count /\ n \in 0 .. Len(buffer) /\ Frame(buffer) = b
  BY <1>1, FrameIsNextMessage DEF Handled
<1>3. /\ handled \in Seq(Seq(Byte)) /\ k \in Nat /\ b \in Seq(Byte)
      /\ buffer \in Seq(Byte) /\ inbox \in Seq(Byte)
  BY <1>2, BytesProperties, LenProperties DEF TypeOK
<1>4. rest \in Seq(Byte) /\ Frame(buffer) \o rest = buffer
  BY <1>2, <1>3, CutAt DEF Frame
<1>5. /\ Stream[k] \in Seq(Byte) /\ Stream[k + 1] = Stream[k] \o b
  <2>1. k \in 0 .. Count /\ (k + 1) - 1 = k
    BY <1>2, <1>3, BodyAssumption, LenProperties DEF Count
  <2> QED
    BY <1>2, <2>1, StreamType, StreamEquation
<1> HIDE DEF k, n, b, rest
<1>6. /\ handled' \in Seq(Seq(Byte)) /\ Len(handled') = k + 1
      /\ \A m \in 1 .. k : handled'[m] = handled[m]
      /\ handled'[k + 1] = b
  BY <1>1, <1>2, <1>3, AppendProperties DEF k
<1>7. TypeOK'
  BY <1>1, <1>4, <1>6 DEF TypeOK, AfterParse
<1>8. \A m \in 1 .. k + 1 : handled'[m] = Bytes(m)
  <2> TAKE m \in 1 .. k + 1
  <2>1. m \in 1 .. k \/ m = k + 1
    BY <1>3
  <2> QED
    BY <1>6, <2>1 DEF HandledIntact, b, k
<1>9. (Stream[k + 1] \o rest) \o inbox = (Stream[k] \o buffer) \o inbox
  <2>1. \A s, t, u \in Seq(Byte) : (s \o t) \o u = s \o (t \o u)
    BY ConcatAssociative
  <2>2. (Stream[k] \o b) \o rest = Stream[k] \o (b \o rest)
    BY <1>3, <1>4, <1>5, <2>1
  <2> QED
    BY <1>2, <1>4, <1>5, <2>2
<1>10. (Stream[k + 1] \o buffer') \o inbox' = Arrived'
  BY <1>1, <1>9 DEF HandledIntact, Arrived, k
<1>11. k + 1 <= Count
  BY <1>2, <1>3
<1> QED
  BY <1>6, <1>7, <1>8, <1>10, <1>11 DEF HandledIntact

(* Every step keeps types and promise.                                     *)
LEMMA ReceiveStep == ReceiveInv /\ [Next]_vars => ReceiveInv'
<1> SUFFICES ASSUME ReceiveInv, [Next]_vars PROVE ReceiveInv'
  OBVIOUS
<1>1. CASE Arrive
  BY <1>1, ArriveKeeps
<1>2. CASE ReadChunk
  BY <1>2, ReadChunkKeeps
<1>3. CASE ParseMessage
  BY <1>3, ParseMessageKeeps
<1>4. CASE ClientEnds \/ EpollIn \/ ReadDrained \/ ReadEnds \/ ParseStops
  <2>1. UNCHANGED <<inbox, sent, buffer, handled>>
    BY <1>4 DEF ClientEnds, EpollIn, Kept, ReadDrained, ReadEnds, ParseStops
  <2>2. TypeOK'
    BY <1>4, <2>1
       DEF ReceiveInv, TypeOK, ClientEnds, EpollIn, ReadDrained, ReadEnds, ParseStops
  <2> QED
    BY <2>1, <2>2 DEF ReceiveInv, HandledIntact, Arrived
<1>5. CASE UNCHANGED vars
  BY <1>5 DEF vars, ReceiveInv, TypeOK, HandledIntact, Arrived
<1> QED
  BY <1>1, <1>2, <1>3, <1>4, <1>5 DEF Next, LoopStep

(* Both hold in every reachable state.                                     *)
THEOREM ReceiveInvariant == Spec => []ReceiveInv
<1>1. Init => ReceiveInv
  <2> SUFFICES ASSUME Init PROVE TypeOK /\ HandledIntact
    BY DEF ReceiveInv
  <2> USE DEF Init
  <2>1. Count \in Nat /\ Count \in 0 .. Count /\ Stream[Count] \in Seq(Byte)
    BY BodyAssumption, LenProperties, StreamType DEF Count
  <2>2. <<>> \in Seq(Byte) /\ <<>> \in Seq(Seq(Byte)) /\ Len(Stream[Count]) \in Nat
    BY <2>1, EmptySeq, LenProperties
  <2>3. TypeOK
    BY <2>2 DEF TypeOK
  <2>4. Arrived = <<>>
    BY <2>1, SubSeqEmpty DEF Arrived
  <2>5. Stream[0] \o <<>> \o <<>> = <<>>
    BY <2>2, StreamEquation, ConcatEmptySeq
  <2> QED
    BY <2>1, <2>3, <2>4, <2>5 DEF HandledIntact
<1> QED
  BY <1>1, ReceiveStep, PTL DEF Spec

(* Every variable keeps its type: in particular nothing but bytes of the   *)
(* client's messages is ever buffered or handled.                          *)
THEOREM TypeCorrect == Spec => []TypeOK
<1>1. ReceiveInv => TypeOK
  BY DEF ReceiveInv
<1> QED
  BY <1>1, ReceiveInvariant, PTL

(* The business code gets the client's first messages, whole, unaltered    *)
(* and in order, however the kernel and Read cut the stream.               *)
THEOREM MessagesAreIntact == Spec => []HandledIntact
<1>1. ReceiveInv => HandledIntact
  BY DEF ReceiveInv
<1> QED
  BY <1>1, ReceiveInvariant, PTL

(* Read never returns to epoll with a complete frame in its buffer.        *)
THEOREM NoFrameIsLeft == Spec => []NoFrameLeftBehind
<1>1. Init => NoFrameLeftBehind
  BY HeaderLenAssumption, EmptySeq DEF Init, NoFrameLeftBehind, FrameComplete
<1>2. NoFrameLeftBehind /\ [Next]_vars => NoFrameLeftBehind'
  BY DEF Next, LoopStep, Arrive, ClientEnds, EpollIn, ReadChunk, ReadDrained, ReadEnds,
         ParseMessage, AfterParse, ParseStops, NoFrameLeftBehind, FrameComplete, FrameLength, vars
<1> QED
  BY <1>1, <1>2, PTL DEF Spec

(* Back in epoll with nothing in the kernel's queue, the server has        *)
(* handled every message whose last byte has arrived.                      *)
IdleMeansHandled == conn = "polling" /\ inbox = <<>> => \A m \in Complete : m <= Len(handled)

(* An idle server owes its client nothing: what has arrived and is not     *)
(* handled is less than a message.                                         *)
THEOREM IdleOwesNothing == Spec => []IdleMeansHandled
<1>1. ReceiveInv /\ NoFrameLeftBehind => IdleMeansHandled
  <2> SUFFICES ASSUME TypeOK, HandledIntact, ~FrameComplete(buffer), inbox = <<>>,
                      NEW m \in Complete, ~(m <= Len(handled))
               PROVE  FALSE
    BY DEF ReceiveInv, NoFrameLeftBehind, IdleMeansHandled
  <2> DEFINE k == Len(handled)
  <2>1. /\ Count \in Nat /\ k \in Nat /\ m \in 1 .. Count /\ Len(Stream[m]) <= sent
        /\ k \in 0 .. Count /\ (k + 1) - 1 = k
    BY BodyAssumption, LenProperties DEF Count, Complete, TypeOK, HandledIntact
  <2>2. k + 1 \in 1 .. Count /\ k + 1 \in 0 .. Count /\ m \in k + 1 .. Count
    BY <2>1
  <2>3. /\ Stream[k] \in Seq(Byte) /\ buffer \in Seq(Byte) /\ Bytes(k + 1) \in Seq(Byte)
        /\ Len(Stream[k]) \in Nat /\ Len(buffer) \in Nat
        /\ Len(Bytes(k + 1)) = HeaderLen + Body[k + 1] /\ Len(Bytes(k + 1)) \in Nat \ {0}
    BY <2>1, <2>2, StreamType, BytesProperties, LenProperties DEF TypeOK
  <2>4. Stream[k + 1] = Stream[k] \o Bytes(k + 1)
    BY <2>1, <2>2, StreamEquation
  <2>5. Len(Stream[k + 1]) = Len(Stream[k]) + Len(Bytes(k + 1))
    BY <2>3, <2>4, ConcatProperties
  <2>6. /\ Len(Stream[k + 1]) <= Len(Stream[m])
        /\ Len(Stream[k + 1]) \in Nat /\ Len(Stream[m]) \in Nat
    <3>1. k + 1 \in 0 .. Count /\ m \in k + 1 .. Count
      BY <2>2
    <3> QED
      BY <3>1, StreamLengths
  <2>7. sent = Len(Stream[k]) + Len(buffer)
    <3>1. Stream[k] \o buffer \in Seq(Byte) /\ Len(Stream[k] \o buffer) = Len(Stream[k]) + Len(buffer)
      BY <2>3, ConcatProperties
    <3>2. Stream[k] \o buffer = Arrived
      BY <3>1, ConcatEmptySeq DEF HandledIntact
    <3> QED
      BY <3>1, <3>2, ArrivedProperties
  <2>8. sent \in Nat
    BY <2>3, <2>7
  <2>9. Len(buffer) >= Len(Bytes(k + 1))
    <3>1. Len(Stream[k + 1]) <= Len(Stream[k]) + Len(buffer)
      BY <2>1, <2>3, <2>6, <2>7, <2>8
    <3>2. Len(Stream[k]) + Len(Bytes(k + 1)) <= Len(Stream[k]) + Len(buffer)
      BY <2>5, <3>1
    <3> QED
      BY <2>3, <3>2
  <2>10. buffer # <<>>
    BY <2>3, <2>9, EmptySeq
  <2>11. buffer[1] = <<k + 1, 1>>
    BY <2>10, FrontOfBuffer DEF Handled
  <2>12. FrameLength(buffer) = Len(Bytes(k + 1))
    BY <2>3, <2>11 DEF FrameLength
  <2>13. Len(buffer) >= HeaderLen
    <3>1. Body[k + 1] \in Nat /\ HeaderLen \in Nat
      BY <2>2, BodyAssumption, HeaderLenAssumption, ElementOfSeq DEF Count
    <3> QED
      BY <2>3, <2>9, <3>1
  <2> QED
    BY <2>9, <2>12, <2>13 DEF FrameComplete
<1> QED
  BY <1>1, ReceiveInvariant, NoFrameIsLeft, PTL
=============================================================================
