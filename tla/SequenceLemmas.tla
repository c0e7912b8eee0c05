--------------------------- MODULE SequenceLemmas ---------------------------
(***************************************************************************)
(* Facts about the parts and the concatenation of sequences that the       *)
(* proofs about the two queues, AsyncQueue and ThreadPool, and about the   *)
(* byte streams of a connection, ReceivePath and SendPath, rest on.        *)
(***************************************************************************)
EXTENDS SequenceTheorems, TLAPS

(* A sequence cut at n: both parts are sequences, the first has n elements *)
(* and together they are the whole.                                        *)
LEMMA CutAt ==
  ASSUME NEW S, NEW b \in Seq(S), NEW n \in 0 .. Len(b)
  PROVE  /\ SubSeq(b, 1, n) \in Seq(S)
         /\ Len(SubSeq(b, 1, n)) = n
         /\ \A i \in 1 .. n : SubSeq(b, 1, n)[i] = b[i]
         /\ SubSeq(b, n + 1, Len(b)) \in Seq(S)
         /\ SubSeq(b, 1, n) \o SubSeq(b, n + 1, Len(b)) = b
<1>1. Len(b) \in Nat /\ n \in Nat /\ \A i \in 1 .. Len(b) : b[i] \in S
  BY ElementOfSeq
<1>2. /\ SubSeq(b, 1, n) \in Seq(S)
      /\ Len(SubSeq(b, 1, n)) = n
      /\ \A i \in 1 .. n : SubSeq(b, 1, n)[i] = b[i]
  BY <1>1, SubSeqProperties
<1>3. SubSeq(b, n + 1, Len(b)) \in Seq(S)
  BY <1>1, SubSeqProperties
<1>4. SubSeq(b, 1, n) \o SubSeq(b, n + 1, Len(b)) = SubSeq(b, 1, Len(b))
  <2>1. 1 \in 1 .. Len(b) + 1 /\ n \in 1 - 1 .. Len(b) /\ Len(b) \in n .. Len(b)
    BY <1>1
  <2> QED
    BY <2>1, ConcatAdjacentSubSeq
<1>5. SubSeq(b, 1, Len(b)) = b
  BY SubSeqFull
<1> QED
  BY <1>2, <1>3, <1>4, <1>5

(* Moving the head of the second part to the end of the first part leaves  *)
(* the concatenation as it was.                                            *)
LEMMA ShiftHead ==
  ASSUME NEW S, NEW s \in Seq(S), NEW t \in Seq(S), t # <<>>
  PROVE  Append(s, Head(t)) \o Tail(t) = s \o t
<1>1. Head(t) \in S /\ Tail(t) \in Seq(S)
  BY HeadTailProperties
<1>2. <<Head(t)>> \in Seq(S)
  BY <1>1
<1>3. Append(s, Head(t)) = s \o <<Head(t)>>
  BY <1>1, AppendIsConcat
<1>4. t = <<Head(t)>> \o Tail(t)
  <2>1. Len(t) \in Nat \ {0}
    BY EmptySeq
  <2>2. Len(<<Head(t)>> \o Tail(t)) = Len(t)
    BY <1>1, <1>2, <2>1, HeadTailProperties, ConcatProperties
  <2>3. ASSUME NEW i \in 1 .. Len(t)
        PROVE  t[i] = (<<Head(t)>> \o Tail(t))[i]
    BY <1>1, <1>2, <2>1, HeadTailProperties, ConcatProperties
  <2>4. <<Head(t)>> \o Tail(t) \in Seq(S)
    BY <1>1, <1>2, ConcatProperties
  <2> QED
    BY <2>2, <2>3, <2>4, SeqEqual
<1>5. (s \o <<Head(t)>>) \o Tail(t) = s \o (<<Head(t)>> \o Tail(t))
  BY <1>1, <1>2, ConcatAssociative
<1> QED
  BY <1>3, <1>4, <1>5

(* The head and tail of a concatenation are those of its first part.       *)
LEMMA HeadTailConcat ==
  ASSUME NEW S, NEW s \in Seq(S), NEW t \in Seq(S), s # <<>>
  PROVE  /\ s \o t # <<>>
         /\ Head(s \o t) = Head(s)
         /\ Tail(s \o t) = Tail(s) \o t
<1>1. Len(s) \in Nat \ {0} /\ Len(t) \in Nat
  BY EmptySeq, LenProperties
<1>2. /\ s \o t \in Seq(S)
      /\ Len(s \o t) = Len(s) + Len(t)
      /\ \A i \in 1 .. Len(s) + Len(t) :
           (s \o t)[i] = IF i <= Len(s) THEN s[i] ELSE t[i - Len(s)]
  BY ConcatProperties
<1>3. s \o t # <<>>
  BY <1>1, <1>2, EmptySeq
<1>4. Head(s \o t) = Head(s)
  BY <1>1, <1>2
<1>5. /\ Tail(s) \in Seq(S) /\ Len(Tail(s)) = Len(s) - 1
      /\ \A i \in 1 .. Len(Tail(s)) : Tail(s)[i] = s[i + 1]
  BY HeadTailProperties
<1>6. /\ Tail(s \o t) \in Seq(S) /\ Len(Tail(s \o t)) = Len(s) + Len(t) - 1
      /\ \A i \in 1 .. Len(s) + Len(t) - 1 : Tail(s \o t)[i] = (s \o t)[i + 1]
  BY <1>2, <1>3, HeadTailProperties
<1>7. /\ Tail(s) \o t \in Seq(S)
      /\ Len(Tail(s) \o t) = Len(s) - 1 + Len(t)
      /\ \A i \in 1 .. Len(s) - 1 + Len(t) : (Tail(s) \o t)[i] =
           IF i <= Len(s) - 1 THEN Tail(s)[i] ELSE t[i - (Len(s) - 1)]
  BY <1>5, ConcatProperties
<1>8. ASSUME NEW i \in 1 .. Len(Tail(s \o t))
      PROVE  Tail(s \o t)[i] = (Tail(s) \o t)[i]
  <2>1. i + 1 \in 1 .. Len(s) + Len(t) /\ i \in 1 .. Len(s) - 1 + Len(t)
    BY <1>1, <1>6
  <2>2. CASE i <= Len(s) - 1
    <3>1. i \in 1 .. Len(Tail(s)) /\ i + 1 <= Len(s)
      BY <1>1, <1>5, <2>2
    <3> QED
      BY <1>2, <1>5, <1>6, <1>7, <2>1, <2>2, <3>1
  <2>3. CASE ~(i <= Len(s) - 1)
    <3>1. ~(i + 1 <= Len(s)) /\ (i + 1) - Len(s) = i - (Len(s) - 1)
      BY <1>1, <2>3
    <3> QED
      BY <1>2, <1>6, <1>7, <2>1, <2>3, <3>1
  <2> QED
    BY <2>2, <2>3
<1>9. Tail(s \o t) = Tail(s) \o t
  BY <1>1, <1>6, <1>7, <1>8, SeqEqual
<1> QED
  BY <1>3, <1>4, <1>9

(* Appending the next number to the numbers so far.                        *)
LEMMA AppendNext ==
  ASSUME NEW n \in Nat
  PROVE  Append([k \in 1 .. n |-> k], n + 1) = [k \in 1 .. n + 1 |-> k]
<1> DEFINE s == [k \in 1 .. n |-> k]
           t == [k \in 1 .. n + 1 |-> k]
<1>1. s \in Seq(Nat) /\ t \in Seq(Nat) /\ Len(s) = n /\ Len(t) = n + 1
  OBVIOUS
<1>2. /\ Append(s, n + 1) \in Seq(Nat) /\ Len(Append(s, n + 1)) = n + 1
      /\ \A i \in 1 .. n : Append(s, n + 1)[i] = s[i]
      /\ Append(s, n + 1)[n + 1] = n + 1
  BY <1>1, AppendProperties
<1>3. ASSUME NEW i \in 1 .. n + 1 PROVE Append(s, n + 1)[i] = t[i]
  BY <1>2
<1> QED
  BY <1>1, <1>2, <1>3, SeqEqual
=============================================================================
