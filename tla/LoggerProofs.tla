---------------------------- MODULE LoggerProofs ----------------------------
(***************************************************************************)
(* Theorems about MyLog, for any set of logging threads, any number of     *)
(* calls and any threshold: what AsyncQueue keeps, that it implements      *)
(* ClosableChannel, that Logger changes nothing in what the queue does,    *)
(* and then, for any options, days, moves, leftovers and callers of stop,  *)
(* what becomes of the lines in the files.                                 *)
(***************************************************************************)
EXTENDS Logger, SequenceLemmas, FiniteSetTheorems

-----------------------------------------------------------------------------
(* Part 1: the queue.                                                      *)
-----------------------------------------------------------------------------
(* Every variable keeps its type: in particular the two buffers are        *)
(* always sequences of entries that producers really pushed.               *)
THEOREM TypeCorrect == Spec => []TypeOK
<1>1. Init => TypeOK
  <2>1. <<>> \in Seq(Entry) /\ 0 \in 0 .. MaxPush
    BY EmptySeq, MaxPushAssumption
  <2> QED
    BY <2>1 DEF Init, TypeOK, Buffers
<1>2. TypeOK /\ [Next]_vars => TypeOK'
  <2> SUFFICES ASSUME TypeOK, [Next]_vars PROVE TypeOK'
    OBVIOUS
  <2> USE DEF TypeOK, Buffers, readBuf, Other
  <2>1. ASSUME NEW p \in Producers, PushAccepted(p) PROVE TypeOK'
    <3>1. <<p, pushed[p] + 1>> \in Entry /\ pushed[p] + 1 \in 0 .. MaxPush
      BY <2>1, MaxPushAssumption DEF PushAccepted, Entry
    <3>2. /\ Append(buf[writeBuf], <<p, pushed[p] + 1>>) \in Seq(Entry)
          /\ accepted' \in Seq(Entry)
      BY <2>1, <3>1 DEF PushAccepted
    <3>3. buf' \in [Buffers -> Seq(Entry)]
      BY <2>1, <3>2 DEF PushAccepted
    <3>4. consumer' \in {"calling", "asleep", "writing", "done"}
      BY <2>1 DEF PushAccepted, Woken
    <3> QED
      BY <2>1, <3>1, <3>2, <3>3, <3>4 DEF PushAccepted
  <2>2. ASSUME NEW p \in Producers, PushRefused(p) PROVE TypeOK'
    BY <2>2, MaxPushAssumption DEF PushRefused
  <2>3. CASE Close
    BY <2>3 DEF Close, CloseWakes, Woken
  <2>4. CASE SpuriousWake
    BY <2>4 DEF SpuriousWake
  <2>5. CASE WaitSleeps
    BY <2>5 DEF WaitSleeps
  <2>6. CASE WaitSwaps
    BY <2>6 DEF WaitSwaps, BuffersAfterSwap
  <2>7. CASE WaitReturnsFalse
    BY <2>7 DEF WaitReturnsFalse, WaitFinds
  <2>8. CASE WriteEntry
    <3>1. Head(out) \in Entry /\ Tail(out) \in Seq(Entry)
      BY <2>8, HeadTailProperties DEF WriteEntry
    <3> QED
      BY <2>8, <3>1 DEF WriteEntry
  <2>9. CASE FinishBatch
    BY <2>9 DEF FinishBatch
  <2>10. CASE UNCHANGED vars
    BY <2>10 DEF vars
  <2> QED
    BY <2>1, <2>2, <2>3, <2>4, <2>5, <2>6, <2>7, <2>8, <2>9, <2>10
       DEF Next, Consume
<1> QED
  BY <1>1, <1>2, PTL DEF Spec

-----------------------------------------------------------------------------
(* One step of the queue keeps QueueInv.                                   *)
LEMMA QueueInvStep == TypeOK /\ TypeOK' /\ QueueInv /\ [Next]_vars => QueueInv'
<1> SUFFICES ASSUME TypeOK, TypeOK', QueueInv, [Next]_vars PROVE QueueInv'
  OBVIOUS
<1> DEFINE W == buf[writeBuf]
           R == buf[readBuf]
<1>0. /\ W \in Seq(Entry) /\ R \in Seq(Entry) /\ out \in Seq(Entry)
      /\ delivered \in Seq(Entry) /\ writeBuf \in Buffers /\ readBuf \in Buffers
      /\ writeBuf # readBuf /\ Other(readBuf) = writeBuf
      /\ DOMAIN buf = Buffers
  BY DEF TypeOK, Buffers, readBuf, Other
<1> USE DEF QueueInv, ReadBufferEmpty, BatchOnlyWhileWriting, DoneIsClosed,
            NoLostWakeup
<1>1. ASSUME NEW p \in Producers, PushAccepted(p) PROVE QueueInv'
  <2> DEFINE e == <<p, pushed[p] + 1>>
  <2>1. e \in Entry
    BY <1>1, MaxPushAssumption DEF PushAccepted, Entry, TypeOK
  <2>2. buf'[writeBuf'] = Append(W, e) /\ readBuf' = readBuf /\ buf'[readBuf] = R
    BY <1>0, <1>1 DEF PushAccepted, readBuf
  <2>3. Accounted'
    <3> HIDE DEF W, e, QueueInv
    <3>1. <<e>> \in Seq(Entry) /\ out \o W \in Seq(Entry) /\ W \o <<e>> \in Seq(Entry)
      BY <1>0, <2>1, ConcatProperties
    <3>2. /\ Append(delivered \o (out \o W), e) = (delivered \o (out \o W)) \o <<e>>
          /\ Append(W, e) = W \o <<e>>
      BY <1>0, <2>1, <3>1, ConcatProperties, AppendIsConcat
    <3>3. (delivered \o (out \o W)) \o <<e>> = delivered \o ((out \o W) \o <<e>>)
      BY <1>0, <3>1, ConcatAssociative
    <3>4. (out \o W) \o <<e>> = out \o (W \o <<e>>)
      BY <1>0, <3>1, ConcatAssociative
    <3>5. Append(delivered \o (out \o W), e) = delivered \o (out \o Append(W, e))
      BY <3>2, <3>3, <3>4
    <3>6. accepted = delivered \o (out \o W)
      BY DEF QueueInv, Accounted, W
    <3>7. accepted' = Append(accepted, e) /\ delivered' = delivered /\ out' = out
      BY <1>1 DEF PushAccepted, e
    <3> QED
      BY <2>2, <3>5, <3>6, <3>7 DEF Accounted
  <2>4. consumer # "done" /\ consumer' # "done"
    BY <1>1 DEF PushAccepted, Woken, TypeOK
  <2>5. consumer' # "asleep"
    BY <1>1 DEF PushAccepted, Woken, NotifyNeeded
  <2>6. BatchOnlyWhileWriting'
    BY <1>1 DEF PushAccepted, Woken
  <2> QED
    BY <2>2, <2>3, <2>4, <2>5, <2>6
<1>2. ASSUME NEW p \in Producers, PushRefused(p) PROVE QueueInv'
  BY <1>2 DEF PushRefused, Accounted, readBuf
<1>3. CASE Close
  <2>1. consumer' # "asleep" /\ (consumer' = "done" => consumer = "done")
        /\ (consumer' # "writing" => consumer # "writing")
    BY <1>3 DEF Close, CloseWakes, Woken
  <2> QED
    BY <1>3, <2>1 DEF Close, Accounted, readBuf
<1>4. CASE SpuriousWake
  BY <1>4 DEF SpuriousWake, Accounted, readBuf
<1>5. CASE WaitSleeps
  BY <1>5 DEF WaitSleeps, Accounted, readBuf
<1>6. CASE WaitSwaps
  <2>1. out = <<>> /\ R = <<>>
    BY <1>6 DEF WaitSwaps
  <2>2. /\ out' = W /\ writeBuf' = readBuf /\ readBuf' = writeBuf
        /\ buf'[writeBuf] = <<>> /\ buf'[readBuf] = R
    BY <1>0, <1>6, <2>1 DEF WaitSwaps, BuffersAfterSwap, readBuf
  <2>3. out' \o buf'[writeBuf'] = out \o W
    BY <1>0, <2>1, <2>2, ConcatEmptySeq
  <2> QED
    BY <1>6, <2>2, <2>3 DEF WaitSwaps, Accounted
<1>7. CASE WaitReturnsFalse
  BY <1>7 DEF WaitReturnsFalse, WaitFinds, Exhausted, Accounted, readBuf
<1>8. CASE WriteEntry
  <2>1. Head(out) \in Entry /\ Tail(out) \in Seq(Entry) /\ out # <<>>
    BY <1>0, <1>8, HeadTailProperties DEF WriteEntry
  <2>2. Append(delivered, Head(out)) \in Seq(Entry)
    BY <1>0, <2>1, AppendProperties
  <2>c. \A s, t, u \in Seq(Entry) : (s \o t) \o u = s \o (t \o u)
    BY ConcatAssociative
  <2>3. Append(delivered, Head(out)) \o (Tail(out) \o W)
          = (Append(delivered, Head(out)) \o Tail(out)) \o W
    BY <1>0, <2>1, <2>2, <2>c
  <2>4. Append(delivered, Head(out)) \o Tail(out) = delivered \o out
    BY <1>0, <2>1, ShiftHead
  <2>5. (delivered \o out) \o W = delivered \o (out \o W)
    BY <1>0, <2>c
  <2> QED
    BY <1>8, <2>3, <2>4, <2>5 DEF WriteEntry, Accounted, readBuf
<1>9. CASE FinishBatch
  BY <1>9 DEF FinishBatch, Accounted, readBuf
<1>10. CASE UNCHANGED vars
  BY <1>10 DEF vars, Accounted, readBuf
<1> QED
  BY <1>1, <1>2, <1>3, <1>4, <1>5, <1>6, <1>7, <1>8, <1>9, <1>10
     DEF Next, Consume

(* The queue's invariant: every accepted entry is written, in the batch or *)
(* in the write buffer, in that order; the read buffer is empty between    *)
(* calls; nobody sleeps beside work.                                       *)
THEOREM QueueInvariant == Spec => []QueueInv
<1>1. Init => QueueInv
  BY DEF Init, QueueInv, ReadBufferEmpty, BatchOnlyWhileWriting, Accounted,
         DoneIsClosed, NoLostWakeup, readBuf, Other, Buffers
<1> QED
  BY <1>1, QueueInvStep, TypeCorrect, PTL DEF Spec

(* A backend thread asleep in waitSwapBatch has nothing to write and no    *)
(* close to notice.                                                        *)
THEOREM NeverSleepsBesideWork == Spec => []NoLostWakeup
<1>1. QueueInv => NoLostWakeup
  BY DEF QueueInv
<1> QED
  BY <1>1, QueueInvariant, PTL

(* When BackendLoop has left its loop, everything that push accepted has   *)
(* been given to Write2File, in order.                                     *)
THEOREM DoneMeansDrained == Spec => []DrainedWhenDone
<1>1. TypeOK /\ QueueInv => DrainedWhenDone
  <2> SUFFICES ASSUME TypeOK, QueueInv, consumer = "done"
               PROVE  closed /\ delivered = accepted /\ \A b \in Buffers : buf[b] = <<>>
    BY DEF DrainedWhenDone
  <2>1. closed /\ buf[writeBuf] = <<>> /\ buf[readBuf] = <<>> /\ out = <<>>
    BY DEF QueueInv, DoneIsClosed, ReadBufferEmpty, BatchOnlyWhileWriting
  <2>2. delivered = accepted
    BY <2>1, ConcatEmptySeq, EmptySeq DEF QueueInv, Accounted, TypeOK
  <2>3. \A b \in Buffers : buf[b] = <<>>
    BY <2>1 DEF TypeOK, Buffers, readBuf, Other
  <2> QED
    BY <2>1, <2>2, <2>3
<1> QED
  BY <1>1, TypeCorrect, QueueInvariant, PTL

-----------------------------------------------------------------------------
(* The double-buffered queue implements the closable FIFO channel: push is *)
(* Accept, each Write2File is Deliver, a false return of waitSwapBatch is  *)
(* Finish, and the swap of the buffers is invisible.                       *)
THEOREM QueueImplementsChannel == Spec => ImplementsChannel
<1> DEFINE pending == out \o buf[readBuf] \o buf[writeBuf]
<1>1. Init => Channel!Init
  BY EmptySeq, ConcatEmptySeq
     DEF Init, Channel!Init, readBuf, Other, Buffers
<1>2. TypeOK /\ TypeOK' /\ QueueInv /\ QueueInv' /\ [Next]_vars
        => [Channel!Next]_(Channel!chanVars)
  <2> SUFFICES ASSUME TypeOK, TypeOK', QueueInv, QueueInv', [Next]_vars
               PROVE  [Channel!Next]_(Channel!chanVars)
    OBVIOUS
  <2>0. /\ out \in Seq(Entry) /\ buf[writeBuf] \in Seq(Entry)
        /\ out' \in Seq(Entry) /\ buf'[writeBuf'] \in Seq(Entry)
        /\ writeBuf # readBuf /\ readBuf \in Buffers /\ Other(readBuf) = writeBuf
        /\ buf[readBuf] = <<>> /\ buf'[readBuf'] = <<>>
        /\ DOMAIN buf = Buffers /\ writeBuf \in Buffers
    BY DEF TypeOK, QueueInv, ReadBufferEmpty, Buffers, readBuf, Other
  <2>a. pending = out \o buf[writeBuf] /\ pending' = out' \o buf'[writeBuf']
    BY <2>0, ConcatEmptySeq
  <2> HIDE DEF pending
  <2>b. /\ Channel!Next <=> \/ Channel!Accept \/ Channel!Deliver
                            \/ Channel!Close \/ Channel!Finish
        /\ [Channel!Next]_(Channel!chanVars) <=>
             Channel!Next \/ Channel!chanVars' = Channel!chanVars
    BY DEF Channel!Next
  <2>1. ASSUME NEW p \in Producers, PushAccepted(p) PROVE Channel!Accept
    <3> DEFINE e == <<p, pushed[p] + 1>>
    <3>1. e \in Entry /\ <<e>> \in Seq(Entry)
      BY <2>1, MaxPushAssumption DEF PushAccepted, Entry, TypeOK
    <3>2. buf'[writeBuf'] = Append(buf[writeBuf], e) /\ out' = out
      BY <2>0, <2>1 DEF PushAccepted
    <3> HIDE DEF e
    <3>3. Append(buf[writeBuf], e) = buf[writeBuf] \o <<e>>
      BY <2>0, <3>1, AppendIsConcat
    <3>4. pending' = out \o (buf[writeBuf] \o <<e>>)
      BY <2>a, <3>2, <3>3
    <3>5. (out \o buf[writeBuf]) \o <<e>> = out \o (buf[writeBuf] \o <<e>>)
      BY <2>0, <3>1, ConcatAssociative
    <3>6. Append(out \o buf[writeBuf], e) = (out \o buf[writeBuf]) \o <<e>>
      BY <2>0, <3>1, ConcatProperties, AppendIsConcat
    <3>7. pending' = Append(pending, e)
      BY <2>a, <3>4, <3>5, <3>6
    <3>8. ~closed /\ ~closed' /\ delivered' = delivered
          /\ (consumer = "done") = (consumer' = "done")
      BY <2>1 DEF PushAccepted, Woken
    <3> QED
      BY <3>1, <3>7, <3>8 DEF Channel!Accept, pending
  <2>2. ASSUME NEW p \in Producers, PushRefused(p)
        PROVE  Channel!chanVars' = Channel!chanVars
    BY <2>2 DEF PushRefused, Channel!chanVars, readBuf
  <2>3. CASE Close
    <3>1. closed' /\ delivered' = delivered /\ pending' = pending
          /\ (consumer = "done") = (consumer' = "done")
      BY <2>3, <2>a DEF Close, CloseWakes, Woken
    <3>2. Channel!Close
      BY <3>1 DEF Channel!Close, pending
    <3> QED
      BY <2>b, <3>2
  <2>4. CASE SpuriousWake
    BY <2>4 DEF SpuriousWake, Channel!chanVars, readBuf
  <2>5. CASE WaitSleeps
    BY <2>5 DEF WaitSleeps, Channel!chanVars, readBuf
  <2>6. CASE WaitSwaps
    <3>1. out = <<>> /\ out' = buf[writeBuf] /\ buf'[writeBuf'] = <<>>
      BY <2>0, <2>6
         DEF WaitSwaps, BuffersAfterSwap, QueueInv, BatchOnlyWhileWriting, readBuf
    <3>2. pending' = pending
      BY <2>0, <2>a, <3>1, ConcatEmptySeq
    <3>3. closed' = closed /\ delivered' = delivered
          /\ consumer # "done" /\ consumer' # "done"
      BY <2>6 DEF WaitSwaps
    <3> QED
      BY <3>2, <3>3 DEF Channel!chanVars, pending
  <2>7. CASE WaitReturnsFalse
    <3>1. closed /\ buf[writeBuf] = <<>> /\ out = <<>> /\ consumer' = "done"
          /\ out' = out /\ buf' = buf /\ writeBuf' = writeBuf /\ closed' = closed
          /\ delivered' = delivered
      BY <2>0, <2>7 DEF WaitReturnsFalse, WaitFinds, Exhausted, QueueInv,
                        BatchOnlyWhileWriting
    <3>2. pending = <<>> /\ pending' = pending
      BY <2>0, <2>a, <3>1, EmptySeq, ConcatEmptySeq
    <3>3. Channel!Finish
      BY <3>1, <3>2 DEF Channel!Finish, pending
    <3> QED
      BY <2>b, <3>3
  <2>8. CASE WriteEntry
    <3>1. out # <<>> /\ out' = Tail(out) /\ delivered' = Append(delivered, Head(out))
          /\ buf' = buf /\ writeBuf' = writeBuf /\ closed' = closed
          /\ consumer' = consumer
      BY <2>8 DEF WriteEntry
    <3>2. /\ pending # <<>> /\ Head(pending) = Head(out)
          /\ Tail(pending) = Tail(out) \o buf[writeBuf]
      BY <2>0, <2>a, <3>1, HeadTailConcat
    <3>3. pending' = Tail(pending)
      BY <2>a, <3>1, <3>2
    <3>4. Channel!Deliver
      BY <3>1, <3>2, <3>3 DEF Channel!Deliver, pending
    <3> QED
      BY <2>b, <3>4
  <2>9. CASE FinishBatch
    BY <2>9 DEF FinishBatch, Channel!chanVars, readBuf
  <2>10. CASE UNCHANGED vars
    BY <2>10 DEF vars, Channel!chanVars, readBuf
  <2> QED
    BY <2>1, <2>2, <2>3, <2>4, <2>5, <2>6, <2>7, <2>8, <2>9, <2>10, <2>b
       DEF Next, Consume
<1> QED
  BY <1>1, <1>2, TypeCorrect, QueueInvariant, PTL
     DEF Spec, ImplementsChannel, Channel!Spec

-----------------------------------------------------------------------------
(* Part 2: the logger is the queue, with files and callers around it.      *)

(* Every step of the logger is a step of the queue or leaves it alone.     *)
LEMMA LoggerStepIsQueueStep == [LoggerNext]_loggerVars => [Next]_vars
<1> SUFFICES ASSUME [LoggerNext]_loggerVars PROVE [Next]_vars
  OBVIOUS
<1>1. ASSUME NEW p \in Producers, Log(p) PROVE [Next]_vars
  BY <1>1 DEF Log, Next
<1>2. CASE Reopen
  BY <1>2 DEF Reopen
<1>3. ASSUME NEW o \in Options, SetRotateOptions(o) PROVE [Next]_vars
  BY <1>3 DEF SetRotateOptions
<1>4. ASSUME NEW s \in Stoppers, Stop(s) \/ CloseQueue(s) \/ JoinBackend(s)
      PROVE  [Next]_vars
  BY <1>4 DEF Stop, CloseQueue, JoinBackend, Next
<1>5. ASSUME NEW d \in Dirs, MoveAway(d) PROVE [Next]_vars
  BY <1>5 DEF MoveAway
<1>6. CASE Midnight \/ (\E d \in AbsentDirs : MakeDir(d))
  BY <1>6 DEF Midnight, MakeDir
<1>7. CASE WakeSpuriously
  BY <1>7 DEF WakeSpuriously, Next
<1>8. CASE BackendLoop
  <2>1. CASE Wait
    BY <2>1 DEF Wait, Next, Consume
  <2>2. CASE ExchangeReopen \/ DoReopen \/ MaybeRotate
    BY <2>2 DEF ExchangeReopen, DoReopen, MaybeRotate
  <2>3. CASE Write2File \/ Flush
    BY <2>3 DEF Write2File, Flush, Next, Consume
  <2> QED
    BY <1>8, <2>1, <2>2, <2>3 DEF BackendLoop
<1>9. CASE UNCHANGED loggerVars
  BY <1>9 DEF loggerVars
<1> QED
  BY <1>1, <1>2, <1>3, <1>4, <1>5, <1>6, <1>7, <1>8, <1>9 DEF LoggerNext

(* The logger's queue is the queue of AsyncQueue.                          *)
THEOREM LoggerImplementsQueue == LoggerSpec => Spec
<1>1. LoggerInit => Init
  BY DEF LoggerInit
<1> QED
  BY <1>1, LoggerStepIsQueueStep, PTL DEF LoggerSpec, Spec

(* While rotations, reopens and callers of stop come and go, the backend   *)
(* thread never sleeps beside an entry or a close.                         *)
THEOREM LoggerNeverSleepsBesideWork == LoggerSpec => []NoLostWakeup
BY LoggerImplementsQueue, NeverSleepsBesideWork, PTL

(* From log to the file, the logger is the closable FIFO channel.          *)
THEOREM LoggerImplementsChannel == LoggerSpec => ImplementsChannel
BY LoggerImplementsQueue, QueueImplementsChannel, PTL

-----------------------------------------------------------------------------
(* Part 3: the types of the logger's own variables.                        *)

(* The names of the three kinds differ in their kind.                      *)
LEMMA Kinds ==
  ASSUME NEW d, NEW day, NEW n
  PROVE  /\ Live(d).kind = "live"
         /\ Rotated(d, day, n).kind = "rotated"
         /\ Rotated(d, day, n).day = day /\ Rotated(d, day, n).seq = n
         /\ Moved(n).kind = "moved" /\ Moved(n).n = n
BY DEF Live, Rotated, Moved

(* Each name leads to a file that was created.                             *)
Leads(names) == \A name \in DOMAIN names : names[name] \in 1 .. Len(content)

(* The state in which the logger starts, with all the names it starts with *)
(* as one sequence, in the order of their files.                           *)
LEMMA InitialNames ==
  ASSUME LoggerInit
  PROVE  \E names \in Leftovers, all \in Seq(Leavable) :
           /\ \/ Live(DefaultOptions.dir) \in ToSet(names) /\ all = names
              \/ Live(DefaultOptions.dir) \notin ToSet(names)
                 /\ all = Append(names, Live(DefaultOptions.dir))
           /\ names \in Seq(Leavable) /\ Len(names) <= Len(all)
           /\ found = ToSet(names)
           /\ \A i \in 1 .. Len(names) : all[i] = names[i]
           /\ \A i, j \in 1 .. Len(all) : all[i] = all[j] => i = j
           /\ DOMAIN path = ToSet(all)
           /\ \A name \in ToSet(all) : path[name] \in 1 .. Len(all) /\ all[path[name]] = name
           /\ content \in Seq(Seq({Earlier} \X found)) /\ Len(content) = Len(all)
           /\ \A i \in 1 .. Len(all) : content[i] = IF i <= Len(names)
                                                    THEN <<LineOf(names[i])>> ELSE <<>>
           /\ Live(DefaultOptions.dir) \in DOMAIN path
           /\ file = path[Live(DefaultOptions.dir)]
           /\ written = LineBytes * Len(content[file])
<1> DEFINE live == Live(DefaultOptions.dir)
<1>1. PICK names \in Leftovers :
        LET all  == IF live \in ToSet(names) THEN names ELSE Append(names, live)
        IN /\ found = ToSet(names)
           /\ path = [name \in ToSet(all) |-> CHOOSE i \in DOMAIN all : all[i] = name]
           /\ content = [i \in DOMAIN all |-> IF i <= Len(names)
                                              THEN <<LineOf(names[i])>>
                                              ELSE <<>>]
           /\ file = path[live]
           /\ written = LineBytes * Len(content[file])
  BY DEF LoggerInit
<1> DEFINE all == IF live \in ToSet(names) THEN names ELSE Append(names, live)
<1>2. /\ names \in Seq(Leavable)
      /\ \A i, j \in 1 .. Len(names) : names[i] = names[j] => i = j
      /\ ToSet(names) = {names[i] : i \in 1 .. Len(names)}
  BY EarlierAssumption DEF IsInjective, ToSet
<1>3. live \in Leavable
  BY OptionsAssumption DEF Live, Leavable, Dirs
<1>4. /\ all \in Seq(Leavable) /\ Len(all) \in Nat /\ Len(names) \in Nat
      /\ Len(names) <= Len(all) /\ DOMAIN all = 1 .. Len(all)
      /\ \A i \in 1 .. Len(names) : all[i] = names[i]
      /\ \A i \in 1 .. Len(all) : i > Len(names) => live \notin ToSet(names) /\ all[i] = live /\ i = Len(names) + 1
  <2> HIDE DEF live
  <2>1. CASE live \in ToSet(names)
    BY <1>2, <2>1, LenProperties
  <2>2. CASE live \notin ToSet(names)
    BY <1>2, <1>3, <2>2, AppendProperties, LenProperties
  <2> QED
    BY <2>1, <2>2
<1> HIDE DEF live
<1>5. \A i, j \in 1 .. Len(all) : all[i] = all[j] => i = j
  <2> HIDE DEF all
  <2> SUFFICES ASSUME NEW i \in 1 .. Len(all), NEW j \in 1 .. Len(all), all[i] = all[j]
               PROVE  i = j
    OBVIOUS
  <2>1. \A k \in 1 .. Len(names) : all[k] \in ToSet(names)
    BY <1>2, <1>4
  <2>2. CASE i <= Len(names) /\ j <= Len(names)
    BY <1>2, <1>4, <2>2
  <2>3. CASE i > Len(names) \/ j > Len(names)
    <3>1. i > Len(names) /\ j > Len(names)
      BY <1>4, <2>1, <2>3
    <3> QED
      BY <1>4, <3>1
  <2> QED
    BY <1>4, <2>2, <2>3
<1>6. /\ DOMAIN path = ToSet(all)
      /\ \A name \in ToSet(all) : path[name] = CHOOSE i \in DOMAIN all : all[i] = name
  BY <1>1
<1>7. \A name \in ToSet(all) : path[name] \in 1 .. Len(all) /\ all[path[name]] = name
  <2> HIDE DEF all
  <2> SUFFICES ASSUME NEW name \in ToSet(all)
               PROVE  path[name] \in 1 .. Len(all) /\ all[path[name]] = name
    OBVIOUS
  <2>1. \E i \in DOMAIN all : all[i] = name
    BY DEF ToSet
  <2> QED
    BY <1>4, <1>6, <2>1
<1>8. /\ DOMAIN content = 1 .. Len(all)
      /\ \A i \in 1 .. Len(all) : content[i] = IF i <= Len(names)
                                               THEN <<LineOf(names[i])>> ELSE <<>>
  <2> HIDE DEF all
  <2>1. content = [i \in DOMAIN all |-> IF i <= Len(names) THEN <<LineOf(names[i])>> ELSE <<>>]
    BY <1>1 DEF all
  <2> QED
    BY <1>4, <2>1
<1>9. content \in Seq(Seq({Earlier} \X found)) /\ Len(content) = Len(all)
  <2> HIDE DEF all
  <2>1. ASSUME NEW i \in 1 .. Len(all) PROVE content[i] \in Seq({Earlier} \X found)
    <3>1. CASE i <= Len(names)
      <4>1. i \in 1 .. Len(names) /\ names[i] \in found
        BY <1>1, <1>2, <1>4, <3>1
      <4>2. LineOf(names[i]) \in {Earlier} \X found
        BY <4>1 DEF LineOf
      <4>3. <<LineOf(names[i])>> \in Seq({Earlier} \X found)
        BY <4>2
      <4> QED
        BY <1>8, <3>1, <4>3
    <3>2. CASE ~(i <= Len(names))
      BY <1>8, <3>2, EmptySeq
    <3> QED
      BY <3>1, <3>2
  <2>2. content = [i \in 1 .. Len(all) |-> content[i]]
    BY <1>1, <1>4 DEF all
  <2>3. [i \in 1 .. Len(all) |-> content[i]] \in Seq(Seq({Earlier} \X found))
    BY <1>4, <2>1, IsASeq
  <2> QED
    BY <1>4, <1>8, <2>2, <2>3, LenProperties
<1>10. live \in ToSet(all)
  <2>1. CASE live \in ToSet(names)
    BY <2>1
  <2>2. CASE live \notin ToSet(names)
    <3>1. Len(all) \in 1 .. Len(all) /\ all[Len(all)] = live
      BY <1>2, <1>3, <2>2, AppendProperties, LenProperties
    <3> QED
      BY <1>4, <3>1 DEF ToSet
  <2> QED
    BY <2>1, <2>2
<1>11. \/ live \in ToSet(names) /\ all = names
       \/ live \notin ToSet(names) /\ all = Append(names, live)
  OBVIOUS
<1> QED
  BY <1>1, <1>2, <1>4, <1>5, <1>6, <1>7, <1>8, <1>9, <1>10, <1>11 DEF live

(* What open does with the live file, in terms of the names before it: the *)
(* names stay, the live one may be added with a new, empty file; m_file is *)
(* the file of the live name, or no file when the directory is absent.     *)
LEMMA OpenLiveEffect ==
  ASSUME LoggerTypeOK, NEW names, Leads(names), OpenLive(names)
  PROVE  /\ \/ path' = names /\ content' = content
            \/ /\ Live(rotOpt.dir) \notin DOMAIN names
               /\ path' = With(names, Live(rotOpt.dir), Len(content) + 1)
               /\ content' = Append(content, <<>>)
         /\ \/ Live(rotOpt.dir) \in DOMAIN path' /\ file' = path'[Live(rotOpt.dir)]
            \/ rotOpt.dir \in absent /\ file' = NoFile
         /\ written' \in Nat
<1> DEFINE live == Live(rotOpt.dir)
<1>0. content \in Seq(Seq(Line)) /\ LineBytes \in Nat
  BY BytesAssumption DEF LoggerTypeOK
<1>1. CASE OpenFound(names)
  <2>1. names[live] \in 1 .. Len(content)
    BY <1>1 DEF OpenFound, Leads
  <2>2. Len(content[names[live]]) \in Nat
    BY <1>0, <2>1, LenProperties, ElementOfSeq
  <2>3. \A a, b \in Nat : a * b \in Nat
    OBVIOUS
  <2>4. written' \in Nat
    BY <1>0, <1>1, <2>2, <2>3 DEF OpenFound, Size
  <2> QED
    BY <1>1, <2>4 DEF OpenFound, Opened
<1>2. CASE OpenNew(names)
  <2>1. live \in DOMAIN path' /\ file' = path'[live]
    BY <1>2 DEF With, OpenNew, Opened
  <2> QED
    BY <1>2, <2>1 DEF OpenNew
<1>3. CASE OpenFails(names)
  BY <1>3 DEF OpenFails
<1> QED
  BY <1>1, <1>2, <1>3 DEF OpenLive

(* A new, empty file leaves the others as they were.                       *)
LEMMA NewFile ==
  ASSUME NEW T, NEW c \in Seq(Seq(T))
  PROVE  /\ Append(c, <<>>) \in Seq(Seq(T))
         /\ Len(c) \in Nat /\ Len(Append(c, <<>>)) = Len(c) + 1
         /\ \A f \in 1 .. Len(c) : Append(c, <<>>)[f] = c[f]
         /\ Append(c, <<>>)[Len(c) + 1] = <<>>
<1> DEFINE F == Seq(T)
<1>1. <<>> \in F /\ c \in Seq(F)
  BY EmptySeq
<1> HIDE DEF F
<1>2. /\ Append(c, <<>>) \in Seq(F)
      /\ Len(c) \in Nat /\ Len(Append(c, <<>>)) = Len(c) + 1
      /\ \A f \in 1 .. Len(c) : Append(c, <<>>)[f] = c[f]
      /\ Append(c, <<>>)[Len(c) + 1] = <<>>
  BY <1>1, AppendProperties, LenProperties
<1> QED
  BY <1>2 DEF F

(* Creating at most the live file leaves the names and the files typed.    *)
LEMMA OpenLiveTypes ==
  ASSUME LoggerTypeOK, NEW names, Leads(names), OpenLive(names)
  PROVE  /\ content' \in Seq(Seq(Line)) /\ Len(content) <= Len(content')
         /\ Leads(path)'
         /\ file' \in {NoFile} \union (1 .. Len(content'))
         /\ written' \in Nat
<1> DEFINE live == Live(rotOpt.dir)
<1>0. content \in Seq(Seq(Line)) /\ Len(content) \in Nat /\ <<>> \in Seq(Line)
  BY EmptySeq, LenProperties DEF LoggerTypeOK
<1>1. content' \in Seq(Seq(Line)) /\ Len(content) <= Len(content') /\ Leads(path)'
  <2>1. CASE path' = names /\ content' = content
    BY <1>0, <2>1 DEF Leads
  <2>2. CASE /\ live \notin DOMAIN names
             /\ path' = With(names, live, Len(content) + 1)
             /\ content' = Append(content, <<>>)
    <3>1. content' \in Seq(Seq(Line)) /\ Len(content') = Len(content) + 1
      <4> HIDE DEF Line
      <4>1. \A T, c : c \in Seq(Seq(T)) => /\ Append(c, <<>>) \in Seq(Seq(T))
                                           /\ Len(Append(c, <<>>)) = Len(c) + 1
        BY NewFile
      <4>2. Append(content, <<>>) \in Seq(Seq(Line)) /\ Len(Append(content, <<>>)) = Len(content) + 1
        BY <1>0, <4>1, Zenon
      <4> QED
        BY <2>2, <4>2, Zenon
    <3>2. \A n \in DOMAIN path' : path'[n] \in 1 .. Len(content')
      <4> SUFFICES ASSUME NEW n \in DOMAIN path' PROVE path'[n] \in 1 .. Len(content')
        OBVIOUS
      <4>1. n = live \/ (n \in DOMAIN names /\ n # live)
        BY <2>2 DEF With
      <4>2. CASE n = live
        BY <1>0, <2>2, <3>1, <4>2 DEF With
      <4>3. CASE n \in DOMAIN names /\ n # live
        <5>1. path'[n] = names[n] /\ names[n] \in 1 .. Len(content)
          BY <2>2, <4>3 DEF With, Leads
        <5> QED
          BY <1>0, <3>1, <5>1
      <4> QED
        BY <4>1, <4>2, <4>3
    <3> QED
      BY <1>0, <3>1, <3>2 DEF Leads
  <2> QED
    BY <2>1, <2>2, OpenLiveEffect
<1>2. file' \in {NoFile} \union (1 .. Len(content'))
  BY <1>1, OpenLiveEffect DEF Leads
<1> QED
  BY <1>1, <1>2, OpenLiveEffect

(* The names after rotateNow_ has renamed the live file, if there is one.  *)
RotatedName == Rotated(rotOpt.dir, today, IF curData = today THEN seq ELSE 0)
RenamedNames == IF Live(rotOpt.dir) \in DOMAIN path
                THEN With(Without({Live(rotOpt.dir)}), RotatedName, path[Live(rotOpt.dir)])
                ELSE path

(* rotateNow_ in these terms.                                              *)
LEMMA RotateNowOpens ==
  ASSUME RotateNow
  PROVE  /\ curData' = today
         /\ seq' = (IF curData = today THEN seq ELSE 0) + 1
         /\ OpenLive(RenamedNames)
BY DEF RotateNow, RenamedNames, RotatedName, NextSeq

(* A renamed file is still a file that was created.                        *)
LEMMA RenamedLeads ==
  ASSUME Leads(path)
  PROVE  Leads(RenamedNames)
<1>1. CASE Live(rotOpt.dir) \in DOMAIN path
  BY <1>1 DEF With, Without, RenamedNames, Leads
<1>2. CASE Live(rotOpt.dir) \notin DOMAIN path
  BY <1>2 DEF RenamedNames
<1> QED
  BY <1>1, <1>2

(* One step keeps the types: what matters is that a name always leads to a *)
(* file that exists, and m_file likewise unless it failed to open.         *)
LEMMA LoggerTypeStep ==
  ASSUME LoggerTypeOK, TypeOK', [LoggerNext]_loggerVars
  PROVE  LoggerTypeOK'
<1>0. /\ content \in Seq(Seq(Line)) /\ Len(content) \in Nat /\ Leads(path)
      /\ Line' = Entry \union ({Earlier} \X found') /\ LineBytes \in Nat
      /\ MaxDays \in Nat \ {0}
  BY LenProperties, BytesAssumption, DaysAssumption DEF LoggerTypeOK, Leads, Line
<1>1. ASSUME NEW p \in Producers, Log(p) PROVE LoggerTypeOK'
  BY <1>1 DEF Log, LoggerTypeOK, files, Line
<1>2. CASE Reopen
  BY <1>2 DEF Reopen, LoggerTypeOK, files, Line
<1>3. ASSUME NEW o \in Options, SetRotateOptions(o) PROVE LoggerTypeOK'
  BY <1>3 DEF SetRotateOptions, LoggerTypeOK, files, Line
<1>4. ASSUME NEW s \in Stoppers, Stop(s) \/ CloseQueue(s) \/ JoinBackend(s)
      PROVE  LoggerTypeOK'
  BY <1>4 DEF Stop, CloseQueue, JoinBackend, LoggerTypeOK, files, Line
<1>5. ASSUME NEW d \in Dirs, MoveAway(d) PROVE LoggerTypeOK'
  <2> DEFINE f == path[Live(d)]
             gone == With(Without({Live(d)}), Moved(f), f)
  <2>1. f \in 1 .. Len(content) /\ moved' = moved \union {f}
    BY <1>0, <1>5 DEF MoveAway, Leads
  <2>2. Leads(gone)
    BY <1>0, <2>1 DEF With, Without, Leads
  <2>3. /\ content' \in Seq(Seq(Line)) /\ Len(content) <= Len(content')
        /\ Len(content') \in Nat /\ Leads(path)'
    <3>1. CASE path' = gone /\ content' = content
      <4> HIDE DEF gone
      <4> QED
        BY <1>0, <2>2, <3>1 DEF Leads
    <3>2. CASE /\ path' = With(gone, Live(d), Len(content) + 1)
               /\ content' = Append(content, <<>>)
      <4> HIDE DEF gone, Line
      <4>1. \A T, c : c \in Seq(Seq(T)) => /\ Append(c, <<>>) \in Seq(Seq(T))
                                           /\ Len(Append(c, <<>>)) = Len(c) + 1
        BY NewFile
      <4>2. Append(content, <<>>) \in Seq(Seq(Line)) /\ Len(Append(content, <<>>)) = Len(content) + 1
        BY <1>0, <4>1, Zenon
      <4>3. content' \in Seq(Seq(Line)) /\ Len(content') = Len(content) + 1
        BY <3>2, <4>2, Zenon
      <4>4. Leads(path)'
        BY <1>0, <2>2, <3>2, <4>3 DEF With, Leads
      <4> QED
        BY <1>0, <4>3, <4>4
    <3> QED
      BY <1>5, <3>1, <3>2 DEF MoveAway
  <2>4. /\ file' = file /\ written' = written /\ rotOpt' = rotOpt /\ curData' = curData
        /\ today' = today /\ seq' = seq /\ needReopen' = needReopen /\ place' = place
        /\ stopper' = stopper /\ absent' = absent /\ dropped' = dropped /\ left' = left
        /\ found' = found
    BY <1>5 DEF MoveAway, calls
  <2>5. file' \in {NoFile} \union (1 .. Len(content')) /\ moved' \subseteq 1 .. Len(content')
    <3> HIDE DEF f
    <3>1. 1 .. Len(content) \subseteq 1 .. Len(content')
      BY <1>0, <2>3
    <3>2. file \in {NoFile} \union (1 .. Len(content)) /\ moved \subseteq 1 .. Len(content)
      BY DEF LoggerTypeOK
    <3> QED
      BY <2>1, <2>4, <3>1, <3>2
  <2>6. left' \subseteq moved' \union {NoFile}
    BY <2>1, <2>4 DEF LoggerTypeOK
  <2> QED
    BY <2>3, <2>4, <2>5, <2>6 DEF LoggerTypeOK, Leads, Line
<1>6. CASE Midnight
  BY <1>0, <1>6 DEF Midnight, LoggerTypeOK, files, Line
<1>7. ASSUME NEW d \in AbsentDirs, MakeDir(d) PROVE LoggerTypeOK'
  BY <1>7 DEF MakeDir, LoggerTypeOK, files, Line
<1>8. CASE WakeSpuriously
  BY <1>8 DEF WakeSpuriously, LoggerTypeOK, files, calls, Line
<1>9. CASE Wait
  BY <1>9 DEF Wait, LoggerTypeOK, files, calls, Line
<1>10. CASE ExchangeReopen
  BY <1>10 DEF ExchangeReopen, Found, LoggerTypeOK, files, Line
<1>11. CASE DoReopen
  <2>1. /\ content' \in Seq(Seq(Line)) /\ Len(content) <= Len(content')
        /\ Leads(path)'
        /\ file' \in {NoFile} \union (1 .. Len(content'))
        /\ written' \in Nat
    BY <1>0, <1>11, OpenLiveTypes DEF DoReopen
  <2>2. Len(content') \in Nat
    BY <2>1, LenProperties
  <2>3. moved' \subseteq 1 .. Len(content')
    BY <1>0, <1>11, <2>1, <2>2 DEF DoReopen, LoggerTypeOK
  <2> QED
    BY <1>11, <2>1, <2>3 DEF DoReopen, LoggerTypeOK, Leads, calls, Line
<1>12. CASE MaybeRotate
  <2>1. CASE RotateNow
    <3>1. /\ content' \in Seq(Seq(Line)) /\ Len(content) <= Len(content')
          /\ Leads(path)'
          /\ file' \in {NoFile} \union (1 .. Len(content'))
          /\ written' \in Nat
      BY <1>0, <2>1, OpenLiveTypes, RotateNowOpens, RenamedLeads
    <3>2. Len(content') \in Nat
      BY <3>1, LenProperties
    <3>3. moved' \subseteq 1 .. Len(content')
      BY <1>0, <1>12, <3>1, <3>2 DEF MaybeRotate, LoggerTypeOK
    <3>4. curData' \in 1 .. MaxDays /\ seq' \in Nat
      BY <2>1, RotateNowOpens DEF LoggerTypeOK
    <3> QED
      BY <1>12, <3>1, <3>3, <3>4 DEF MaybeRotate, LoggerTypeOK, Leads, calls, Line
  <2>2. CASE UNCHANGED <<path, content, file, written, curData, seq>>
    BY <1>12, <2>2 DEF MaybeRotate, LoggerTypeOK, calls, Line
  <2> QED
    BY <1>12, <2>1, <2>2 DEF MaybeRotate
<1>13. CASE Write2File
  <2>1. Head(out) \in Entry
    BY <1>13, HeadTailProperties DEF Write2File, WriteEntry, LoggerTypeOK, TypeOK
  <2>2. CASE file = NoFile
    BY <1>0, <1>13, <2>1, <2>2 DEF Write2File, LoggerTypeOK, Line
  <2>3. CASE file # NoFile
    <3>1. file \in 1 .. Len(content) /\ content[file] \in Seq(Line) /\ Head(out) \in Line
      BY <1>0, <2>1, <2>3, ElementOfSeq DEF LoggerTypeOK, Line
    <3>2. Append(content[file], Head(out)) \in Seq(Line)
      BY <3>1, AppendProperties
    <3>3. content' = [content EXCEPT ![file] = Append(content[file], Head(out))]
      BY <1>13, <2>3 DEF Write2File
    <3>4. content' \in Seq(Seq(Line)) /\ Len(content') = Len(content)
      <4> DEFINE F == Seq(Line)
      <4> HIDE DEF F
      <4>1. content \in Seq(F) /\ Append(content[file], Head(out)) \in F
        BY <1>0, <3>2 DEF F
      <4>2. content' \in Seq(F) /\ Len(content') = Len(content)
        BY <3>1, <3>3, <4>1, ExceptSeq
      <4> QED
        BY <4>2 DEF F
    <3> QED
      BY <1>0, <1>13, <2>3, <3>4 DEF Write2File, LoggerTypeOK, Line
  <2> QED
    BY <2>2, <2>3
<1>14. CASE Flush
  BY <1>14 DEF Flush, LoggerTypeOK, files, calls, Line
<1>15. CASE UNCHANGED loggerVars
  BY <1>15 DEF loggerVars, LoggerTypeOK, files, calls, Line
<1> QED
  BY <1>1, <1>2, <1>3, <1>4, <1>5, <1>6, <1>7, <1>8, <1>9, <1>10, <1>11, <1>12,
     <1>13, <1>14, <1>15 DEF LoggerNext, BackendLoop

(* Whatever day it is, wherever the files went and whoever calls: each     *)
(* name leads to a file there is, m_file is one of them or failed, and     *)
(* what a reopen left behind had been moved or could not be opened.        *)
THEOREM LoggerTypeCorrect == LoggerSpec => []LoggerTypeOK
<1>1. LoggerInit /\ TypeOK => LoggerTypeOK
  <2> SUFFICES ASSUME LoggerInit, TypeOK PROVE LoggerTypeOK
    OBVIOUS
  <2>1. PICK names \in Leftovers, all \in Seq(Leavable) :
          /\ found = ToSet(names)
          /\ DOMAIN path = ToSet(all)
          /\ \A name \in ToSet(all) : path[name] \in 1 .. Len(all)
          /\ content \in Seq(Seq({Earlier} \X found)) /\ Len(content) = Len(all)
          /\ Live(DefaultOptions.dir) \in DOMAIN path
          /\ file = path[Live(DefaultOptions.dir)]
          /\ written = LineBytes * Len(content[file])
    BY InitialNames
  <2>2. content \in Seq(Seq(Line))
    <3>1. Seq({Earlier} \X found) \subseteq Seq(Line)
      BY SeqMonotonic DEF Line
    <3>2. Seq(Seq({Earlier} \X found)) \subseteq Seq(Seq(Line))
      BY <3>1, SeqMonotonic
    <3> QED
      BY <2>1, <3>2
  <2>3. file \in 1 .. Len(content)
    BY <2>1
  <2>4. written \in Nat
    <3>1. Len(content[file]) \in Nat
      BY <2>2, <2>3, ElementOfSeq, LenProperties
    <3>2. \A a, b \in Nat : a * b \in Nat
      OBVIOUS
    <3> QED
      BY <2>1, <3>1, <3>2, BytesAssumption
  <2>5. 1 \in 1 .. MaxDays
    BY DaysAssumption
  <2> QED
    BY <2>1, <2>2, <2>3, <2>4, <2>5, OptionsAssumption DEF LoggerInit, LoggerTypeOK
<1>2. LoggerTypeOK /\ TypeOK' /\ [LoggerNext]_loggerVars => LoggerTypeOK'
  BY LoggerTypeStep
<1> QED
  BY <1>1, <1>2, LoggerImplementsQueue, TypeCorrect, PTL DEF LoggerSpec

-----------------------------------------------------------------------------
(* Part 4: no line is lost, and none is in two files.                      *)

(* push numbers the entries of a producer, so that no two are equal.       *)
EntriesDistinct ==
  /\ \A i \in 1 .. Len(accepted) : accepted[i][2] <= pushed[accepted[i][1]]
  /\ \A i, j \in 1 .. Len(accepted) : accepted[i] = accepted[j] => i = j

(* One step of the queue keeps the numbers of the entries distinct.        *)
LEMMA EntriesDistinctStep ==
  ASSUME TypeOK, EntriesDistinct, [Next]_vars
  PROVE  EntriesDistinct'
<1>0. /\ accepted \in Seq(Entry) /\ Len(accepted) \in Nat /\ MaxPush \in Nat
      /\ pushed \in [Producers -> 0 .. MaxPush]
      /\ \A i \in 1 .. Len(accepted) : accepted[i] \in Entry
  BY LenProperties, ElementOfSeq, MaxPushAssumption DEF TypeOK
<1>1. ASSUME NEW p \in Producers, PushAccepted(p) PROVE EntriesDistinct'
  <2> DEFINE e == <<p, pushed[p] + 1>>
             n == Len(accepted) + 1
  <2>1. e \in Entry /\ e[1] = p /\ e[2] = pushed[p] + 1
    BY <1>0, <1>1 DEF PushAccepted, Entry
  <2>2. accepted' = Append(accepted, e) /\ pushed' = [pushed EXCEPT ![p] = @ + 1]
    BY <1>1 DEF PushAccepted
  <2> HIDE DEF e
  <2>3. /\ Len(accepted') = n /\ accepted'[n] = e
        /\ \A i \in 1 .. Len(accepted) : accepted'[i] = accepted[i]
    BY <1>0, <2>1, <2>2, AppendProperties
  <2>4. \A i \in 1 .. Len(accepted) : accepted[i] # e
    <3> SUFFICES ASSUME NEW i \in 1 .. Len(accepted), accepted[i] = e PROVE FALSE
      OBVIOUS
    <3>1. e[2] <= pushed[e[1]]
      BY DEF EntriesDistinct
    <3> QED
      BY <1>0, <2>1, <3>1
  <2>5. ASSUME NEW i \in 1 .. n PROVE accepted'[i][2] <= pushed'[accepted'[i][1]]
    <3>1. CASE i = n
      BY <1>0, <2>1, <2>2, <2>3, <3>1
    <3>2. CASE i # n
      <4>1. i \in 1 .. Len(accepted) /\ accepted'[i] = accepted[i]
        BY <1>0, <2>3, <3>2
      <4>2. accepted[i][1] \in Producers /\ accepted[i][2] \in Nat
        BY <1>0, <4>1 DEF Entry
      <4>3. accepted[i][2] <= pushed[accepted[i][1]]
        BY <4>1 DEF EntriesDistinct
      <4>4. pushed[accepted[i][1]] <= pushed'[accepted[i][1]]
        BY <1>0, <2>2, <4>2
      <4>5. pushed[accepted[i][1]] \in Nat /\ pushed'[accepted[i][1]] \in Nat
        BY <1>0, <2>2, <4>2
      <4> QED
        BY <4>1, <4>2, <4>3, <4>4, <4>5
    <3> QED
      BY <3>1, <3>2
  <2>6. ASSUME NEW i \in 1 .. n, NEW j \in 1 .. n, accepted'[i] = accepted'[j]
        PROVE  i = j
    <3>1. \A k \in 1 .. n : k # n => k \in 1 .. Len(accepted)
      BY <1>0
    <3> QED
      BY <2>3, <2>4, <2>6, <3>1 DEF EntriesDistinct
  <2> QED
    BY <2>3, <2>5, <2>6 DEF EntriesDistinct
<1>2. CASE accepted' = accepted /\ (pushed' = pushed \/ \E p \in Producers : PushRefused(p))
  <2>1. \A p \in Producers : pushed[p] \in Nat /\ pushed'[p] \in Nat /\ pushed[p] <= pushed'[p]
    BY <1>0, <1>2 DEF PushRefused
  <2>2. \A i \in 1 .. Len(accepted) : accepted[i][1] \in Producers /\ accepted[i][2] \in Nat
    BY <1>0 DEF Entry
  <2>3. ASSUME NEW i \in 1 .. Len(accepted) PROVE accepted[i][2] <= pushed'[accepted[i][1]]
    <3>1. accepted[i][2] <= pushed[accepted[i][1]]
      BY DEF EntriesDistinct
    <3> QED
      BY <2>1, <2>2, <3>1
  <2> QED
    BY <1>2, <2>3 DEF EntriesDistinct
<1>3. CASE \E p \in Producers : PushRefused(p)
  BY <1>2, <1>3 DEF PushRefused
<1>4. CASE Close \/ SpuriousWake \/ Consume \/ UNCHANGED vars
  BY <1>2, <1>4 DEF Close, SpuriousWake, Consume, WaitSleeps, WaitSwaps, WaitReturnsFalse,
                    WriteEntry, FinishBatch, vars
<1> QED
  BY <1>1, <1>3, <1>4 DEF Next

(* push never accepts the same entry twice: each producer numbers its own. *)
THEOREM EntriesAreDistinct == Spec => []EntriesDistinct
<1>1. Init => EntriesDistinct
  BY DEF Init, EntriesDistinct
<1>2. TypeOK /\ EntriesDistinct /\ [Next]_vars => EntriesDistinct'
  BY EntriesDistinctStep
<1> QED
  BY <1>1, <1>2, TypeCorrect, PTL DEF Spec

(* What is in the batch or in the buffers was not written yet, and what is *)
(* pushed next is in none of them.                                         *)
LEMMA WhereEntriesAre ==
  ASSUME TypeOK, QueueInv, EntriesDistinct
  PROVE  /\ Len(delivered) \in Nat /\ Len(out) \in Nat
         /\ \A i \in 1 .. Len(delivered) : delivered[i] \in Entry
         /\ \A i \in 1 .. Len(out) : out[i] \in Entry
         /\ \A i \in 1 .. Len(delivered), j \in 1 .. Len(out) : delivered[i] # out[j]
         /\ \A p \in Producers : \A i \in 1 .. Len(out) : out[i] # <<p, pushed[p] + 1>>
<1> DEFINE W == buf[writeBuf]
           D == Len(delivered)
<1>0. /\ delivered \in Seq(Entry) /\ out \in Seq(Entry) /\ W \in Seq(Entry)
      /\ accepted \in Seq(Entry) /\ MaxPush \in Nat
      /\ D \in Nat /\ Len(out) \in Nat /\ Len(W) \in Nat
      /\ pushed \in [Producers -> 0 .. MaxPush]
  BY LenProperties, MaxPushAssumption DEF TypeOK
<1>1. accepted = delivered \o (out \o W)
  BY DEF QueueInv, Accounted
<1> HIDE DEF W
<1>2. /\ out \o W \in Seq(Entry) /\ Len(out \o W) = Len(out) + Len(W)
      /\ \A j \in 1 .. Len(out) : (out \o W)[j] = out[j]
  BY <1>0, ConcatProperties
<1>3. /\ Len(accepted) = D + Len(out) + Len(W)
      /\ \A i \in 1 .. D : accepted[i] = delivered[i]
      /\ \A j \in 1 .. Len(out \o W) : accepted[D + j] = (out \o W)[j]
  BY <1>0, <1>1, <1>2, ConcatProperties
<1>4. ASSUME NEW j \in 1 .. Len(out) PROVE accepted[D + j] = out[j]
  <2>1. j \in 1 .. Len(out \o W)
    BY <1>0, <1>2
  <2> QED
    BY <1>2, <1>3, <2>1
<1>5. ASSUME NEW i \in 1 .. D, NEW j \in 1 .. Len(out) PROVE delivered[i] # out[j]
  <2>1. i \in 1 .. Len(accepted) /\ D + j \in 1 .. Len(accepted) /\ i # D + j
    BY <1>0, <1>3
  <2> QED
    BY <1>3, <1>4, <2>1 DEF EntriesDistinct
<1>6. ASSUME NEW p \in Producers, NEW j \in 1 .. Len(out), out[j] = <<p, pushed[p] + 1>>
      PROVE  FALSE
  <2>1. D + j \in 1 .. Len(accepted)
    BY <1>0, <1>3
  <2>2. accepted[D + j][2] <= pushed[accepted[D + j][1]]
    BY <2>1 DEF EntriesDistinct
  <2>3. pushed[p] + 1 <= pushed[p]
    BY <1>4, <1>6, <2>2
  <2> QED
    BY <1>0, <2>3
<1>7. /\ \A i \in 1 .. Len(delivered) : delivered[i] \in Entry
      /\ \A i \in 1 .. Len(out) : out[i] \in Entry
  BY <1>0, ElementOfSeq
<1> QED
  BY <1>0, <1>5, <1>6, <1>7

(* The invariant of the files.  A name leads to a file of its own.  A name *)
(* that a rotation gave, or might give next, is either behind m_cur_data   *)
(* and m_seq or was found and never used since: rotateNow_ replaces no     *)
(* other.  m_file keeps a name by which no rotation can replace it.        *)
NamesDistinct == \A m, n \in DOMAIN path : path[m] = path[n] => m = n

Before(name, day, n) == name.day < day \/ (name.day = day /\ name.seq < n)
Past(name) == Before(name, curData, seq)
Untouched(name) == name \in found /\ content[path[name]] = <<LineOf(name)>>
NameKnown(name) == \/ name.kind = "live"
                   \/ name.kind = "moved" /\ name = Moved(path[name])
                   \/ /\ name.kind = "rotated" /\ name.day \in Nat /\ name.seq \in Nat
                      /\ Past(name) \/ Untouched(name)
NamesKnown == \A name \in DOMAIN path : NameKnown(name)

FileNamed == file # NoFile =>
               \E name \in DOMAIN path : path[name] = file /\ name.kind # "rotated"

(* Each line of a file was written by this process or found, no line is in *)
(* two files, and none that was written or found has gone, but for those   *)
(* found under a rotated name.                                             *)
LinesKnown == \A f \in 1 .. Len(content) : \A i \in 1 .. Len(content[f]) :
                 \/ \E j \in 1 .. Len(delivered) : content[f][i] = delivered[j]
                 \/ \E name \in found : content[f][i] = LineOf(name)
LinesApart == \A f, g \in 1 .. Len(content) :
                \A i \in 1 .. Len(content[f]), j \in 1 .. Len(content[g]) :
                  content[f][i] = content[g][j] => f = g
WrittenIsKept == \A i \in 1 .. Len(delivered) :
                   delivered[i] \notin dropped => Holding(delivered[i]) # {}
FoundIsKept == \A name \in found :
                 \/ name.kind = "rotated" /\ name \in DOMAIN path
                 \/ name.kind = "live" /\ Holding(LineOf(name)) # {}

\* In each file the lines stand in the order in which they were written.
LinesInOrder == \A f \in 1 .. Len(content) : InOrder(content[f])

FilesInv == /\ NamesDistinct /\ NamesKnown /\ FileNamed /\ curData <= today
            /\ LinesKnown /\ LinesApart /\ WrittenIsKept /\ FoundIsKept

(* The invariant gives the property: a line has a name and, as no two      *)
(* files have it and no two names a file, one name only.                   *)
LEMMA FilesInvImpliesKept ==
  ASSUME LoggerTypeOK, FilesInv, LinesInOrder
  PROVE  KeptInOneFile
<1>1. ASSUME NEW e, Holding(e) # {} PROVE Cardinality(Holding(e)) = 1
  <2>1. PICK m : m \in Holding(e)
    BY <1>1
  <2>2. ASSUME NEW n \in Holding(e) PROVE n = m
    <3>1. /\ m \in DOMAIN path /\ n \in DOMAIN path
          /\ path[m] \in 1 .. Len(content) /\ path[n] \in 1 .. Len(content)
      BY <2>1 DEF Holding, LoggerTypeOK
    <3>2. PICK i \in 1 .. Len(content[path[m]]) : content[path[m]][i] = e
      BY <2>1 DEF Holding
    <3>3. PICK j \in 1 .. Len(content[path[n]]) : content[path[n]][j] = e
      BY DEF Holding
    <3>4. path[m] = path[n]
      BY <3>1, <3>2, <3>3 DEF FilesInv, LinesApart
    <3> QED
      BY <3>1, <3>4 DEF FilesInv, NamesDistinct
  <2>3. Holding(e) = {m}
    BY <2>1, <2>2
  <2> QED
    BY <2>3, FS_Singleton
<1>2. \A i \in 1 .. Len(delivered) :
        delivered[i] \notin dropped => Cardinality(Holding(delivered[i])) = 1
  BY <1>1 DEF FilesInv, WrittenIsKept
<1>3. ASSUME NEW name \in found
      PROVE  \/ Cardinality(Holding(LineOf(name))) = 1
             \/ Holding(LineOf(name)) = {} /\ Replaceable(name)
  BY <1>1 DEF FilesInv, FoundIsKept, Replaceable
<1> QED
  BY <1>2, <1>3 DEF KeptInOneFile, LinesInOrder

(* At most one new, empty file was added to the files.                     *)
Grown == content' = content \/ content' = Append(content, <<>>)

LEMMA GrownContent ==
  ASSUME LoggerTypeOK, Grown
  PROVE  /\ Len(content) \in Nat /\ Len(content') \in Nat /\ Len(content) <= Len(content')
         /\ \A f \in 1 .. Len(content) : content'[f] = content[f]
         /\ \A f \in 1 .. Len(content') : f \in 1 .. Len(content) \/ content'[f] = <<>>
<1>1. content \in Seq(Seq(Line)) /\ Len(content) \in Nat
  BY LenProperties DEF LoggerTypeOK
<1>2. CASE content' = content
  BY <1>1, <1>2
<1>3. CASE content' = Append(content, <<>>)
  <2> HIDE DEF Line
  <2>1. \A T, c : c \in Seq(Seq(T)) =>
          /\ Len(Append(c, <<>>)) = Len(c) + 1
          /\ \A f \in 1 .. Len(c) : Append(c, <<>>)[f] = c[f]
          /\ Append(c, <<>>)[Len(c) + 1] = <<>>
    BY NewFile
  <2>2. /\ Len(Append(content, <<>>)) = Len(content) + 1
        /\ \A f \in 1 .. Len(content) : Append(content, <<>>)[f] = content[f]
        /\ Append(content, <<>>)[Len(content) + 1] = <<>>
    BY <1>1, <2>1, Zenon
  <2>3. /\ Len(content') = Len(content) + 1
        /\ \A f \in 1 .. Len(content) : content'[f] = content[f]
        /\ content'[Len(content) + 1] = <<>>
    BY <1>3, <2>2, Zenon
  <2> QED
    BY <1>1, <2>3
<1> QED
  BY <1>2, <1>3 DEF Grown

(* A step that renames: each file with a name keeps one, but for those     *)
(* found and untouched that a rotation replaces.                           *)
Renames == /\ Grown
           /\ UNCHANGED <<delivered, dropped, found>>
           /\ \A name \in DOMAIN path :
                \/ \E new \in DOMAIN path' : path'[new] = path[name]
                \/ name.kind = "rotated" /\ Untouched(name)
           /\ \A name \in found :
                name.kind = "rotated" /\ name \in DOMAIN path => name \in DOMAIN path'

(* Such a step loses no line and puts none in two files.                   *)
LEMMA RenamesKeepLines ==
  ASSUME LoggerTypeOK, LinesKnown, LinesApart, WrittenIsKept, FoundIsKept, Renames
  PROVE  (LinesKnown /\ LinesApart /\ WrittenIsKept /\ FoundIsKept)'
<1>0. /\ Len(content) \in Nat /\ Len(content') \in Nat /\ Len(content) <= Len(content')
      /\ \A f \in 1 .. Len(content) : content'[f] = content[f]
      /\ \A f \in 1 .. Len(content') : f \in 1 .. Len(content) \/ content'[f] = <<>>
      /\ delivered' = delivered /\ dropped' = dropped /\ found' = found
      /\ \A name : LineOf(name)' = LineOf(name)
  BY GrownContent DEF Renames, LineOf
<1>1. \A f \in 1 .. Len(content') : \A i \in 1 .. Len(content'[f]) : f \in 1 .. Len(content)
  BY <1>0
<1>2. LinesKnown'
  <2> SUFFICES ASSUME NEW f \in 1 .. Len(content'), NEW i \in 1 .. Len(content'[f])
               PROVE  \/ \E j \in 1 .. Len(delivered) : content'[f][i] = delivered[j]
                      \/ \E name \in found : content'[f][i] = LineOf(name)
    BY <1>0 DEF LinesKnown, LineOf
  <2>1. f \in 1 .. Len(content) /\ content'[f] = content[f]
    BY <1>0, <1>1
  <2> QED
    BY <2>1 DEF LinesKnown
<1>3. LinesApart'
  <2> SUFFICES ASSUME NEW f \in 1 .. Len(content'), NEW g \in 1 .. Len(content'),
                      NEW i \in 1 .. Len(content'[f]), NEW j \in 1 .. Len(content'[g]),
                      content'[f][i] = content'[g][j]
               PROVE  f = g
    BY DEF LinesApart
  <2>1. /\ f \in 1 .. Len(content) /\ content'[f] = content[f]
        /\ g \in 1 .. Len(content) /\ content'[g] = content[g]
    BY <1>0, <1>1
  <2> QED
    BY <2>1 DEF LinesApart
<1>4. ASSUME NEW e, Holding(e) # {}, \A name \in found : name.kind = "rotated" => e # LineOf(name)
      PROVE  Holding(e)' # {}
  <2>1. PICK m \in DOMAIN path : \E i \in 1 .. Len(content[path[m]]) : content[path[m]][i] = e
    BY <1>4 DEF Holding
  <2>2. PICK i \in 1 .. Len(content[path[m]]) : content[path[m]][i] = e
    BY <2>1
  <2>3. path[m] \in 1 .. Len(content)
    BY DEF LoggerTypeOK
  <2>4. CASE \E new \in DOMAIN path' : path'[new] = path[m]
    <3>1. PICK new \in DOMAIN path' : path'[new] = path[m]
      BY <2>4
    <3>2. content'[path'[new]] = content[path[m]]
      BY <1>0, <2>3, <3>1
    <3>3. new \in Holding(e)'
      BY <2>2, <3>2 DEF Holding
    <3> QED
      BY <3>3
  <2>5. CASE m.kind = "rotated" /\ Untouched(m)
    <3>1. m \in found /\ content[path[m]] = <<LineOf(m)>>
      BY <2>5 DEF Untouched
    <3>2. i = 1 /\ e = LineOf(m)
      BY <2>2, <3>1
    <3> QED
      BY <1>4, <2>5, <3>1, <3>2
  <2> QED
    BY <2>4, <2>5 DEF Renames
<1>5. WrittenIsKept'
  <2> SUFFICES ASSUME NEW i \in 1 .. Len(delivered), NEW e, e = delivered[i], e \notin dropped
               PROVE  Holding(e)' # {}
    BY <1>0 DEF WrittenIsKept, Holding
  <2>1. e \in Producers \X (1 .. MaxPush)
    BY ElementOfSeq DEF LoggerTypeOK, TypeOK, Entry
  <2>2. \A name : e # LineOf(name)
    BY <2>1, EarlierAssumption DEF LineOf
  <2>3. Holding(e) # {}
    BY DEF WrittenIsKept
  <2> QED
    BY <1>4, <2>2, <2>3
<1>6. FoundIsKept'
  <2> SUFFICES ASSUME NEW name \in found
               PROVE  \/ name.kind = "rotated" /\ name \in DOMAIN path'
                      \/ name.kind = "live" /\ Holding(LineOf(name))' # {}
    BY <1>0 DEF FoundIsKept
  <2>1. CASE name.kind = "rotated" /\ name \in DOMAIN path
    BY <2>1 DEF Renames
  <2>2. CASE name.kind = "live" /\ Holding(LineOf(name)) # {}
    <3>1. \A other : other.kind = "rotated" => LineOf(name) # LineOf(other)
      BY <2>2 DEF LineOf
    <3> QED
      BY <1>0, <1>4, <2>2, <3>1 DEF Holding
  <2> QED
    BY <2>1, <2>2 DEF FoundIsKept
<1> QED
  BY <1>2, <1>3, <1>5, <1>6

(* Names to which the names of a state may change: no two lead to the same *)
(* file, the rotated ones are past after the step or untouched, and a file *)
(* loses all its names only where a rotation may replace it.               *)
MayBecome(names) ==
  /\ \A m, n \in DOMAIN names : names[m] = names[n] => m = n
  /\ \A n \in DOMAIN names :
       \/ n.kind = "live"
       \/ n.kind = "moved" /\ n = Moved(names[n])
       \/ /\ n.kind = "rotated" /\ n.day \in Nat /\ n.seq \in Nat
          /\ \/ Before(n, curData', seq')
             \/ n \in found /\ content[names[n]] = <<LineOf(n)>>
  /\ \A name \in DOMAIN path : \/ \E new \in DOMAIN names : names[new] = path[name]
                               \/ name.kind = "rotated" /\ Untouched(name)
  /\ \A name \in found :
       name.kind = "rotated" /\ name \in DOMAIN path => name \in DOMAIN names

(* The names of the next state, perhaps with a live file created.          *)
MayCreateLive(names, d) ==
  \/ path' = names /\ content' = content
  \/ /\ Live(d) \notin DOMAIN names
     /\ path' = With(names, Live(d), Len(content) + 1)
     /\ content' = Append(content, <<>>)

LEMMA NamesStayKnown ==
  ASSUME LoggerTypeOK, FilesInv, UNCHANGED <<delivered, dropped, found>>,
         NEW names, NEW d, Leads(names), MayBecome(names), MayCreateLive(names, d)
  PROVE  (NamesDistinct /\ NamesKnown /\ LinesKnown /\ LinesApart
            /\ WrittenIsKept /\ FoundIsKept)'
<1> DEFINE live == Live(d)
           new == Len(content) + 1
<1>0. Grown
  BY DEF Grown, MayCreateLive
<1>1. /\ Len(content) \in Nat
      /\ \A f \in 1 .. Len(content) : content'[f] = content[f]
      /\ \A n \in DOMAIN names : names[n] \in 1 .. Len(content)
  BY <1>0, GrownContent DEF Leads
<1>2. \A n \in DOMAIN path' :
        \/ n \in DOMAIN names /\ path'[n] = names[n]
        \/ n = live /\ live \notin DOMAIN names /\ path'[n] = new
  <2>1. CASE path' = names
    BY <2>1
  <2>2. CASE live \notin DOMAIN names /\ path' = With(names, live, new)
    <3> HIDE DEF live, new
    <3> QED
      BY <2>2 DEF With
  <2> QED
    BY <2>1, <2>2 DEF MayCreateLive
<1>3. \A n \in DOMAIN names : n \in DOMAIN path' /\ path'[n] = names[n]
  <2>1. CASE path' = names
    BY <2>1
  <2>2. CASE live \notin DOMAIN names /\ path' = With(names, live, new)
    <3> HIDE DEF live, new
    <3> QED
      BY <2>2 DEF With
  <2> QED
    BY <2>1, <2>2 DEF MayCreateLive
<1>k. live.kind = "live"
  BY Kinds
<1> HIDE DEF live, new
<1>n. \A f \in 1 .. Len(content) : f # new
  BY <1>1 DEF new
<1>4. NamesDistinct'
  <2> SUFFICES ASSUME NEW m \in DOMAIN path', NEW n \in DOMAIN path', path'[m] = path'[n]
               PROVE  m = n
    BY DEF NamesDistinct
  <2> QED
    BY <1>1, <1>2, <1>n DEF MayBecome
<1>5. NamesKnown'
  <2> SUFFICES ASSUME NEW n \in DOMAIN path' PROVE NameKnown(n)'
    BY DEF NamesKnown, NameKnown
  <2>0. found' = found /\ LineOf(n)' = LineOf(n) /\ Moved(path[n])' = Moved(path'[n])
    BY DEF LineOf, Moved
  <2>1. CASE n \in DOMAIN names /\ path'[n] = names[n]
    <3>1. content'[path'[n]] = content[names[n]]
      BY <1>1, <2>1
    <3>2. \/ n.kind = "live"
          \/ n.kind = "moved" /\ n = Moved(names[n])
          \/ /\ n.kind = "rotated" /\ n.day \in Nat /\ n.seq \in Nat
             /\ \/ Before(n, curData', seq')
                \/ n \in found /\ content[names[n]] = <<LineOf(n)>>
      BY <2>1 DEF MayBecome
    <3>3. Before(n, curData', seq') => Past(n)'
      BY DEF Past, Before
    <3>4. n \in found /\ content[names[n]] = <<LineOf(n)>> => Untouched(n)'
      BY <2>0, <3>1 DEF Untouched, LineOf
    <3>5. n = Moved(names[n]) => n = Moved(path'[n])
      BY <2>1
    <3> QED
      BY <2>0, <3>2, <3>3, <3>4, <3>5 DEF NameKnown
  <2>2. CASE n = live
    BY <1>k, <2>2 DEF NameKnown
  <2> QED
    BY <1>2, <2>1, <2>2
<1>6. Renames
  <2>1. ASSUME NEW name \in DOMAIN path
        PROVE  \/ \E m \in DOMAIN path' : path'[m] = path[name]
               \/ name.kind = "rotated" /\ Untouched(name)
    <3>1. CASE \E m \in DOMAIN names : names[m] = path[name]
      BY <1>3, <3>1
    <3>2. CASE name.kind = "rotated" /\ Untouched(name)
      BY <3>2
    <3> QED
      BY <3>1, <3>2 DEF MayBecome
  <2>2. \A name \in found :
          name.kind = "rotated" /\ name \in DOMAIN path => name \in DOMAIN path'
    BY <1>3 DEF MayBecome
  <2> QED
    BY <1>0, <2>1, <2>2 DEF Renames
<1>7. (LinesKnown /\ LinesApart /\ WrittenIsKept /\ FoundIsKept)'
  BY <1>6, RenamesKeepLines DEF FilesInv
<1> QED
  BY <1>4, <1>5, <1>7

(* Opening the live file keeps the invariant, after whatever renaming.     *)
LEMMA OpenKeepsFiles ==
  ASSUME LoggerTypeOK, FilesInv, UNCHANGED <<delivered, dropped, found>>,
         NEW names, Leads(names), MayBecome(names), OpenLive(names), curData' <= today'
  PROVE  FilesInv'
<1>1. MayCreateLive(names, rotOpt.dir)
  BY OpenLiveEffect DEF MayCreateLive
<1>2. FileNamed'
  <2>1. CASE Live(rotOpt.dir) \in DOMAIN path' /\ file' = path'[Live(rotOpt.dir)]
    <3>1. Live(rotOpt.dir).kind # "rotated"
      BY Kinds
    <3> QED
      BY <2>1, <3>1 DEF FileNamed
  <2>2. CASE file' = NoFile
    BY <2>2 DEF FileNamed, NoFile
  <2> QED
    BY <2>1, <2>2, OpenLiveEffect
<1> QED
  BY <1>1, <1>2, NamesStayKnown DEF FilesInv

(* The present names may stay, when m_cur_data and m_seq do.               *)
LEMMA NamesMayStay ==
  ASSUME FilesInv, UNCHANGED <<curData, seq>>
  PROVE  MayBecome(path)
BY DEF FilesInv, NamesDistinct, NamesKnown, NameKnown, MayBecome, Past, Untouched

(* rotateNow_ gives the live file a name of today with the next number: no *)
(* file of this process has it, and neither has one that is in use.        *)
LEMMA RenamedNamesMayBecome ==
  ASSUME LoggerTypeOK, FilesInv, RotateNow
  PROVE  MayBecome(RenamedNames)
<1> DEFINE live == Live(rotOpt.dir)
           n == IF curData = today THEN seq ELSE 0
           rotated == RotatedName
<1>0. /\ curData \in Nat /\ today \in Nat /\ seq \in Nat /\ n \in Nat /\ curData <= today
      /\ curData' = today /\ seq' = n + 1
  BY RotateNowOpens, DaysAssumption DEF LoggerTypeOK, FilesInv
<1>1. /\ live.kind = "live"
      /\ rotated.kind = "rotated" /\ rotated.day = today /\ rotated.seq = n
  BY Kinds DEF RotatedName
<1>2. ASSUME NEW m \in DOMAIN path
      PROVE  \/ m.kind = "live"
             \/ m.kind = "moved" /\ m = Moved(path[m])
             \/ /\ m.kind = "rotated" /\ m.day \in Nat /\ m.seq \in Nat
                /\ \/ Before(m, curData', seq')
                   \/ m \in found /\ content[path[m]] = <<LineOf(m)>>
  <2>1. NameKnown(m)
    BY DEF FilesInv, NamesKnown
  <2>2. m.day \in Nat /\ m.seq \in Nat /\ Past(m) => Before(m, curData', seq')
    BY <1>0 DEF Past, Before
  <2> QED
    BY <2>1, <2>2 DEF NameKnown, Untouched
<1>3. rotated \in DOMAIN path => Untouched(rotated)
  <2>1. ~Past(rotated)
    BY <1>0, <1>1 DEF Past, Before
  <2> QED
    BY <1>1, <2>1 DEF FilesInv, NamesKnown, NameKnown
<1>4. Before(rotated, curData', seq')
  BY <1>0, <1>1 DEF Before
<1>5. CASE live \in DOMAIN path
  <2> DEFINE names == RenamedNames
  <2>1. /\ DOMAIN names = (DOMAIN path \ {live}) \union {rotated}
        /\ names[rotated] = path[live]
        /\ \A m \in DOMAIN path : m # live /\ m # rotated => names[m] = path[m]
    <3> HIDE DEF live, rotated
    <3> QED
      BY <1>5 DEF RenamedNames, With, Without, live, rotated
  <2> HIDE DEF names, live, rotated, n
  <2>2. \A k \in DOMAIN names : k = rotated \/ (k \in DOMAIN path /\ k # live /\ k # rotated /\ names[k] = path[k])
    BY <2>1
  <2>3. \A m, k \in DOMAIN names : names[m] = names[k] => m = k
    BY <1>5, <2>1, <2>2 DEF FilesInv, NamesDistinct
  <2>4. ASSUME NEW k \in DOMAIN names
        PROVE  \/ k.kind = "live"
               \/ k.kind = "moved" /\ k = Moved(names[k])
               \/ /\ k.kind = "rotated" /\ k.day \in Nat /\ k.seq \in Nat
                  /\ \/ Before(k, curData', seq')
                     \/ k \in found /\ content[names[k]] = <<LineOf(k)>>
    <3>1. CASE k = rotated
      BY <1>0, <1>1, <1>4, <3>1
    <3>2. CASE k \in DOMAIN path /\ names[k] = path[k]
      BY <1>2, <3>2
    <3> QED
      BY <2>2, <3>1, <3>2
  <2>5. ASSUME NEW name \in DOMAIN path
        PROVE  \/ \E new \in DOMAIN names : names[new] = path[name]
               \/ name.kind = "rotated" /\ Untouched(name)
    <3>1. CASE name = live
      BY <2>1, <3>1
    <3>2. CASE name = rotated
      BY <1>1, <1>3, <3>2
    <3>3. CASE name # live /\ name # rotated
      BY <2>1, <3>3
    <3> QED
      BY <3>1, <3>2, <3>3
  <2>6. \A name \in found :
          name.kind = "rotated" /\ name \in DOMAIN path => name \in DOMAIN names
    BY <1>1, <2>1
  <2> QED
    BY <2>3, <2>4, <2>5, <2>6 DEF MayBecome, names
<1>6. CASE live \notin DOMAIN path
  <2>1. RenamedNames = path
    BY <1>6 DEF RenamedNames
  <2> QED
    BY <1>2, <2>1 DEF MayBecome, FilesInv, NamesDistinct
<1> QED
  BY <1>5, <1>6

(* A live file that is moved away keeps its lines under a name of its own. *)
LEMMA MoveAwayKeepsFiles ==
  ASSUME LoggerTypeOK, FilesInv, NEW d \in Dirs, MoveAway(d)
  PROVE  FilesInv'
<1> DEFINE live == Live(d)
           f == path[live]
           names == With(Without({live}), Moved(f), f)
<1>0. /\ UNCHANGED <<delivered, dropped, found, curData, today, seq, file>>
      /\ live \in DOMAIN path
  BY DEF MoveAway, vars, calls
<1>1. live.kind = "live" /\ Moved(f).kind = "moved" /\ Moved(f) # live
  BY Kinds
<1>2. Moved(f) \notin DOMAIN path
  <2>1. ASSUME Moved(f) \in DOMAIN path PROVE FALSE
    <3>1. Moved(f) = Moved(path[Moved(f)])
      BY <1>1, <2>1 DEF FilesInv, NamesKnown, NameKnown
    <3>2. Moved(f).n = f /\ Moved(path[Moved(f)]).n = path[Moved(f)]
      BY Kinds
    <3>3. path[Moved(f)] = path[live]
      BY <3>1, <3>2
    <3> QED
      BY <1>0, <1>1, <2>1, <3>3 DEF FilesInv, NamesDistinct
  <2> QED
    BY <2>1
<1>3. /\ DOMAIN names = (DOMAIN path \ {live}) \union {Moved(f)}
      /\ names[Moved(f)] = f
      /\ \A m \in DOMAIN path : m # live => names[m] = path[m]
  <2> HIDE DEF live, f
  <2> QED
    BY <1>2 DEF With, Without
<1>4. MayCreateLive(names, d)
  <2>1. live \notin DOMAIN names
    BY <1>1, <1>3
  <2> QED
    BY <2>1 DEF MoveAway, MayCreateLive
<1> HIDE DEF names, live
<1>5. Leads(names)
  <2>1. \A m \in DOMAIN path : path[m] \in 1 .. Len(content)
    BY DEF LoggerTypeOK
  <2> QED
    BY <1>0, <1>3, <2>1 DEF Leads
<1>6. MayBecome(names)
  <2>1. \A k \in DOMAIN names : k = Moved(f) \/ (k \in DOMAIN path /\ k # live /\ names[k] = path[k])
    BY <1>3
  <2>2. \A m, k \in DOMAIN names : names[m] = names[k] => m = k
    BY <1>0, <1>3, <2>1 DEF FilesInv, NamesDistinct
  <2>3. ASSUME NEW k \in DOMAIN names
        PROVE  \/ k.kind = "live"
               \/ k.kind = "moved" /\ k = Moved(names[k])
               \/ /\ k.kind = "rotated" /\ k.day \in Nat /\ k.seq \in Nat
                  /\ \/ Before(k, curData', seq')
                     \/ k \in found /\ content[names[k]] = <<LineOf(k)>>
    <3>1. CASE k = Moved(f)
      <4>1. k.kind = "moved" /\ names[k] = f
        BY <1>1, <1>3, <3>1
      <4> QED
        BY <3>1, <4>1
    <3>2. CASE k \in DOMAIN path /\ names[k] = path[k]
      <4>1. NameKnown(k)
        BY <3>2 DEF FilesInv, NamesKnown
      <4> QED
        BY <1>0, <3>2, <4>1 DEF NameKnown, Past, Untouched
    <3> QED
      BY <2>1, <3>1, <3>2
  <2>4. ASSUME NEW name \in DOMAIN path PROVE \E new \in DOMAIN names : names[new] = path[name]
    <3>1. CASE name = live
      BY <1>3, <3>1
    <3>2. CASE name # live
      BY <1>3, <3>2
    <3> QED
      BY <3>1, <3>2
  <2>5. \A name \in found :
          name.kind = "rotated" /\ name \in DOMAIN path => name \in DOMAIN names
    BY <1>1, <1>3
  <2> QED
    BY <2>2, <2>3, <2>4, <2>5 DEF MayBecome
<1>7. (NamesDistinct /\ NamesKnown /\ LinesKnown /\ LinesApart /\ WrittenIsKept /\ FoundIsKept)'
  BY <1>0, <1>4, <1>5, <1>6, NamesStayKnown
<1>8. FileNamed'
  <2>1. CASE file = NoFile
    BY <1>0, <2>1 DEF FileNamed
  <2>2. CASE file # NoFile
    <3>1. PICK m \in DOMAIN path : path[m] = file /\ m.kind # "rotated"
      BY <2>2 DEF FilesInv, FileNamed
    <3>2. PICK k \in DOMAIN names : names[k] = file /\ k.kind # "rotated"
      <4>1. CASE m = live
        BY <1>1, <1>3, <3>1, <4>1
      <4>2. CASE m # live
        BY <1>3, <3>1, <4>2
      <4> QED
        BY <4>1, <4>2
    <3>3. k \in DOMAIN path' /\ path'[k] = names[k]
      <4>1. CASE path' = names
        BY <4>1
      <4>2. CASE Live(d) \notin DOMAIN names /\ path' = With(names, Live(d), Len(content) + 1)
        BY <4>2 DEF With
      <4> QED
        BY <1>4, <4>1, <4>2 DEF MayCreateLive
    <3> QED
      BY <1>0, <3>2, <3>3 DEF FileNamed
  <2> QED
    BY <2>1, <2>2
<1> QED
  BY <1>0, <1>7, <1>8 DEF FilesInv

(* Lines that some name holds go on being held.                            *)
LEMMA HeldLinesAreKept ==
  ASSUME \A x : Holding(x) # {} => Holding(x)' # {},
         found' = found, DOMAIN path \subseteq DOMAIN path', FoundIsKept,
         \A i \in 1 .. Len(delivered') : \A x :
           x = delivered'[i] /\ x \notin dropped' => Holding(x)' # {}
  PROVE  WrittenIsKept' /\ FoundIsKept'
<1>1. WrittenIsKept'
  BY DEF WrittenIsKept, Holding
<1>2. ASSUME NEW name \in found, NEW x, x = LineOf(name)
      PROVE  \/ name.kind = "rotated" /\ name \in DOMAIN path'
             \/ name.kind = "live" /\ Holding(x)' # {}
  <2>1. \/ name.kind = "rotated" /\ name \in DOMAIN path
        \/ name.kind = "live" /\ Holding(x) # {}
    BY <1>2 DEF FoundIsKept
  <2> QED
    BY <2>1
<1>3. FoundIsKept'
  BY <1>2 DEF FoundIsKept, Holding, LineOf
<1> QED
  BY <1>1, <1>3

(* A line that is written is in no file before, and m_file, to which it    *)
(* goes, keeps a name that no rotation takes away.                         *)
LEMMA WriteKeepsFiles ==
  ASSUME LoggerTypeOK, QueueInv, EntriesDistinct, FilesInv, Write2File
  PROVE  FilesInv'
<1> DEFINE e == Head(out)
           D == Len(delivered)
<1>0. /\ UNCHANGED <<path, found, file, curData, seq, today>>
      /\ delivered' = Append(delivered, e) /\ out \in Seq(Entry) /\ out # <<>>
      /\ delivered \in Seq(Entry)
  BY DEF Write2File, WriteEntry, LoggerTypeOK, TypeOK
<1>1. /\ e \in Entry /\ D \in Nat
      /\ \A j \in 1 .. D : delivered[j] \in Entry /\ delivered[j] # e
      /\ \A name : e # LineOf(name)
  <2>1. e = out[1] /\ 1 \in 1 .. Len(out)
    BY <1>0, EmptySeq, LenProperties
  <2>2. e \in Producers \X (1 .. MaxPush)
    BY <2>1, WhereEntriesAre DEF LoggerTypeOK, Entry
  <2>3. \A name : e # LineOf(name)
    BY <2>2, EarlierAssumption DEF LineOf
  <2> QED
    BY <2>1, <2>3, WhereEntriesAre DEF LoggerTypeOK
<1> HIDE DEF e
<1>2. /\ Len(delivered') = D + 1 /\ delivered'[D + 1] = e
      /\ \A j \in 1 .. D : delivered'[j] = delivered[j]
  BY <1>0, <1>1, AppendProperties
<1>3. CASE file = NoFile
  <2>1. content' = content /\ dropped' = dropped \union {e}
    BY <1>3 DEF Write2File, e
  <2>2. /\ NamesDistinct' /\ FileNamed' /\ curData' <= today'
        /\ \A x : Holding(x)' = Holding(x)
    BY <1>0, <2>1 DEF FilesInv, NamesDistinct, FileNamed, Holding
  <2>a. LinesApart'
    BY <2>1 DEF FilesInv, LinesApart
  <2>5. NamesKnown'
    BY <1>0, <2>1 DEF FilesInv, NamesKnown, NameKnown, Past, Before, Untouched, Moved, LineOf
  <2>3. LinesKnown'
    <3> SUFFICES ASSUME NEW f \in 1 .. Len(content), NEW i \in 1 .. Len(content[f])
                 PROVE  \/ \E j \in 1 .. Len(delivered') : content[f][i] = delivered'[j]
                        \/ \E name \in found : content[f][i] = LineOf(name)
      BY <1>0, <2>1 DEF LinesKnown, LineOf
    <3>1. \A j \in 1 .. D : j \in 1 .. Len(delivered')
      BY <1>1, <1>2
    <3> QED
      BY <1>2, <3>1 DEF FilesInv, LinesKnown
  <2>4. ASSUME NEW i \in 1 .. D + 1, NEW x, x = delivered'[i], x \notin dropped'
        PROVE  Holding(x)' # {}
    <3>1. i # D + 1
      BY <1>2, <2>1, <2>4
    <3>2. i \in 1 .. D
      BY <1>1, <3>1
    <3>3. Holding(x) # {}
      BY <1>2, <2>1, <2>4, <3>2 DEF FilesInv, WrittenIsKept
    <3> QED
      BY <2>2, <3>3
  <2>6. WrittenIsKept' /\ FoundIsKept'
    BY <1>0, <1>2, <2>2, <2>4, HeldLinesAreKept DEF FilesInv
  <2> QED
    BY <2>2, <2>a, <2>3, <2>5, <2>6 DEF FilesInv
<1>4. CASE file # NoFile
  <2>1. /\ file \in 1 .. Len(content) /\ content \in Seq(Seq(Line))
        /\ content[file] \in Seq(Line) /\ Len(content) \in Nat /\ e \in Line
    BY <1>1, <1>4, ElementOfSeq, LenProperties DEF LoggerTypeOK, Line
  <2>2. content' = [content EXCEPT ![file] = Append(content[file], e)] /\ dropped' = dropped
    BY <1>4 DEF Write2File, e
  <2> DEFINE n == Len(content[file])
  <2>3. /\ n \in Nat /\ Len(Append(content[file], e)) = n + 1
        /\ Append(content[file], e)[n + 1] = e
        /\ \A i \in 1 .. n : Append(content[file], e)[i] = content[file][i]
    BY <2>1, AppendProperties, LenProperties
  <2>4. /\ Len(content') = Len(content)
        /\ content'[file] = Append(content[file], e)
        /\ \A f \in 1 .. Len(content) : f # file => content'[f] = content[f]
    <3> DEFINE F == Seq(Line)
    <3>1. Append(content[file], e) \in F
      BY <2>1, AppendProperties
    <3> HIDE DEF F
    <3>2. content \in Seq(F)
      BY <2>1 DEF F
    <3> QED
      BY <2>1, <2>2, <3>1, <3>2, ExceptSeq
  <2> HIDE DEF n
  \* The lines of the files after the step: those before, and the new one.
  <2>5. ASSUME NEW f \in 1 .. Len(content), NEW i \in 1 .. Len(content'[f])
        PROVE  \/ i \in 1 .. Len(content[f]) /\ content'[f][i] = content[f][i]
               \/ f = file /\ content'[f][i] = e
    <3>1. CASE f = file
      <4>1. i \in 1 .. n \/ i = n + 1
        BY <2>3, <2>4, <3>1
      <4> QED
        BY <2>3, <2>4, <3>1, <4>1 DEF n
    <3>2. CASE f # file
      BY <2>4, <3>2
    <3> QED
      BY <3>1, <3>2
  <2>6. ASSUME NEW f \in 1 .. Len(content), NEW i \in 1 .. Len(content[f])
        PROVE  i \in 1 .. Len(content'[f]) /\ content'[f][i] = content[f][i]
    <3>1. CASE f = file
      <4>1. i \in 1 .. n /\ i \in 1 .. n + 1
        BY <2>3, <3>1 DEF n
      <4> QED
        BY <2>3, <2>4, <3>1, <4>1
    <3>2. CASE f # file
      BY <2>4, <3>2
    <3> QED
      BY <3>1, <3>2
  <2>7. ASSUME NEW f \in 1 .. Len(content), NEW i \in 1 .. Len(content[f]) PROVE content[f][i] # e
    <3>1. \/ \E j \in 1 .. D : content[f][i] = delivered[j]
          \/ \E name \in found : content[f][i] = LineOf(name)
      BY DEF FilesInv, LinesKnown
    <3> QED
      BY <1>1, <3>1
  <2>8. PICK m \in DOMAIN path : path[m] = file /\ m.kind # "rotated"
    BY <1>4 DEF FilesInv, FileNamed
  <2>9. \A k \in DOMAIN path : path[k] \in 1 .. Len(content)
    BY DEF LoggerTypeOK
  <2>10. NamesKnown'
    <3> SUFFICES ASSUME NEW k \in DOMAIN path PROVE NameKnown(k)'
      BY <1>0 DEF NamesKnown, NameKnown
    <3>1. CASE k.kind # "rotated"
      BY <1>0, <3>1 DEF FilesInv, NamesKnown, NameKnown, Moved
    <3>2. CASE k.kind = "rotated"
      <4>1. path[k] # file
        BY <2>8, <3>2 DEF FilesInv, NamesDistinct
      <4>2. content'[path'[k]] = content[path[k]]
        BY <1>0, <2>4, <2>9, <4>1
      <4>3. Untouched(k) => Untouched(k)'
        BY <1>0, <4>2 DEF Untouched, LineOf
      <4>4. Past(k) => Past(k)'
        BY <1>0 DEF Past, Before
      <4> QED
        BY <1>0, <3>2, <4>3, <4>4 DEF FilesInv, NamesKnown, NameKnown
    <3> QED
      BY <3>1, <3>2
  <2>11. (NamesDistinct /\ FileNamed)' /\ curData' <= today'
    BY <1>0 DEF FilesInv, NamesDistinct, FileNamed
  <2>12. LinesKnown'
    <3> SUFFICES ASSUME NEW f \in 1 .. Len(content), NEW i \in 1 .. Len(content'[f])
                 PROVE  \/ \E j \in 1 .. Len(delivered') : content'[f][i] = delivered'[j]
                        \/ \E name \in found : content'[f][i] = LineOf(name)
      BY <1>0, <2>4 DEF LinesKnown, LineOf
    <3>1. D + 1 \in 1 .. Len(delivered') /\ \A j \in 1 .. D : j \in 1 .. Len(delivered')
      BY <1>1, <1>2
    <3>2. CASE i \in 1 .. Len(content[f]) /\ content'[f][i] = content[f][i]
      BY <1>2, <3>1, <3>2 DEF FilesInv, LinesKnown
    <3>3. CASE content'[f][i] = e
      BY <1>2, <3>1, <3>3
    <3> QED
      BY <2>5, <3>2, <3>3
  <2>13. LinesApart'
    <3> SUFFICES ASSUME NEW f \in 1 .. Len(content), NEW g \in 1 .. Len(content),
                        NEW i \in 1 .. Len(content'[f]), NEW j \in 1 .. Len(content'[g]),
                        content'[f][i] = content'[g][j]
                 PROVE  f = g
      BY <2>4 DEF LinesApart
    <3>1. CASE /\ i \in 1 .. Len(content[f]) /\ content'[f][i] = content[f][i]
               /\ j \in 1 .. Len(content[g]) /\ content'[g][j] = content[g][j]
      BY <3>1 DEF FilesInv, LinesApart
    <3> QED
      BY <2>5, <2>7, <3>1
  <2>14. ASSUME NEW x, Holding(x) # {} PROVE Holding(x)' # {}
    <3>1. PICK k \in DOMAIN path : \E i \in 1 .. Len(content[path[k]]) : content[path[k]][i] = x
      BY <2>14 DEF Holding
    <3>2. PICK i \in 1 .. Len(content[path[k]]) : content[path[k]][i] = x
      BY <3>1
    <3>3. i \in 1 .. Len(content'[path'[k]]) /\ content'[path'[k]][i] = x
      BY <1>0, <2>6, <2>9, <3>2
    <3>4. k \in Holding(x)'
      BY <1>0, <3>3 DEF Holding
    <3> QED
      BY <3>4
  <2>15. ASSUME NEW x, x = e PROVE Holding(x)' # {}
    <3>1. n + 1 \in 1 .. Len(content'[file]) /\ content'[file][n + 1] = x
      BY <2>3, <2>4, <2>15
    <3>2. m \in DOMAIN path' /\ path'[m] = file
      BY <1>0, <2>8
    <3>3. m \in Holding(x)'
      BY <3>1, <3>2 DEF Holding
    <3> QED
      BY <3>3
  <2>16. ASSUME NEW i \in 1 .. D + 1, NEW x, x = delivered'[i], x \notin dropped'
         PROVE  Holding(x)' # {}
    <3>1. CASE i = D + 1
      BY <1>2, <2>15, <2>16, <3>1
    <3>2. CASE i # D + 1
      <4>1. i \in 1 .. D /\ x = delivered[i] /\ x \notin dropped
        BY <1>1, <1>2, <2>2, <2>16, <3>2
      <4>2. Holding(x) # {}
        BY <4>1 DEF FilesInv, WrittenIsKept
      <4> QED
        BY <2>14, <4>2
    <3> QED
      BY <3>1, <3>2
  <2>17. WrittenIsKept' /\ FoundIsKept'
    BY <1>0, <1>2, <2>14, <2>16, HeldLinesAreKept DEF FilesInv
  <2> QED
    BY <2>10, <2>11, <2>12, <2>13, <2>17 DEF FilesInv
<1> QED
  BY <1>3, <1>4

(* One step of the logger keeps the invariant of the files.                *)
LEMMA FilesStep ==
  ASSUME LoggerTypeOK, QueueInv, EntriesDistinct, FilesInv, [LoggerNext]_loggerVars
  PROVE  FilesInv'
<1>t. curData \in Nat /\ today \in Nat /\ curData <= today
  BY DaysAssumption DEF LoggerTypeOK, FilesInv
<1>1. ASSUME UNCHANGED <<path, content, file, curData, seq, delivered, dropped, found>>,
             today' = today \/ today' = today + 1
      PROVE  FilesInv'
  <2>1. NamesDistinct' /\ FileNamed' /\ curData' <= today'
    BY <1>t, <1>1 DEF FilesInv, NamesDistinct, FileNamed
  <2>a. LinesKnown'
    BY <1>1 DEF FilesInv, LinesKnown, LineOf
  <2>b. LinesApart'
    BY <1>1 DEF FilesInv, LinesApart
  <2>2. NamesKnown'
    BY <1>1 DEF FilesInv, NamesKnown, NameKnown, Past, Before, Untouched, Moved, LineOf
  <2>3. \A x : Holding(x)' = Holding(x)
    BY <1>1 DEF Holding
  <2>4. \A i \in 1 .. Len(delivered') : \A x :
          x = delivered'[i] /\ x \notin dropped' => Holding(x)' # {}
    BY <1>1, <2>3 DEF FilesInv, WrittenIsKept
  <2>5. WrittenIsKept' /\ FoundIsKept'
    BY <1>1, <2>3, <2>4, HeldLinesAreKept DEF FilesInv
  <2> QED
    BY <2>1, <2>a, <2>b, <2>2, <2>5 DEF FilesInv
<1>2. CASE \E p \in Producers : Log(p)
  BY <1>1, <1>2 DEF Log, files, PushAccepted, PushRefused
<1>3. CASE Reopen \/ (\E o \in Options : SetRotateOptions(o)) \/ Midnight \/ (\E d \in AbsentDirs : MakeDir(d))
  BY <1>1, <1>3 DEF Reopen, SetRotateOptions, Midnight, MakeDir, files, vars
<1>4. CASE \E s \in Stoppers : Stop(s) \/ CloseQueue(s) \/ JoinBackend(s)
  BY <1>1, <1>4 DEF Stop, CloseQueue, JoinBackend, Close, files, vars
<1>5. CASE \E d \in Dirs : MoveAway(d)
  BY <1>5, MoveAwayKeepsFiles
<1>6. CASE WakeSpuriously \/ Wait \/ Flush
  BY <1>1, <1>6 DEF WakeSpuriously, SpuriousWake, Wait, WaitSleeps, WaitSwaps, WaitReturnsFalse,
                    Flush, FinishBatch, files, calls
<1>7. CASE ExchangeReopen
  BY <1>1, <1>7 DEF ExchangeReopen, files, vars
<1>8. CASE DoReopen
  <2>1. /\ UNCHANGED <<delivered, dropped, found, curData, seq, today>>
        /\ OpenLive(path)
    BY <1>8 DEF DoReopen, vars, calls
  <2>2. MayBecome(path)
    BY <2>1, NamesMayStay
  <2>3. Leads(path)
    BY DEF Leads, LoggerTypeOK
  <2> QED
    BY <1>t, <2>1, <2>2, <2>3, OpenKeepsFiles
<1>9. CASE MaybeRotate
  <2>1. UNCHANGED <<delivered, dropped, found, today>>
    BY <1>9 DEF MaybeRotate, vars, calls
  <2>2. CASE RotateNow
    <3>1. OpenLive(RenamedNames) /\ curData' <= today'
      BY <1>t, <2>1, <2>2, RotateNowOpens
    <3>2. Leads(RenamedNames)
      BY RenamedLeads DEF Leads, LoggerTypeOK
    <3> QED
      BY <2>1, <2>2, <3>1, <3>2, RenamedNamesMayBecome, OpenKeepsFiles
  <2>3. CASE UNCHANGED <<path, content, file, written, curData, seq>>
    BY <1>1, <2>1, <2>3
  <2> QED
    BY <1>9, <2>2, <2>3 DEF MaybeRotate
<1>10. CASE Write2File
  BY <1>10, WriteKeepsFiles
<1>11. CASE UNCHANGED loggerVars
  BY <1>1, <1>11 DEF loggerVars, files, calls, vars
<1> QED
  BY <1>2, <1>3, <1>4, <1>5, <1>6, <1>7, <1>8, <1>9, <1>10, <1>11 DEF LoggerNext, BackendLoop

(* The files that are found at the start.                                  *)
LEMMA FilesInit ==
  ASSUME LoggerInit
  PROVE  FilesInv
<1>1. PICK names \in Leftovers, all \in Seq(Leavable) :
        /\ \/ Live(DefaultOptions.dir) \in ToSet(names) /\ all = names
           \/ Live(DefaultOptions.dir) \notin ToSet(names)
              /\ all = Append(names, Live(DefaultOptions.dir))
        /\ names \in Seq(Leavable) /\ Len(names) <= Len(all)
        /\ found = ToSet(names)
        /\ \A i \in 1 .. Len(names) : all[i] = names[i]
        /\ \A i, j \in 1 .. Len(all) : all[i] = all[j] => i = j
        /\ DOMAIN path = ToSet(all)
        /\ \A name \in ToSet(all) : path[name] \in 1 .. Len(all) /\ all[path[name]] = name
        /\ Len(content) = Len(all)
        /\ \A i \in 1 .. Len(all) : content[i] = IF i <= Len(names)
                                                 THEN <<LineOf(names[i])>> ELSE <<>>
        /\ Live(DefaultOptions.dir) \in DOMAIN path
        /\ file = path[Live(DefaultOptions.dir)]
  BY InitialNames
<1> DEFINE live == Live(DefaultOptions.dir)
<1>2. /\ Len(names) \in Nat /\ Len(all) \in Nat
      /\ DOMAIN names = 1 .. Len(names) /\ DOMAIN all = 1 .. Len(all)
      /\ \A i \in 1 .. Len(names) : i \in 1 .. Len(all)
      /\ live.kind = "live"
  BY <1>1, LenProperties, Kinds
<1>3. delivered = <<>> /\ curData = 1 /\ today = 1
  BY DEF LoggerInit, Init
<1>4. \A f \in 1 .. Len(content) : \A i \in 1 .. Len(content[f]) :
        /\ f \in 1 .. Len(names) /\ names[f] \in found
        /\ content[f][i] = LineOf(names[f])
  <2> SUFFICES ASSUME NEW f \in 1 .. Len(content), NEW i \in 1 .. Len(content[f])
               PROVE  /\ f \in 1 .. Len(names) /\ names[f] \in found
                      /\ content[f][i] = LineOf(names[f])
    OBVIOUS
  <2>1. f \in 1 .. Len(all) /\ content[f] = IF f <= Len(names)
                                            THEN <<LineOf(names[f])>> ELSE <<>>
    BY <1>1
  <2>2. f <= Len(names)
    BY <2>1
  <2>3. f \in 1 .. Len(names) /\ content[f] = <<LineOf(names[f])>>
    BY <1>2, <2>1, <2>2
  <2>4. i = 1
    BY <2>3
  <2> QED
    BY <1>1, <1>2, <2>3, <2>4 DEF ToSet
\* What is found is where it was left.
<1>5. ASSUME NEW name \in found
      PROVE  name \in DOMAIN path /\ content[path[name]] = <<LineOf(name)>>
  <2>1. PICK i \in 1 .. Len(names) : names[i] = name
    BY <1>1, <1>2 DEF ToSet
  <2>2. i \in 1 .. Len(all) /\ all[i] = name
    BY <1>1, <1>2, <2>1
  <2>3. name \in ToSet(all)
    BY <1>2, <2>2 DEF ToSet
  <2>4. path[name] = i
    BY <1>1, <2>2, <2>3
  <2>5. i <= Len(names)
    BY <1>2
  <2>6. content[i] = <<LineOf(name)>>
    BY <1>1, <2>1, <2>2, <2>5
  <2> QED
    BY <1>1, <2>3, <2>4, <2>6
<1>6. \A name \in found : name \in Leavable
  BY <1>1, <1>2, ElementOfSeq DEF ToSet
<1>7. ASSUME NEW name \in DOMAIN path PROVE name \in found \/ name = live
  <2>1. PICK i \in 1 .. Len(all) : all[i] = name
    BY <1>1, <1>2 DEF ToSet
  <2>2. CASE i <= Len(names)
    BY <1>1, <1>2, <2>1, <2>2 DEF ToSet
  <2>3. CASE ~(i <= Len(names))
    <3>1. all = Append(names, live)
      BY <1>1, <1>2, <2>3
    <3>2. Len(all) = Len(names) + 1 /\ all[Len(names) + 1] = live
      <4>1. live \in Leavable
        BY OptionsAssumption DEF Live, Leavable, Dirs
      <4> HIDE DEF live
      <4> QED
        BY <1>1, <3>1, <4>1, AppendProperties
    <3> QED
      BY <1>2, <2>1, <2>3, <3>2
  <2> QED
    BY <2>2, <2>3
<1>8. NamesDistinct
  BY <1>1 DEF NamesDistinct
<1>9. NamesKnown
  <2> SUFFICES ASSUME NEW name \in DOMAIN path PROVE NameKnown(name)
    BY DEF NamesKnown
  <2>1. CASE name = live
    BY <1>2, <2>1 DEF NameKnown
  <2>2. CASE name \in found
    <3>1. name.kind = "live" \/ (name.kind = "rotated" /\ name.day \in Nat /\ name.seq \in Nat)
      BY <1>6, <2>2 DEF Leavable
    <3>2. Untouched(name)
      BY <1>5, <2>2 DEF Untouched
    <3> QED
      BY <3>1, <3>2 DEF NameKnown
  <2> QED
    BY <1>7, <2>1, <2>2
<1>10. FileNamed
  BY <1>1, <1>2 DEF FileNamed
<1>11. LinesKnown
  BY <1>4 DEF LinesKnown
<1>12. LinesApart
  <2> SUFFICES ASSUME NEW f \in 1 .. Len(content), NEW g \in 1 .. Len(content),
                      NEW i \in 1 .. Len(content[f]), NEW j \in 1 .. Len(content[g]),
                      content[f][i] = content[g][j]
               PROVE  f = g
    BY DEF LinesApart
  <2>1. LineOf(names[f]) = LineOf(names[g])
    BY <1>4
  <2>2. names[f] = names[g] /\ f \in 1 .. Len(names) /\ g \in 1 .. Len(names)
    BY <1>4, <2>1 DEF LineOf
  <2>3. all[f] = all[g] /\ f \in 1 .. Len(all) /\ g \in 1 .. Len(all)
    BY <1>1, <1>2, <2>2
  <2>4. \A k, m \in 1 .. Len(all) : all[k] = all[m] => k = m
    BY <1>1
  <2> QED
    BY <2>3, <2>4
<1>13. WrittenIsKept
  BY <1>3 DEF WrittenIsKept
<1>14. FoundIsKept
  <2> SUFFICES ASSUME NEW name \in found
               PROVE  \/ name.kind = "rotated" /\ name \in DOMAIN path
                      \/ name.kind = "live" /\ Holding(LineOf(name)) # {}
    BY DEF FoundIsKept
  <2>1. name.kind = "live" \/ name.kind = "rotated"
    BY <1>6 DEF Leavable
  <2>2. name \in Holding(LineOf(name))
    <3>1. 1 \in 1 .. Len(content[path[name]]) /\ content[path[name]][1] = LineOf(name)
      BY <1>5
    <3> QED
      BY <1>5, <3>1 DEF Holding
  <2> QED
    BY <1>5, <2>1, <2>2
<1> QED
  BY <1>3, <1>8, <1>9, <1>10, <1>11, <1>12, <1>13, <1>14 DEF FilesInv

(* The files' invariant, for any options, days, moves and leftovers.       *)
THEOREM FilesInvariant == LoggerSpec => []FilesInv
<1>1. LoggerInit => FilesInv
  BY FilesInit
<1>2. LoggerTypeOK /\ QueueInv /\ EntriesDistinct /\ FilesInv /\ [LoggerNext]_loggerVars => FilesInv'
  BY FilesStep
<1> QED
  BY <1>1, <1>2, LoggerImplementsQueue, QueueInvariant, EntriesAreDistinct, LoggerTypeCorrect,
     PTL DEF LoggerSpec

(* Only Write2File puts a line into a file; other steps may create one.    *)
LEMMA OnlyWritesWrite ==
  ASSUME [LoggerNext]_loggerVars
  PROVE  Write2File \/ (Grown /\ delivered' = delivered)
<1>1. CASE \/ \E p \in Producers : Log(p)
           \/ Reopen \/ Midnight
           \/ \E o \in Options : SetRotateOptions(o)
           \/ \E d \in AbsentDirs : MakeDir(d)
           \/ \E s \in Stoppers : Stop(s) \/ CloseQueue(s) \/ JoinBackend(s)
  <2>1. UNCHANGED <<content, delivered>>
    BY <1>1 DEF Log, PushAccepted, PushRefused, Reopen, Midnight, SetRotateOptions, MakeDir,
                Stop, CloseQueue, Close, JoinBackend, files, vars
  <2> QED
    BY <2>1 DEF Grown
<1>2. CASE WakeSpuriously \/ Wait \/ Flush \/ ExchangeReopen \/ UNCHANGED loggerVars
  <2>1. UNCHANGED <<content, delivered>>
    BY <1>2 DEF WakeSpuriously, SpuriousWake, Wait, WaitSleeps, WaitSwaps, WaitReturnsFalse,
                Flush, FinishBatch, ExchangeReopen, files, vars, loggerVars
  <2> QED
    BY <2>1 DEF Grown
<1>3. CASE \E d \in Dirs : MoveAway(d)
  BY <1>3 DEF MoveAway, Grown, vars
<1>4. ASSUME NEW names, OpenLive(names) PROVE Grown
  BY <1>4 DEF OpenLive, OpenFound, OpenNew, OpenFails, Grown
<1>5. CASE DoReopen
  BY <1>4, <1>5 DEF DoReopen, vars
<1>6. CASE MaybeRotate
  <2>1. RotateNow => Grown
    BY <1>4 DEF RotateNow
  <2> QED
    BY <1>6, <2>1 DEF MaybeRotate, Grown, vars
<1> QED
  BY <1>1, <1>2, <1>3, <1>5, <1>6 DEF LoggerNext, BackendLoop

(* The lines of one file after a step, taken apart from the files.         *)
LEMMA FileByFile ==
  ASSUME ASSUME NEW f \in 1 .. Len(content'), NEW lines, lines = content'[f]
         PROVE  InOrder(lines)'
  PROVE  LinesInOrder'
<1> SUFFICES ASSUME NEW f \in 1 .. Len(content'),
                    NEW i \in 1 .. Len(content'[f]), NEW j \in 1 .. Len(content'[f]),
                    NEW a \in 1 .. Len(delivered'), NEW b \in 1 .. Len(delivered'),
                    i < j, content'[f][i] = delivered'[a], content'[f][j] = delivered'[b]
             PROVE  a < b
  BY DEF LinesInOrder, InOrder
<1>1. PICK lines : lines = content'[f]
  OBVIOUS
<1>2. InOrder(lines)'
  BY <1>1
<1> QED
  BY <1>1, <1>2 DEF InOrder

(* A line is appended to a file that has only lines written before it.     *)
LEMMA OrderStep ==
  ASSUME LoggerTypeOK, QueueInv, EntriesDistinct, FilesInv, LinesInOrder,
         [LoggerNext]_loggerVars
  PROVE  LinesInOrder'
<1>1. CASE Grown /\ delivered' = delivered
  <2> SUFFICES ASSUME NEW f \in 1 .. Len(content'), NEW lines, lines = content'[f]
               PROVE  InOrder(lines)'
    BY FileByFile
  <2>1. CASE f \in 1 .. Len(content) /\ content'[f] = content[f]
    <3>1. InOrder(lines)
      BY <2>1 DEF LinesInOrder
    <3> QED
      BY <1>1, <3>1 DEF InOrder
  <2>2. CASE content'[f] = <<>>
    BY <2>2 DEF InOrder
  <2> QED
    BY <1>1, <2>1, <2>2, GrownContent
<1>2. CASE Write2File
  <2> DEFINE e == Head(out)
             D == Len(delivered)
  <2>1. /\ delivered' = Append(delivered, e) /\ delivered \in Seq(Entry)
        /\ out \in Seq(Entry) /\ out # <<>>
    BY <1>2 DEF Write2File, WriteEntry, LoggerTypeOK, TypeOK
  <2>2. e = out[1] /\ 1 \in 1 .. Len(out) /\ e \in Entry
    BY <2>1, EmptySeq, LenProperties, ElementOfSeq
  <2>3. D \in Nat /\ \A a \in 1 .. D : delivered[a] # e
    BY <2>2, WhereEntriesAre DEF LoggerTypeOK
  <2> HIDE DEF e
  <2>4. Len(delivered') = D + 1 /\ delivered'[D + 1] = e
        /\ \A a \in 1 .. D : delivered'[a] = delivered[a]
    BY <2>1, <2>2, AppendProperties
  \* No two entries written are equal, nor is one of them a line of before.
  <2>5. ASSUME NEW f \in 1 .. Len(content), NEW i \in 1 .. Len(content[f]) PROVE content[f][i] # e
    <3>1. \A name : e # LineOf(name)
      BY <2>2, EarlierAssumption DEF LineOf, Entry
    <3> QED
      BY <2>3, <3>1 DEF FilesInv, LinesKnown
  <2>6. ASSUME NEW lines \in Seq(Line), InOrder(lines), \A i \in 1 .. Len(lines) : lines[i] # e
        PROVE  InOrder(lines)'
    <3> SUFFICES ASSUME NEW i \in 1 .. Len(lines), NEW j \in 1 .. Len(lines),
                        NEW a \in 1 .. D + 1, NEW b \in 1 .. D + 1,
                        i < j, lines[i] = delivered'[a], lines[j] = delivered'[b]
                 PROVE  a < b
      BY <2>4 DEF InOrder
    <3>1. a # D + 1 /\ b # D + 1
      BY <2>4, <2>6
    <3>2. a \in 1 .. D /\ b \in 1 .. D
      BY <2>3, <3>1
    <3>3. lines[i] = delivered[a] /\ lines[j] = delivered[b]
      BY <2>4, <3>2
    <3> QED
      BY <2>6, <3>2, <3>3 DEF InOrder
  <2>7. ASSUME NEW lines \in Seq(Line), InOrder(lines)', \A i \in 1 .. Len(lines) : lines[i] # e,
               e \in Line, NEW new, new = Append(lines, e)
        PROVE  InOrder(new)'
    <3> DEFINE n == Len(lines)
    <3>1. n \in Nat /\ Len(new) = n + 1 /\ new[n + 1] = e /\ \A i \in 1 .. n : new[i] = lines[i]
      BY <2>7, LenProperties, AppendProperties
    <3> HIDE DEF n
    <3> SUFFICES ASSUME NEW i \in 1 .. n + 1, NEW j \in 1 .. n + 1,
                        NEW a \in 1 .. D + 1, NEW b \in 1 .. D + 1,
                        i < j, new[i] = delivered'[a], new[j] = delivered'[b]
                 PROVE  a < b
      BY <2>4, <3>1 DEF InOrder
    <3>2. i \in 1 .. n /\ lines[i] = delivered'[a]
      BY <3>1
    <3>3. CASE j = n + 1
      <4>1. delivered'[b] = e /\ delivered'[a] # e
        BY <2>7, <3>1, <3>2, <3>3 DEF n
      <4>2. b = D + 1 /\ a # D + 1
        BY <2>3, <2>4, <4>1
      <4> QED
        BY <2>3, <4>2
    <3>4. CASE j \in 1 .. n
      <4>1. lines[j] = delivered'[b]
        BY <3>1, <3>4
      <4> QED
        BY <2>4, <2>7, <3>2, <3>4, <4>1 DEF InOrder, n
    <3> QED
      BY <3>1, <3>3, <3>4
  <2>8. /\ content \in Seq(Seq(Line)) /\ Len(content) \in Nat /\ e \in Line
        /\ \A f \in 1 .. Len(content) : content[f] \in Seq(Line)
    BY <2>2, ElementOfSeq, LenProperties DEF LoggerTypeOK, Line
  <2>9. ASSUME NEW f \in 1 .. Len(content), NEW lines, lines = content[f] PROVE InOrder(lines)'
    BY <2>5, <2>6, <2>8, <2>9 DEF LinesInOrder
  <2> SUFFICES ASSUME NEW f \in 1 .. Len(content'), NEW lines, lines = content'[f]
               PROVE  InOrder(lines)'
    BY FileByFile
  <2>10. CASE content' = content
    BY <2>9, <2>10
  <2>11. CASE file # NoFile
    <3>1. file \in 1 .. Len(content) /\ content' = [content EXCEPT ![file] = Append(content[file], e)]
      BY <1>2, <2>11 DEF Write2File, e, LoggerTypeOK
    <3>2. /\ Len(content') = Len(content)
          /\ content'[file] = Append(content[file], e)
          /\ \A g \in 1 .. Len(content) : g # file => content'[g] = content[g]
      <4> DEFINE F == Seq(Line)
      <4>1. Append(content[file], e) \in F
        BY <2>8, <3>1, AppendProperties
      <4> HIDE DEF F
      <4>2. content \in Seq(F)
        BY <2>8 DEF F
      <4> QED
        BY <3>1, <4>1, <4>2, ExceptSeq
    <3>3. CASE f = file
      <4>1. PICK before : before = content[file]
        OBVIOUS
      <4>2. /\ before \in Seq(Line) /\ InOrder(before)' /\ lines = Append(before, e)
            /\ \A i \in 1 .. Len(before) : before[i] # e
        BY <2>5, <2>8, <2>9, <3>1, <3>2, <3>3, <4>1
      <4> QED
        BY <2>7, <2>8, <4>2
    <3>4. CASE f # file
      BY <2>9, <3>2, <3>4
    <3> QED
      BY <3>3, <3>4
  <2> QED
    BY <1>2, <2>10, <2>11 DEF Write2File
<1> QED
  BY <1>1, <1>2, OnlyWritesWrite

(* However rotations, moves by an external logrotate, reopens, failing     *)
(* opens and changes of the options follow each other: every line that was *)
(* written to an open stream is in exactly one file that has a name, once  *)
(* and after the lines of that file that were logged before it; so is what *)
(* was found in a live file; only a file that an earlier process rotated   *)
(* may be replaced.                                                        *)
THEOREM LinesAreKeptInOneFile == LoggerSpec => []KeptInOneFile
<1>1. LoggerTypeOK /\ FilesInv /\ LinesInOrder => KeptInOneFile
  BY FilesInvImpliesKept
<1>2. LoggerInit => LinesInOrder
  <2>1. LoggerInit => Len(delivered) = 0
    BY DEF LoggerInit, Init
  <2> QED
    BY <2>1 DEF LinesInOrder, InOrder
<1>3. /\ LoggerTypeOK /\ QueueInv /\ EntriesDistinct /\ FilesInv /\ LinesInOrder
      /\ [LoggerNext]_loggerVars
      => LinesInOrder'
  BY OrderStep
<1> QED
  BY <1>1, <1>2, <1>3, LoggerImplementsQueue, QueueInvariant, EntriesAreDistinct,
     LoggerTypeCorrect, FilesInvariant, PTL DEF LoggerSpec

(* When the backend thread has ended, and with it every call of stop,      *)
(* everything that push accepted is in one file, but for the lines that    *)
(* were given to a stream whose open had failed.                           *)
THEOREM LoggerDrainsWhenDone ==
  LoggerSpec => [](consumer = "done" =>
                     \A i \in 1 .. Len(accepted) :
                       accepted[i] \in dropped \/ Cardinality(Holding(accepted[i])) = 1)
<1>1. DrainedWhenDone /\ KeptInOneFile =>
        (consumer = "done" => \A i \in 1 .. Len(accepted) :
           accepted[i] \in dropped \/ Cardinality(Holding(accepted[i])) = 1)
  BY DEF DrainedWhenDone, KeptInOneFile
<1>2. LoggerSpec => []DrainedWhenDone
  BY LoggerImplementsQueue, DoneMeansDrained, PTL
<1> QED
  BY <1>1, <1>2, LinesAreKeptInOneFile, PTL

-----------------------------------------------------------------------------
(* Part 5: what is logged after a call of reopen.                          *)

(* The invariant of reopen.  What an entry must not go to is not to be     *)
(* gone to later either; a file that was moved keeps the name it was moved *)
(* to; and m_file is one of those that were left behind only until the     *)
(* backend thread has looked at m_need_reopen and opened the live file,    *)
(* which it does before it writes an entry of a later call.                *)
BarredIsLeft == \A e \in DOMAIN barred : barred[e] \subseteq left
MovedNamed == \A f \in moved : Moved(f) \in DOMAIN path /\ path[Moved(f)] = f
BatchIsFree == \A i \in 1 .. Len(out) : out[i] \in DOMAIN barred => file \notin barred[out[i]]

ReopenInv == /\ BarredIsLeft
             /\ NoFile \in left => absent = {}
             /\ MovedNamed
             /\ place # "waiting" => consumer = "writing"
             /\ ~needReopen /\ place # "reopening" => file \notin left
             /\ place \in {"rotating", "writing"} => BatchIsFree

(* Once open has returned, m_file is none of the files left behind: a live *)
(* name leads to no moved file, and an open fails only where it had to.    *)
LEMMA OpenAvoidsLeft ==
  ASSUME LoggerTypeOK, LoggerTypeOK', ReopenInv, NamesDistinct',
         NEW names, Leads(names), OpenLive(names), moved' = moved,
         \A f \in moved : Moved(f) \in DOMAIN names /\ names[Moved(f)] = f
  PROVE  MovedNamed' /\ file' \notin left
<1> DEFINE live == Live(rotOpt.dir)
<1>1. live.kind = "live" /\ \A f : Moved(f).kind = "moved"
  BY Kinds
<1>2. \A f \in moved : Moved(f) \in DOMAIN path' /\ path'[Moved(f)] = f
  <2>1. CASE path' = names
    BY <2>1
  <2>2. CASE path' = With(names, live, Len(content) + 1)
    <3>1. DOMAIN names \subseteq DOMAIN path'
      BY <2>2 DEF With
    <3>2. \A k \in DOMAIN names : k # live => path'[k] = names[k]
      <4> HIDE DEF live
      <4> QED
        BY <2>2 DEF With
    <3> HIDE DEF live
    <3> QED
      BY <1>1, <3>1, <3>2
  <2> QED
    BY <2>1, <2>2, OpenLiveEffect
<1> HIDE DEF live
<1>3. MovedNamed'
  BY <1>2 DEF MovedNamed, Moved
<1>4. CASE live \in DOMAIN path' /\ file' = path'[live]
  <2>1. file' # NoFile
    <3>1. path'[live] \in 1 .. Len(content')
      BY <1>4 DEF LoggerTypeOK
    <3>2. ~(0 \in 1 .. Len(content'))
      BY LenProperties DEF LoggerTypeOK
    <3> QED
      BY <1>4, <3>1, <3>2 DEF NoFile
  <2>2. ASSUME file' \in moved PROVE FALSE
    <3>1. Moved(file') \in DOMAIN path' /\ path'[Moved(file')] = path'[live]
      BY <1>2, <1>4, <2>2
    <3>2. Moved(file') = live
      BY <1>4, <3>1 DEF NamesDistinct
    <3> QED
      BY <1>1, <3>2
  <2> QED
    BY <1>3, <2>1, <2>2 DEF LoggerTypeOK
<1>5. CASE rotOpt.dir \in absent /\ file' = NoFile
  BY <1>3, <1>5 DEF ReopenInv
<1> QED
  BY <1>3, <1>4, <1>5, OpenLiveEffect DEF live

(* rotateNow_ leaves the names of moved files alone.                       *)
LEMMA RenamedKeepsMoved ==
  ASSUME MovedNamed
  PROVE  \A f \in moved : Moved(f) \in DOMAIN RenamedNames /\ RenamedNames[Moved(f)] = f
<1> DEFINE live == Live(rotOpt.dir)
           rotated == RotatedName
<1>1. live.kind = "live" /\ rotated.kind = "rotated" /\ \A f : Moved(f).kind = "moved"
  BY Kinds DEF RotatedName
<1>2. CASE live \in DOMAIN path
  <2>1. RenamedNames = With(Without({live}), rotated, path[live])
    BY <1>2 DEF RenamedNames
  <2> HIDE DEF live, rotated
  <2>2. \A k \in DOMAIN path : k # live /\ k # rotated =>
          k \in DOMAIN RenamedNames /\ RenamedNames[k] = path[k]
    BY <2>1 DEF With, Without
  <2> QED
    BY <1>1, <2>2 DEF MovedNamed
<1>3. CASE live \notin DOMAIN path
  BY <1>3 DEF RenamedNames, MovedNamed
<1> QED
  BY <1>2, <1>3

(* One step of the logger keeps the invariant of reopen.                   *)
LEMMA ReopenStep ==
  ASSUME LoggerTypeOK, LoggerTypeOK', QueueInv, EntriesDistinct, FilesInv, FilesInv',
         ReopenInv, [LoggerNext]_loggerVars
  PROVE  ReopenInv'
<1> USE DEF ReopenInv
<1>0. NoFile \notin moved /\ out \in Seq(Entry)
  <2>1. ~(0 \in 1 .. Len(content))
    BY LenProperties DEF LoggerTypeOK
  <2> QED
    BY <2>1 DEF LoggerTypeOK, TypeOK, NoFile
\* The steps that leave the files and their names alone.
<1>1. ASSUME UNCHANGED <<path, file, moved>>
      PROVE  MovedNamed'
  BY <1>1 DEF MovedNamed, Moved
<1>2. ASSUME UNCHANGED <<file, out, barred>>
      PROVE  BatchIsFree => BatchIsFree'
  BY <1>2 DEF BatchIsFree
<1>3. ASSUME UNCHANGED <<barred, left>> PROVE BarredIsLeft'
  BY <1>3 DEF BarredIsLeft
<1>4. ASSUME NEW p \in Producers, Log(p) PROVE ReopenInv'
  <2>1. UNCHANGED <<path, file, moved, place, needReopen, absent, left>>
    BY <1>4 DEF Log, files
  <2>2. (consumer = "writing" => consumer' = "writing") /\ out' = out
    BY <1>4 DEF Log, PushAccepted, PushRefused, Woken
  <2>3. BarredIsLeft' /\ (BatchIsFree => BatchIsFree')
    <3>1. CASE UNCHANGED barred
      BY <1>2, <1>3, <2>1, <2>2, <3>1
    <3>2. CASE barred' = With(barred, <<p, pushed[p] + 1>>, left)
      <4> DEFINE e == <<p, pushed[p] + 1>>
      <4>1. \A i \in 1 .. Len(out) : out[i] # e
        BY WhereEntriesAre DEF LoggerTypeOK
      <4> HIDE DEF e
      <4>2. /\ DOMAIN barred' = DOMAIN barred \union {e}
            /\ barred'[e] = left
            /\ \A x \in DOMAIN barred : x # e => barred'[x] = barred[x]
        BY <3>2 DEF With, e
      <4>3. BarredIsLeft'
        BY <2>1, <4>2 DEF BarredIsLeft
      <4>4. BatchIsFree => BatchIsFree'
        BY <2>1, <2>2, <4>1, <4>2 DEF BatchIsFree
      <4> QED
        BY <4>3, <4>4
    <3> QED
      BY <1>4, <3>1, <3>2 DEF Log
  <2> QED
    BY <1>1, <2>1, <2>2, <2>3
<1>5. CASE Reopen
  <2>1. UNCHANGED <<path, file, moved, place, absent, barred, out, consumer>> /\ needReopen'
    BY <1>5 DEF Reopen, files, vars
  <2>2. left \subseteq left' /\ (NoFile \in left' => absent = {})
    BY <1>0, <1>5 DEF Reopen, LoggerTypeOK
  <2>3. BarredIsLeft'
    BY <2>1, <2>2 DEF BarredIsLeft
  <2> QED
    BY <1>1, <1>2, <2>1, <2>2, <2>3
<1>6. CASE \/ \E o \in Options : SetRotateOptions(o)
           \/ \E s \in Stoppers : Stop(s) \/ CloseQueue(s) \/ JoinBackend(s)
           \/ Midnight
           \/ \E d \in AbsentDirs : MakeDir(d)
  <2>1. UNCHANGED <<path, file, moved, place, barred, out, left, needReopen>>
    BY <1>6 DEF SetRotateOptions, Stop, CloseQueue, JoinBackend, Close, Midnight, MakeDir, files, vars
  <2>2. absent' \subseteq absent
    BY <1>6 DEF SetRotateOptions, Stop, CloseQueue, JoinBackend, Midnight, MakeDir
  <2>3. consumer = "writing" => consumer' = "writing"
    BY <1>6 DEF SetRotateOptions, Stop, CloseQueue, JoinBackend, Close, CloseWakes, Woken,
                Midnight, MakeDir, vars
  <2> QED
    BY <1>1, <1>2, <1>3, <2>1, <2>2, <2>3
<1>7. ASSUME NEW d \in Dirs, MoveAway(d) PROVE ReopenInv'
  <2> DEFINE live == Live(d)
             f == path[live]
             names == With(Without({live}), Moved(f), f)
  <2>1. /\ UNCHANGED <<file, place, barred, out, left, needReopen, absent, consumer>>
        /\ live \in DOMAIN path /\ moved' = moved \union {f}
    BY <1>7 DEF MoveAway, vars, calls
  <2>2. live.kind = "live" /\ \A g : Moved(g).kind = "moved" /\ Moved(g).n = g
    BY Kinds
  <2>3. \A g \in moved' : Moved(g) \in DOMAIN names /\ names[Moved(g)] = g
    <3>1. /\ DOMAIN names = (DOMAIN path \ {live}) \union {Moved(f)}
          /\ names[Moved(f)] = f
          /\ \A m \in DOMAIN path : m # live /\ m # Moved(f) => names[m] = path[m]
      <4> HIDE DEF live, f
      <4> QED
        BY DEF With, Without
    <3> HIDE DEF live, f, names
    <3>2. \A g \in moved : g # f => Moved(g) # Moved(f) /\ Moved(g) # live
      BY <2>2
    <3> QED
      BY <2>1, <3>1, <3>2 DEF MovedNamed
  <2>4. \A k \in DOMAIN names : k # live => k \in DOMAIN path' /\ path'[k] = names[k]
    <3>1. CASE path' = names
      BY <3>1
    <3>2. CASE path' = With(names, live, Len(content) + 1)
      <4> HIDE DEF live, names
      <4> QED
        BY <3>2 DEF With
    <3> QED
      BY <1>7, <3>1, <3>2 DEF MoveAway
  <2> HIDE DEF live, f, names
  <2>5. MovedNamed'
    BY <2>2, <2>3, <2>4 DEF MovedNamed, Moved
  <2> QED
    BY <1>2, <1>3, <2>1, <2>5
<1>8. CASE WakeSpuriously
  <2>1. place = "waiting"
    BY <1>8 DEF WakeSpuriously, SpuriousWake
  <2>2. UNCHANGED <<path, file, moved, place, barred, out, left, needReopen, absent>>
    BY <1>8 DEF WakeSpuriously, SpuriousWake, files, calls
  <2> QED
    BY <1>1, <1>2, <1>3, <2>1, <2>2
<1>9. CASE Wait
  <2>1. UNCHANGED <<path, file, moved, barred, left, needReopen, absent>>
    BY <1>9 DEF Wait, files, calls
  <2>2. /\ place' \in {"waiting", "checking"}
        /\ place' # "waiting" => consumer' = "writing"
    BY <1>9 DEF Wait
  <2>3. ~needReopen => file \notin left
    <3>1. place = "waiting"
      BY <1>9 DEF Wait, WaitSleeps, WaitSwaps, WaitReturnsFalse
    <3> QED
      BY <3>1
  <2> QED
    BY <1>1, <1>3, <2>1, <2>2, <2>3
<1>10. CASE ExchangeReopen
  <2>1. /\ UNCHANGED <<path, file, moved, barred, left, absent, out, consumer>>
        /\ place = "checking" /\ place' = IF needReopen THEN "reopening" ELSE "rotating"
    BY <1>10 DEF ExchangeReopen, Found, files, vars
  <2>2. place' = "rotating" => file \notin left
    BY <2>1
  <2>3. file \notin left => BatchIsFree
    BY DEF BatchIsFree, BarredIsLeft
  <2>4. place' \in {"rotating", "writing"} => BatchIsFree'
    BY <1>2, <2>1, <2>2, <2>3
  <2>5. ~needReopen' /\ place' # "reopening" => file' \notin left'
    BY <2>1, <2>2
  <2> QED
    BY <1>1, <1>3, <2>1, <2>4, <2>5
<1>11. ASSUME file' \notin left, MovedNamed', place' \in {"rotating", "writing"},
              consumer = "writing", UNCHANGED <<barred, left, needReopen, absent, out, consumer>>
       PROVE  ReopenInv'
  <2>1. BatchIsFree'
    BY <1>11 DEF BatchIsFree, BarredIsLeft
  <2> QED
    BY <1>3, <1>11, <2>1
<1>12. CASE DoReopen
  <2>1. /\ UNCHANGED <<barred, left, needReopen, absent, out, consumer, moved>>
        /\ OpenLive(path) /\ place = "reopening" /\ place' = "rotating"
    BY <1>12 DEF DoReopen, vars, calls
  <2>2. Leads(path)
    BY DEF Leads, LoggerTypeOK
  <2>3. \A f \in moved : Moved(f) \in DOMAIN path /\ path[Moved(f)] = f
    BY DEF MovedNamed
  <2>4. MovedNamed' /\ file' \notin left
    BY <2>1, <2>2, <2>3, OpenAvoidsLeft DEF FilesInv
  <2> QED
    BY <1>11, <2>1, <2>4
<1>13. CASE MaybeRotate
  <2>1. /\ UNCHANGED <<barred, left, needReopen, absent, out, consumer, moved>>
        /\ place = "rotating" /\ place' = "writing"
    BY <1>13 DEF MaybeRotate, vars, calls
  <2>2. CASE RotateNow
    <3>1. OpenLive(RenamedNames) /\ Leads(RenamedNames)
      BY <2>2, RotateNowOpens, RenamedLeads DEF Leads, LoggerTypeOK
    <3>2. \A f \in moved : Moved(f) \in DOMAIN RenamedNames /\ RenamedNames[Moved(f)] = f
      BY RenamedKeepsMoved
    <3>3. MovedNamed' /\ file' \notin left
      BY <2>1, <3>1, <3>2, OpenAvoidsLeft DEF FilesInv
    <3> QED
      BY <1>11, <2>1, <3>3
  <2>3. CASE UNCHANGED <<path, content, file, written, curData, seq>>
    BY <1>1, <1>2, <1>3, <2>1, <2>3
  <2> QED
    BY <1>13, <2>2, <2>3 DEF MaybeRotate
<1>14. CASE Write2File
  <2>1. /\ UNCHANGED <<path, file, moved, place, left, needReopen, absent, consumer>>
        /\ out # <<>> /\ out' = Tail(out)
        /\ barred' = [e \in DOMAIN barred \ {Head(out)} |-> barred[e]]
    BY <1>14 DEF Write2File, WriteEntry, Restrict
  <2>2. /\ DOMAIN barred' \subseteq DOMAIN barred
        /\ \A e \in DOMAIN barred' : barred'[e] = barred[e]
    BY <2>1
  <2>3. \A i \in 1 .. Len(out') : i + 1 \in 1 .. Len(out) /\ out'[i] = out[i + 1]
    BY <1>0, <2>1, HeadTailProperties, LenProperties
  <2>4. BarredIsLeft'
    BY <2>1, <2>2 DEF BarredIsLeft
  <2>5. BatchIsFree => BatchIsFree'
    BY <2>1, <2>2, <2>3 DEF BatchIsFree
  <2> QED
    BY <1>1, <2>1, <2>4, <2>5
<1>15. CASE Flush
  <2>1. /\ UNCHANGED <<path, file, moved, barred, left, needReopen, absent>>
        /\ place = "writing" /\ place' = "waiting"
    BY <1>15 DEF Flush, files, calls
  <2> QED
    BY <1>1, <1>3, <2>1
<1>16. CASE UNCHANGED loggerVars
  <2>1. UNCHANGED <<path, file, moved, barred, left, needReopen, absent, place, out, consumer>>
    BY <1>16 DEF loggerVars, files, calls, vars
  <2> QED
    BY <1>1, <1>2, <1>3, <2>1
<1> QED
  BY <1>4, <1>5, <1>6, <1>7, <1>8, <1>9, <1>10, <1>12, <1>13, <1>14, <1>15, <1>16
     DEF LoggerNext, BackendLoop

(* The invariant of reopen, for any calls, moves and absent directories:   *)
(* m_need_reopen stays set until BackendLoop looks at it.                  *)
THEOREM ReopenInvariant == LoggerSpec => []ReopenInv
<1>1. LoggerInit => ReopenInv
  BY DEF LoggerInit, Init, ReopenInv, BarredIsLeft, MovedNamed, BatchIsFree
<1>2. /\ LoggerTypeOK /\ LoggerTypeOK' /\ QueueInv /\ EntriesDistinct /\ FilesInv /\ FilesInv'
      /\ ReopenInv /\ [LoggerNext]_loggerVars
      => ReopenInv'
  BY ReopenStep
<1> QED
  BY <1>1, <1>2, LoggerImplementsQueue, QueueInvariant, EntriesAreDistinct, LoggerTypeCorrect,
     FilesInvariant, PTL DEF LoggerSpec

(* An entry that is logged after a call of reopen goes neither to a file   *)
(* that had been moved away by then nor, when all directories were there,  *)
(* to a stream that failed to open: even if the call comes while the       *)
(* backend thread is between its look at m_need_reopen and its batch.      *)
THEOREM ReopenTakesEffectAlways == LoggerSpec => ReopenTakesEffect
<1> DEFINE Effect == \A e \in DOMAIN barred : delivered' = Append(delivered, e) => file \notin barred[e]
<1>1. LoggerTypeOK /\ ReopenInv /\ [LoggerNext]_loggerVars => [Effect]_loggerVars
  <2> SUFFICES ASSUME LoggerTypeOK, ReopenInv, [LoggerNext]_loggerVars,
                      NEW e \in DOMAIN barred, delivered' = Append(delivered, e)
               PROVE  file \notin barred[e]
    OBVIOUS
  <2>1. delivered' # delivered
    <3>1. \A S : \A s \in Seq(S) : \A x : Len(Append(s, x)) = Len(s) + 1 /\ Len(s) \in Nat
      OBVIOUS
    <3> QED
      BY <3>1 DEF LoggerTypeOK, TypeOK
  <2>2. Write2File
    BY <2>1 DEF LoggerNext, Log, PushAccepted, PushRefused, Reopen, SetRotateOptions, Stop,
                CloseQueue, Close, JoinBackend, MoveAway, MakeDir, Midnight, WakeSpuriously,
                SpuriousWake, BackendLoop, Wait, WaitSleeps, WaitSwaps, WaitReturnsFalse,
                ExchangeReopen, DoReopen, MaybeRotate, Flush, FinishBatch, loggerVars, vars
  <2>3. /\ delivered' = Append(delivered, Head(out)) /\ place = "writing"
        /\ out # <<>> /\ out \in Seq(Entry) /\ delivered \in Seq(Entry)
    BY <2>2 DEF Write2File, WriteEntry, LoggerTypeOK, TypeOK
  <2>4. e = Head(out) /\ Head(out) = out[1] /\ 1 \in 1 .. Len(out)
    <3> DEFINE S == Entry \union {e, Head(out)}
    <3>1. delivered \in Seq(S) /\ e \in S /\ Head(out) \in S
      BY <2>3, SeqMonotonic
    <3> HIDE DEF S
    <3>2. e = Head(out)
      <4>1. Append(delivered, e)[Len(delivered) + 1] = e
        BY <3>1, AppendProperties
      <4>2. Append(delivered, Head(out))[Len(delivered) + 1] = Head(out)
        BY <3>1, AppendProperties
      <4> QED
        BY <2>3, <4>1, <4>2
    <3> QED
      BY <2>3, <3>2, EmptySeq, LenProperties
  <2> QED
    BY <2>3, <2>4 DEF ReopenInv, BatchIsFree
<1> QED
  BY <1>1, LoggerTypeCorrect, ReopenInvariant, PTL DEF LoggerSpec, ReopenTakesEffect
=============================================================================
