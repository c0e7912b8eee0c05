----------------------------- MODULE AsyncQueue -----------------------------
(***************************************************************************)
(* MyLog's AsyncQueue (Log.h, Log.cpp) between the threads that call       *)
(* Logger::log and the thread that runs Logger::BackendLoop.               *)
(*                                                                         *)
(* Every member function holds m_mtx from its first access to its return,  *)
(* except where the condition variable releases it, so a call of push or   *)
(* close is one step and waitSwapBatch is one step up to each wait.  A     *)
(* notification moves the sleeping consumer back to "calling", where it    *)
(* evaluates the wait predicate again.                                     *)
(***************************************************************************)
EXTENDS Naturals, Sequences

CONSTANTS Producers,        \* threads that call Logger::log
          MaxPush,          \* bound: calls of push by one producer
          BatchThreshold    \* kBatchThreshold

ASSUME MaxPushAssumption == MaxPush \in Nat
ASSUME BatchThresholdAssumption == BatchThreshold \in Nat \ {0}

VARIABLES buf,              \* m_bufA, m_bufB
          writeBuf,         \* which of the two m_write_buf points to
          closed,           \* m_closed
          consumer,         \* where BackendLoop is
          out,              \* BackendLoop's batch, entries still to be written
          pushed,           \* calls of push per producer, numbers the entries
          accepted,         \* history: entries whose push returned true
          delivered         \* history: entries given to Write2File

vars == <<buf, writeBuf, closed, consumer, out, pushed, accepted, delivered>>

Buffers == {"A", "B"}
Entry == Producers \X (1 .. MaxPush)

Other(b) == IF b = "A" THEN "B" ELSE "A"
readBuf == Other(writeBuf)

TypeOK == /\ buf \in [Buffers -> Seq(Entry)]
          /\ writeBuf \in Buffers
          /\ closed \in BOOLEAN
          /\ consumer \in {"calling", "asleep", "writing", "done"}
          /\ out \in Seq(Entry)
          /\ pushed \in [Producers -> 0 .. MaxPush]
          /\ accepted \in Seq(Entry)
          /\ delivered \in Seq(Entry)

Init == /\ buf = [b \in Buffers |-> <<>>]
        /\ writeBuf = "A"
        /\ closed = FALSE
        /\ consumer = "calling"
        /\ out = <<>>
        /\ pushed = [p \in Producers |-> 0]
        /\ accepted = <<>>
        /\ delivered = <<>>

-----------------------------------------------------------------------------
(* Seeded faults: one plausible slip each, never part of Next.             *)

FaultNotifyAtThresholdOnly == Len(buf[writeBuf]) + 1 = BatchThreshold
FaultWoken == consumer
FaultLeavesBatch == [buf EXCEPT ![readBuf] = out]
FaultLeavesMovedFrom ==      \* entries moved out one by one, null pointers left
  [buf EXCEPT ![writeBuf] = [i \in DOMAIN @ |-> "null"]]

-----------------------------------------------------------------------------
(* The condition variable has one waiter, so notify_one and notify_all     *)
(* have the same effect.                                                   *)
Woken == IF consumer = "asleep" THEN "calling" ELSE consumer

\* push notifies on the transition from empty and at the batch threshold.
NotifyNeeded == \/ buf[writeBuf] = <<>>
                \/ Len(buf[writeBuf]) + 1 = BatchThreshold

CloseWakes == Woken

PushAccepted(p) ==
  LET e == <<p, pushed[p] + 1>> IN
  /\ pushed[p] < MaxPush
  /\ ~closed
  /\ buf' = [buf EXCEPT ![writeBuf] = Append(@, e)]
  /\ consumer' = IF NotifyNeeded THEN Woken ELSE consumer
  /\ pushed' = [pushed EXCEPT ![p] = @ + 1]
  /\ accepted' = Append(accepted, e)
  /\ UNCHANGED <<writeBuf, closed, out, delivered>>

\* A push after close returns false; Logger::log ignores that and the entry
\* is destroyed with its unique_ptr.
PushRefused(p) ==
  /\ pushed[p] < MaxPush
  /\ closed
  /\ pushed' = [pushed EXCEPT ![p] = @ + 1]
  /\ UNCHANGED <<buf, writeBuf, closed, consumer, out, accepted, delivered>>

Close == /\ ~closed
         /\ closed' = TRUE
         /\ consumer' = CloseWakes
         /\ UNCHANGED <<buf, writeBuf, out, pushed, accepted, delivered>>

\* The wait predicate is false: the consumer releases m_mtx and sleeps.
WaitSleeps == /\ consumer = "calling"
              /\ ~closed
              /\ buf[writeBuf] = <<>>
              /\ consumer' = "asleep"
              /\ UNCHANGED <<buf, writeBuf, closed, out, pushed, accepted, delivered>>

\* A condition variable may wake its waiter without a notification.
SpuriousWake == /\ consumer = "asleep"
                /\ consumer' = "calling"
                /\ UNCHANGED <<buf, writeBuf, closed, out, pushed, accepted, delivered>>

Exhausted == closed /\ buf[writeBuf] = <<>>

\* std::swap(m_write_buf, m_read_buf); out.swap(*m_read_buf)
BuffersAfterSwap == [buf EXCEPT ![writeBuf] = out]

WaitSwaps == /\ consumer = "calling"
             /\ buf[writeBuf] # <<>>
             /\ ~Exhausted
             /\ out' = buf[writeBuf]
             /\ buf' = BuffersAfterSwap
             /\ writeBuf' = readBuf
             /\ consumer' = "writing"
             /\ UNCHANGED <<closed, pushed, accepted, delivered>>

\* Closed with an empty write buffer: what the read buffer still holds, or
\* false, which ends BackendLoop.
WaitFinds(left) == IF left # <<>>
                   THEN /\ out' = left
                        /\ buf' = [buf EXCEPT ![readBuf] = out]
                        /\ consumer' = "writing"
                   ELSE /\ consumer' = "done"
                        /\ UNCHANGED <<buf, out>>

WaitReturnsFalse == /\ consumer = "calling"
                    /\ Exhausted
                    /\ WaitFinds(buf[readBuf])
                    /\ UNCHANGED <<writeBuf, closed, pushed, accepted, delivered>>

\* One turn of BackendLoop's loop over the batch.
WriteEntry == /\ consumer = "writing"
              /\ out # <<>>
              /\ delivered' = Append(delivered, Head(out))
              /\ out' = Tail(out)
              /\ UNCHANGED <<buf, writeBuf, closed, consumer, pushed, accepted>>

\* batch.clear(), flush, and back to waitSwapBatch.
FinishBatch == /\ consumer = "writing"
               /\ out = <<>>
               /\ consumer' = "calling"
               /\ UNCHANGED <<buf, writeBuf, closed, out, pushed, accepted, delivered>>

Consume == \/ WaitSleeps \/ WaitSwaps \/ WaitReturnsFalse
           \/ WriteEntry \/ FinishBatch

Next == \/ \E p \in Producers : PushAccepted(p) \/ PushRefused(p)
        \/ Close
        \/ SpuriousWake
        \/ Consume

Spec == Init /\ [][Next]_vars

\* The backend thread is scheduled; nobody has to log, to stop the logger
\* or to wake the thread spuriously.
FairSpec == Spec /\ WF_vars(Consume)

-----------------------------------------------------------------------------
(* A consumer asleep on the condition variable has nothing to do: every    *)
(* push that makes the write buffer non-empty, and close, must have woken  *)
(* it.  AsyncQueue::push notifies only on the empty-to-non-empty edge and  *)
(* at the threshold, so this rests on the buffer being empty whenever the  *)
(* consumer goes to sleep.                                                 *)
NoLostWakeup == consumer = "asleep" => (~closed /\ buf[writeBuf] = <<>>)

(* When waitSwapBatch has returned false, both buffers are empty and every *)
(* accepted entry has been given to Write2File, even those pushed while    *)
(* the last batch was being written.                                       *)
DrainedWhenDone == consumer = "done" => /\ closed
                                        /\ delivered = accepted
                                        /\ \A b \in Buffers : buf[b] = <<>>

(* The queue is a FIFO channel: the swap of the buffers neither loses,     *)
(* duplicates nor reorders entries, and the entries between push and       *)
(* Write2File are always the batch, then the read buffer, then the write   *)
(* buffer.                                                                 *)
Channel == INSTANCE ClosableChannel
             WITH pending <- out \o buf[readBuf] \o buf[writeBuf],
                  open <- ~closed,
                  finished <- (consumer = "done")

ImplementsChannel == Channel!Spec

(* Whatever was accepted is written in the end, and a close ends the       *)
(* backend thread, with no help from later pushes.                         *)
ImplementsFairChannel == Channel!FairSpec

-----------------------------------------------------------------------------
(* The inductive invariant: where each accepted entry is, and which parts  *)
(* are empty in which phase of the consumer.                               *)
ReadBufferEmpty == buf[readBuf] = <<>>
BatchOnlyWhileWriting == consumer # "writing" => out = <<>>
Accounted == accepted = delivered \o (out \o buf[writeBuf])
DoneIsClosed == consumer = "done" => closed /\ buf[writeBuf] = <<>>

QueueInv == /\ ReadBufferEmpty
            /\ BatchOnlyWhileWriting
            /\ Accounted
            /\ DoneIsClosed
            /\ NoLostWakeup
=============================================================================
