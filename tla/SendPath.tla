------------------------------ MODULE SendPath ------------------------------
(***************************************************************************)
(* How one Connection sends: Connection::Send, called by the pool's        *)
(* workers and by Read, and Connection::HandleEvent with Write, called by  *)
(* the event loop.  Send and Write hold send_mutex_ from beginning to end, *)
(* so each is one step; what the mutex does not cover is the time between  *)
(* the report of epoll_wait and the call of Write.  Of Read only its end   *)
(* matters here (ReceivePath has the rest).                                *)
(*                                                                         *)
(* The kernel's send buffer has room for Room bytes and accepts a part of  *)
(* what it is offered.  A client that has closed its socket answers data   *)
(* with a reset.  The first call on a reset socket reports the error, or,  *)
(* if it is a write and the client had sent its FIN, raises SIGPIPE;       *)
(* every later write raises SIGPIPE, which the server neither ignores nor  *)
(* handles.                                                                *)
(***************************************************************************)
EXTENDS Naturals, Sequences

CONSTANTS Senders,          \* threads that may call Send
          Messages,         \* bound: how many messages each of them sends
          Length,           \* bytes of one packed message
          Room              \* capacity of the socket's send buffer

ASSUME MessagesAssumption == Messages \in Nat
ASSUME LengthAssumption == Length \in Nat \ {0}
ASSUME RoomAssumption == Room \in Nat \ {0}

VARIABLES writeBuffer,      \* write_buffer_
          interest,         \* events epoll watches: "in" or "inout"
          loop,             \* event loop: in epoll_wait, in Read, or before Write
          outReady,         \* EPOLLOUT is among the events being handled
          unread,           \* bytes the kernel holds for the client
          client,           \* "open", "closed", "reset", or "broken" once the
                            \* reset has been reported to a system call
          conn,             \* "open", "erased" by close_callback_, "destroyed"
          alive,            \* the server process has not been killed
          sends,            \* number of messages sent by each sender
          wire,             \* history: bytes the kernel accepted, in order
          queued,           \* history: bytes appended to write_buffer_
          flushed           \* history: bytes erased from write_buffer_

data == <<writeBuffer, interest, unread, sends, wire, queued, flushed>>
vars == <<data, loop, outReady, client, conn, alive>>

Byte == Senders \X (1 .. Messages) \X (1 .. Length)

TypeOK == /\ writeBuffer \in Seq(Byte)
          /\ interest \in {"in", "inout"}
          /\ loop \in {"polling", "reading", "writing"}
          /\ outReady \in BOOLEAN
          /\ unread \in 0 .. Room
          /\ client \in {"open", "closed", "reset", "broken"}
          /\ conn \in {"open", "erased", "destroyed"}
          /\ alive \in BOOLEAN
          /\ sends \in [Senders -> 0 .. Messages]
          /\ wire \in Seq(Byte)
          /\ queued \in Seq(Byte)
          /\ flushed \in Seq(Byte)

Init == /\ writeBuffer = <<>>
        /\ interest = "in"
        /\ loop = "polling"
        /\ outReady = FALSE
        /\ unread = 0
        /\ client = "open"
        /\ conn = "open"
        /\ alive = TRUE
        /\ sends = [s \in Senders |-> 0]
        /\ wire = <<>>
        /\ queued = <<>>
        /\ flushed = <<>>

\* A seeded fault: a packet with a byte too many.
FaultPacket(s, k) == [i \in 1 .. Length + 1 |-> <<s, k, i>>]

Packet(s, k) == [i \in 1 .. Length |-> <<s, k, i>>]

Prefix(b, n) == SubSeq(b, 1, n)
Minimum(a, b) == IF a <= b THEN a ELSE b

\* What the kernel takes of n offered bytes.
Accepts(n) == Minimum(n, Room - unread)

Broken == client \in {"reset", "broken"}

-----------------------------------------------------------------------------
(* Seeded faults.                                                          *)

FaultInterestAfterSend == interest
FaultInterestAfterWrite(rest) == "in"
FaultLeftAfterWrite(n) == <<>>

-----------------------------------------------------------------------------
\* A write on a broken socket: an error report, or SIGPIPE.
WriteOnBroken == /\ alive' \in {FALSE, client = "reset"}
                 /\ client' = "broken"

\* loop_->AddEvent(fd_, EPOLLIN | EPOLLOUT, ...) when the buffer was empty.
InterestAfterSend == IF writeBuffer = <<>> THEN "inout" ELSE interest

\* Send keeps the whole message for the loop and also offers it to the
\* kernel; the result of that write is ignored.
Send(s) ==
  LET packet == Packet(s, sends[s] + 1)
      n      == IF Broken THEN 0 ELSE Accepts(Len(packet))
  IN /\ alive
     /\ conn # "destroyed"
     /\ sends[s] < Messages
     /\ sends' = [sends EXCEPT ![s] = @ + 1]
     /\ writeBuffer' = writeBuffer \o packet
     /\ queued' = queued \o packet
     /\ interest' = InterestAfterSend
     /\ wire' = wire \o Prefix(packet, n)
     /\ unread' = unread + n
     /\ IF Broken THEN WriteOnBroken ELSE UNCHANGED <<alive, client>>
     /\ UNCHANGED <<loop, outReady, conn, flushed>>

-----------------------------------------------------------------------------
(* The event loop.                                                         *)

InReported == client # "open"
OutReported == interest = "inout" /\ (unread < Room \/ Broken)

EpollWait == /\ alive
             /\ conn # "destroyed"
             /\ loop = "polling"
             /\ InReported \/ OutReported
             /\ outReady' = OutReported
             /\ loop' = IF InReported THEN "reading" ELSE "writing"
             /\ UNCHANGED <<data, client, conn, alive>>

\* Read meets the end of the stream or an error: close_callback_.  The
\* event's EPOLLOUT is handled all the same.
ReadEnds == /\ alive
            /\ loop = "reading"
            /\ conn' = "erased"
            /\ client' = IF client = "reset" THEN "broken" ELSE client
            /\ loop' = IF outReady THEN "writing" ELSE "polling"
            /\ UNCHANGED <<data, outReady, alive>>

\* write_buffer_ after n of its bytes were written.
LeftAfterWrite(n) == SubSeq(writeBuffer, n + 1, Len(writeBuffer))

InterestAfterWrite(rest) == IF rest = <<>> THEN "in" ELSE interest

WriteSome == LET n == Accepts(Len(writeBuffer)) IN
             /\ alive
             /\ loop = "writing"
             /\ ~Broken
             /\ n > 0
             /\ writeBuffer' = LeftAfterWrite(n)
             /\ flushed' = flushed \o Prefix(writeBuffer, n)
             /\ wire' = wire \o Prefix(writeBuffer, n)
             /\ unread' = unread + n
             /\ interest' = InterestAfterWrite(writeBuffer')
             /\ loop' = "polling"
             /\ UNCHANGED <<sends, queued, outReady, client, conn, alive>>

\* A Send has taken the room that epoll saw: EAGAIN.
WriteBlocked == /\ alive
                /\ loop = "writing"
                /\ ~Broken
                /\ unread = Room
                /\ loop' = "polling"
                /\ UNCHANGED <<data, outReady, client, conn, alive>>

\* Write error: close_callback_.
WriteFails == /\ alive
              /\ loop = "writing"
              /\ Broken
              /\ WriteOnBroken
              /\ conn' = "erased"
              /\ loop' = "polling"
              /\ UNCHANGED <<data, outReady>>

\* The last owner of an erased connection, a task or HandleEvent itself,
\* lets go of it.
Destroy == /\ alive
           /\ conn = "erased"
           /\ loop = "polling"
           /\ conn' = "destroyed"
           /\ UNCHANGED <<data, loop, outReady, client, alive>>

-----------------------------------------------------------------------------
(* The client.                                                             *)

ClientReads == /\ client = "open"
               /\ unread > 0
               /\ unread' \in 0 .. unread - 1
               /\ UNCHANGED <<writeBuffer, interest, sends, wire, queued, flushed>>
               /\ UNCHANGED <<loop, outReady, client, conn, alive>>

ClientCloses == /\ client = "open"
                /\ client' = "closed"
                /\ UNCHANGED <<data, loop, outReady, conn, alive>>

ResetArrives == /\ client = "closed"
                /\ unread > 0
                /\ client' = "reset"
                /\ UNCHANGED <<data, loop, outReady, conn, alive>>

LoopStep == EpollWait \/ ReadEnds \/ WriteSome \/ WriteBlocked \/ WriteFails

Next == \/ \E s \in Senders : Send(s)
        \/ LoopStep \/ Destroy
        \/ ClientReads \/ ClientCloses \/ ResetArrives

Spec == Init /\ [][Next]_vars

\* The event loop runs, and a client that stays reads what it is sent.
FairSpec == Spec /\ WF_vars(LoopStep) /\ WF_vars(ClientReads)

-----------------------------------------------------------------------------
(* epoll watches for EPOLLOUT exactly while something waits in             *)
(* write_buffer_.  Losing the interest would leave the bytes there until   *)
(* the next Send to an empty buffer, which never comes; keeping it makes   *)
(* the loop spin.                                                          *)
InterestMatchesBuffer == (interest = "inout") <=> (writeBuffer # <<>>)

(* The copy that goes through write_buffer_ reaches the kernel in the      *)
(* order of the calls of Send, with no byte lost or doubled between a      *)
(* partial write and the next.                                             *)
FlushedInOrder == queued = flushed \o writeBuffer

(* What Send was given leaves write_buffer_ as long as the client is there *)
(* and reads: no message waits for the next one to push it out.            *)
BufferDrains == (writeBuffer # <<>>) ~> (writeBuffer = <<>> \/ client # "open")

(* The comment in Send says "write first; what cannot be sent at once      *)
(* should be stored in write_buffer_".  Each message would then be on the  *)
(* wire once, in one piece.                                                *)
WireIsQueuedOnce == \A n \in 1 .. Len(wire) : n <= Len(queued) /\ wire[n] = queued[n]
=============================================================================
