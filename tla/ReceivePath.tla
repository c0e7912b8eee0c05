---------------------------- MODULE ReceivePath -----------------------------
(***************************************************************************)
(* How one Connection turns the byte stream of its client back into the    *)
(* messages the client packed: Connection::Read, Buffer and                *)
(* Codec::ParseMessage.                                                    *)
(*                                                                         *)
(* A byte is <<m, i>>, the i-th byte of the client's m-th message; a       *)
(* message is HeaderLen bytes followed by Body[m] bytes.  The kernel cuts  *)
(* the stream anywhere, and more bytes may arrive, or the client may go,   *)
(* between any two steps of Read.                                          *)
(***************************************************************************)
EXTENDS Naturals, Sequences

CONSTANTS Body,             \* Body[m]: body length of the client's m-th message
          HeaderLen,        \* sizeof(MsgHeader)
          ChunkSize         \* sizeof(buf) in Connection::Read

ASSUME BodyAssumption == Body \in Seq(Nat)
ASSUME HeaderLenAssumption == HeaderLen \in Nat \ {0}
ASSUME ChunkSizeAssumption == ChunkSize \in Nat \ {0}

VARIABLES inbox,            \* bytes in the kernel's receive queue
          sent,             \* number of bytes of the stream that have arrived
          ending,           \* how the client ended the stream, if it did
          conn,             \* where the connection is
          buffer,           \* read_buffer_
          handled           \* messages ParseMessage has produced, as bytes

vars == <<inbox, sent, ending, conn, buffer, handled>>

Count == Len(Body)
Bytes(m) == [i \in 1 .. HeaderLen + Body[m] |-> <<m, i>>]

\* The bytes of the client's first m messages.
Stream[m \in 0 .. Count] == IF m = 0 THEN <<>> ELSE Stream[m - 1] \o Bytes(m)

Byte == UNION {{Bytes(m)[i] : i \in DOMAIN Bytes(m)} : m \in 1 .. Count}

TypeOK == /\ inbox \in Seq(Byte)
          /\ sent \in 0 .. Len(Stream[Count])
          /\ ending \in {"none", "fin", "reset"}
          /\ conn \in {"polling", "reading", "parsing", "closed"}
          /\ buffer \in Seq(Byte)
          /\ handled \in Seq(Seq(Byte))

Init == /\ inbox = <<>>
        /\ sent = 0
        /\ ending = "none"
        /\ conn = "polling"
        /\ buffer = <<>>
        /\ handled = <<>>

-----------------------------------------------------------------------------
(* Seeded faults.                                                          *)

\* The buffer is cleared at the start of Read, as if no frame were ever cut.
FaultKept == <<>>
\* The header is not counted when the length of the frame is compared.
FaultFrameLength(b) == Body[b[1][1]]
\* The terminator of the C string is taken for part of the message.
FaultFrame(b) == Append(b, <<b[1][1], 0>>)
\* One message per call of Read: no loop around ParseMessage.
FaultAfterParse == "polling"

-----------------------------------------------------------------------------
(* The client and the network.                                             *)

Arrive == /\ ending = "none"
          /\ sent < Len(Stream[Count])
          /\ \E n \in sent + 1 .. Len(Stream[Count]) :
               /\ inbox' = inbox \o SubSeq(Stream[Count], sent + 1, n)
               /\ sent' = n
          /\ UNCHANGED <<ending, conn, buffer, handled>>

ClientEnds == /\ ending = "none"
              /\ ending' \in {"fin", "reset"}
              /\ UNCHANGED <<inbox, sent, conn, buffer, handled>>

-----------------------------------------------------------------------------
(* Connection::Read                                                        *)

Readable == inbox # <<>> \/ ending # "none"

\* epoll is level-triggered and Read starts with what the buffer holds.
Kept == buffer

EpollIn == /\ conn = "polling"
           /\ Readable
           /\ conn' = "reading"
           /\ buffer' = Kept
           /\ UNCHANGED <<inbox, sent, ending, handled>>

Minimum(a, b) == IF a <= b THEN a ELSE b

ReadChunk == LET n == Minimum(ChunkSize, Len(inbox)) IN
             /\ conn = "reading"
             /\ inbox # <<>>
             /\ buffer' = buffer \o SubSeq(inbox, 1, n)
             /\ inbox' = SubSeq(inbox, n + 1, Len(inbox))
             /\ UNCHANGED <<sent, ending, conn, handled>>

\* EAGAIN: the kernel has nothing more for now.
ReadDrained == /\ conn = "reading"
               /\ ~Readable
               /\ conn' = "parsing"
               /\ UNCHANGED <<inbox, sent, ending, buffer, handled>>

\* read returns 0, or an error: close_callback_ and return, without a look
\* at the buffer.
ReadEnds == /\ conn = "reading"
            /\ inbox = <<>>
            /\ ending # "none"
            /\ conn' = "closed"
            /\ UNCHANGED <<inbox, sent, ending, buffer, handled>>

\* Codec::ParseMessage: bytes of the frame whose header is at the front of
\* the buffer, and whether all of them are there.
FrameLength(b) == HeaderLen + Body[b[1][1]]

FrameComplete(b) == Len(b) >= HeaderLen /\ Len(b) >= FrameLength(b)

\* What RetrieveAsString copies, header included.
Frame(b) == SubSeq(b, 1, FrameLength(b))

AfterParse == "parsing"

ParseMessage == LET n == FrameLength(buffer) IN
                /\ conn = "parsing"
                /\ FrameComplete(buffer)
                /\ handled' = Append(handled, Frame(buffer))
                /\ buffer' = SubSeq(buffer, n + 1, Len(buffer))
                /\ conn' = AfterParse
                /\ UNCHANGED <<inbox, sent, ending>>

ParseStops == /\ conn = "parsing"
              /\ ~FrameComplete(buffer)
              /\ conn' = "polling"
              /\ UNCHANGED <<inbox, sent, ending, buffer, handled>>

LoopStep == EpollIn \/ ReadChunk \/ ReadDrained \/ ReadEnds \/ ParseMessage \/ ParseStops

Next == Arrive \/ ClientEnds \/ LoopStep

Spec == Init /\ [][Next]_vars

\* The event loop runs; the client owes nothing.
FairSpec == Spec /\ WF_vars(LoopStep)

-----------------------------------------------------------------------------
Arrived == SubSeq(Stream[Count], 1, sent)

\* Messages whose last byte has arrived.
Complete == {m \in 1 .. Count : Len(Stream[m]) <= sent}

(* The messages handed to the business code are the client's first         *)
(* messages, whole, unaltered and in order, however the stream was cut,    *)
(* and what follows them is still in read_buffer_ or in the kernel.        *)
HandledIntact == /\ Len(handled) <= Count
                 /\ \A m \in 1 .. Len(handled) : handled[m] = Bytes(m)
                 /\ Stream[Len(handled)] \o buffer \o inbox = Arrived

(* Read does not go back to epoll with a complete frame in its buffer:     *)
(* nothing would wake it for that frame until the client sends again.      *)
NoFrameLeftBehind == conn = "polling" => ~FrameComplete(buffer)

(* A message that has arrived is handled without further help from the     *)
(* client, as long as the client stays.                                    *)
HandledUnlessClientEnds ==
  \A m \in 1 .. Count : (m \in Complete) ~> (Len(handled) >= m \/ ending # "none")
=============================================================================
