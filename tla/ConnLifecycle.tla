--------------------------- MODULE ConnLifecycle ----------------------------
(***************************************************************************)
(* The life of Connection objects: TcpServer::start accepts them,          *)
(* EventLoop::Loop calls them through a map from file descriptors to raw   *)
(* pointers, tasks of the thread pool keep them alive, and whoever drops   *)
(* the last shared_ptr, the loop or a worker, runs ~Connection, which      *)
(* calls EventLoop::RemoveEvent and then close.                            *)
(*                                                                         *)
(* callbacks_ has no lock.  Loop looks a descriptor up twice (count, then  *)
(* operator[]) and then calls HandleEvent, whose shared_from_this throws   *)
(* when the last owner is gone: these are three steps, and a destructor    *)
(* on a worker may run between them.  An exception that leaves Loop ends   *)
(* the program ("Server crashed" in main).                                 *)
(***************************************************************************)
EXTENDS Naturals

CONSTANTS Conns,            \* Connection objects, each used once
          Fds,              \* file descriptors the kernel can hand out
          MaxHolds,         \* bound: other threads' pointers to a connection
          MaxLookups,       \* bound: lookups of a connection in user_map_
          NoConn, NoFd

ASSUME NoneAssumption == NoConn \notin Conns /\ NoFd \notin Fds
ASSUME MaxHoldsAssumption == MaxHolds \in Nat
ASSUME MaxLookupsAssumption == MaxLookups \in Nat

VARIABLES obj,              \* life of each object; "dying": its last owner is
                            \* gone and ~Connection has begun; "halfway": after
                            \* the first of its two calls
          fdOf,             \* fd_
          owner,            \* kernel: the connection a descriptor belongs to
          watched,          \* kernel: descriptors in the epoll set
          connections,      \* TcpServer::connections_
          callbacks,        \* EventLoop::callbacks_, as the captured this
          holds,            \* shared_ptrs to each connection on other threads
          weak,             \* connections some thread is about to lock
          lookups,          \* how many lookups there have been
          ended,            \* connections whose client has gone
          loop,             \* event loop: place, descriptor, connection
          batch,            \* reported descriptors not yet looked at
          down              \* an exception has left Loop

objects == <<obj, fdOf, owner, watched, connections, callbacks>>
refs == <<weak, lookups>>
vars == <<objects, holds, refs, ended, loop, batch, down>>

TypeOK == /\ obj \in [Conns -> {"unborn", "live", "dying", "halfway", "dead"}]
          /\ fdOf \in [Conns -> Fds \union {NoFd}]
          /\ owner \in [Fds -> Conns \union {NoConn}]
          /\ watched \subseteq Fds
          /\ connections \in [Fds -> Conns \union {NoConn}]
          /\ callbacks \in [Fds -> Conns \union {NoConn}]
          /\ holds \in [Conns -> 0 .. MaxHolds]
          /\ weak \subseteq Conns
          /\ lookups \in 0 .. MaxLookups
          /\ ended \subseteq Conns
          /\ loop \in [at : {"looking", "calling", "entering", "inside", "destroying"},
                       fd : Fds \union {NoFd}, conn : Conns \union {NoConn}]
          /\ batch \subseteq Fds
          /\ down \in BOOLEAN

Looking == [at |-> "looking", fd |-> NoFd, conn |-> NoConn]

Init == /\ obj = [c \in Conns |-> "unborn"]
        /\ fdOf = [c \in Conns |-> NoFd]
        /\ owner = [f \in Fds |-> NoConn]
        /\ watched = {}
        /\ connections = [f \in Fds |-> NoConn]
        /\ callbacks = [f \in Fds |-> NoConn]
        /\ holds = [c \in Conns |-> 0]
        /\ weak = {}
        /\ lookups = 0
        /\ ended = {}
        /\ loop = Looking
        /\ batch = {}
        /\ down = FALSE

-----------------------------------------------------------------------------
(* Seeded faults.                                                          *)
FaultInConnections(c) == FALSE
FaultGuarded(c) == FALSE
FaultFreeFds == {f \in Fds : owner[f] = NoConn} \union {NoFd}
FaultErased(f) == connections
FaultCallbacksErased(f) == callbacks
FaultDestructor == [dying |-> "close", halfway |-> "remove"]
-----------------------------------------------------------------------------
(* Ownership.                                                              *)

InConnections(c) == \E f \in Fds : connections[f] = c
Guarded(c) == loop.at = "inside" /\ loop.conn = c

\* A shared_ptr dropped: the object dies when none is left.  "others" says
\* whether the remaining ones own c.
Dropped(c, others) == IF others THEN obj ELSE [obj EXCEPT ![c] = "dying"]

-----------------------------------------------------------------------------
(* Clients.                                                                *)

ClientGoes(c) == /\ ~down
                 /\ obj[c] = "live"
                 /\ c \notin ended
                 /\ ended' = ended \union {c}
                 /\ UNCHANGED <<objects, holds, refs, loop, batch, down>>

-----------------------------------------------------------------------------
(* The event loop.                                                         *)

FreeFds == {f \in Fds : owner[f] = NoConn}

\* The lambda of TcpServer::start: accept, new Connection (which registers
\* itself), connections_[client_fd] = conn.
Accept(c) == /\ ~down
             /\ loop.at = "looking"
             /\ obj[c] = "unborn"
             /\ \E f \in FreeFds :
                  /\ obj' = [obj EXCEPT ![c] = "live"]
                  /\ fdOf' = [fdOf EXCEPT ![c] = f]
                  /\ owner' = [owner EXCEPT ![f] = c]
                  /\ watched' = watched \union {f}
                  /\ callbacks' = [callbacks EXCEPT ![f] = c]
                  /\ connections' = [connections EXCEPT ![f] = c]
             /\ UNCHANGED <<holds, refs, ended, loop, batch, down>>

\* The level-triggered epoll reports every descriptor whose client has gone,
\* and any other that has data.
Reported == {f \in watched : owner[f] \in ended}

EpollWait == /\ ~down
             /\ loop.at = "looking"
             /\ batch = {}
             /\ batch' \in {b \in SUBSET watched : b # {} /\ Reported \subseteq b}
             /\ UNCHANGED <<objects, holds, refs, ended, loop, down>>

\* callbacks_.count(fd)
LookUp(f) == /\ ~down
             /\ loop.at = "looking"
             /\ f \in batch
             /\ batch' = batch \ {f}
             /\ loop' = IF callbacks[f] = NoConn
                        THEN loop
                        ELSE [at |-> "calling", fd |-> f, conn |-> NoConn]
             /\ UNCHANGED <<objects, holds, refs, ended, down>>

\* callbacks_[fd](revents): operator[] makes an entry erased since the count
\* anew, empty, and calling it throws bad_function_call.
Call == /\ ~down
        /\ loop.at = "calling"
        /\ down' = (callbacks[loop.fd] = NoConn)
        /\ loop' = [loop EXCEPT !.at = "entering", !.conn = callbacks[loop.fd]]
        /\ UNCHANGED <<objects, holds, refs, ended, batch>>

\* HandleEvent: shared_from_this throws bad_weak_ptr when the last owner has
\* gone; on a freed object it is undefined, and taken as the end as well.
Enter == /\ ~down
         /\ loop.at = "entering"
         /\ down' = (obj[loop.conn] # "live")
         /\ loop' = [loop EXCEPT !.at = "inside"]
         /\ UNCHANGED <<objects, holds, refs, ended, batch>>

\* A task captures shared_from_this().  Once Read has met the end of the
\* stream it enqueues nothing more.
ReadRequest == /\ ~down
               /\ loop.at = "inside"
               /\ loop.conn \notin ended
               /\ holds[loop.conn] < MaxHolds
               /\ holds' = [holds EXCEPT ![loop.conn] = @ + 1]
               /\ UNCHANGED <<objects, refs, ended, loop, batch, down>>

\* connections_.erase(fd)
Erased(f) == [connections EXCEPT ![f] = NoConn]

\* Read meets the end of the stream, or Read or Write an error, and calls
\* close_callback_; or there is nothing more to do.  HandleEvent returns and
\* drops its guard: if that was the last owner, the loop runs ~Connection.
Leave ==
  LET c == loop.conn
      owned == holds[c] > 0 \/ \E f \in Fds : connections'[f] = c
  IN /\ ~down
     /\ loop.at = "inside"
     /\ connections' = IF c \in ended THEN Erased(fdOf[c]) ELSE connections
     /\ obj' = Dropped(c, owned)
     /\ loop' = IF owned THEN Looking ELSE [loop EXCEPT !.at = "destroying"]
     /\ UNCHANGED <<fdOf, owner, watched, callbacks, holds, refs, ended, batch, down>>

\* Back from the destructor.
Destroyed == /\ ~down
             /\ loop.at = "destroying"
             /\ obj[loop.conn] = "dead"
             /\ loop' = Looking
             /\ UNCHANGED <<objects, holds, refs, ended, batch, down>>

-----------------------------------------------------------------------------
(* The other threads, and ~Connection on whichever thread runs it.         *)

\* UserManager::GetConnection in the task of another connection copies the
\* weak_ptr; the entry may be one that a read error left behind.
GetConnection(c) == /\ ~down
                    /\ obj[c] = "live"
                    /\ lookups < MaxLookups
                    /\ lookups' = lookups + 1
                    /\ weak' = weak \union {c}
                    /\ UNCHANGED <<objects, holds, ended, loop, batch, down>>

\* weak_ptr::lock, outside UserManager's mutex.
Lock(c) == /\ ~down
           /\ c \in weak
           /\ holds[c] < MaxHolds
           /\ weak' = weak \ {c}
           /\ holds' = IF obj[c] = "live" THEN [holds EXCEPT ![c] = @ + 1] ELSE holds
           /\ UNCHANGED <<objects, lookups, ended, loop, batch, down>>

\* A task, or the watchdog, drops its pointer.
Release(c) == /\ ~down
              /\ holds[c] > 0
              /\ holds' = [holds EXCEPT ![c] = @ - 1]
              /\ obj' = Dropped(c, holds[c] > 1 \/ InConnections(c) \/ Guarded(c))
              /\ UNCHANGED <<fdOf, owner, watched, connections, callbacks>>
              /\ UNCHANGED <<refs, ended, loop, batch, down>>

CallbacksErased(f) == [callbacks EXCEPT ![f] = NoConn]

\* The two calls of ~Connection, in order.
Destructor == [dying |-> "remove", halfway |-> "close"]
Calls(c, what) == obj[c] \in DOMAIN Destructor /\ Destructor[obj[c]] = what
After(c) == [obj EXCEPT ![c] = IF @ = "dying" THEN "halfway" ELSE "dead"]

RemoveEvent(c) == /\ ~down
                  /\ Calls(c, "remove")
                  /\ obj' = After(c)
                  /\ watched' = watched \ {fdOf[c]}
                  /\ callbacks' = CallbacksErased(fdOf[c])
                  /\ UNCHANGED <<fdOf, owner, connections>>
                  /\ UNCHANGED <<holds, refs, ended, loop, batch, down>>

\* close also takes the descriptor out of the epoll set.
CloseFd(c) == /\ ~down
              /\ Calls(c, "close")
              /\ obj' = After(c)
              /\ owner' = [owner EXCEPT ![fdOf[c]] = NoConn]
              /\ watched' = watched \ {fdOf[c]}
              /\ UNCHANGED <<fdOf, connections, callbacks>>
              /\ UNCHANGED <<holds, refs, ended, loop, batch, down>>

-----------------------------------------------------------------------------
LoopStep == EpollWait \/ (\E f \in Fds : LookUp(f)) \/ Call \/ Enter \/ Leave \/ Destroyed

Next == \/ \E c \in Conns : ClientGoes(c) \/ Accept(c)
        \/ \E c \in Conns : GetConnection(c) \/ Lock(c) \/ Release(c)
        \/ ReadRequest
        \/ LoopStep
        \/ \E c \in Conns : RemoveEvent(c) \/ CloseFd(c)

Spec == Init /\ [][Next]_vars

\* The loop and a destructor that has begun go on; a task or the watchdog
\* lets a connection go in the end.
FairSpec == /\ Spec
            /\ WF_vars(LoopStep)
            /\ \A c \in Conns : /\ WF_vars(Lock(c)) /\ WF_vars(Release(c))
                                /\ WF_vars(RemoveEvent(c))
                                /\ WF_vars(CloseFd(c))

-----------------------------------------------------------------------------
(* A callback is only ever registered for the connection that owns the     *)
(* descriptor: although destructors run on any thread and the kernel hands *)
(* a closed descriptor out again at once, no event of a new client reaches *)
(* an old object (RemoveEvent before close in ~Connection).                *)
CallbackIsOwners == \A f \in Fds : callbacks[f] # NoConn => owner[f] = callbacks[f]

(* No connection goes deaf: as long as the object lives its descriptor is  *)
(* in the epoll set with its own callback, whatever descriptor the dying   *)
(* objects before it used.                                                 *)
NoneIsDeaf == \A c \in Conns : obj[c] = "live" =>
                fdOf[c] \in watched /\ callbacks[fdOf[c]] = c

(* connections_ is keyed by the descriptor only, and close_callback_       *)
(* erases by descriptor: yet an entry always is that of the live owner, so *)
(* an end never erases, and an accept never overwrites, someone else's.    *)
EntryIsOwners == \A f \in Fds : connections[f] # NoConn =>
                   obj[connections[f]] = "live" /\ owner[f] = connections[f]

(* No destructor runs beside a thread that still holds the connection.     *)
HeldIsLive == \A c \in Conns :
  holds[c] > 0 \/ (loop.at = "inside" /\ loop.conn = c /\ ~down) => obj[c] = "live"

(* Nothing leaks, at no moment: a live object has an owner whose end of    *)
(* ownership will destroy it (connections_, a task, or the guard in        *)
(* HandleEvent), and when its client has gone the next epoll_wait reports  *)
(* it, so that the loop drops the entry.  A worker that releases the last  *)
(* pointer beside the loop's close_callback_ must not be passed over.      *)
NoneIsForgotten ==
  \A c \in Conns :
    /\ obj[c] = "live" => InConnections(c) \/ holds[c] > 0 \/ Guarded(c)
    /\ c \in ended => \/ obj[c] = "live" /\ fdOf[c] \in Reported
                      \/ obj[c] \in {"dying", "halfway", "dead"}

(* The object and the descriptor of a client that has gone are freed in    *)
(* the end, unless the server itself ended.                                *)
EndedIsFreed == \A c \in Conns : (c \in ended) ~> (obj[c] = "dead" \/ down)
=============================================================================
