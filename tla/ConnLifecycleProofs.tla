------------------------ MODULE ConnLifecycleProofs -------------------------
(***************************************************************************)
(* Theorems about ConnLifecycle for any connections, descriptors and       *)
(* bounds.  None of the four safety promises is inductive alone: that a    *)
(* callback is the owner's needs the destructor to be in its first half    *)
(* while the callback is there, that a destructor runs beside no holder    *)
(* needs to know what keeps an object alive, and all of them need the      *)
(* kernel's table of descriptors to be the inverse of fd_.  That nothing   *)
(* leaks follows from the same invariant and from what owns an object.     *)
(***************************************************************************)
EXTENDS ConnLifecycle, TLAPS

(* The kernel's table is the inverse of fd_ on the objects whose           *)
(* descriptor is not closed yet.                                           *)
Open(c) == obj[c] \in {"live", "dying", "halfway"}

OwnersMatch == /\ \A c \in Conns : Open(c) => fdOf[c] \in Fds /\ owner[fdOf[c]] = c
               /\ \A f \in Fds : owner[f] # NoConn => Open(owner[f]) /\ fdOf[owner[f]] = f

(* Until RemoveEvent an object is registered under its descriptor, and no  *)
(* other callback exists.                                                  *)
Registered(c) == obj[c] \in {"live", "dying"}

RegisteredMatch ==
  /\ \A c \in Conns : Registered(c) => fdOf[c] \in watched /\ callbacks[fdOf[c]] = c
  /\ \A f \in Fds : callbacks[f] # NoConn =>
       Registered(callbacks[f]) /\ owner[f] = callbacks[f]

(* Where the loop stands, and with what.                                   *)
LoopHasConn == /\ loop.at = "calling" => loop.fd \in Fds
               /\ loop.at \in {"entering", "inside"} /\ ~down => loop.conn \in Conns

LifeInv == /\ TypeOK
           /\ OwnersMatch
           /\ RegisteredMatch
           /\ LoopHasConn
           /\ EntryIsOwners
           /\ HeldIsLive

-----------------------------------------------------------------------------
(* In the initial state no object is born.                                 *)
LEMMA LifeInit == Init => LifeInv
<1> SUFFICES ASSUME Init PROVE LifeInv
  OBVIOUS
<1> USE DEF Init
<1>1. TypeOK
  <2>1. /\ 0 \in 0 .. MaxHolds /\ 0 \in 0 .. MaxLookups
        /\ loop \in [at : {"looking", "calling", "entering", "inside", "destroying"},
                     fd : Fds \union {NoFd}, conn : Conns \union {NoConn}]
    BY MaxHoldsAssumption, MaxLookupsAssumption DEF Looking
  <2> QED
    BY <2>1, Zenon DEF TypeOK
<1>2. OwnersMatch
  BY DEF OwnersMatch, Open
<1>3. RegisteredMatch
  BY DEF RegisteredMatch, Registered
<1>4. LoopHasConn
  BY DEF LoopHasConn, Looking
<1>5. EntryIsOwners
  BY DEF EntryIsOwners
<1>6. HeldIsLive
  BY DEF HeldIsLive, Looking
<1> QED
  BY <1>1, <1>2, <1>3, <1>4, <1>5, <1>6 DEF LifeInv

-----------------------------------------------------------------------------
(* The steps, one lemma for each that changes an object or its entries.    *)

(* Accept: the kernel hands out a descriptor that no open object has, so   *)
(* no callback and no entry of connections_ is overwritten.                *)
LEMMA AcceptKeeps ==
  ASSUME LifeInv, NEW c \in Conns, Accept(c) PROVE LifeInv'
<1> USE NoneAssumption DEF LifeInv
<1>0. PICK f \in FreeFds :
        /\ obj' = [obj EXCEPT ![c] = "live"]
        /\ fdOf' = [fdOf EXCEPT ![c] = f]
        /\ owner' = [owner EXCEPT ![f] = c]
        /\ watched' = watched \union {f}
        /\ callbacks' = [callbacks EXCEPT ![f] = c]
        /\ connections' = [connections EXCEPT ![f] = c]
  BY DEF Accept
<1>1. /\ obj[c] = "unborn" /\ loop.at = "looking" /\ f \in Fds /\ owner[f] = NoConn
      /\ UNCHANGED <<holds, weak, lookups, ended, loop, batch, down>>
  BY <1>0 DEF Accept, FreeFds, refs
<1>2. TypeOK'
  BY <1>0, <1>1 DEF TypeOK
<1>3. OwnersMatch'
  BY <1>0, <1>1 DEF TypeOK, OwnersMatch, Open
<1>4. RegisteredMatch'
  BY <1>0, <1>1 DEF TypeOK, OwnersMatch, Open, RegisteredMatch, Registered
<1>5. LoopHasConn'
  BY <1>1 DEF LoopHasConn
<1>6. EntryIsOwners'
  BY <1>0, <1>1 DEF TypeOK, EntryIsOwners
<1>7. HeldIsLive'
  BY <1>0, <1>1 DEF TypeOK, HeldIsLive
<1> QED
  BY <1>2, <1>3, <1>4, <1>5, <1>6, <1>7

(* An object whose last pointer goes begins to die and keeps what it has,  *)
(* as long as nobody holds it and connections_ does not list it.           *)
LEMMA DroppingKeeps ==
  ASSUME TypeOK, OwnersMatch, RegisteredMatch, NEW c \in Conns, obj[c] = "live",
         obj' = obj \/ obj' = [obj EXCEPT ![c] = "dying"],
         UNCHANGED <<fdOf, owner, watched, callbacks>>
  PROVE  /\ OwnersMatch' /\ RegisteredMatch'
         /\ \A d \in Conns : d # c => obj'[d] = obj[d]
         /\ obj' \in [Conns -> {"unborn", "live", "dying", "halfway", "dead"}]
<1>1. /\ \A d \in Conns : d # c => obj'[d] = obj[d]
      /\ obj' \in [Conns -> {"unborn", "live", "dying", "halfway", "dead"}]
      /\ obj'[c] \in {"live", "dying"}
  BY DEF TypeOK
<1>2. /\ \A d \in Conns : (Open(d))' = Open(d)
      /\ \A d \in Conns : (Registered(d))' = Registered(d)
  BY <1>1 DEF Open, Registered
<1>3. OwnersMatch'
  BY <1>2 DEF OwnersMatch, TypeOK
<1>4. RegisteredMatch'
  BY <1>2 DEF RegisteredMatch, TypeOK
<1> QED
  BY <1>1, <1>3, <1>4

(* Leave: close_callback_ erases the entry of c itself, since an entry is  *)
(* the owner's; and the object goes only when nobody else owns it.         *)
LEMMA LeaveKeeps ==
  ASSUME LifeInv, Leave PROVE LifeInv'
<1> USE NoneAssumption DEF LifeInv
<1> DEFINE c == loop.conn
           owned == holds[c] > 0 \/ \E f \in Fds : connections'[f] = c
<1>1. /\ ~down /\ loop.at = "inside"
      /\ connections' = IF c \in ended THEN Erased(fdOf[c]) ELSE connections
      /\ obj' = Dropped(c, owned)
      /\ loop' = IF owned THEN Looking ELSE [loop EXCEPT !.at = "destroying"]
      /\ UNCHANGED <<fdOf, owner, watched, callbacks, holds, weak, lookups>>
      /\ UNCHANGED <<ended, batch, down>>
  BY DEF Leave, refs
<1>2. c \in Conns /\ obj[c] = "live" /\ fdOf[c] \in Fds
  BY <1>1 DEF LoopHasConn, HeldIsLive, OwnersMatch, Open
<1>3. /\ obj' = obj \/ obj' = [obj EXCEPT ![c] = "dying"]
      /\ ~owned => obj' = [obj EXCEPT ![c] = "dying"]
      /\ owned => obj' = obj
  BY <1>1 DEF Dropped
<1>4. /\ OwnersMatch' /\ RegisteredMatch'
      /\ \A d \in Conns : d # c => obj'[d] = obj[d]
      /\ obj' \in [Conns -> {"unborn", "live", "dying", "halfway", "dead"}]
  BY <1>1, <1>2, <1>3, DroppingKeeps
<1>5. /\ connections' \in [Fds -> Conns \union {NoConn}]
      /\ \A f \in Fds : connections'[f] # NoConn => connections'[f] = connections[f]
  BY <1>1, <1>2 DEF TypeOK, Erased
<1>6. /\ loop'.at \in {"looking", "destroying"}
      /\ loop' \in [at : {"looking", "calling", "entering", "inside", "destroying"},
                    fd : Fds \union {NoFd}, conn : Conns \union {NoConn}]
  BY <1>1 DEF TypeOK, Looking
<1>7. TypeOK'
  BY <1>1, <1>4, <1>5, <1>6 DEF TypeOK
<1>8. LoopHasConn'
  BY <1>6 DEF LoopHasConn
<1>9. EntryIsOwners'
  <2> SUFFICES ASSUME NEW f \in Fds, connections'[f] # NoConn
               PROVE  obj'[connections'[f]] = "live" /\ owner'[f] = connections'[f]
    BY DEF EntryIsOwners
  <2>1. obj[connections[f]] = "live" /\ owner[f] = connections[f]
    BY <1>5 DEF EntryIsOwners
  <2>2. CASE connections'[f] = c
    BY <2>1, <2>2, <1>1, <1>3, <1>5
  <2>3. CASE connections'[f] # c
    BY <2>1, <2>3, <1>1, <1>4, <1>5 DEF TypeOK
  <2> QED
    BY <2>2, <2>3
<1>10. HeldIsLive'
  <2> SUFFICES ASSUME NEW d \in Conns, holds[d] > 0 PROVE obj'[d] = "live"
    BY <1>1, <1>6 DEF HeldIsLive
  <2>1. obj[d] = "live"
    BY DEF HeldIsLive
  <2>2. CASE d = c
    BY <2>1, <2>2, <1>3
  <2>3. CASE d # c
    BY <2>1, <2>3, <1>4
  <2> QED
    BY <2>2, <2>3
<1> QED
  BY <1>4, <1>7, <1>8, <1>9, <1>10

(* Release: a holder's object is live; it begins to die only if it was the *)
(* last pointer, is in no entry of connections_ and not under the loop's   *)
(* guard.                                                                  *)
LEMMA ReleaseKeeps ==
  ASSUME LifeInv, NEW c \in Conns, Release(c) PROVE LifeInv'
<1> USE NoneAssumption DEF LifeInv
<1> DEFINE owned == holds[c] > 1 \/ InConnections(c) \/ Guarded(c)
<1>1. /\ ~down /\ holds[c] > 0
      /\ holds' = [holds EXCEPT ![c] = @ - 1]
      /\ obj' = Dropped(c, owned)
      /\ UNCHANGED <<fdOf, owner, watched, connections, callbacks, weak, lookups>>
      /\ UNCHANGED <<ended, loop, batch, down>>
  BY DEF Release, refs
<1>2. obj[c] = "live"
  BY <1>1 DEF HeldIsLive
<1>3. /\ obj' = obj \/ obj' = [obj EXCEPT ![c] = "dying"]
      /\ owned => obj' = obj
  BY <1>1 DEF Dropped
<1>4. /\ OwnersMatch' /\ RegisteredMatch'
      /\ \A d \in Conns : d # c => obj'[d] = obj[d]
      /\ obj' \in [Conns -> {"unborn", "live", "dying", "halfway", "dead"}]
  BY <1>1, <1>2, <1>3, DroppingKeeps
<1>5. /\ holds' \in [Conns -> 0 .. MaxHolds]
      /\ \A d \in Conns : d # c => holds'[d] = holds[d]
      /\ holds'[c] > 0 => holds[c] > 1
  BY <1>1, MaxHoldsAssumption DEF TypeOK
<1>6. TypeOK'
  BY <1>1, <1>4, <1>5 DEF TypeOK
<1>7. LoopHasConn'
  BY <1>1 DEF LoopHasConn
<1>8. EntryIsOwners'
  <2> SUFFICES ASSUME NEW f \in Fds, connections[f] # NoConn
               PROVE  obj'[connections[f]] = "live" /\ owner[f] = connections[f]
    BY <1>1 DEF EntryIsOwners
  <2>1. obj[connections[f]] = "live" /\ owner[f] = connections[f]
    BY DEF EntryIsOwners
  <2>2. CASE connections[f] = c
    BY <2>1, <2>2, <1>3 DEF InConnections
  <2>3. CASE connections[f] # c
    BY <2>1, <2>3, <1>4 DEF TypeOK
  <2> QED
    BY <2>2, <2>3
<1>9. HeldIsLive'
  <2> SUFFICES ASSUME NEW d \in Conns,
                      holds'[d] > 0 \/ (loop.at = "inside" /\ loop.conn = d /\ ~down)
               PROVE  obj'[d] = "live"
    BY <1>1 DEF HeldIsLive
  <2>1. CASE d = c
    BY <2>1, <1>2, <1>3, <1>5 DEF Guarded
  <2>2. CASE d # c
    BY <2>2, <1>4, <1>5 DEF HeldIsLive
  <2> QED
    BY <2>1, <2>2
<1> QED
  BY <1>4, <1>6, <1>7, <1>8, <1>9

(* The two calls of the destructor, by the object's stage.                 *)
LEMMA DestructorCalls ==
  ASSUME TypeOK, NEW c \in Conns
  PROVE  /\ Calls(c, "remove") => obj[c] = "dying" /\ After(c) = [obj EXCEPT ![c] = "halfway"]
         /\ Calls(c, "close") => obj[c] = "halfway" /\ After(c) = [obj EXCEPT ![c] = "dead"]
<1>1. /\ DOMAIN Destructor = {"dying", "halfway"}
      /\ Destructor["dying"] = "remove" /\ Destructor["halfway"] = "close"
  BY DEF Destructor
<1>2. /\ Calls(c, "remove") => obj[c] = "dying"
      /\ Calls(c, "close") => obj[c] = "halfway"
  BY <1>1 DEF Calls
<1> QED
  BY <1>2 DEF After

(* RemoveEvent comes first in the destructor: the callback it erases is    *)
(* still its own, because the descriptor is not closed yet.                *)
LEMMA RemoveEventKeeps ==
  ASSUME LifeInv, NEW c \in Conns, RemoveEvent(c) PROVE LifeInv'
<1> USE NoneAssumption DEF LifeInv
<1>0. obj[c] = "dying" /\ obj' = [obj EXCEPT ![c] = "halfway"]
  BY DestructorCalls DEF RemoveEvent
<1>1. /\ watched' = watched \ {fdOf[c]}
      /\ callbacks' = CallbacksErased(fdOf[c])
      /\ UNCHANGED <<fdOf, owner, connections, holds, weak, lookups>>
      /\ UNCHANGED <<ended, loop, batch, down>>
  BY DEF RemoveEvent, refs
<1>2. fdOf[c] \in Fds /\ owner[fdOf[c]] = c
  BY <1>0 DEF OwnersMatch, Open
<1>3. /\ obj' \in [Conns -> {"unborn", "live", "dying", "halfway", "dead"}]
      /\ obj'[c] = "halfway"
      /\ \A d \in Conns : d # c => obj'[d] = obj[d]
      /\ callbacks' \in [Fds -> Conns \union {NoConn}]
      /\ callbacks'[fdOf[c]] = NoConn
      /\ \A f \in Fds : f # fdOf[c] => callbacks'[f] = callbacks[f]
  BY <1>0, <1>1, <1>2 DEF TypeOK, CallbacksErased
<1>4. TypeOK'
  BY <1>1, <1>3 DEF TypeOK
<1>5. OwnersMatch'
  <2>1. \A d \in Conns : (Open(d))' = Open(d)
    BY <1>0, <1>3 DEF Open
  <2> QED
    BY <2>1, <1>1 DEF OwnersMatch, TypeOK
<1>6. RegisteredMatch'
  <2>1. ASSUME NEW d \in Conns, (Registered(d))'
        PROVE  fdOf[d] \in watched' /\ callbacks'[fdOf[d]] = d
    <3>1. d # c /\ Registered(d) /\ Open(d)
      BY <2>1, <1>3 DEF Registered, Open
    <3>2. fdOf[d] \in Fds /\ fdOf[d] # fdOf[c]
      BY <3>1, <1>2 DEF OwnersMatch
    <3> QED
      BY <3>1, <3>2, <1>1, <1>3 DEF RegisteredMatch
  <2>2. ASSUME NEW f \in Fds, callbacks'[f] # NoConn
        PROVE  (Registered(callbacks[f]))' /\ owner[f] = callbacks'[f]
    <3>1. f # fdOf[c] /\ callbacks'[f] = callbacks[f]
      BY <2>2, <1>3
    <3>2. callbacks[f] \in Conns /\ Registered(callbacks[f]) /\ owner[f] = callbacks[f]
      BY <2>2, <3>1 DEF RegisteredMatch, TypeOK
    <3>3. callbacks[f] # c
      BY <3>1, <3>2 DEF RegisteredMatch, Registered, OwnersMatch, Open
    <3> QED
      BY <3>1, <3>2, <3>3, <1>3 DEF Registered
  <2> QED
    BY <2>1, <2>2, <1>1 DEF RegisteredMatch
<1>7. LoopHasConn'
  BY <1>1 DEF LoopHasConn
<1>8. EntryIsOwners'
  BY <1>0, <1>1, <1>3 DEF EntryIsOwners, TypeOK
<1>9. HeldIsLive'
  BY <1>0, <1>1, <1>3 DEF HeldIsLive
<1> QED
  BY <1>4, <1>5, <1>6, <1>7, <1>8, <1>9

(* close: the descriptor is free again, and by now nothing is registered   *)
(* or listed under it.                                                     *)
LEMMA CloseFdKeeps ==
  ASSUME LifeInv, NEW c \in Conns, CloseFd(c) PROVE LifeInv'
<1> USE NoneAssumption DEF LifeInv
<1>0. obj[c] = "halfway" /\ obj' = [obj EXCEPT ![c] = "dead"]
  BY DestructorCalls DEF CloseFd
<1>1. /\ owner' = [owner EXCEPT ![fdOf[c]] = NoConn]
      /\ watched' = watched \ {fdOf[c]}
      /\ UNCHANGED <<fdOf, connections, callbacks, holds, weak, lookups>>
      /\ UNCHANGED <<ended, loop, batch, down>>
  BY DEF CloseFd, refs
<1>2. fdOf[c] \in Fds /\ owner[fdOf[c]] = c
  BY <1>0 DEF OwnersMatch, Open
<1>3. /\ obj' \in [Conns -> {"unborn", "live", "dying", "halfway", "dead"}]
      /\ obj'[c] = "dead"
      /\ \A d \in Conns : d # c => obj'[d] = obj[d]
      /\ owner' \in [Fds -> Conns \union {NoConn}]
      /\ owner'[fdOf[c]] = NoConn
      /\ \A f \in Fds : f # fdOf[c] => owner'[f] = owner[f]
  BY <1>0, <1>1, <1>2 DEF TypeOK
<1>4. TypeOK'
  BY <1>1, <1>3 DEF TypeOK
<1>5. \A d \in Conns : Open(d) /\ d # c => fdOf[d] \in Fds /\ fdOf[d] # fdOf[c]
  BY <1>2 DEF OwnersMatch
<1>6. callbacks[fdOf[c]] = NoConn /\ connections[fdOf[c]] = NoConn
  BY <1>0, <1>2 DEF RegisteredMatch, Registered, EntryIsOwners
<1>7. OwnersMatch'
  <2>1. ASSUME NEW d \in Conns, (Open(d))'
        PROVE  fdOf[d] \in Fds /\ owner'[fdOf[d]] = d
    <3>1. d # c /\ Open(d)
      BY <2>1, <1>3 DEF Open
    <3> QED
      BY <3>1, <1>3, <1>5 DEF OwnersMatch
  <2>2. ASSUME NEW f \in Fds, owner'[f] # NoConn
        PROVE  (Open(owner[f]))' /\ fdOf[owner'[f]] = f
    <3>1. f # fdOf[c] /\ owner'[f] = owner[f] /\ owner[f] \in Conns
      BY <2>2, <1>3 DEF TypeOK
    <3>2. Open(owner[f]) /\ fdOf[owner[f]] = f
      BY <2>2, <3>1 DEF OwnersMatch
    <3>3. owner[f] # c
      BY <3>1, <3>2
    <3> QED
      BY <3>1, <3>2, <3>3, <1>3 DEF Open
  <2> QED
    BY <2>1, <2>2, <1>1 DEF OwnersMatch
<1>8. RegisteredMatch'
  <2>1. ASSUME NEW d \in Conns, (Registered(d))'
        PROVE  fdOf[d] \in watched' /\ callbacks[fdOf[d]] = d
    <3>1. d # c /\ Registered(d) /\ Open(d)
      BY <2>1, <1>3 DEF Registered, Open
    <3> QED
      BY <3>1, <1>1, <1>5 DEF RegisteredMatch
  <2>2. ASSUME NEW f \in Fds, callbacks[f] # NoConn
        PROVE  (Registered(callbacks[f]))' /\ owner'[f] = callbacks[f]
    <3>1. callbacks[f] \in Conns /\ Registered(callbacks[f]) /\ owner[f] = callbacks[f]
      BY <2>2 DEF RegisteredMatch, TypeOK
    <3>2. f # fdOf[c] /\ callbacks[f] # c
      BY <2>2, <3>1, <1>0, <1>6 DEF Registered
    <3> QED
      BY <3>1, <3>2, <1>1, <1>3 DEF Registered
  <2> QED
    BY <2>1, <2>2, <1>1 DEF RegisteredMatch
<1>9. LoopHasConn'
  BY <1>1 DEF LoopHasConn
<1>10. EntryIsOwners'
  BY <1>0, <1>1, <1>3, <1>6 DEF EntryIsOwners, TypeOK
<1>11. HeldIsLive'
  BY <1>0, <1>1, <1>3 DEF HeldIsLive
<1> QED
  BY <1>4, <1>7, <1>8, <1>9, <1>10, <1>11

-----------------------------------------------------------------------------
(* The steps that leave every object and every entry alone.                *)

(* Clients, readiness, lookups and the loop's way into HandleEvent.        *)
LEMMA OthersKeep ==
  ASSUME LifeInv, UNCHANGED objects,
         \/ \E c \in Conns : ClientGoes(c) \/ GetConnection(c) \/ Lock(c)
         \/ EpollWait \/ (\E f \in Fds : LookUp(f)) \/ Call \/ Enter \/ Destroyed
         \/ ReadRequest
         \/ UNCHANGED vars
  PROVE  LifeInv'
<1> USE NoneAssumption, MaxHoldsAssumption, MaxLookupsAssumption DEF LifeInv
<1>0. UNCHANGED <<obj, fdOf, owner, watched, connections, callbacks>>
  BY DEF objects
<1>1. OwnersMatch' /\ RegisteredMatch' /\ EntryIsOwners'
  BY <1>0 DEF OwnersMatch, Open, RegisteredMatch, Registered, EntryIsOwners
<1>2. ASSUME NEW c \in Conns, ClientGoes(c) \/ GetConnection(c)
      PROVE  TypeOK' /\ LoopHasConn' /\ HeldIsLive'
  BY <1>0, <1>2 DEF ClientGoes, GetConnection, refs, TypeOK, LoopHasConn, HeldIsLive
<1>3. ASSUME NEW c \in Conns, Lock(c)
      PROVE  TypeOK' /\ LoopHasConn' /\ HeldIsLive'
  <2>1. /\ holds' \in [Conns -> 0 .. MaxHolds]
        /\ weak' \subseteq Conns
        /\ \A d \in Conns : holds'[d] > 0 => holds[d] > 0 \/ obj[d] = "live"
        /\ UNCHANGED <<lookups, ended, loop, batch, down>>
    BY <1>3 DEF Lock, TypeOK
  <2> QED
    BY <2>1, <1>0 DEF TypeOK, LoopHasConn, HeldIsLive
<1>4. ASSUME EpollWait PROVE TypeOK' /\ LoopHasConn' /\ HeldIsLive'
  BY <1>0, <1>4 DEF EpollWait, refs, TypeOK, LoopHasConn, HeldIsLive
<1>5. ASSUME NEW f \in Fds, LookUp(f) PROVE TypeOK' /\ LoopHasConn' /\ HeldIsLive'
  BY <1>0, <1>5 DEF LookUp, refs, TypeOK, LoopHasConn, HeldIsLive
<1>6. ASSUME Call PROVE TypeOK' /\ LoopHasConn' /\ HeldIsLive'
  <2>1. /\ loop.fd \in Fds /\ callbacks[loop.fd] \in Conns \union {NoConn}
        /\ loop' = [loop EXCEPT !.at = "entering", !.conn = callbacks[loop.fd]]
        /\ down' = (callbacks[loop.fd] = NoConn)
        /\ UNCHANGED <<holds, weak, lookups, ended, batch>>
    BY <1>6 DEF Call, refs, LoopHasConn, TypeOK
  <2>2. loop'.at = "entering" /\ loop'.conn = callbacks[loop.fd] /\ down' \in BOOLEAN
    BY <2>1 DEF TypeOK
  <2> QED
    BY <2>1, <2>2, <1>0 DEF TypeOK, LoopHasConn, HeldIsLive
<1>7. ASSUME Enter PROVE TypeOK' /\ LoopHasConn' /\ HeldIsLive'
  <2>1. /\ ~down /\ loop.conn \in Conns
        /\ loop' = [loop EXCEPT !.at = "inside"]
        /\ down' = (obj[loop.conn] # "live")
        /\ UNCHANGED <<holds, weak, lookups, ended, batch>>
    BY <1>7 DEF Enter, refs, LoopHasConn
  <2>2. loop'.at = "inside" /\ loop'.conn = loop.conn /\ down' \in BOOLEAN
    BY <2>1 DEF TypeOK
  <2> QED
    BY <2>1, <2>2, <1>0 DEF TypeOK, LoopHasConn, HeldIsLive
<1>8. ASSUME Destroyed PROVE TypeOK' /\ LoopHasConn' /\ HeldIsLive'
  BY <1>0, <1>8 DEF Destroyed, Looking, refs, TypeOK, LoopHasConn, HeldIsLive
<1>9. ASSUME ReadRequest PROVE TypeOK' /\ LoopHasConn' /\ HeldIsLive'
  <2>1. /\ ~down /\ loop.at = "inside" /\ loop.conn \in Conns /\ obj[loop.conn] = "live"
    BY <1>9 DEF ReadRequest, LoopHasConn, HeldIsLive
  <2>2. /\ holds' \in [Conns -> 0 .. MaxHolds]
        /\ \A d \in Conns : d # loop.conn => holds'[d] = holds[d]
        /\ UNCHANGED <<weak, lookups, ended, loop, batch, down>>
    BY <1>9, <2>1 DEF ReadRequest, refs, TypeOK
  <2> QED
    BY <2>1, <2>2, <1>0 DEF TypeOK, LoopHasConn, HeldIsLive
<1>10. ASSUME UNCHANGED vars PROVE TypeOK' /\ LoopHasConn' /\ HeldIsLive'
  BY <1>0, <1>10 DEF vars, refs, TypeOK, LoopHasConn, HeldIsLive
<1> QED
  BY <1>1, <1>2, <1>3, <1>4, <1>5, <1>6, <1>7, <1>8, <1>9, <1>10

(* Every step keeps the invariant.                                         *)
LEMMA LifeStep == LifeInv /\ [Next]_vars => LifeInv'
<1> SUFFICES ASSUME LifeInv, [Next]_vars PROVE LifeInv'
  OBVIOUS
<1>1. ASSUME NEW c \in Conns, Accept(c) PROVE LifeInv'
  BY <1>1, AcceptKeeps
<1>2. CASE Leave
  BY <1>2, LeaveKeeps
<1>3. ASSUME NEW c \in Conns, Release(c) PROVE LifeInv'
  BY <1>3, ReleaseKeeps
<1>4. ASSUME NEW c \in Conns, RemoveEvent(c) PROVE LifeInv'
  BY <1>4, RemoveEventKeeps
<1>5. ASSUME NEW c \in Conns, CloseFd(c) PROVE LifeInv'
  BY <1>5, CloseFdKeeps
<1>6. ASSUME NEW c \in Conns, ClientGoes(c) \/ GetConnection(c) \/ Lock(c)
      PROVE  LifeInv'
  <2>1. UNCHANGED objects
    BY <1>6 DEF ClientGoes, GetConnection, Lock
  <2> QED
    BY <1>6, <2>1, OthersKeep
<1>7. CASE EpollWait \/ (\E f \in Fds : LookUp(f)) \/ Call \/ Enter \/ Destroyed \/ ReadRequest
  <2>1. UNCHANGED objects
    BY <1>7 DEF EpollWait, LookUp, Call, Enter, Destroyed, ReadRequest
  <2> QED
    BY <1>7, <2>1, OthersKeep
<1>8. CASE UNCHANGED vars
  <2>1. UNCHANGED objects
    BY <1>8 DEF vars
  <2> QED
    BY <1>8, <2>1, OthersKeep
<1> QED
  BY <1>1, <1>2, <1>3, <1>4, <1>5, <1>6, <1>7, <1>8 DEF Next, LoopStep

-----------------------------------------------------------------------------
(* The invariant holds in every reachable state: the kernel's table, the   *)
(* callbacks and connections_ agree on who has which descriptor, from      *)
(* accept to close, whichever thread destroys an object.                   *)
THEOREM LifeInvariant == Spec => []LifeInv
<1>1. Init => LifeInv
  BY LifeInit
<1>2. LifeInv /\ [Next]_vars => LifeInv'
  BY LifeStep
<1> QED
  BY <1>1, <1>2, PTL DEF Spec

(* Every variable keeps its type, the loop's place and objects included.   *)
THEOREM TypeCorrect == Spec => []TypeOK
<1>1. LifeInv => TypeOK
  BY DEF LifeInv
<1> QED
  BY <1>1, LifeInvariant, PTL

(* A callback of EventLoop is only ever that of the descriptor's owner: no *)
(* event of a new client reaches an old object.                            *)
THEOREM CallbacksAreOwners == Spec => []CallbackIsOwners
<1>1. LifeInv => CallbackIsOwners
  BY DEF LifeInv, RegisteredMatch, CallbackIsOwners
<1> QED
  BY <1>1, LifeInvariant, PTL

(* A live connection is in the epoll set with its own callback, whatever   *)
(* descriptor the objects that died before it had.                         *)
THEOREM NobodyIsDeaf == Spec => []NoneIsDeaf
<1>1. LifeInv => NoneIsDeaf
  BY DEF LifeInv, RegisteredMatch, Registered, NoneIsDeaf
<1> QED
  BY <1>1, LifeInvariant, PTL

(* An entry of connections_, keyed by the descriptor alone, is that of the *)
(* live connection that owns it.                                           *)
THEOREM EntriesAreOwners == Spec => []EntryIsOwners
<1>1. LifeInv => EntryIsOwners
  BY DEF LifeInv
<1> QED
  BY <1>1, LifeInvariant, PTL

(* No destructor runs beside a thread that holds the connection.           *)
THEOREM HoldersAreSafe == Spec => []HeldIsLive
<1>1. LifeInv => HeldIsLive
  BY DEF LifeInv
<1> QED
  BY <1>1, LifeInvariant, PTL

-----------------------------------------------------------------------------
(* What keeps an object alive: the first part of NoneIsForgotten.          *)
Owned(c) == InConnections(c) \/ holds[c] > 0 \/ Guarded(c)
OwnedInv == \A c \in Conns : obj[c] = "live" => Owned(c)

\* A client that goes had a connection.
EndedInv == \A c \in ended : obj[c] # "unborn"

(* No step takes the last owner of an object without destroying it.        *)
LEMMA OwnedStep == LifeInv /\ OwnedInv /\ [Next]_vars => OwnedInv'
<1> SUFFICES ASSUME LifeInv, OwnedInv, [Next]_vars,
                    NEW c \in Conns, obj'[c] = "live"
             PROVE  (Owned(c))'
  BY DEF OwnedInv
<1> USE NoneAssumption DEF LifeInv
<1>1. ASSUME UNCHANGED <<obj, connections>>,
             holds[c] > 0 => holds'[c] > 0, Guarded(c) => (Guarded(c))'
      PROVE  (Owned(c))'
  BY <1>1 DEF OwnedInv, Owned, InConnections
<1>2. ASSUME NEW d \in Conns, Accept(d) PROVE (Owned(c))'
  <2>1. PICK f \in Fds : /\ owner[f] = NoConn
                        /\ obj' = [obj EXCEPT ![d] = "live"]
                        /\ connections' = [connections EXCEPT ![f] = d]
    BY <1>2 DEF Accept, FreeFds
  <2>2. loop.at = "looking" /\ holds' = holds
    BY <1>2 DEF Accept
  <2>3. connections[f] = NoConn
    BY <2>1 DEF EntryIsOwners
  <2>4. CASE c = d
    BY <2>1, <2>4 DEF Owned, InConnections, TypeOK
  <2>5. CASE c # d
    BY <2>1, <2>2, <2>3, <2>5 DEF OwnedInv, Owned, InConnections, Guarded, TypeOK
  <2> QED
    BY <2>4, <2>5
<1>3. CASE Leave
  <2>1. /\ loop.at = "inside" /\ ~down /\ holds' = holds
        /\ connections' = IF loop.conn \in ended THEN Erased(fdOf[loop.conn]) ELSE connections
        /\ obj' = Dropped(loop.conn, holds[loop.conn] > 0
                                       \/ \E f \in Fds : connections'[f] = loop.conn)
    BY <1>3 DEF Leave
  <2>2. loop.conn \in Conns /\ obj[loop.conn] = "live" /\ fdOf[loop.conn] \in Fds
        /\ owner[fdOf[loop.conn]] = loop.conn
    BY <2>1 DEF LoopHasConn, HeldIsLive, OwnersMatch, Open
  <2>3. CASE c = loop.conn
    BY <2>1, <2>2, <2>3 DEF Dropped, TypeOK, Owned, InConnections
  <2>4. CASE c # loop.conn
    <3>1. obj[c] = "live" /\ ~Guarded(c)
      BY <2>1, <2>2, <2>4 DEF Dropped, TypeOK, Guarded
    <3>2. ASSUME NEW f \in Fds, connections[f] = c PROVE connections'[f] = c
      BY <2>1, <2>2, <2>4, <3>2 DEF EntryIsOwners, TypeOK, Erased
    <3> QED
      BY <2>1, <3>1, <3>2 DEF OwnedInv, Owned, InConnections
  <2> QED
    BY <2>3, <2>4
<1>4. ASSUME NEW d \in Conns, Release(d) PROVE (Owned(c))'
  <2>1. /\ holds' = [holds EXCEPT ![d] = @ - 1] /\ holds[d] > 0
        /\ obj' = Dropped(d, holds[d] > 1 \/ InConnections(d) \/ Guarded(d))
        /\ UNCHANGED <<connections, loop>>
    BY <1>4 DEF Release
  <2>2. (InConnections(c))' = InConnections(c) /\ (Guarded(c))' = Guarded(c)
    BY <2>1 DEF InConnections, Guarded
  <2>3. CASE c = d
    <3>1. holds[d] > 1 \/ InConnections(d) \/ Guarded(d)
      BY <2>1, <2>3 DEF Dropped, TypeOK
    <3>2. holds[d] > 1 => holds'[d] > 0
      BY <2>1, MaxHoldsAssumption DEF TypeOK
    <3> QED
      BY <2>2, <2>3, <3>1, <3>2 DEF Owned
  <2>4. CASE c # d
    BY <2>1, <2>2, <2>4 DEF Dropped, TypeOK, OwnedInv, Owned
  <2> QED
    BY <2>3, <2>4
<1>5. ASSUME NEW d \in Conns, RemoveEvent(d) \/ CloseFd(d) PROVE (Owned(c))'
  <2>1. /\ obj' \in {[obj EXCEPT ![d] = "halfway"], [obj EXCEPT ![d] = "dead"]}
        /\ UNCHANGED <<connections, holds, loop>>
    BY <1>5, DestructorCalls DEF RemoveEvent, CloseFd
  <2> QED
    BY <2>1 DEF TypeOK, OwnedInv, Owned, InConnections, Guarded
<1>6. ASSUME NEW d \in Conns, ClientGoes(d) \/ GetConnection(d) PROVE (Owned(c))'
  BY <1>1, <1>6 DEF ClientGoes, GetConnection, objects, Guarded
<1>7. ASSUME NEW d \in Conns, Lock(d) PROVE (Owned(c))'
  <2>1. holds[c] > 0 => holds'[c] > 0
    BY <1>7, MaxHoldsAssumption DEF Lock, TypeOK
  <2> QED
    BY <1>1, <1>7, <2>1 DEF Lock, objects, Guarded
<1>8. CASE ReadRequest
  <2>1. holds[c] > 0 => holds'[c] > 0
    BY <1>8, MaxHoldsAssumption DEF ReadRequest, TypeOK
  <2> QED
    BY <1>1, <1>8, <2>1 DEF ReadRequest, objects, Guarded
<1>9. CASE EpollWait \/ (\E f \in Fds : LookUp(f)) \/ Call \/ Enter \/ Destroyed
  <2>1. UNCHANGED <<obj, connections, holds>>
    BY <1>9 DEF EpollWait, LookUp, Call, Enter, Destroyed, objects
  <2>2. Guarded(c) => loop' = loop
    BY <1>9 DEF EpollWait, LookUp, Call, Enter, Destroyed, Guarded
  <2> QED
    BY <1>1, <2>1, <2>2 DEF Guarded
<1>10. CASE UNCHANGED vars
  BY <1>1, <1>10 DEF vars, objects, Guarded
<1> QED
  BY <1>2, <1>3, <1>4, <1>5, <1>6, <1>7, <1>8, <1>9, <1>10 DEF Next, LoopStep

(* A client goes only from a live connection, and no object is unborn      *)
(* again.                                                                  *)
LEMMA EndedStep == LifeInv /\ EndedInv /\ [Next]_vars => EndedInv'
<1> SUFFICES ASSUME LifeInv, EndedInv, [Next]_vars PROVE EndedInv'
  OBVIOUS
<1> USE DEF LifeInv
<1>1. ASSUME UNCHANGED ended,
             \E d \in Conns : \E life \in {"live", "dying", "halfway", "dead"} :
               obj' \in {obj, [obj EXCEPT ![d] = life]}
      PROVE  EndedInv'
  BY <1>1 DEF EndedInv, TypeOK
<1>2. ASSUME NEW d \in Conns, ClientGoes(d) PROVE EndedInv'
  BY <1>2 DEF ClientGoes, EndedInv, objects
<1>3. ASSUME NEW d \in Conns, Accept(d) PROVE EndedInv'
  BY <1>1, <1>3 DEF Accept
<1>4. ASSUME NEW d \in Conns, Release(d) PROVE EndedInv'
  BY <1>1, <1>4 DEF Release, Dropped
<1>5. ASSUME NEW d \in Conns, RemoveEvent(d) \/ CloseFd(d) PROVE EndedInv'
  BY <1>1, <1>5, DestructorCalls DEF RemoveEvent, CloseFd
<1>6. CASE Leave
  <2>1. loop.conn \in Conns
    BY <1>6 DEF Leave, LoopHasConn
  <2> QED
    BY <1>1, <1>6, <2>1 DEF Leave, Dropped
<1>7. ASSUME UNCHANGED <<obj, ended>> PROVE EndedInv'
  BY <1>7 DEF EndedInv
<1>8. ASSUME NEW d \in Conns, GetConnection(d) \/ Lock(d) PROVE EndedInv'
  BY <1>7, <1>8 DEF GetConnection, Lock, objects
<1>9. CASE EpollWait \/ (\E f \in Fds : LookUp(f)) \/ Call \/ Enter \/ Destroyed \/ ReadRequest
  BY <1>7, <1>9 DEF EpollWait, LookUp, Call, Enter, Destroyed, ReadRequest, objects
<1>10. CASE UNCHANGED vars
  BY <1>7, <1>10 DEF vars, objects
<1> QED
  BY <1>2, <1>3, <1>4, <1>5, <1>6, <1>8, <1>9, <1>10 DEF Next, LoopStep

(* No connection is forgotten: a live object has an owner, and when its    *)
(* client has gone the next epoll_wait reports it.  This is the safety     *)
(* core of EndedIsFreed; what is left is that the loop and the holders go  *)
(* on.                                                                     *)
THEOREM NothingLeaks == Spec => []NoneIsForgotten
<1>1. Init => OwnedInv /\ EndedInv
  BY DEF Init, OwnedInv, EndedInv
<1>2. LifeInv /\ OwnedInv /\ EndedInv => NoneIsForgotten
  <2> SUFFICES ASSUME LifeInv, OwnedInv, EndedInv, NEW c \in Conns, c \in ended
               PROVE  \/ obj[c] = "live" /\ fdOf[c] \in Reported
                      \/ obj[c] \in {"dying", "halfway", "dead"}
    BY DEF NoneIsForgotten, OwnedInv, Owned
  <2>1. obj[c] \in {"live", "dying", "halfway", "dead"}
    BY DEF LifeInv, TypeOK, EndedInv
  <2>2. obj[c] = "live" => fdOf[c] \in watched /\ owner[fdOf[c]] = c
    BY DEF LifeInv, RegisteredMatch, Registered, OwnersMatch, Open
  <2> QED
    BY <2>1, <2>2 DEF Reported
<1> QED
  BY <1>1, <1>2, LifeInvariant, OwnedStep, EndedStep, PTL DEF Spec
=============================================================================
