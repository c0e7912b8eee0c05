--------------------------- MODULE SessionProofs ----------------------------
(***************************************************************************)
(* Theorems about Session for any sets of connections, users, workers and  *)
(* requests: what is answered with 200 is accounted for, letters go to     *)
(* their receivers and, but for a DELETE that reports an error, once, they *)
(* move as LetterPost lets them, and no request is dropped on its way to   *)
(* the answer.                                                             *)
(*                                                                         *)
(* The invariant says where a request is (not sent, queued, in the hands   *)
(* of one worker, or done) and where each of its letters is: untouched     *)
(* until the worker comes to it, then in the table, in the hands of one    *)
(* worker that has fetched it, pushed, passed over, or lost at the end of  *)
(* the server; of these, in one only unless it was kept by a failed        *)
(* DELETE.                                                                 *)
(***************************************************************************)
EXTENDS Session, SequenceTheorems, TLAPS

\* What a worker is at belongs to its task.
PlaceOf(w) ==
  /\ at[w] = "idle" <=> job[w] = NoTask
  /\ at[w] \in LoginPlaces => job[w] \in LoginTask
  /\ at[w] = "chat" => job[w] \in ChatTask
  /\ at[w] \in {"checking", "spreading"} => job[w] \in GroupTask
  /\ at[w] \in {"accepted", "refused"} => job[w] \in ChatTask
  /\ at[w] \in {"forwarding", "storing"} =>
       /\ job[w] \in ChatTask \union GroupTask
       /\ member[w] \in Users
       /\ job[w] \in ChatTask => member[w] = To[job[w].msg] /\ todo[w] = {}
  /\ at[w] = "forwarding" => target[w] \in Conns
  /\ at[w] \notin {"forwarding", "storing"} => member[w] = NoUser
  /\ at[w] \notin {"spreading", "forwarding", "storing"} => todo[w] = {}
  /\ member[w] \notin todo[w]
  /\ held[w] # {} <=> at[w] = "pushing"
PlaceInv == \A w \in Workers : PlaceOf(w)

\* The event loop removes the name of a connection that has one.
LoopInv == /\ loop.at # "polling" => loop.conn \in Conns
           /\ loop.at \in {"removing", "offlining"} => currentUser[loop.conn] # NoUser

Queued(m) == \E i \in 1 .. Len(tasks) : tasks[i].msg = m
Handling(w, m) == job[w] # NoTask /\ job[w].msg = m

\* A request is queued or handled at most once, for the connection it was
\* sent on, and is not answered before that is over.
OnceInv ==
  /\ \A i, j \in 1 .. Len(tasks) :
       tasks[i].msg \in Requests /\ tasks[i].msg = tasks[j].msg => i = j
  /\ \A m \in Requests : \A w \in Workers :
       Handling(w, m) => /\ ~Queued(m)
                         /\ \A v \in Workers : Handling(v, m) => v = w
                         /\ asked[m] = job[w].conn
                         /\ acks[m] = <<>>
  /\ \A m \in Requests : \A i \in 1 .. Len(tasks) :
       tasks[i].msg = m => asked[m] = tasks[i].conn /\ acks[m] = <<>>
  /\ \A m \in Requests : asked[m] = NoConn => acks[m] = <<>>

\* The users whose letters the task of worker w has not come to.
ToServe(w) ==
  CASE at[w] = "chat" -> {To[job[w].msg]}
    [] at[w] = "checking" -> MembersOf[job[w].msg]
    [] at[w] = "spreading" -> todo[w]
    [] at[w] \in {"forwarding", "storing"} -> todo[w] \union {member[w]}
    [] OTHER -> {}

Untouched(l) == /\ l \notin rows /\ l \notin kept /\ pushes[l] = <<>>
                /\ \A w \in Workers : l \notin held[w]

\* A letter whose turn is still to come.
Pending(m, u) == \/ asked[m] = NoConn
                 \/ Queued(m)
                 \/ \E w \in Workers : Handling(w, m) /\ u \in ToServe(w)

\* A letter that no failed DELETE has kept is in one place.
LetterInv ==
  /\ \A m \in Requests : \A u \in Users : Pending(m, u) => Untouched(<<m, u>>)
  /\ \A l \in Letters \ kept :
       /\ l \in rows => pushes[l] = <<>> /\ \A w \in Workers : l \notin held[w]
       /\ \A w \in Workers : l \in held[w] =>
            pushes[l] = <<>> /\ \A v \in Workers : l \in held[v] => v = w
       /\ Len(pushes[l]) <= 1

\* The connection a letter is, or will be, pushed to has logged in as its
\* receiver.
AuthInv ==
  /\ \A c \in Conns : currentUser[c] # NoUser => currentUser[c] \in authed[c]
  /\ \A u \in Users : userMap[u] # NoConn => u \in authed[userMap[u]]
  /\ \A w \in Workers :
       /\ at[w] \in LoginPlaces \ {"login"} => job[w].user \in authed[job[w].conn]
       /\ at[w] = "forwarding" => member[w] \in authed[target[w]]
       /\ \A l \in held[w] : l[2] = job[w].user
  /\ \A l \in Letters : \A i \in 1 .. Len(pushes[l]) : l[2] \in authed[pushes[l][i]]

\* What a group chat no longer has to serve is accounted for, and so is what
\* will be, or was, answered with 200.
AckInv ==
  /\ \A w \in Workers :
       at[w] \in {"spreading", "forwarding", "storing"} /\ job[w].cmd = "group_chat" =>
         \A u \in MembersOf[job[w].msg] : u \in ToServe(w) \/ Accounted(<<job[w].msg, u>>)
  /\ \A w \in Workers : at[w] = "accepted" => Accounted(<<job[w].msg, To[job[w].msg]>>)
  /\ AckedIsAccountedFor

SessionInv == TypeOK /\ PlaceInv /\ LoopInv /\ OnceInv /\ LetterInv /\ AuthInv /\ AckInv

-----------------------------------------------------------------------------
(* Types.                                                                  *)

Typed == TypeOK /\ PlaceInv /\ LoopInv

(* The initial state is well typed.                                        *)
LEMMA TypedInit == Init => Typed
BY NoneAssumption, CrashesAssumption DEF Init, Typed, TypeOK, PlaceInv, PlaceOf, LoopInv, LoginPlaces, ChatPlaces

(* The steps of clients, of the event loop, of the watchdog and of Redis.  *)
LEMMA TypedOutside ==
  ASSUME Typed,
         \/ \E c \in Conns : ClientStep(c) \/ EndOf(c)
         \/ HandleEnd
         \/ CheckTimeouts
         \/ \E u \in Users : Expire(u)
  PROVE  Typed'
<1> USE NoneAssumption DEF Typed, TypeOK, PlaceInv, PlaceOf, LoopInv, server, work, inputs, history, errors, ends
<1>1. ASSUME NEW c \in Conns, Connect(c) PROVE Typed'
  BY <1>1 DEF Connect
<1>2. ASSUME NEW c \in Conns, HangUp(c) PROVE Typed'
  <2>1. conn' \in [Conns -> {"new", "open", "hungup", "reset", "erased"}]
    BY <1>2 DEF HangUp
  <2> QED
    BY <1>2, <2>1 DEF HangUp
<1>3. ASSUME NEW c \in Conns, FallSilent(c) PROVE Typed'
  BY <1>3 DEF FallSilent
<1>4. ASSUME NEW c \in Conns, ReceivePing(c) PROVE Typed'
  BY <1>4 DEF ReceivePing
<1>5. ASSUME NEW c \in Conns, NEW u \in Users, ReceiveLogin(c, u) PROVE Typed'
  <2>1. [cmd |-> "login", conn |-> c, user |-> u, msg |-> NoMsg] \in Task
    BY DEF Task, LoginTask
  <2> QED
    BY <1>5, <2>1 DEF ReceiveLogin, Receive
<1>6. ASSUME NEW c \in Conns, NEW m \in Requests, ReceiveChat(c, m) PROVE Typed'
  <2>1. [cmd |-> IF m \in Chats THEN "chat" ELSE "group_chat",
         conn |-> c, user |-> NoUser, msg |-> m] \in Task
    BY DEF Task, ChatTask, GroupTask, Requests
  <2> QED
    BY <1>6, <2>1 DEF ReceiveChat, Receive
<1>7. ASSUME NEW c \in Conns, EndOf(c) PROVE Typed'
  BY <1>7 DEF EndOf, ReadEof, ReadError
<1>8. CASE RemoveUser
  BY <1>8 DEF RemoveUser
<1>9. CASE SetUserOffline
  <2>1. presence' \subseteq Users
    BY <1>9, RedisAssumption DEF SetUserOffline, RedisOutcomes
  <2> QED
    BY <1>9, <2>1 DEF SetUserOffline
<1>10. CASE CloseCallback
  BY <1>10 DEF CloseCallback
<1>11. CASE CheckTimeouts
  BY <1>11 DEF CheckTimeouts
<1>12. ASSUME NEW u \in Users, Expire(u) PROVE Typed'
  BY <1>12 DEF Expire
<1> QED
  BY <1>1, <1>2, <1>3, <1>4, <1>5, <1>6, <1>7, <1>8, <1>9, <1>10, <1>11, <1>12
     DEF ClientStep, HandleEnd

(* A server that is started again has no tasks, and no worker has one.     *)
LEMMA TypedCrash == Typed /\ Crash => Typed'
BY NoneAssumption, CrashesAssumption
   DEF Typed, TypeOK, PlaceInv, PlaceOf, LoopInv, Crash, LoginPlaces, ChatPlaces, errors

\* What the other workers are at stays as it is.
Others(w) == \A v \in Workers \ {w} :
  /\ at'[v] = at[v] /\ job'[v] = job[v] /\ target'[v] = target[v]
  /\ held'[v] = held[v] /\ todo'[v] = todo[v] /\ member'[v] = member[v]

(* A worker that does not move stays where its task allows it to be.       *)
LEMMA OthersKeepPlace ==
  ASSUME PlaceInv, NEW w \in Workers, PlaceOf(w)', Others(w)
  PROVE  PlaceInv'
<1> SUFFICES ASSUME NEW v \in Workers, v # w PROVE PlaceOf(v)'
  BY DEF PlaceInv
<1>1. PlaceOf(v)
  BY DEF PlaceInv
<1> QED
  BY <1>1 DEF PlaceOf, Others

(* The steps of a worker.                                                  *)
LEMMA TypedWorker ==
  ASSUME Typed, NEW w \in Workers, WorkerStep(w)
  PROVE  Typed'
<1> USE NoneAssumption, RequestsAssumption
    DEF Typed, TypeOK, LoopInv, server, work, inputs, history, errors, ends, Goto, Done, Continue,
        LoginPlaces, ChatPlaces
<1> SUFFICES TypeOK' /\ LoopInv' /\ PlaceOf(w)' /\ Others(w)
  BY OthersKeepPlace
<1>0. PlaceOf(w)
  BY DEF PlaceInv
<1> USE DEF PlaceOf, Others
<1>1. CASE TakeTask(w)
  <2>1. Head(tasks) \in Task /\ Tail(tasks) \in Seq(Task)
    BY <1>1, HeadTailProperties DEF TakeTask
  <2>2. Head(tasks) # NoTask
    BY <2>1
  <2>3. /\ Head(tasks) \in LoginTask => Routes[Head(tasks).cmd] = "login"
        /\ Head(tasks) \in ChatTask => Routes[Head(tasks).cmd] = "chat"
        /\ Head(tasks) \in GroupTask => Routes[Head(tasks).cmd] = "checking"
    BY DEF Routes, LoginTask, ChatTask, GroupTask
  <2> QED
    BY <1>0, <1>1, <2>1, <2>2, <2>3 DEF TakeTask, Task
<1>2. CASE LoginRefused(w) \/ NothingFetched(w)
  <2>1. CASE LoginRefused(w)
    BY <1>0, <2>1 DEF LoginRefused
  <2>2. CASE NothingFetched(w)
    BY <1>0, <2>2 DEF NothingFetched
  <2> QED
    BY <1>2, <2>1, <2>2
<1>3. CASE LoginAccepted(w)
  <2>1. job[w].conn \in Conns /\ job[w].user \in Users
    BY <1>0, <1>3 DEF LoginAccepted, LoginTask
  <2> QED
    BY <1>0, <1>3, <2>1 DEF LoginAccepted
<1>4. CASE AddUser(w) \/ SetUserOnline(w) \/ Greet(w)
  <2>1. job[w].conn \in Conns /\ job[w].user \in Users
    BY <1>0, <1>4 DEF AddUser, SetUserOnline, Greet, LoginTask
  <2>2. presence' \subseteq Users
    BY <1>4, <2>1, RedisAssumption DEF AddUser, SetUserOnline, Greet, RedisOutcomes
  <2> QED
    <3>1. CASE AddUser(w)
      BY <1>0, <3>1, <2>1 DEF AddUser
    <3>2. CASE SetUserOnline(w)
      BY <1>0, <3>2, <2>2 DEF SetUserOnline
    <3>3. CASE Greet(w)
      BY <1>0, <3>3, <2>1 DEF Greet
    <3> QED
      BY <1>4, <3>1, <3>2, <3>3
<1>5. CASE GetAndClearOfflineMessages(w)
  <2>0. Waiting(job[w].user) \subseteq rows
    BY Zenon DEF Waiting
  <2>1. PICK lot : lot = Waiting(job[w].user) /\ lot \subseteq rows
    BY <2>0, Zenon
  <2>2. /\ at[w] = "fetching" /\ at' = [at EXCEPT ![w] = "pushing"]
        /\ lot # {} /\ held' = [held EXCEPT ![w] = lot]
        /\ rows' \subseteq rows /\ kept' \subseteq kept \union lot
        /\ UNCHANGED <<conn, currentUser, userMap, presence, loop, stale, tasks, job, target,
                      todo, member, inputs, session, authed, pushes, unsaved, acks, ends>>
    BY <1>5, <2>1 DEF GetAndClearOfflineMessages, RowsAfterTake
  <2> QED
    BY <1>0, <2>1, <2>2
<1>6. CASE PushOffline(w)
  <2>1. job[w].conn \in Conns
    BY <1>0, <1>6 DEF PushOffline, LoginTask
  <2>2. PICK l \in held[w] :
          /\ pushes' = [pushes EXCEPT ![l] = Append(@, job[w].conn)]
          /\ \/ Unsent(w, l) = {} /\ Done(w)
             \/ /\ Unsent(w, l) # {} /\ held' = [held EXCEPT ![w] = Unsent(w, l)]
                /\ UNCHANGED <<at, job, target, todo, member>>
    BY <1>6 DEF PushOffline
  <2>3. l \in Letters /\ Unsent(w, l) \subseteq Letters
    BY <2>2 DEF Unsent
  <2>4. pushes' \in [Letters -> Seq(Conns)]
    BY <2>1, <2>2, <2>3
  <2>5. at[w] = "pushing" /\ UNCHANGED <<tasks, server, inputs, session, authed, errors, acks, ends>>
    BY <1>6 DEF PushOffline
  <2>6. CASE Done(w)
    BY <1>0, <2>4, <2>5, <2>6
  <2>7. CASE /\ Unsent(w, l) # {} /\ held' = [held EXCEPT ![w] = Unsent(w, l)]
             /\ UNCHANGED <<at, job, target, todo, member>>
    BY <1>0, <2>3, <2>4, <2>5, <2>7
  <2> QED
    BY <2>2, <2>6, <2>7
<1>7. CASE LookUp(w)
  <2>1. job[w] \in ChatTask /\ To[job[w].msg] \in Users
    BY <1>0, <1>7 DEF LookUp, ChatTask
  <2>2. ASSUME NEW c \in Conns \union {NoConn},
               target' = [target EXCEPT ![w] = c],
               at' = [at EXCEPT ![w] = IF c = NoConn THEN "storing" ELSE "forwarding"]
        PROVE  TypeOK' /\ LoopInv' /\ PlaceOf(w)' /\ Others(w)
    BY <1>0, <1>7, <2>1, <2>2 DEF LookUp, Route
  <2> QED
    BY <1>7, <2>1, <2>2 DEF LookUp, Route, Registered
<1>8. CASE Forward(w) \/ Store(w)
  <2>1. Letter(w) \in Letters
    BY <1>0, <1>8 DEF Forward, Store, Letter, Letters, ChatTask, GroupTask, Requests
  <2>2. pushes' \in [Letters -> Seq(Conns)] /\ rows' \subseteq Letters /\ unsaved' \subseteq Letters
    <3>1. CASE Forward(w)
      BY <1>0, <2>1, <3>1 DEF Forward
    <3>2. CASE Store(w)
      BY <2>1, <3>2 DEF Store
    <3> QED
      BY <1>8, <3>1, <3>2
  <2>3. PICK outcome \in {"accepted", "refused"} : AfterLetter(w, outcome)
    BY <1>8 DEF Forward, Store, Outcome
  <2>4. /\ at[w] \in {"forwarding", "storing"}
        /\ UNCHANGED <<conn, currentUser, userMap, presence, loop, stale, tasks, inputs, session,
                      authed, kept, acks, ends>>
    BY <1>8 DEF Forward, Store
  <2>5. PICK place : /\ at' = [at EXCEPT ![w] = place]
                     /\ place \in {"accepted", "refused", "spreading"}
                     /\ place # "spreading" => job[w] \in ChatTask
                     /\ place = "spreading" => job[w] \in GroupTask
    BY <1>0, <2>3, <2>4 DEF AfterLetter, ChatTask, GroupTask
  <2>6. job[w] \in ChatTask => todo[w] = {}
    BY <1>0, <2>4
  <2> QED
    BY <1>0, <2>2, <2>3, <2>4, <2>5, <2>6 DEF AfterLetter
<1>9. CASE NotInGroup(w) \/ AnswerGroup(w) \/ AnswerChat(w)
  <2>1. job[w].msg \in Requests
    BY <1>0, <1>9 DEF NotInGroup, AnswerGroup, AnswerChat, Answers, ChatTask, GroupTask, Requests
  <2>2. PICK code \in {"200", "403", "500"} : acks' = [acks EXCEPT ![job[w].msg] = @ \o <<code>>]
    <3>1. CASE NotInGroup(w)
      BY <3>1 DEF NotInGroup, Answer, Replies
    <3>2. CASE AnswerGroup(w)
      BY <3>2 DEF AnswerGroup, Answer, Replies
    <3>3. CASE AnswerChat(w)
      <4>1. Answers[at[w]] \in {"200", "500"}
        BY <3>3 DEF AnswerChat, Answers
      <4>2. Answer(job[w].msg, Answers[at[w]])
        BY <3>3 DEF AnswerChat
      <4> QED
        BY <4>1, <4>2, Zenon DEF Answer, Replies
    <3> QED
      BY <1>9, <3>1, <3>2, <3>3
  <2>3. acks' \in [Requests -> Seq({"200", "403", "500"})]
    BY <2>1, <2>2
  <2>4. Done(w) /\ UNCHANGED <<tasks, server, inputs, session, authed, pushes, errors, ends>>
    BY <1>9 DEF NotInGroup, AnswerGroup, AnswerChat
  <2> QED
    BY <1>0, <2>3, <2>4
<1>10. CASE GetGroupMembers(w)
  <2>1. MembersOf[job[w].msg] \subseteq Users
    BY <1>0, <1>10 DEF GetGroupMembers, GroupTask
  <2>2. PlaceOf(w)'
    BY <1>0, <1>10, <2>1 DEF GetGroupMembers
  <2> QED
    BY <1>0, <1>10, <2>1, <2>2 DEF GetGroupMembers
<1>11. CASE SkipSelf(w)
  BY <1>0, <1>11 DEF SkipSelf
<1>12. CASE LookUpMember(w)
  <2>1. PICK u \in todo[w] : todo' = [todo EXCEPT ![w] = @ \ {u}] /\ Route(w, u)
    BY <1>12 DEF LookUpMember
  <2>2. ASSUME NEW c \in Conns \union {NoConn},
               target' = [target EXCEPT ![w] = c],
               at' = [at EXCEPT ![w] = IF c = NoConn THEN "storing" ELSE "forwarding"]
        PROVE  TypeOK' /\ LoopInv' /\ PlaceOf(w)' /\ Others(w)
    BY <1>0, <1>12, <2>1, <2>2 DEF LookUpMember, Route, ChatTask, GroupTask
  <2> QED
    BY <2>1, <2>2 DEF Route, Registered
<1> QED
  BY <1>1, <1>2, <1>3, <1>4, <1>5, <1>6, <1>7, <1>8, <1>9, <1>10, <1>11, <1>12
     DEF WorkerStep, LoginStep, ChatStep, GroupStep

(* Types, places and the loop's connection are inductive.                  *)
LEMMA TypedInvariant == Spec => []Typed
<1>1. Typed /\ [Next]_vars => Typed'
  <2> SUFFICES ASSUME Typed, [Next]_vars PROVE Typed'
    OBVIOUS
  <2>1. CASE UNCHANGED vars
    BY <2>1 DEF Typed, TypeOK, PlaceInv, PlaceOf, LoopInv, vars, server, work, inputs, history, errors, ends
  <2> QED
    BY <2>1, TypedOutside, TypedCrash, TypedWorker DEF Next
<1> QED
  BY <1>1, TypedInit, PTL DEF Spec

(* Every variable keeps its type.  This needs that the task of a worker    *)
(* fits the place it is at: no step reads a field its task has not.        *)
THEOREM TypeCorrect == Spec => []TypeOK
<1>1. Typed => TypeOK
  BY DEF Typed
<1> QED
  BY <1>1, TypedInvariant, PTL

-----------------------------------------------------------------------------
(* Each request is in one place.                                           *)

\* Steps of clients, loop, watchdog and Redis other than requests.
Quiet == /\ UNCHANGED <<work, asked, acks, rows, pushes, unsaved, kept, authed, currentUser,
                      lost, cut>>
         /\ \A u \in Users : userMap'[u] # NoConn => userMap'[u] = userMap[u]

(* Whatever is neither a request, nor a step of a worker, nor the end of   *)
(* the server is quiet.                                                    *)
LEMMA OutsideIsQuiet ==
  ASSUME Typed, [Next]_vars
  PROVE  \/ Quiet
         \/ Crash
         \/ \E c \in Conns : \/ \E u \in Users : ReceiveLogin(c, u)
                            \/ \E m \in Requests : ReceiveChat(c, m)
         \/ \E w \in Workers : WorkerStep(w)
<1> USE DEF Typed, TypeOK, Quiet, server, inputs, history, errors, ends
<1>1. ASSUME NEW c \in Conns, Connect(c) \/ HangUp(c) \/ FallSilent(c) \/ ReceivePing(c)
      PROVE  Quiet
  BY <1>1 DEF Connect, HangUp, FallSilent, ReceivePing
<1>2. ASSUME NEW c \in Conns, EndOf(c) PROVE Quiet
  BY <1>2 DEF EndOf, ReadEof, ReadError
<1>3. CASE HandleEnd
  BY <1>3 DEF HandleEnd, RemoveUser, SetUserOffline, CloseCallback
<1>4. CASE CheckTimeouts
  BY <1>4 DEF CheckTimeouts
<1>5. ASSUME NEW u \in Users, Expire(u) PROVE Quiet
  BY <1>5 DEF Expire
<1>6. CASE UNCHANGED vars
  BY <1>6 DEF vars
<1> QED
  BY <1>1, <1>2, <1>3, <1>4, <1>5, <1>6 DEF Next, ClientStep

\* The task of a worker ends, and its request, if it had one, is answered.
Finish(w) == /\ job' = [job EXCEPT ![w] = NoTask]
             /\ UNCHANGED <<tasks, asked>>
             /\ \A m \in Requests :
                  \/ ~Handling(w, m) /\ acks'[m] = acks[m]
                  \/ Handling(w, m) /\ \E code : acks'[m] = acks[m] \o <<code>>

(* For its request a worker takes a task, ends one, or goes on with it.    *)
LEMMA WorkerKinds ==
  ASSUME Typed, NEW w \in Workers, WorkerStep(w)
  PROVE  TakeTask(w) \/ Finish(w) \/ UNCHANGED <<tasks, job, asked, acks>>
<1> DEFINE Kinds == TakeTask(w) \/ Finish(w) \/ UNCHANGED <<tasks, job, asked, acks>>
<1> USE DEF server, inputs, history, errors, ends, Continue
<1>1. CASE LoginRefused(w) \/ NothingFetched(w) \/ PushOffline(w)
  <2>1. job[w] \in LoginTask
    BY <1>1 DEF LoginRefused, NothingFetched, PushOffline, LoginPlaces, Typed, PlaceInv, PlaceOf
  <2>2. \A m \in Requests : ~Handling(w, m)
    BY <2>1, NoneAssumption DEF Handling, LoginTask
  <2> QED
    BY <1>1, <2>2 DEF LoginRefused, NothingFetched, PushOffline, Done, Finish
<1>2. CASE LoginAccepted(w) \/ AddUser(w) \/ SetUserOnline(w) \/ Greet(w)
             \/ GetAndClearOfflineMessages(w)
  BY <1>2 DEF LoginAccepted, AddUser, SetUserOnline, Greet, GetAndClearOfflineMessages
<1>3. CASE LookUp(w) \/ GetGroupMembers(w) \/ SkipSelf(w) \/ LookUpMember(w)
  BY <1>3 DEF LookUp, GetGroupMembers, SkipSelf, LookUpMember
<1>4. ASSUME NEW code, Answer(job[w].msg, code), Done(w), job[w] # NoTask,
             UNCHANGED <<tasks, asked>>
      PROVE  Finish(w)
  BY <1>4 DEF Answer, Replies, Done, Finish, Handling, Typed, TypeOK
<1>5. PlaceOf(w)
  BY DEF Typed, PlaceInv
<1>6. CASE NotInGroup(w) \/ AnswerGroup(w) \/ AnswerChat(w)
  BY <1>4, <1>5, <1>6 DEF NotInGroup, AnswerGroup, AnswerChat, Answers, PlaceOf
<1>7. CASE Forward(w) \/ Store(w)
  BY <1>7 DEF Forward, Store, AfterLetter
<1> QED
  BY <1>1, <1>2, <1>3, <1>6, <1>7 DEF WorkerStep, LoginStep, ChatStep, GroupStep

(* A request stays in one place: the queue of tasks hands it to one        *)
(* worker, and it is answered when that worker is through.                 *)
LEMMA OnceStep == Typed /\ OnceInv /\ [Next]_vars => OnceInv'
<1> SUFFICES ASSUME Typed, OnceInv, [Next]_vars PROVE OnceInv'
  OBVIOUS
<1> USE NoneAssumption DEF OnceInv, Queued, Handling
<1>1. CASE UNCHANGED <<tasks, job, asked, acks>>
  BY <1>1
<1>2. ASSUME NEW c \in Conns, NEW u \in Users, ReceiveLogin(c, u) PROVE OnceInv'
  <2> DEFINE t == [cmd |-> "login", conn |-> c, user |-> u, msg |-> NoMsg]
  <2>1. t \in Task /\ t.msg = NoMsg
    BY DEF Task, LoginTask
  <2>2. tasks' = Append(tasks, t) /\ UNCHANGED <<job, asked, acks>>
    BY <1>2 DEF ReceiveLogin, Receive, history, errors, ends
  <2> HIDE DEF t
  <2>3. /\ Len(tasks') = Len(tasks) + 1
        /\ \A i \in 1 .. Len(tasks) : tasks'[i] = tasks[i]
        /\ tasks'[Len(tasks) + 1] = t
    BY <2>1, <2>2, AppendProperties DEF Typed, TypeOK
  <2> QED
    BY <2>1, <2>2, <2>3
<1>3. ASSUME NEW c \in Conns, NEW m \in Requests, ReceiveChat(c, m) PROVE OnceInv'
  <2> DEFINE t == [cmd |-> IF m \in Chats THEN "chat" ELSE "group_chat",
                   conn |-> c, user |-> NoUser, msg |-> m]
  <2>1. t \in Task /\ t.msg = m /\ t.conn = c
    BY DEF Task, ChatTask, GroupTask, Requests
  <2>2. /\ tasks' = Append(tasks, t) /\ UNCHANGED <<job, acks>>
        /\ asked[m] = NoConn /\ asked' = [asked EXCEPT ![m] = c]
    BY <1>3 DEF ReceiveChat, Receive, history, errors, ends
  <2> HIDE DEF t
  <2>3. /\ Len(tasks') = Len(tasks) + 1
        /\ \A i \in 1 .. Len(tasks) : tasks'[i] = tasks[i]
        /\ tasks'[Len(tasks) + 1] = t
    BY <2>1, <2>2, AppendProperties DEF Typed, TypeOK
  <2>4. /\ \A i \in 1 .. Len(tasks) : tasks[i] \in Task /\ tasks[i].conn \in Conns
        /\ \A w \in Workers : job[w] # NoTask => job[w].conn \in Conns
    BY DEF Typed, TypeOK, Task, LoginTask, ChatTask, GroupTask
  <2>5. /\ \A i \in 1 .. Len(tasks) : tasks[i].msg # m
        /\ \A w \in Workers : ~Handling(w, m)
    BY <2>2, <2>4
  <2>6. asked' \in [Requests -> Conns \union {NoConn}] /\ asked'[m] = c
        /\ \A n \in Requests \ {m} : asked'[n] = asked[n]
    BY <2>2 DEF Typed, TypeOK
  <2> QED
    BY <2>1, <2>2, <2>3, <2>5, <2>6
<1>4. ASSUME NEW w \in Workers, TakeTask(w) PROVE OnceInv'
  <2>1. /\ Len(tasks) \in Nat \ {0} /\ Len(tasks') = Len(tasks) - 1
        /\ \A i \in 1 .. Len(tasks') : tasks'[i] = tasks[i + 1] /\ i + 1 \in 1 .. Len(tasks)
    BY <1>4, EmptySeq, HeadTailProperties DEF TakeTask, Typed, TypeOK
  <2>2. /\ job'[w] = tasks[1] /\ job[w] = NoTask
        /\ \A v \in Workers \ {w} : job'[v] = job[v]
        /\ UNCHANGED <<asked, acks>>
    BY <1>4, <2>1 DEF TakeTask, Typed, TypeOK, PlaceInv, PlaceOf, inputs, history, errors, ends
  <2>3. 1 \in 1 .. Len(tasks)
    BY <2>1
  <2>4. \A i \in 1 .. Len(tasks') : i + 1 # 1
    BY <2>1
  <2>5. \A m \in Requests : Queued(m)' => Queued(m)
    BY <2>1
  <2>6. \A m \in Requests : tasks[1].msg = m => ~Queued(m)'
    BY <2>1, <2>3, <2>4
  <2>7. \A m \in Requests : \A v \in Workers : Handling(v, m)' =>
          IF v = w THEN tasks[1].msg = m ELSE Handling(v, m) /\ tasks[1].msg # m
    BY <2>2, <2>3
  <2>8. \A m \in Requests : \A v \in Workers : Handling(v, m)' =>
          /\ ~Queued(m)' /\ asked[m] = job'[v].conn /\ acks[m] = <<>>
          /\ \A x \in Workers : Handling(x, m)' => x = v
    BY <2>2, <2>3, <2>5, <2>6, <2>7
  <2>9. /\ \A m \in Requests : \A i \in 1 .. Len(tasks') :
              tasks'[i].msg = m => asked[m] = tasks'[i].conn /\ acks[m] = <<>>
    BY <2>1
  <2>10. ASSUME NEW i \in 1 .. Len(tasks'), NEW j \in 1 .. Len(tasks'),
                tasks'[i].msg \in Requests, tasks'[i].msg = tasks'[j].msg
         PROVE  i = j
    <3>1. i + 1 = j + 1
      BY <2>1, <2>10
    <3> QED
      BY <2>1, <3>1
  <2> QED
    BY <2>2, <2>8, <2>9, <2>10
<1>5. ASSUME NEW w \in Workers, Finish(w) PROVE OnceInv'
  <2>1. job'[w] = NoTask /\ \A v \in Workers \ {w} : job'[v] = job[v]
    BY <1>5 DEF Finish, Typed, TypeOK
  <2>2. job[w] # NoTask => job[w].conn \in Conns
    BY DEF Typed, TypeOK, Task, LoginTask, ChatTask, GroupTask
  <2> QED
    BY <1>5, <2>1, <2>2 DEF Finish
<1>6. CASE Crash
  <2>1. UNCHANGED <<asked, acks>> /\ Len(tasks') = 0 /\ \A w \in Workers : job'[w] = NoTask
    BY <1>6 DEF Crash
  <2> QED
    BY <2>1
<1> QED
  BY <1>1, <1>2, <1>3, <1>4, <1>5, <1>6, OutsideIsQuiet, WorkerKinds DEF Quiet, work

-----------------------------------------------------------------------------
(* Each letter is in one place.                                            *)

\* What worker w has still to serve becomes less.
Shrinks(w) == \A m \in Requests : \A u \in Users :
  (Handling(w, m) /\ u \in ToServe(w))' => Handling(w, m) /\ u \in ToServe(w)

(* As a worker serves its receivers, no letter's turn comes back.          *)
LEMMA PendingShrinks ==
  ASSUME NEW w \in Workers, Others(w), Shrinks(w), UNCHANGED <<tasks, asked>>
  PROVE  \A m \in Requests : \A u \in Users : Pending(m, u)' => Pending(m, u)
<1> SUFFICES ASSUME NEW m \in Requests, NEW u \in Users, NEW v \in Workers,
                    (Handling(v, m) /\ u \in ToServe(v))'
             PROVE  Handling(v, m) /\ u \in ToServe(v)
  BY DEF Pending, Queued
<1>1. CASE v = w
  BY <1>1 DEF Shrinks
<1>2. CASE v # w
  BY <1>2 DEF Others, Handling, ToServe
<1> QED
  BY <1>1, <1>2

(* Nothing moves, and no letter's turn comes back.                         *)
LEMMA LettersRest ==
  ASSUME LetterInv, UNCHANGED <<rows, pushes, kept>>,
         \A w \in Workers : held'[w] \subseteq held[w],
         \A m \in Requests : \A u \in Users : Pending(m, u)' => Pending(m, u)
  PROVE  LetterInv'
BY DEF LetterInv, Untouched

(* Taking a task moves its letters from the queue to the worker's hands.   *)
LEMMA PendingTaken ==
  ASSUME Typed, OnceInv, NEW w \in Workers, TakeTask(w)
  PROVE  \A m \in Requests : \A u \in Users : Pending(m, u)' => Pending(m, u)
<1>1. /\ Len(tasks) \in Nat \ {0} /\ Len(tasks') = Len(tasks) - 1
      /\ \A i \in 1 .. Len(tasks') : tasks'[i] = tasks[i + 1] /\ i + 1 \in 1 .. Len(tasks)
      /\ Head(tasks) = tasks[1] /\ 1 \in 1 .. Len(tasks)
  BY EmptySeq, HeadTailProperties DEF TakeTask, Typed, TypeOK
<1>2. \A m \in Requests : Queued(m)' => Queued(m)
  BY <1>1 DEF Queued
<1>3. job'[w] = tasks[1] /\ Others(w) /\ UNCHANGED asked
  BY <1>1 DEF TakeTask, Goto, Others, Typed, TypeOK, inputs
<1>4. ASSUME NEW m \in Requests, NEW u \in Users, Pending(m, u)' PROVE Pending(m, u)
  <2>1. Handling(w, m)' => Queued(m)
    BY <1>1, <1>3 DEF Handling, Queued
  <2>2. \A v \in Workers \ {w} : (Handling(v, m) /\ u \in ToServe(v))' =>
                                   Handling(v, m) /\ u \in ToServe(v)
    BY <1>3 DEF Others, Handling, ToServe
  <2> QED
    BY <1>2, <1>3, <1>4, <2>1, <2>2 DEF Pending
<1> QED
  BY <1>4

(* A request that arrives makes its letters wait where it had not been     *)
(* sent before.                                                            *)
LEMMA PendingReceived ==
  ASSUME Typed, NEW c \in Conns, \/ \E u \in Users : ReceiveLogin(c, u)
                                 \/ \E m \in Requests : ReceiveChat(c, m)
  PROVE  \A m \in Requests : \A u \in Users : Pending(m, u)' => Pending(m, u)
<1> DEFINE Sent(t) ==
      /\ tasks' = Append(tasks, t)
      /\ \/ t.msg \notin Requests /\ asked' = asked
         \/ t.msg \in Requests /\ asked[t.msg] = NoConn
            /\ asked' = [asked EXCEPT ![t.msg] = c]
<1>1. ASSUME NEW u \in Users, ReceiveLogin(c, u) PROVE \E t \in Task : Sent(t)
  <2> DEFINE t == [cmd |-> "login", conn |-> c, user |-> u, msg |-> NoMsg]
  <2>1. t \in Task /\ t.msg \notin Requests
    BY NoneAssumption DEF Task, LoginTask
  <2> QED
    BY <1>1, <2>1 DEF ReceiveLogin, Receive
<1>2. ASSUME NEW m \in Requests, ReceiveChat(c, m) PROVE \E t \in Task : Sent(t)
  <2> DEFINE t == [cmd |-> IF m \in Chats THEN "chat" ELSE "group_chat",
                   conn |-> c, user |-> NoUser, msg |-> m]
  <2>1. t \in Task /\ t.msg = m
    BY DEF Task, ChatTask, GroupTask, Requests
  <2> QED
    BY <1>2, <2>1 DEF ReceiveChat, Receive
<1>3. UNCHANGED <<at, job, todo, member>>
  BY DEF ReceiveLogin, ReceiveChat, Receive
<1>4. PICK t \in Task : Sent(t)
  BY <1>1, <1>2
<1>5. /\ Len(tasks') = Len(tasks) + 1
      /\ \A i \in 1 .. Len(tasks) : tasks'[i] = tasks[i]
      /\ tasks'[Len(tasks) + 1] = t
  BY <1>4, AppendProperties DEF Typed, TypeOK
<1>6. \A m \in Requests : Queued(m)' => Queued(m) \/ t.msg = m
  BY <1>5 DEF Queued
<1>7. \A m \in Requests : asked'[m] = NoConn => asked[m] = NoConn
  BY <1>4 DEF Typed, TypeOK
<1> QED
  BY <1>3, <1>4, <1>6, <1>7 DEF Pending, Handling, ToServe

(* A login serves no chat.                                                 *)
LEMMA PendingLogin ==
  ASSUME Typed, NEW w \in Workers, LoginStep(w)
  PROVE  \A m \in Requests : \A u \in Users : Pending(m, u)' => Pending(m, u)
<1> USE DEF Continue, Goto, Done
<1>1. /\ UNCHANGED <<tasks, asked>> /\ Others(w)
      /\ at'[w] \in {"idle", "adding", "presenting", "greeting", "fetching", "pushing"}
  BY DEF LoginStep, LoginRefused, LoginAccepted, AddUser, SetUserOnline, Greet,
         GetAndClearOfflineMessages, NothingFetched, PushOffline, inputs, Others, Typed, TypeOK
<1>2. Shrinks(w)
  BY <1>1 DEF Shrinks, ToServe
<1> QED
  BY <1>1, <1>2, PendingShrinks

(* The lookups, the walk over a group and its answers serve one user after *)
(* another.                                                                *)
LEMMA PendingRouted ==
  ASSUME Typed, NEW w \in Workers, GroupStep(w) \/ LookUp(w) \/ AnswerChat(w)
  PROVE  \A m \in Requests : \A u \in Users : Pending(m, u)' => Pending(m, u)
<1> USE DEF Goto, Done, Route, inputs
<1>1. UNCHANGED <<tasks, asked>> /\ Others(w)
  BY DEF GroupStep, NotInGroup, GetGroupMembers, SkipSelf, LookUpMember, AnswerGroup, LookUp,
         AnswerChat, Others, Typed, TypeOK
<1>2. Shrinks(w)
  <2>1. CASE NotInGroup(w) \/ AnswerGroup(w) \/ AnswerChat(w)
    BY <2>1 DEF NotInGroup, AnswerGroup, AnswerChat, Shrinks, ToServe, Typed, TypeOK
  <2>2. CASE GetGroupMembers(w)
    BY <2>2 DEF GetGroupMembers, Shrinks, Handling, ToServe, Typed, TypeOK
  <2>3. CASE SkipSelf(w)
    BY <2>3 DEF SkipSelf, Shrinks, Handling, ToServe, Typed, TypeOK
  <2>4. CASE LookUpMember(w)
    <3>1. PICK u \in todo[w] : todo' = [todo EXCEPT ![w] = @ \ {u}] /\ Route(w, u)
      BY <2>4 DEF LookUpMember
    <3>2. /\ at[w] = "spreading" /\ at'[w] \in {"forwarding", "storing"} /\ job' = job
          /\ member'[w] = u /\ todo'[w] = todo[w] \ {u}
      BY <2>4, <3>1 DEF LookUpMember, Typed, TypeOK
    <3> QED
      BY <3>1, <3>2 DEF Shrinks, Handling, ToServe
  <2>5. CASE LookUp(w)
    <3>1. /\ at[w] = "chat" /\ at'[w] \in {"forwarding", "storing"} /\ job' = job
          /\ member'[w] = To[job[w].msg] /\ todo'[w] = {}
      BY <2>5 DEF LookUp, Typed, TypeOK, PlaceInv, PlaceOf
    <3> QED
      BY <3>1 DEF Shrinks, Handling, ToServe
  <2> QED
    BY <2>1, <2>2, <2>3, <2>4, <2>5 DEF GroupStep
<1> QED
  BY <1>1, <1>2, PendingShrinks

(* The letter that is delivered was pending and is pending no more.        *)
LEMMA LetterDelivered ==
  ASSUME Typed, OnceInv, NEW w \in Workers, Forward(w) \/ Store(w)
  PROVE  /\ job[w].msg \in Requests /\ member[w] \in Users
         /\ \A m \in Requests : \A u \in Users :
              <<m, u>> = Letter(w) => Pending(m, u) /\ ~Pending(m, u)'
         /\ \A m \in Requests : \A u \in Users : Pending(m, u)' => Pending(m, u)
         /\ \A v \in Workers : held'[v] \subseteq held[v]
<1>1. /\ at[w] \in {"forwarding", "storing"} /\ UNCHANGED <<tasks, asked>>
      /\ \E outcome \in {"accepted", "refused"} : AfterLetter(w, outcome)
  BY DEF Forward, Store, Outcome, inputs
<1>2. PlaceOf(w) /\ job[w].msg \in Requests /\ job[w].conn \in Conns /\ member[w] \in Users
  BY <1>1 DEF Typed, PlaceInv, PlaceOf, ChatTask, GroupTask, Requests
<1>3. /\ Others(w) /\ \A v \in Workers : held'[v] \subseteq held[v]
      /\ job'[w] = job[w] /\ todo'[w] = todo[w] /\ at'[w] \in {"accepted", "refused", "spreading"}
  BY <1>1 DEF AfterLetter, Goto, Others, Typed, TypeOK
<1>4. Handling(w, job[w].msg) /\ member[w] \in ToServe(w) /\ member[w] \notin todo[w]
  BY <1>1, <1>2 DEF Handling, ToServe, PlaceOf
<1>5. Shrinks(w)
  BY <1>1, <1>3 DEF Shrinks, Handling, ToServe
<1>6. ASSUME NEW n \in Requests, NEW u \in Users, n = job[w].msg, u = member[w]
      PROVE  Pending(n, u) /\ ~Pending(n, u)'
  <2>1. Pending(n, u) /\ asked[n] # NoConn /\ ~Queued(n) /\ Handling(w, n)
    BY <1>2, <1>4, <1>6, NoneAssumption DEF OnceInv, Pending
  <2>2. \A v \in Workers \ {w} : ~Handling(v, n)'
    BY <1>3, <2>1 DEF OnceInv, Others, Handling
  <2>3. ~(Handling(w, n)' /\ u \in ToServe(w)')
    BY <1>3, <1>4, <1>6 DEF Handling, ToServe
  <2>4. ~Queued(n)' /\ asked'[n] # NoConn
    BY <1>1, <2>1 DEF Queued
  <2> QED
    BY <2>1, <2>2, <2>3, <2>4 DEF Pending
<1> QED
  BY <1>1, <1>2, <1>3, <1>5, <1>6, PendingShrinks DEF Letter

(* A letter whose turn is over never waits again: no request is received,  *)
(* queued or handled a second time.                                        *)
LEMMA PendingStep ==
  ASSUME Typed, OnceInv, [Next]_vars
  PROVE  \A m \in Requests : \A u \in Users : Pending(m, u)' => Pending(m, u)
<1>1. CASE Quiet
  BY <1>1 DEF Quiet, work, Pending, Queued, Handling, ToServe
<1>2. CASE Crash
  <2>1. UNCHANGED asked /\ Len(tasks') = 0 /\ \A w \in Workers : job'[w] = NoTask
    BY <1>2 DEF Crash
  <2> QED
    BY <2>1 DEF Pending, Queued, Handling
<1>3. ASSUME NEW w \in Workers, WorkerStep(w)
      PROVE  \A m \in Requests : \A u \in Users : Pending(m, u)' => Pending(m, u)
  BY <1>3, PendingTaken, PendingLogin, PendingRouted, LetterDelivered DEF WorkerStep, ChatStep
<1> QED
  BY <1>1, <1>2, <1>3, PendingReceived, OutsideIsQuiet

\* Nothing happens to any letter.
LettersStay == UNCHANGED <<rows, pushes, held, errors, lost>>

(* Letters are moved by five actions and no others.                        *)
LEMMA LetterMoves ==
  ASSUME Typed, [Next]_vars
  PROVE  \/ LettersStay
         \/ \E w \in Workers : \/ GetAndClearOfflineMessages(w) \/ PushOffline(w)
                              \/ Forward(w) \/ Store(w)
         \/ Crash
<1> USE DEF LettersStay, server, history, errors, ends
<1>1. CASE Quiet
  BY <1>1 DEF Quiet, work
<1>2. ASSUME NEW c \in Conns, \/ \E u \in Users : ReceiveLogin(c, u)
                             \/ \E m \in Requests : ReceiveChat(c, m)
      PROVE  LettersStay
  BY <1>2 DEF ReceiveLogin, ReceiveChat, Receive
<1>3. ASSUME NEW w \in Workers,
             \/ TakeTask(w) \/ LoginAccepted(w) \/ AddUser(w) \/ SetUserOnline(w) \/ Greet(w)
             \/ LookUp(w) \/ GetGroupMembers(w) \/ SkipSelf(w) \/ LookUpMember(w)
      PROVE  LettersStay
  BY <1>3 DEF TakeTask, LoginAccepted, AddUser, SetUserOnline, Greet, LookUp, GetGroupMembers,
              SkipSelf, LookUpMember, Continue
<1>4. ASSUME NEW w \in Workers, \/ LoginRefused(w) \/ NothingFetched(w)
                                \/ NotInGroup(w) \/ AnswerGroup(w) \/ AnswerChat(w)
      PROVE  LettersStay
  <2>1. /\ held[w] = {} /\ held' = [held EXCEPT ![w] = {}]
        /\ UNCHANGED <<rows, pushes, unsaved, kept, lost>>
    BY <1>4 DEF LoginRefused, NothingFetched, NotInGroup, AnswerGroup, AnswerChat, Answers, Done,
                Typed, PlaceInv, PlaceOf
  <2>2. held' = held
    BY <2>1 DEF Typed, TypeOK
  <2> QED
    BY <2>1, <2>2
<1> QED
  BY <1>1, <1>2, <1>3, <1>4, OutsideIsQuiet DEF WorkerStep, LoginStep, ChatStep, GroupStep

(* A login worker fetches the letters of its user and pushes them; those   *)
(* of a failed DELETE are kept from then on.                               *)
LEMMA LetterLogin ==
  ASSUME Typed, LetterInv, NEW w \in Workers,
         GetAndClearOfflineMessages(w) \/ PushOffline(w),
         \A m \in Requests : \A u \in Users : Pending(m, u)' => Pending(m, u)
  PROVE  LetterInv'
<1> USE DEF Goto, Done
<1>0. /\ \A m \in Requests : \A u \in Users : <<m, u>> \in Letters
      /\ held \in [Workers -> SUBSET Letters] /\ rows \subseteq Letters
      /\ pushes \in [Letters -> Seq(Conns)]
  BY DEF Letters, Typed, TypeOK
<1>1. CASE GetAndClearOfflineMessages(w)
  <2>1. PICK lot : lot = Waiting(job[w].user) /\ lot \subseteq rows
    BY DEF Waiting
  <2>2. /\ held' = [held EXCEPT ![w] = lot] /\ UNCHANGED pushes
        /\ \/ rows' = rows \ lot /\ kept' = kept
           \/ rows' \subseteq rows /\ kept' = kept \union lot
    BY <1>1, <2>1 DEF GetAndClearOfflineMessages, RowsAfterTake
  <2>3. held'[w] = lot /\ \A v \in Workers \ {w} : held'[v] = held[v]
    BY <1>0, <2>2
  <2>4. \A m \in Requests : \A u \in Users : Pending(m, u)' => Untouched(<<m, u>>)'
    BY <2>1, <2>2, <2>3 DEF LetterInv, Untouched
  <2>5. ASSUME NEW l \in Letters \ kept'
        PROVE  /\ l \in rows' => pushes'[l] = <<>> /\ \A v \in Workers : l \notin held'[v]
               /\ \A x \in Workers : l \in held'[x] =>
                    pushes'[l] = <<>> /\ \A v \in Workers : l \in held'[v] => v = x
               /\ Len(pushes'[l]) <= 1
    BY <2>1, <2>2, <2>3 DEF LetterInv
  <2> QED
    BY <2>4, <2>5 DEF LetterInv
<1>2. CASE PushOffline(w)
  <2>1. PICK k \in held[w] :
          /\ pushes' = [pushes EXCEPT ![k] = Append(@, job[w].conn)]
          /\ held' = [held EXCEPT ![w] = held[w] \ {k}]
    BY <1>2 DEF PushOffline, Unsent
  <2>2. UNCHANGED <<rows, kept>>
    BY <1>2 DEF PushOffline, server, errors
  <2>3. /\ held'[w] = held[w] \ {k} /\ \A v \in Workers \ {w} : held'[v] = held[v]
        /\ k \in Letters /\ \A l \in Letters \ {k} : pushes'[l] = pushes[l]
    BY <1>0, <2>1
  <2>4. pushes[k] = <<>> => Len(pushes'[k]) = 1
    <3>1. job[w].conn \in Conns /\ <<>> \in Seq(Conns)
      BY <1>2 DEF PushOffline, Typed, PlaceInv, PlaceOf, LoginPlaces, LoginTask
    <3>2. Len(Append(<<>>, job[w].conn)) = 1
      BY <3>1
    <3> QED
      BY <1>0, <2>1, <2>3, <3>2
  <2>5. ASSUME NEW m \in Requests, NEW u \in Users, Pending(m, u)'
        PROVE  Untouched(<<m, u>>)'
    <3>1. <<m, u>> \in Letters /\ Untouched(<<m, u>>)
      BY <1>0, <2>5 DEF LetterInv
    <3>2. <<m, u>> # k
      BY <2>1, <3>1 DEF Untouched
    <3>3. pushes'[<<m, u>>] = <<>>
      BY <2>3, <3>1, <3>2, Zenon DEF Untouched
    <3>4. \A v \in Workers : <<m, u>> \notin held'[v]
      BY <2>3, <3>1, Zenon DEF Untouched
    <3> QED
      BY <2>2, <3>1, <3>3, <3>4, Zenon DEF Untouched
  <2>6. ASSUME NEW l \in Letters \ kept'
        PROVE  /\ l \in rows' => pushes'[l] = <<>> /\ \A v \in Workers : l \notin held'[v]
               /\ \A x \in Workers : l \in held'[x] =>
                    pushes'[l] = <<>> /\ \A v \in Workers : l \in held'[v] => v = x
               /\ Len(pushes'[l]) <= 1
    <3>1. CASE l = k
      <4>1. pushes[k] = <<>> /\ k \notin rows /\ \A v \in Workers : k \notin held'[v]
        BY <2>1, <2>2, <2>3, <3>1 DEF LetterInv
      <4> HIDE DEF LetterInv
      <4>2. Len(pushes'[l]) <= 1
        <5>1. Len(pushes'[k]) = 1
          BY <2>4, <4>1, Zenon
        <5>2. 1 <= 1
          OBVIOUS
        <5> QED
          BY <3>1, <5>1, <5>2, Zenon
      <4> QED
        BY <2>2, <3>1, <4>1, <4>2
    <3>2. CASE l # k
      BY <2>2, <2>3, <3>2 DEF LetterInv
    <3> QED
      BY <3>1, <3>2
  <2> QED
    BY <2>5, <2>6 DEF LetterInv
<1> QED
  BY <1>1, <1>2

(* Every step keeps each letter in one place.                              *)
LEMMA LetterStep == Typed /\ OnceInv /\ LetterInv /\ [Next]_vars => LetterInv'
<1> SUFFICES ASSUME Typed, OnceInv, LetterInv, [Next]_vars PROVE LetterInv'
  OBVIOUS
<1>1. \A m \in Requests : \A u \in Users : Pending(m, u)' => Pending(m, u)
  BY PendingStep
<1>2. CASE LettersStay
  BY <1>1, <1>2, LettersRest DEF LettersStay, errors
<1>3. ASSUME NEW w \in Workers, Forward(w) \/ Store(w) PROVE LetterInv'
  <2>1. /\ Letter(w) \in Letters
        /\ \A m \in Requests : \A u \in Users :
             Pending(m, u)' => Pending(m, u) /\ <<m, u>> # Letter(w)
        /\ \A v \in Workers : held'[v] \subseteq held[v]
        /\ Untouched(Letter(w))
    BY <1>3, LetterDelivered DEF Letter, Letters, LetterInv
  <2>2. \A m \in Requests : \A u \in Users : <<m, u>> \in Letters
    BY DEF Letters
  <2>3. CASE Forward(w)
    <3>1. /\ pushes' = [pushes EXCEPT ![Letter(w)] = Append(@, target[w])]
          /\ UNCHANGED <<rows, kept>> /\ target[w] \in Conns
      BY <2>3 DEF Forward, server, errors, Typed, PlaceInv, PlaceOf
    <3>2. /\ \A l \in Letters \ {Letter(w)} : pushes'[l] = pushes[l]
          /\ Len(pushes'[Letter(w)]) = 1
      BY <2>1, <3>1 DEF Untouched, Typed, TypeOK
    <3>3. rows \subseteq Letters /\ \A v \in Workers : held[v] \subseteq Letters
      BY DEF Typed, TypeOK
    <3> QED
      BY <2>1, <2>2, <3>1, <3>2, <3>3 DEF LetterInv, Untouched
  <2>4. CASE Store(w)
    <3>1. rows' \in {rows, rows \union {Letter(w)}} /\ UNCHANGED <<pushes, kept>>
      BY <2>4 DEF Store
    <3> QED
      BY <2>1, <3>1 DEF LetterInv, Untouched
  <2> QED
    BY <1>3, <2>3, <2>4
<1>4. CASE Crash
  <2>1. UNCHANGED <<rows, pushes, kept>> /\ \A w \in Workers : held'[w] = {}
    BY <1>4 DEF Crash, errors
  <2> QED
    BY <1>1, <2>1, LettersRest
<1> QED
  BY <1>1, <1>2, <1>3, <1>4, LetterLogin, LetterMoves

-----------------------------------------------------------------------------
(* Letters go to connections that have logged in as their receiver.        *)

(* A worker pushes only to connections that have logged in as the          *)
(* receiver: the looked-up one, or that of the login it runs.              *)
LEMMA AuthWorker ==
  ASSUME Typed, AuthInv, NEW w \in Workers, WorkerStep(w)
  PROVE  AuthInv'
<1> USE DEF Goto, Done, Continue, server, inputs, history, errors, ends
<1>1. PlaceOf(w)
  BY DEF Typed, PlaceInv
<1>2. /\ authed \in [Conns -> SUBSET Users] /\ currentUser \in [Conns -> Users \union {NoUser}]
      /\ userMap \in [Users -> Conns \union {NoConn}] /\ pushes \in [Letters -> Seq(Conns)]
      /\ rows \subseteq Letters /\ \A v \in Workers : held[v] \subseteq Letters
      /\ \A v \in Workers : todo[v] \subseteq Users
      /\ DOMAIN at = Workers /\ DOMAIN job = Workers /\ DOMAIN target = Workers
      /\ DOMAIN held = Workers /\ DOMAIN member = Workers
  BY DEF Typed, TypeOK
\* Steps that only move the worker on, or end its task.
<1>3. CASE TakeTask(w) \/ LoginRefused(w) \/ SetUserOnline(w) \/ Greet(w) \/ NothingFetched(w)
             \/ NotInGroup(w) \/ GetGroupMembers(w) \/ SkipSelf(w) \/ AnswerGroup(w)
             \/ Store(w) \/ AnswerChat(w)
  <2>1. UNCHANGED <<currentUser, userMap, authed, pushes>>
    BY <1>3 DEF TakeTask, LoginRefused, SetUserOnline, Greet, NothingFetched, NotInGroup,
                GetGroupMembers, SkipSelf, AnswerGroup, Store, AnswerChat
  <2>2. /\ Others(w)
        /\ held'[w] \subseteq held[w] /\ (held'[w] # {} => job'[w] = job[w])
        /\ at'[w] # "forwarding"
        /\ at'[w] \in LoginPlaces \ {"login"} =>
             at[w] \in LoginPlaces \ {"login"} /\ job'[w] = job[w]
    <3>1. CASE TakeTask(w)
      <4>1. Routes[Head(tasks).cmd] \in {"login", "chat", "checking"}
        <5>1. Head(tasks) \in Task
          BY <3>1, HeadTailProperties DEF TakeTask, Typed, TypeOK
        <5> QED
          BY <5>1 DEF Routes, Task, LoginTask, ChatTask, GroupTask
      <4>2. /\ at' = [at EXCEPT ![w] = Routes[Head(tasks).cmd]] /\ at[w] = "idle"
            /\ job' = [job EXCEPT ![w] = Head(tasks)]
            /\ UNCHANGED <<target, held, todo, member>>
        BY <3>1 DEF TakeTask
      <4> QED
        BY <1>1, <1>2, <4>1, <4>2 DEF PlaceOf, LoginPlaces, Others
    <3>2. CASE LoginRefused(w) \/ NothingFetched(w) \/ NotInGroup(w) \/ AnswerGroup(w)
                 \/ AnswerChat(w)
      BY <1>2, <3>2 DEF LoginRefused, NothingFetched, NotInGroup, AnswerGroup, AnswerChat,
                        LoginPlaces, Others, Typed, TypeOK
    <3>3. CASE SetUserOnline(w) \/ Greet(w)
      BY <1>2, <3>3 DEF SetUserOnline, Greet, LoginPlaces, Others
    <3>4. CASE GetGroupMembers(w) \/ SkipSelf(w)
      BY <1>2, <3>4 DEF GetGroupMembers, SkipSelf, LoginPlaces, Others, Typed, TypeOK
    <3>5. CASE Store(w)
      <4>1. \E outcome \in {"accepted", "refused"} : AfterLetter(w, outcome)
        BY <3>5 DEF Store, Outcome
      <4> QED
        BY <1>2, <4>1 DEF AfterLetter, LoginPlaces, Others
    <3> QED
      BY <1>3, <3>1, <3>2, <3>3, <3>4, <3>5
  <2> QED
    BY <2>1, <2>2 DEF AuthInv, Others
<1>4. CASE LoginAccepted(w)
  <2>1. job[w].conn \in Conns /\ job[w].user \in Users
    BY <1>1, <1>4 DEF PlaceOf, LoginAccepted, LoginPlaces, LoginTask
  <2>2. /\ \A c \in Conns : authed[c] \subseteq authed'[c]
        /\ job[w].user \in authed'[job[w].conn]
    BY <1>2, <1>4, <2>1 DEF LoginAccepted
  <2>3. \A c \in Conns : currentUser'[c] # NoUser => currentUser'[c] \in authed'[c]
    BY <1>2, <1>4, <2>1, <2>2 DEF LoginAccepted, AuthInv
  <2>4. /\ UNCHANGED <<job, target, held, member, userMap, pushes>>
        /\ at' = [at EXCEPT ![w] = "adding"] /\ at[w] = "login"
    BY <1>4 DEF LoginAccepted
  <2>5. \A u \in Users : userMap'[u] # NoConn => u \in authed'[userMap'[u]]
    BY <1>2, <2>2, <2>4 DEF AuthInv
  <2>6. ASSUME NEW l \in Letters, NEW i \in 1 .. Len(pushes'[l])
        PROVE  l[2] \in authed'[pushes'[l][i]]
    BY <1>2, <2>2, <2>4 DEF AuthInv
  <2>7. ASSUME NEW v \in Workers
        PROVE  /\ at'[v] \in LoginPlaces \ {"login"} => job'[v].user \in authed'[job'[v].conn]
               /\ at'[v] = "forwarding" => member'[v] \in authed'[target'[v]]
    <3>1. PlaceOf(v)
      BY DEF Typed, PlaceInv
    <3>2. /\ at[v] \in LoginPlaces => job[v].conn \in Conns
          /\ at[v] = "forwarding" => target[v] \in Conns
      BY <3>1 DEF PlaceOf, LoginTask
    <3> QED
      BY <1>2, <2>2, <2>4, <3>2 DEF AuthInv
  <2> QED
    BY <2>3, <2>4, <2>5, <2>6, <2>7 DEF AuthInv
<1>5. CASE AddUser(w)
  <2>1. /\ job[w].conn \in Conns /\ job[w].user \in Users
        /\ job[w].user \in authed[job[w].conn]
    BY <1>1, <1>5 DEF PlaceOf, AddUser, LoginPlaces, LoginTask, AuthInv
  <2>2. /\ UNCHANGED <<job, target, held, member, currentUser, authed, pushes>>
        /\ at' = [at EXCEPT ![w] = "presenting"] /\ at[w] = "adding"
        /\ userMap' = [userMap EXCEPT ![job[w].user] = job[w].conn]
    BY <1>5 DEF AddUser
  <2>3. \A u \in Users : userMap'[u] # NoConn => u \in authed[userMap'[u]]
    BY <1>2, <2>1, <2>2 DEF AuthInv
  <2> QED
    BY <1>2, <2>2, <2>3 DEF AuthInv, LoginPlaces
<1>6. CASE GetAndClearOfflineMessages(w)
  <2>1. /\ UNCHANGED <<job, target, member, currentUser, userMap, authed, pushes>>
        /\ at' = [at EXCEPT ![w] = "pushing"] /\ at[w] = "fetching"
        /\ held' = [held EXCEPT ![w] = Waiting(job[w].user)]
    BY <1>6 DEF GetAndClearOfflineMessages
  <2>2. \A l \in held'[w] : l[2] = job[w].user
    BY <1>2, <2>1 DEF Waiting
  <2> QED
    BY <1>2, <2>1, <2>2 DEF AuthInv, LoginPlaces
<1>7. CASE PushOffline(w)
  <2>1. /\ job[w].conn \in Conns /\ job[w].user \in authed[job[w].conn]
        /\ \A l \in held[w] : l[2] = job[w].user
    BY <1>1, <1>7 DEF PlaceOf, PushOffline, LoginPlaces, LoginTask, AuthInv
  <2>2. PICK k \in held[w] :
          /\ pushes' = [pushes EXCEPT ![k] = Append(@, job[w].conn)]
          /\ \/ Done(w)
             \/ /\ held' = [held EXCEPT ![w] = held[w] \ {k}]
                /\ UNCHANGED <<at, job, target, todo, member>>
    BY <1>7 DEF PushOffline, Unsent
  <2>3. /\ Others(w) /\ UNCHANGED <<currentUser, userMap, authed>>
        /\ held'[w] \subseteq held[w] /\ (held'[w] # {} => job'[w] = job[w])
        /\ at'[w] # "forwarding"
        /\ at'[w] \in LoginPlaces \ {"login"} =>
             at[w] \in LoginPlaces \ {"login"} /\ job'[w] = job[w]
    <3>1. UNCHANGED <<currentUser, userMap, authed>> /\ at[w] = "pushing"
      BY <1>7 DEF PushOffline
    <3>2. CASE Done(w)
      BY <1>2, <3>1, <3>2 DEF Others, LoginPlaces, Typed, TypeOK
    <3>3. CASE /\ held' = [held EXCEPT ![w] = held[w] \ {k}]
               /\ UNCHANGED <<at, job, target, todo, member>>
      BY <1>2, <3>1, <3>3 DEF Others, LoginPlaces
    <3> QED
      BY <2>2, <3>2, <3>3
  <2>4. ASSUME NEW l \in Letters, NEW i \in 1 .. Len(pushes'[l])
        PROVE  l[2] \in authed[pushes'[l][i]]
    <3>1. CASE l = k
      <4>1. pushes'[l] = Append(pushes[l], job[w].conn) /\ pushes[l] \in Seq(Conns)
        BY <1>2, <2>2, <3>1
      <4>2. /\ Len(pushes'[l]) = Len(pushes[l]) + 1
            /\ \A j \in 1 .. Len(pushes[l]) : pushes'[l][j] = pushes[l][j]
            /\ pushes'[l][Len(pushes[l]) + 1] = job[w].conn
        BY <2>1, <4>1, AppendProperties
      <4>3. CASE i \in 1 .. Len(pushes[l])
        BY <4>2, <4>3 DEF AuthInv
      <4>4. CASE i = Len(pushes[l]) + 1
        BY <2>1, <2>2, <3>1, <4>2, <4>4
      <4> QED
        BY <4>1, <4>2, <4>3, <4>4
    <3>2. CASE l # k
      BY <1>2, <2>2, <3>2 DEF AuthInv
    <3> QED
      BY <3>1, <3>2
  <2> QED
    BY <2>3, <2>4 DEF AuthInv, Others
<1>8. ASSUME NEW u \in Users, Route(w, u), UNCHANGED <<job, held, currentUser, userMap, authed, pushes>>,
             held[w] = {}
      PROVE  AuthInv'
  <2>1. Registered(u) # NoConn => u \in authed[Registered(u)]
    BY DEF Registered, AuthInv
  <2> DEFINE c == Registered(u)
  <2>2. /\ target' = [target EXCEPT ![w] = c] /\ member' = [member EXCEPT ![w] = u]
        /\ at' = [at EXCEPT ![w] = IF c = NoConn THEN "storing" ELSE "forwarding"]
    BY <1>8 DEF Route
  <2> HIDE DEF c
  <2>3. /\ at'[w] = "forwarding" => member'[w] \in authed[target'[w]]
        /\ at'[w] \notin LoginPlaces
    BY <1>2, <2>1, <2>2 DEF c, LoginPlaces
  <2> QED
    BY <1>2, <1>8, <2>2, <2>3 DEF AuthInv
<1>9. CASE LookUp(w)
  <2>1. To[job[w].msg] \in Users /\ held[w] = {}
    BY <1>1, <1>9, RequestsAssumption DEF PlaceOf, LookUp, ChatTask
  <2> QED
    BY <1>8, <1>9, <2>1 DEF LookUp
<1>10. CASE LookUpMember(w)
  <2>1. PICK u \in todo[w] : Route(w, u)
    BY <1>10 DEF LookUpMember
  <2>2. u \in Users /\ held[w] = {}
    BY <1>1, <1>2, <1>10 DEF PlaceOf, LookUpMember
  <2> QED
    BY <1>8, <1>10, <2>1, <2>2 DEF LookUpMember
<1>11. CASE Forward(w)
  <2>1. /\ target[w] \in Conns /\ Letter(w) \in Letters
        /\ Letter(w)[2] \in authed[target[w]] /\ held[w] = {}
    BY <1>1, <1>11 DEF PlaceOf, Forward, Letter, Letters, AuthInv, ChatTask, GroupTask, Requests
  <2>2. AfterLetter(w, "accepted")
    BY <1>11 DEF Forward
  <2>3. Others(w) /\ at'[w] \in {"accepted", "spreading"} /\ held'[w] = {}
    BY <1>2, <2>1, <2>2 DEF AfterLetter, Others
  <2>4. /\ UNCHANGED <<currentUser, userMap, authed>>
        /\ pushes' = [pushes EXCEPT ![Letter(w)] = Append(@, target[w])]
    BY <1>11 DEF Forward
  <2>5. ASSUME NEW l \in Letters, NEW i \in 1 .. Len(pushes'[l])
        PROVE  l[2] \in authed[pushes'[l][i]]
    <3>1. CASE l = Letter(w)
      <4>1. pushes'[l] = Append(pushes[l], target[w]) /\ pushes[l] \in Seq(Conns)
        BY <1>2, <2>4, <3>1
      <4>2. /\ Len(pushes'[l]) = Len(pushes[l]) + 1
            /\ \A j \in 1 .. Len(pushes[l]) : pushes'[l][j] = pushes[l][j]
            /\ pushes'[l][Len(pushes[l]) + 1] = target[w]
        BY <2>1, <4>1, AppendProperties
      <4>3. CASE i \in 1 .. Len(pushes[l])
        BY <4>2, <4>3 DEF AuthInv
      <4>4. CASE i = Len(pushes[l]) + 1
        BY <2>1, <3>1, <4>2, <4>4
      <4> QED
        BY <4>1, <4>2, <4>3, <4>4
    <3>2. CASE l # Letter(w)
      BY <1>2, <2>4, <3>2 DEF AuthInv
    <3> QED
      BY <3>1, <3>2
  <2> QED
    BY <2>3, <2>4, <2>5 DEF AuthInv, Others, LoginPlaces
<1> QED
  BY <1>3, <1>4, <1>5, <1>6, <1>7, <1>9, <1>10, <1>11
     DEF WorkerStep, LoginStep, ChatStep, GroupStep

(* No other step touches what connections are authenticated for.           *)
LEMMA AuthStep == Typed /\ AuthInv /\ [Next]_vars => AuthInv'
<1> SUFFICES ASSUME Typed, AuthInv, [Next]_vars PROVE AuthInv'
  OBVIOUS
<1>1. CASE Quiet
  BY <1>1 DEF Quiet, work, AuthInv
<1>2. ASSUME NEW c \in Conns, \/ \E u \in Users : ReceiveLogin(c, u)
                             \/ \E m \in Requests : ReceiveChat(c, m)
      PROVE  AuthInv'
  BY <1>2 DEF ReceiveLogin, ReceiveChat, Receive, history, errors, ends, AuthInv
<1>3. CASE Crash
  BY <1>3 DEF Crash, AuthInv, LoginPlaces
<1> QED
  BY <1>1, <1>2, <1>3, AuthWorker, OutsideIsQuiet

-----------------------------------------------------------------------------
(* What is accounted for stays so.                                         *)

(* A letter that is accounted for stays so: from the table it goes to the  *)
(* hands of a login, from there to a connection, or it is lost with them.  *)
LEMMA AccountedStays ==
  ASSUME Typed, [Next]_vars, NEW l \in Letters, asked[l[1]] # NoConn, Accounted(l)
  PROVE  Accounted(l)' /\ asked'[l[1]] = asked[l[1]]
<1>1. /\ l[1] \in Requests
      /\ pushes \in [Letters -> Seq(Conns)] /\ held \in [Workers -> SUBSET Letters]
      /\ asked \in [Requests -> Conns \union {NoConn}] /\ authed \in [Conns -> SUBSET Users]
      /\ asked[l[1]] \in Conns
  BY DEF Letters, Typed, TypeOK
<1>2. CASE /\ asked'[l[1]] = asked[l[1]] /\ (pushes[l] # <<>> => pushes'[l] # <<>>)
           /\ rows \subseteq rows' /\ unsaved \subseteq unsaved' /\ lost \subseteq lost'
           /\ \A w \in Workers : held[w] \subseteq held'[w]
           /\ authed[asked[l[1]]] \subseteq authed'[asked[l[1]]]
  BY <1>1, <1>2 DEF Accounted, PassedOver
<1>3. CASE Quiet
  BY <1>2, <1>3 DEF Quiet, work
<1>4. ASSUME NEW c \in Conns, \/ \E v \in Users : ReceiveLogin(c, v)
                             \/ \E n \in Requests : ReceiveChat(c, n)
      PROVE  Accounted(l)' /\ asked'[l[1]] = asked[l[1]]
  <2>1. UNCHANGED <<held, pushes, rows, unsaved, authed, lost>> /\ asked'[l[1]] = asked[l[1]]
    BY <1>1, <1>4 DEF ReceiveLogin, ReceiveChat, Receive, history, errors, ends
  <2> QED
    BY <1>2, <2>1
<1>5. ASSUME NEW w \in Workers, WorkerStep(w) PROVE Accounted(l)' /\ asked'[l[1]] = asked[l[1]]
  <2> USE DEF Goto, Done, Continue, server, inputs, history, errors, ends
  <2>1. PlaceOf(w)
    BY DEF Typed, PlaceInv
  <2>2. CASE UNCHANGED <<held, pushes, rows, unsaved, authed, asked, lost>>
    BY <1>2, <2>2
  <2>3. CASE TakeTask(w) \/ AddUser(w) \/ SetUserOnline(w) \/ Greet(w)
               \/ LookUp(w) \/ GetGroupMembers(w) \/ SkipSelf(w) \/ LookUpMember(w)
    BY <2>2, <2>3 DEF TakeTask, AddUser, SetUserOnline, Greet, LookUp, GetGroupMembers, SkipSelf,
                LookUpMember, Route
  <2>4. CASE LoginRefused(w) \/ NothingFetched(w) \/ NotInGroup(w) \/ AnswerGroup(w)
               \/ AnswerChat(w)
    <3>1. held[w] = {} /\ held' = [held EXCEPT ![w] = {}]
          /\ UNCHANGED <<pushes, rows, unsaved, authed, asked, lost>>
      BY <2>1, <2>4 DEF PlaceOf, LoginRefused, NothingFetched, NotInGroup, AnswerGroup,
                        AnswerChat, Answers
    <3> QED
      BY <1>1, <1>2, <3>1
  <2>5. CASE LoginAccepted(w)
    <3>1. /\ UNCHANGED <<held, pushes, rows, unsaved, asked, lost>>
          /\ authed' = [authed EXCEPT ![job[w].conn] = @ \union {job[w].user}]
      BY <2>5 DEF LoginAccepted
    <3>2. authed[asked[l[1]]] \subseteq authed'[asked[l[1]]]
      BY <1>1, <3>1
    <3> QED
      BY <1>2, <3>1, <3>2
  <2>6. CASE GetAndClearOfflineMessages(w)
    <3>1. /\ UNCHANGED <<pushes, unsaved, authed, asked, lost>> /\ held[w] = {}
          /\ held' = [held EXCEPT ![w] = Waiting(job[w].user)]
          /\ rows \ Waiting(job[w].user) \subseteq rows'
      BY <2>1, <2>6 DEF GetAndClearOfflineMessages, RowsAfterTake, PlaceOf
    <3>2. /\ l \in rows => l \in rows' \/ l \in held'[w]
          /\ \A v \in Workers : held[v] \subseteq held'[v]
      BY <1>1, <3>1
    <3> QED
      BY <1>1, <3>1, <3>2 DEF Accounted, PassedOver
  <2>7. CASE PushOffline(w)
    <3>1. PICK k \in held[w] :
            /\ pushes' = [pushes EXCEPT ![k] = Append(@, job[w].conn)]
            /\ held' = [held EXCEPT ![w] = held[w] \ {k}]
      BY <2>7 DEF PushOffline, Unsent
    <3>2. UNCHANGED <<rows, unsaved, authed, asked, lost>>
      BY <2>7 DEF PushOffline
    <3>3. job[w].conn \in Conns /\ k \in Letters
      BY <1>1, <2>1, <2>7 DEF PushOffline, PlaceOf, LoginPlaces, LoginTask
    <3>4. pushes'[k] # <<>>
      <4>1. Append(pushes[k], job[w].conn) # <<>>
        BY <1>1, <3>3, AppendProperties
      <4> QED
        BY <1>1, <3>1, <3>3, <4>1
    <3>5. CASE l = k
      BY <3>4, <3>5, <3>2, <1>1 DEF Accounted
    <3>6. CASE l # k
      <4>1. pushes'[l] = pushes[l] /\ \A v \in Workers : l \in held[v] => l \in held'[v]
        BY <1>1, <3>1, <3>6
      <4> QED
        BY <1>1, <3>2, <4>1 DEF Accounted, PassedOver
    <3> QED
      BY <3>5, <3>6
  <2>8. CASE Forward(w) \/ Store(w)
    <3>1. held' = held
      BY <2>8 DEF Forward, Store, AfterLetter
    <3>2. /\ UNCHANGED <<asked, authed, lost>> /\ rows \subseteq rows' /\ unsaved \subseteq unsaved'
      BY <2>8 DEF Forward, Store
    <3>3. pushes[l] # <<>> => pushes'[l] # <<>>
      <4>1. CASE Forward(w)
        <5>0. target[w] \in Conns /\ pushes[l] \in Seq(Conns)
          BY <1>1, <2>1, <4>1 DEF PlaceOf, Forward
        <5>1. Append(pushes[l], target[w]) # <<>>
          BY <5>0, AppendProperties
        <5>2. pushes' = [pushes EXCEPT ![Letter(w)] = Append(@, target[w])]
          BY <4>1 DEF Forward
        <5>3. Letter(w) = l => pushes'[l] = Append(pushes[l], target[w])
          BY <1>1, <5>2
        <5>4. Letter(w) # l => pushes'[l] = pushes[l]
          BY <1>1, <5>2
        <5> QED
          BY <5>1, <5>3, <5>4
      <4>2. CASE Store(w)
        BY <4>2 DEF Store
      <4> QED
        BY <2>8, <4>1, <4>2
    <3> QED
      BY <1>2, <3>1, <3>2, <3>3
  <2> QED
    BY <1>5, <2>3, <2>4, <2>5, <2>6, <2>7, <2>8 DEF WorkerStep, LoginStep, ChatStep, GroupStep
<1>6. CASE Crash
  <2>1. /\ UNCHANGED <<asked, pushes, rows, unsaved, authed>>
        /\ lost' = lost \union UNION {held[w] : w \in Workers}
    BY <1>6 DEF Crash, errors
  <2>2. l \in lost \/ (\E w \in Workers : l \in held[w]) => l \in lost'
    BY <2>1
  <2> QED
    BY <1>1, <2>1, <2>2 DEF Accounted, PassedOver
<1> QED
  BY <1>3, <1>4, <1>5, <1>6, OutsideIsQuiet

\* The letter a worker delivers is accounted for, unless a chat's insert
\* failed.
LEMMA DeliveredAccounted ==
  ASSUME Typed, NEW w \in Workers, NEW l \in Letters, l = Letter(w), Forward(w) \/ Store(w),
         Store(w) /\ job[w].cmd = "chat" => l \in rows'
  PROVE  Accounted(l)'
<1>1. l[1] = job[w].msg /\ pushes \in [Letters -> Seq(Conns)] /\ PlaceOf(w)
  BY DEF Letter, Typed, TypeOK, PlaceInv
<1>2. CASE Forward(w)
  <2>0. target[w] \in Conns /\ pushes[l] \in Seq(Conns)
    BY <1>1, <1>2 DEF PlaceOf, Forward
  <2>1. Append(pushes[l], target[w]) # <<>>
    BY <2>0, AppendProperties
  <2>2. pushes' = [pushes EXCEPT ![l] = Append(@, target[w])]
    BY <1>1, <1>2 DEF Forward
  <2>3. pushes'[l] # <<>>
    BY <1>1, <2>1, <2>2
  <2> QED
    BY <2>3 DEF Accounted
<1>3. CASE Store(w)
  <2>1. l \in rows' \/ l \in unsaved'
    BY <1>1, <1>3 DEF Store
  <2>2. CASE job[w].cmd = "chat"
    BY <1>3, <2>2 DEF Accounted
  <2>3. CASE job[w].cmd # "chat"
    <3>1. l[1] \in GroupChats
      BY <1>1, <1>3, <2>3 DEF PlaceOf, Store, ChatTask, GroupTask
    <3> QED
      BY <2>1, <3>1 DEF Accounted, PassedOver
  <2> QED
    BY <2>2, <2>3
<1> QED
  BY <1>2, <1>3

(* Served members and answered requests stay accounted for, and a request  *)
(* is answered with 200 only when all its letters are.                     *)
LEMMA AckStep ==
  Typed /\ OnceInv /\ AuthInv /\ AckInv /\ [Next]_vars => AckInv'
<1> SUFFICES ASSUME Typed, OnceInv, AuthInv, AckInv, [Next]_vars PROVE AckInv'
  OBVIOUS
<1> DEFINE Serving(w) == at[w] \in {"spreading", "forwarding", "storing"} /\ job[w].cmd = "group_chat"
           Served(w) == \A u \in MembersOf[job[w].msg] :
                          u \in ToServe(w) \/ Accounted(<<job[w].msg, u>>)
           Ready(w) == at[w] = "accepted" => Accounted(<<job[w].msg, To[job[w].msg]>>)
           Settled(m) == acks[m] = <<"200">> => \A u \in Receivers(m) : Accounted(<<m, u>>)
<1>1. /\ \A m \in Requests : Receivers(m) \subseteq Users
      /\ \A m \in Requests : \A u \in Users : <<m, u>> \in Letters
      /\ <<"200">> # <<>> /\ <<"403">> # <<"200">> /\ <<"500">> # <<"200">>
  BY RequestsAssumption DEF Receivers, Letters, Requests
<1>2. ASSUME NEW m \in Requests, NEW u \in Users, asked[m] # NoConn, Accounted(<<m, u>>)
      PROVE  Accounted(<<m, u>>)'
  <2>1. <<m, u>> \in Letters /\ <<m, u>>[1] = m
    BY <1>1
  <2> QED
    BY <1>2, <2>1, AccountedStays
\* A chat that is to be answered.
<1>12. ASSUME NEW w \in Workers, at[w] \in {"accepted", "refused"}
       PROVE  /\ job[w].msg \in Requests /\ To[job[w].msg] \in Users
              /\ asked[job[w].msg] # NoConn /\ job[w] # NoTask
              /\ Receivers(job[w].msg) = {To[job[w].msg]}
  <2>1. PlaceOf(w)
    BY DEF Typed, PlaceInv
  <2>2. job[w] \in ChatTask /\ job[w] # NoTask
    BY <1>12, <2>1, NoneAssumption DEF PlaceOf, Task
  <2> QED
    BY <2>2, RequestsAssumption, NoneAssumption DEF ChatTask, Requests, OnceInv, Handling, Receivers
\* What a worker has in hand.
<1>3. ASSUME NEW w \in Workers, Serving(w)
      PROVE  /\ job[w].msg \in GroupChats /\ job[w].msg \in Requests /\ job[w] # NoTask
             /\ asked[job[w].msg] = job[w].conn /\ job[w].conn \in Conns
             /\ MembersOf[job[w].msg] \subseteq Users
  <2>1. PlaceOf(w)
    BY DEF Typed, PlaceInv
  <2>2. job[w] \in GroupTask /\ job[w] # NoTask
    BY <1>3, <2>1, NoneAssumption DEF PlaceOf, ChatTask, Task
  <2> QED
    BY <2>2, RequestsAssumption DEF GroupTask, Requests, OnceInv, Handling
\* A worker that does not move.
<1>4. ASSUME NEW w \in Workers, at'[w] = at[w], job'[w] = job[w], todo'[w] = todo[w],
             member'[w] = member[w]
      PROVE  (Serving(w)' => Served(w)') /\ Ready(w)'
  <2>1. (Serving(w) => Served(w)) /\ Ready(w)
    BY DEF AckInv
  <2>2. ToServe(w)' = ToServe(w)
    BY <1>4 DEF ToServe
  <2>3. NoConn \notin Conns
    BY NoneAssumption
  <2>4. Serving(w)' => Served(w)'
    BY <1>2, <1>3, <1>4, <2>1, <2>2, <2>3
  <2>5. Ready(w)'
    <3> SUFFICES ASSUME at[w] = "accepted" PROVE Accounted(<<job[w].msg, To[job[w].msg]>>)'
      BY <1>4
    <3>1. PICK n \in Requests, u \in Users : n = job[w].msg /\ u = To[n] /\ asked[n] # NoConn
      BY <1>12
    <3>2. Accounted(<<n, u>>)
      BY <2>1, <3>1
    <3>3. Accounted(<<n, u>>)'
      BY <1>2, <3>1, <3>2
    <3>4. n = job'[w].msg /\ u = To[job'[w].msg]
      BY <1>4, <3>1
    <3> QED
      BY <3>3, <3>4
  <2> QED
    BY <2>4, <2>5
\* A request that is not answered now.
<1>5. ASSUME NEW m \in Requests, acks'[m] = acks[m] PROVE Settled(m)'
  <2> SUFFICES ASSUME acks[m] = <<"200">>, NEW u \in Receivers(m) PROVE Accounted(<<m, u>>)'
    BY <1>5 DEF Receivers
  <2>1. asked[m] # NoConn /\ Accounted(<<m, u>>)
    BY <1>1 DEF AckInv, AckedIsAccountedFor, OnceInv
  <2> QED
    BY <1>1, <1>2, <2>1
<1>6. /\ \A m \in Requests : Settled(m)'
      /\ \A w \in Workers : (Serving(w)' => Served(w)') /\ Ready(w)'
      => AckInv'
  BY DEF AckInv, AckedIsAccountedFor, Receivers
<1> HIDE DEF Serving, Served, Ready, Settled
<1>7. CASE Quiet
  BY <1>4, <1>5, <1>6, <1>7 DEF Quiet, work
<1>8. ASSUME NEW c \in Conns, \/ \E u \in Users : ReceiveLogin(c, u)
                             \/ \E m \in Requests : ReceiveChat(c, m)
      PROVE  AckInv'
  <2>1. UNCHANGED <<at, job, todo, member, acks>>
    BY <1>8 DEF ReceiveLogin, ReceiveChat, Receive, history, errors, ends
  <2> QED
    BY <1>4, <1>5, <1>6, <2>1
<1>9. ASSUME NEW w \in Workers, WorkerStep(w), Serving(w)' => Served(w)', Ready(w)',
             \A m \in Requests : Handling(w, m) => Settled(m)', Others(w)
      PROVE  AckInv'
  <2>1. \A m \in Requests : acks'[m] = acks[m] \/ Handling(w, m)
    <3>1. CASE TakeTask(w)
      BY <3>1 DEF TakeTask, history
    <3> QED
      BY <1>9, <3>1, WorkerKinds DEF Finish, Handling
  <2>2. \A m \in Requests : Settled(m)'
    BY <1>5, <1>9, <2>1
  <2>3. \A v \in Workers : (Serving(v)' => Served(v)') /\ Ready(v)'
    BY <1>4, <1>9 DEF Others
  <2> QED
    BY <1>6, <2>2, <2>3
<1>10. ASSUME NEW w \in Workers, WorkerStep(w)
       PROVE  /\ Others(w)
              /\ (Serving(w)' => Served(w)') /\ Ready(w)'
              /\ \A m \in Requests : Handling(w, m) => Settled(m)'
  <2> USE DEF Goto, Done, Continue, server, inputs, history, errors, ends
  <2>1. PlaceOf(w)
    BY DEF Typed, PlaceInv
  <2>2. /\ DOMAIN at = Workers /\ DOMAIN job = Workers /\ DOMAIN target = Workers
        /\ DOMAIN held = Workers /\ DOMAIN todo = Workers /\ DOMAIN member = Workers
        /\ todo[w] \subseteq Users /\ acks \in [Requests -> Seq({"200", "403", "500"})]
    BY DEF Typed, TypeOK
  \* Steps after which the worker serves nobody, and that answer nothing.
  <2>3. ASSUME Others(w), UNCHANGED acks, ~Serving(w)', at'[w] # "accepted"
        PROVE  /\ (Serving(w)' => Served(w)') /\ Ready(w)'
               /\ \A m \in Requests : Handling(w, m) => Settled(m)'
    BY <1>5, <2>3 DEF Ready
  <2>4. CASE TakeTask(w)
    <3>1. Others(w) /\ UNCHANGED acks /\ at'[w] \in {"login", "chat", "checking"}
      <4>1. Head(tasks) \in Task
        BY <2>4, HeadTailProperties DEF TakeTask, Typed, TypeOK
      <4>2. Routes[Head(tasks).cmd] \in {"login", "chat", "checking"}
        BY <4>1 DEF Routes, Task, LoginTask, ChatTask, GroupTask
      <4> QED
        BY <2>2, <2>4, <4>2 DEF TakeTask, Others
    <3> QED
      BY <2>3, <3>1 DEF Serving
  <2>5. CASE LoginStep(w)
    <3>1. UNCHANGED acks
      BY <2>5 DEF LoginStep, LoginRefused, LoginAccepted, AddUser, SetUserOnline, Greet,
                  GetAndClearOfflineMessages, NothingFetched, PushOffline
    <3>2. Others(w) /\ at'[w] \in LoginPlaces \union {"idle"}
      BY <2>2, <2>5 DEF LoginStep, LoginRefused, LoginAccepted, AddUser, SetUserOnline, Greet,
                        GetAndClearOfflineMessages, NothingFetched, PushOffline, Others, LoginPlaces
    <3> QED
      BY <2>3, <3>1, <3>2 DEF Serving, LoginPlaces
  <2>6. CASE LookUp(w)
    <3>1. /\ Others(w) /\ UNCHANGED <<acks, job>> /\ job[w] \in ChatTask
          /\ at'[w] \in {"forwarding", "storing"}
      BY <2>1, <2>2, <2>6 DEF LookUp, Route, Others, PlaceOf
    <3> QED
      BY <2>3, <3>1 DEF Serving, ChatTask
  <2>7. CASE NotInGroup(w)
    <3>1. Others(w) /\ at'[w] = "idle"
      BY <2>2, <2>7 DEF NotInGroup, Others
    <3>2. ASSUME NEW m \in Requests, Handling(w, m) PROVE acks'[m] = <<"403">>
      <4>1. acks[m] = <<>> /\ m = job[w].msg
        BY <3>2 DEF OnceInv, Handling
      <4>2. acks' = [acks EXCEPT ![m] = @ \o <<"403">>]
        BY <2>7, <4>1 DEF NotInGroup, Answer, Replies
      <4>3. acks'[m] = <<>> \o <<"403">>
        BY <2>2, <4>1, <4>2
      <4> QED
        BY <4>3
    <3> QED
      BY <1>1, <3>1, <3>2 DEF Serving, Ready, Settled
  <2>8. CASE AnswerGroup(w)
    <3>1. Others(w) /\ at'[w] = "idle"
      BY <2>2, <2>8 DEF AnswerGroup, Others
    <3>2. Serving(w) /\ ToServe(w) = {} /\ Served(w)
      BY <2>1, <2>8 DEF AnswerGroup, PlaceOf, GroupTask, Serving, Served, ToServe, AckInv
    <3>3. ASSUME NEW m \in Requests, Handling(w, m) PROVE Settled(m)'
      <4>1. /\ m \in GroupChats /\ m = job[w].msg /\ Receivers(m) = MembersOf[m]
            /\ asked[m] # NoConn /\ Receivers(m) \subseteq Users
        BY <1>3, <3>2, <3>3, NoneAssumption, RequestsAssumption DEF Handling, Receivers
      <4>2. \A u \in Receivers(m) : Accounted(<<m, u>>)
        BY <3>2, <4>1 DEF Served
      <4>3. \A u \in Receivers(m) : Accounted(<<m, u>>)'
        BY <1>2, <4>1, <4>2
      <4> QED
        BY <4>3 DEF Settled, Receivers
    <3> QED
      BY <3>1, <3>3 DEF Serving, Ready
  <2>9. CASE GetGroupMembers(w)
    <3>1. /\ Others(w) /\ UNCHANGED <<acks, job>> /\ at'[w] = "spreading"
          /\ todo'[w] = MembersOf[job[w].msg]
      BY <2>2, <2>9 DEF GetGroupMembers, Others
    <3>2. Served(w)'
      BY <3>1 DEF Served, ToServe
    <3> QED
      BY <1>5, <3>1, <3>2 DEF Ready
  <2>10. CASE SkipSelf(w)
    <3>1. PICK u \in todo[w] : IsSelf(w, u) /\ todo' = [todo EXCEPT ![w] = @ \ {u}]
      BY <2>10 DEF SkipSelf
    <3>2. /\ Others(w) /\ UNCHANGED <<acks, job, at, member, asked, authed>>
          /\ at[w] = "spreading" /\ todo'[w] = todo[w] \ {u}
      BY <2>2, <2>10, <3>1 DEF SkipSelf, Others
    <3>3. Serving(w) /\ Served(w)
      BY <2>1, <2>10 DEF SkipSelf, PlaceOf, GroupTask, Serving, Served, AckInv
    <3>4. PICK n \in GroupChats : n = job[w].msg
      BY <1>3, <3>3
    <3>5. /\ n \in GroupChats /\ n \in Requests /\ asked[n] # NoConn /\ MembersOf[n] \subseteq Users
          /\ u \in authed[asked[n]]
      <4>1. u \in Users /\ u = currentUser[job[w].conn]
        BY <2>2, <3>1 DEF IsSelf
      <4> QED
        BY <1>3, <3>3, <3>4, <4>1, NoneAssumption DEF AuthInv
    <3>6. ASSUME NEW v \in MembersOf[n], v \notin todo'[w] PROVE Accounted(<<n, v>>)'
      <4>1. CASE v = u
        BY <3>2, <3>5, <4>1 DEF Accounted, PassedOver
      <4>2. CASE v # u
        <5>1. Accounted(<<n, v>>)
          BY <3>2, <3>3, <3>6, <3>4, <4>2 DEF Served, ToServe
        <5> QED
          BY <1>2, <3>5, <5>1
      <4> QED
        BY <4>1, <4>2
    <3>7. Served(w)'
      BY <3>2, <3>6, <3>4 DEF Served, ToServe
    <3> QED
      BY <1>5, <3>2, <3>7 DEF Ready
  <2>11. CASE LookUpMember(w)
    <3>1. PICK u \in todo[w] : todo' = [todo EXCEPT ![w] = @ \ {u}] /\ Route(w, u)
      BY <2>11 DEF LookUpMember
    <3>2. /\ Others(w) /\ UNCHANGED <<acks, job>> /\ at[w] = "spreading"
          /\ at'[w] \in {"forwarding", "storing"} /\ todo'[w] = todo[w] \ {u} /\ member'[w] = u
      BY <2>2, <2>11, <3>1 DEF LookUpMember, Route, Others
    <3>3. Serving(w) /\ Served(w) /\ ToServe(w)' = ToServe(w)
      BY <2>1, <2>11, <3>1, <3>2 DEF LookUpMember, PlaceOf, GroupTask, Serving, Served, ToServe, AckInv
    <3>4. NoConn \notin Conns
      BY NoneAssumption
    <3>5. Served(w)'
      BY <1>2, <1>3, <3>2, <3>3, <3>4 DEF Served
    <3> QED
      BY <1>5, <3>2, <3>5 DEF Ready
  <2>12. CASE Forward(w) \/ Store(w)
    <3>1. PICK outcome \in {"accepted", "refused"} :
            /\ AfterLetter(w, outcome)
            /\ Store(w) /\ outcome = "accepted" => Letter(w) \in rows'
      BY <2>12 DEF Forward, Store, Outcome
    <3>2. /\ job[w].msg \in Requests /\ member[w] \in Users
          /\ at[w] \in {"forwarding", "storing"} /\ job[w] # NoTask
      BY <2>1, <2>12, NoneAssumption
         DEF Forward, Store, PlaceOf, ChatTask, GroupTask, Requests, Task
    <3>3. PICK n \in Requests, u \in Users : n = job[w].msg /\ u = member[w]
      BY <3>2
    <3>4. <<n, u>> = Letter(w) /\ <<n, u>> \in Letters
      BY <1>1, <3>3 DEF Letter
    <3>5. Store(w) /\ job[w].cmd = "chat" /\ outcome = "accepted" => Accounted(<<n, u>>)'
      BY <3>1, <3>4, DeliveredAccounted
    <3>6. (Forward(w) \/ job[w].cmd # "chat") => Accounted(<<n, u>>)'
      <4>1. Forward(w) => ~Store(w)
        BY DEF Forward, Store
      <4> QED
        BY <2>12, <3>4, <4>1, DeliveredAccounted
    <3>9. /\ Others(w) /\ UNCHANGED <<acks, job, todo>>
          /\ at'[w] = IF job[w].cmd = "chat" THEN outcome ELSE "spreading"
      <4>1. UNCHANGED acks
        BY <2>12 DEF Forward, Store
      <4> QED
        BY <2>2, <3>1, <4>1 DEF AfterLetter, Others
    <3>7. CASE job[w].cmd = "chat"
      <4>1. u = To[n]
        BY <2>1, <3>2, <3>3, <3>7 DEF PlaceOf, GroupTask
      <4>2. at'[w] = "accepted" => Accounted(<<n, u>>)'
        BY <2>12, <3>5, <3>6, <3>7, <3>9
      <4>3. Ready(w)'
        BY <3>3, <3>9, <4>1, <4>2 DEF Ready
      <4>4. ~Serving(w)'
        BY <3>7, <3>9 DEF Serving
      <4> QED
        BY <1>5, <3>9, <4>3, <4>4
    <3>8. CASE job[w].cmd = "group_chat"
      <4>1. UNCHANGED acks
        BY <3>9
      <4>2. /\ Others(w) /\ job' = job /\ at'[w] = "spreading" /\ todo' = todo
        BY <3>8, <3>9
      <4>3. Serving(w) /\ Served(w) /\ ToServe(w) = todo[w] \union {u} /\ ToServe(w)' = todo[w]
        BY <3>8, <3>2, <3>3, <4>2 DEF Serving, Served, ToServe, AckInv
      <4>4. /\ asked[n] # NoConn /\ MembersOf[n] \subseteq Users
        BY <1>3, <3>3, <4>3, NoneAssumption
      <4>5. ASSUME NEW v \in MembersOf[n], v \notin todo[w] PROVE Accounted(<<n, v>>)'
        <5>1. CASE v = u
          BY <3>6, <3>8, <5>1
        <5>2. CASE v # u
          <6>1. Accounted(<<n, v>>)
            BY <3>3, <4>3, <4>5, <5>2 DEF Served
          <6> QED
            BY <1>2, <4>4, <6>1
        <5> QED
          BY <5>1, <5>2
      <4>6. Served(w)'
        BY <3>3, <4>2, <4>3, <4>5 DEF Served
      <4> QED
        BY <1>5, <4>1, <4>2, <4>6 DEF Ready
    <3>10. job[w].cmd \in {"chat", "group_chat"}
      BY <2>1, <3>2 DEF PlaceOf, ChatTask, GroupTask
    <3> QED
      BY <3>7, <3>8, <3>10
  <2>13. CASE AnswerChat(w)
    <3>1. at[w] \in {"accepted", "refused"} /\ Done(w)
      BY <2>13 DEF AnswerChat, Answers
    <3>2. Others(w) /\ at'[w] = "idle"
      BY <2>2, <3>1 DEF Others
    <3>3. PICK n \in Requests, u \in Users :
            n = job[w].msg /\ u = To[n] /\ asked[n] # NoConn /\ Receivers(n) = {u}
      BY <1>12, <3>1
    <3>4. acks' = [acks EXCEPT ![n] = @ \o <<Answers[at[w]]>>]
      BY <2>13, <3>3 DEF AnswerChat, Answer, Replies
    <3>5. acks[n] = <<>>
      BY <1>12, <3>1, <3>3 DEF OnceInv, Handling
    <3>6. acks'[n] = <<Answers[at[w]]>>
      BY <2>2, <3>4, <3>5
    <3>7. CASE at[w] = "accepted"
      <4>1. Accounted(<<n, u>>)
        BY <3>3, <3>7 DEF AckInv
      <4>2. Accounted(<<n, u>>)'
        BY <1>2, <3>3, <4>1
      <4>3. Settled(n)'
        BY <3>3, <4>2 DEF Settled, Receivers
      <4> QED
        BY <3>2, <3>3, <4>3 DEF Serving, Ready, Handling
    <3>8. CASE at[w] = "refused"
      <4>1. acks'[n] = <<"500">>
        BY <3>6, <3>8 DEF Answers
      <4>2. Settled(n)'
        BY <1>1, <4>1 DEF Settled
      <4> QED
        BY <3>2, <3>3, <4>2 DEF Serving, Ready, Handling
    <3> QED
      BY <3>1, <3>7, <3>8
  <2> QED
    BY <1>10, <2>4, <2>5, <2>6, <2>7, <2>8, <2>9, <2>10, <2>11, <2>12, <2>13
       DEF WorkerStep, ChatStep, GroupStep
<1>11. CASE Crash
  <2>1. UNCHANGED acks /\ \A w \in Workers : at'[w] = "idle"
    BY <1>11 DEF Crash
  <2>2. \A w \in Workers : ~Serving(w)' /\ Ready(w)'
    BY <2>1 DEF Serving, Ready
  <2> QED
    BY <1>5, <1>6, <2>1, <2>2
<1> QED
  BY <1>7, <1>8, <1>9, <1>10, <1>11, OutsideIsQuiet

-----------------------------------------------------------------------------
(* The invariant, and the properties that follow from it.                  *)

(* The invariant holds before the first connection.                        *)
LEMMA SessionInit == Init => SessionInv
<1> SUFFICES ASSUME Init PROVE SessionInv
  OBVIOUS
<1>1. Typed
  BY TypedInit
<1>2. OnceInv
  BY DEF Init, OnceInv, Queued, Handling
<1>3. LetterInv
  BY DEF Init, LetterInv, Untouched, Letters
<1>4. AuthInv
  BY DEF Init, AuthInv, LoginPlaces
<1>5. AckInv
  <2>1. <<>> # <<"200">>
    OBVIOUS
  <2> QED
    BY <2>1 DEF Init, AckInv, AckedIsAccountedFor, Requests
<1> QED
  BY <1>1, <1>2, <1>3, <1>4, <1>5 DEF SessionInv, Typed

(* The inductive invariant: every request is in one place; so is every     *)
(* letter that no failed DELETE has kept (MySQLManager returns such        *)
(* letters and may leave their rows); a letter's turn to be delivered      *)
(* comes once; it is on its way to its receiver; and what is served or     *)
(* answered is accounted for.                                              *)
THEOREM SessionInvariant == Spec => []SessionInv
<1>1. SessionInv /\ [Next]_vars => SessionInv'
  <2> SUFFICES ASSUME SessionInv, [Next]_vars PROVE SessionInv'
    OBVIOUS
  <2>1. Typed'
    <3>1. CASE UNCHANGED vars
      BY <3>1 DEF SessionInv, Typed, TypeOK, PlaceInv, PlaceOf, LoopInv,
                  vars, server, work, inputs, history, errors, ends
    <3> QED
      BY <3>1, TypedOutside, TypedCrash, TypedWorker DEF SessionInv, Typed, Next
  <2>2. OnceInv'
    BY OnceStep DEF SessionInv, Typed
  <2>3. LetterInv'
    BY LetterStep DEF SessionInv, Typed
  <2>4. AuthInv'
    BY AuthStep DEF SessionInv, Typed
  <2>5. AckInv'
    BY AckStep DEF SessionInv, Typed
  <2> QED
    BY <2>1, <2>2, <2>3, <2>4, <2>5 DEF SessionInv, Typed
<1> QED
  BY <1>1, SessionInit, PTL DEF Spec

(* What is answered with 200 is accounted for (the chat and group chat     *)
(* handlers against logins, ends of connections and of the server and      *)
(* GetAndClearOfflineMessages): each letter has been pushed, waits in the  *)
(* table or is in the hands of the worker that fetched it; or it was lost  *)
(* in such hands at an end of the server, or passed over by a group chat,  *)
(* which counts a member whose insert failed as served.                    *)
THEOREM AckedAccounted == Spec => []AckedIsAccountedFor
<1>1. SessionInv => AckedIsAccountedFor
  BY DEF SessionInv, AckInv
<1> QED
  BY <1>1, SessionInvariant, PTL

(* Send is called with a letter on connections that have logged in as its  *)
(* receiver, and more than once only if a DELETE reported an error after a *)
(* fetch of the letter.                                                    *)
THEOREM PushedOnce == Spec => []PushedOnceUnlessKept
<1>1. SessionInv => PushedOnceUnlessKept
  BY DEF SessionInv, LetterInv, AuthInv, PushedOnceUnlessKept
<1> QED
  BY <1>1, SessionInvariant, PTL
-----------------------------------------------------------------------------
(* No request is dropped, and none is answered twice.                      *)

\* A request that was received is queued, in the hands of a worker, or
\* answered, once; or it was cut when the server ended, and stays unanswered.
EachAnsweredOnce == \A m \in Requests :
  /\ Len(acks[m]) <= 1
  /\ asked[m] # NoConn =>
       Queued(m) \/ (\E w \in Workers : Handling(w, m)) \/ acks[m] # <<>> \/ m \in cut
  /\ m \in cut => asked[m] # NoConn /\ acks[m] = <<>> /\ ~Queued(m)
                  /\ \A w \in Workers : ~Handling(w, m)

(* A worker cuts no request.                                               *)
LEMMA WorkerKeepsCut == ASSUME NEW w \in Workers, WorkerStep(w) PROVE UNCHANGED cut
BY DEF WorkerStep, LoginStep, ChatStep, GroupStep, TakeTask, LoginRefused, LoginAccepted, AddUser,
       SetUserOnline, Greet, GetAndClearOfflineMessages, NothingFetched, PushOffline, LookUp,
       Forward, Store, AnswerChat,
       NotInGroup, GetGroupMembers, SkipSelf, LookUpMember, AnswerGroup, history, errors, ends

(* A request leaves the queue for a worker and its worker with an answer.  *)
LEMMA AnsweredStep == Typed /\ OnceInv /\ EachAnsweredOnce /\ [Next]_vars => EachAnsweredOnce'
<1> SUFFICES ASSUME Typed, OnceInv, EachAnsweredOnce, [Next]_vars PROVE EachAnsweredOnce'
  OBVIOUS
<1>0. /\ acks \in [Requests -> Seq({"200", "403", "500"})]
      /\ asked \in [Requests -> Conns \union {NoConn}] /\ NoConn \notin Conns
  BY NoneAssumption DEF Typed, TypeOK
<1>1. ASSUME UNCHANGED <<tasks, job, asked, acks, cut>> PROVE EachAnsweredOnce'
  BY <1>1 DEF EachAnsweredOnce, Queued, Handling
<1>2. ASSUME NEW c \in Conns, NEW u \in Users, ReceiveLogin(c, u) PROVE EachAnsweredOnce'
  <2> DEFINE t == [cmd |-> "login", conn |-> c, user |-> u, msg |-> NoMsg]
  <2>1. t \in Task /\ t.msg \notin Requests
    BY NoneAssumption DEF Task, LoginTask
  <2>2. tasks' = Append(tasks, t) /\ UNCHANGED <<job, asked, acks, cut>>
    BY <1>2 DEF ReceiveLogin, Receive, history, errors, ends
  <2> HIDE DEF t
  <2>3. /\ Len(tasks') = Len(tasks) + 1 /\ Len(tasks) \in Nat
        /\ \A i \in 1 .. Len(tasks) : tasks'[i] = tasks[i]
        /\ tasks'[Len(tasks) + 1] = t
    BY <2>1, <2>2, AppendProperties DEF Typed, TypeOK
  <2>4. \A m \in Requests : Queued(m)' <=> Queued(m)
    BY <2>1, <2>3 DEF Queued
  <2> QED
    BY <2>2, <2>4 DEF EachAnsweredOnce, Handling
<1>3. ASSUME NEW c \in Conns, NEW n \in Requests, ReceiveChat(c, n) PROVE EachAnsweredOnce'
  <2> DEFINE t == [cmd |-> IF n \in Chats THEN "chat" ELSE "group_chat",
                   conn |-> c, user |-> NoUser, msg |-> n]
  <2>1. t \in Task /\ t.msg = n
    BY DEF Task, ChatTask, GroupTask, Requests
  <2>2. /\ tasks' = Append(tasks, t) /\ UNCHANGED <<job, acks, cut>>
        /\ asked[n] = NoConn /\ asked' = [asked EXCEPT ![n] = c]
    BY <1>3 DEF ReceiveChat, Receive, history, errors, ends
  <2> HIDE DEF t
  <2>3. /\ Len(tasks') = Len(tasks) + 1 /\ Len(tasks) \in Nat
        /\ \A i \in 1 .. Len(tasks) : tasks'[i] = tasks[i]
        /\ tasks'[Len(tasks) + 1] = t
    BY <2>1, <2>2, AppendProperties DEF Typed, TypeOK
  <2>4. Queued(n)' /\ \A m \in Requests \ {n} : Queued(m)' <=> Queued(m)
    BY <2>1, <2>3 DEF Queued
  <2>5. n \notin cut /\ \A m \in Requests \ {n} : asked'[m] = asked[m]
    BY <1>0, <2>2 DEF EachAnsweredOnce
  <2> QED
    BY <2>2, <2>4, <2>5 DEF EachAnsweredOnce, Handling
<1>4. ASSUME NEW w \in Workers, TakeTask(w) PROVE EachAnsweredOnce'
  <2>1. /\ Len(tasks) \in Nat \ {0} /\ Len(tasks') = Len(tasks) - 1
        /\ \A i \in 1 .. Len(tasks') : tasks'[i] = tasks[i + 1]
        /\ tasks[1] \in Task
    BY <1>4, EmptySeq, HeadTailProperties DEF TakeTask, Typed, TypeOK
  <2>2. /\ job'[w] = tasks[1] /\ job[w] = NoTask /\ job'[w] # NoTask
        /\ \A v \in Workers \ {w} : job'[v] = job[v]
        /\ UNCHANGED <<asked, acks, cut>>
    BY <1>4, <2>1, NoneAssumption
       DEF TakeTask, Typed, TypeOK, PlaceInv, PlaceOf, inputs, history, errors, ends
  <2>3. ASSUME NEW m \in Requests
        PROVE  /\ Queued(m) => Queued(m)' \/ Handling(w, m)'
               /\ Queued(m)' => Queued(m)
               /\ Handling(w, m)' => Queued(m)
    <3>1. ASSUME NEW i \in 1 .. Len(tasks), tasks[i].msg = m
          PROVE  Queued(m)' \/ Handling(w, m)'
      <4>1. CASE i = 1
        BY <2>2, <3>1, <4>1 DEF Handling
      <4>2. CASE i # 1
        <5>1. i - 1 \in 1 .. Len(tasks') /\ (i - 1) + 1 = i
          BY <2>1, <4>2
        <5>2. tasks'[i - 1].msg = m
          BY <2>1, <3>1, <5>1
        <5> QED
          BY <5>1, <5>2 DEF Queued
      <4> QED
        BY <4>1, <4>2
    <3>2. \A i \in 1 .. Len(tasks') : i + 1 \in 1 .. Len(tasks)
      BY <2>1
    <3> QED
      BY <2>1, <2>2, <3>1, <3>2 DEF Queued, Handling
  <2>4. \A m \in Requests : \A v \in Workers \ {w} : Handling(v, m)' <=> Handling(v, m)
    BY <2>2 DEF Handling
  <2>5. \A m \in Requests : ~Handling(w, m)
    BY <2>2 DEF Handling
  <2> QED
    BY <2>2, <2>3, <2>4, <2>5 DEF EachAnsweredOnce
<1>5. ASSUME NEW w \in Workers, Finish(w), UNCHANGED cut PROVE EachAnsweredOnce'
  <2>1. /\ \A m \in Requests : ~Handling(w, m)' /\ (Queued(m)' <=> Queued(m))
        /\ \A m \in Requests : \A v \in Workers \ {w} : Handling(v, m)' <=> Handling(v, m)
        /\ UNCHANGED <<asked, cut>>
    BY <1>5 DEF Finish, Handling, Queued, Typed, TypeOK
  <2>2. ASSUME NEW m \in Requests, ~Handling(w, m)
        PROVE  acks'[m] = acks[m]
    BY <1>5, <2>2 DEF Finish
  <2>3. ASSUME NEW m \in Requests, Handling(w, m)
        PROVE  m \notin cut /\ Len(acks'[m]) = 1 /\ acks'[m] # <<>>
    <3>1. m \notin cut /\ acks[m] = <<>>
      BY <2>3 DEF EachAnsweredOnce, OnceInv
    <3>2. PICK code : acks'[m] = <<>> \o <<code>>
      BY <1>5, <2>3, <3>1 DEF Finish
    <3>3. acks'[m] = <<code>>
      BY <3>2
    <3> QED
      BY <3>1, <3>3
  <2>4. ASSUME NEW m \in Requests
        PROVE  /\ Len(acks'[m]) <= 1
               /\ asked[m] # NoConn =>
                    \/ Queued(m)' \/ acks'[m] # <<>> \/ m \in cut
                    \/ \E v \in Workers : Handling(v, m)'
               /\ m \in cut => asked[m] # NoConn /\ acks'[m] = <<>> /\ ~Queued(m)'
                               /\ \A v \in Workers : ~Handling(v, m)'
    <3>1. CASE Handling(w, m)
      <4>1. m \notin cut /\ Len(acks'[m]) = 1 /\ acks'[m] # <<>>
        BY <2>3, <3>1
      <4>2. Len(acks'[m]) <= 1
        BY <4>1
      <4> QED
        BY <4>1, <4>2
    <3>2. CASE ~Handling(w, m)
      BY <2>1, <2>2, <3>2 DEF EachAnsweredOnce
    <3> QED
      BY <3>1, <3>2
  <2> QED
    BY <2>1, <2>4 DEF EachAnsweredOnce
<1>6. CASE Crash
  <2>1. /\ UNCHANGED <<asked, acks>> /\ \A m \in Requests : ~Queued(m)'
        /\ \A m \in Requests : \A w \in Workers : ~Handling(w, m)'
        /\ cut' = cut \union {m \in Requests : asked[m] # NoConn /\ acks[m] = <<>>}
    BY <1>6 DEF Crash, Queued, Handling
  <2> QED
    BY <2>1 DEF EachAnsweredOnce
<1>7. ASSUME NEW w \in Workers, WorkerStep(w) PROVE EachAnsweredOnce'
  BY <1>1, <1>4, <1>5, <1>7, WorkerKinds, WorkerKeepsCut
<1> QED
  BY <1>1, <1>2, <1>3, <1>6, <1>7, OutsideIsQuiet DEF Quiet, work

(* Whatever is asked is answered once and not dropped on the way, unless   *)
(* the server ends (the path from Enqueue in Read over the worker to Send  *)
(* in each of its branches): what is left of EveryChatAnswered is that     *)
(* workers go on.                                                          *)
THEOREM NoRequestIsDropped == Spec => []EachAnsweredOnce
<1>1. Init => EachAnsweredOnce
  BY DEF Init, EachAnsweredOnce, Queued, Handling
<1>2. SessionInv => Typed /\ OnceInv
  BY DEF SessionInv, Typed
<1> QED
  BY <1>1, <1>2, SessionInvariant, AnsweredStep, PTL DEF Spec

-----------------------------------------------------------------------------
(* Session implements LetterPost.                                          *)

\* A letter whose turn is still to come has been neither refused by MySQL
\* nor lost in the hands of a worker.
FateInv == \A m \in Requests : \A u \in Users :
             Pending(m, u) => <<m, u>> \notin unsaved \union lost

(* The letters that are refused or lost had their turn.                    *)
LEMMA FateStep == SessionInv /\ FateInv /\ [Next]_vars => FateInv'
<1> SUFFICES ASSUME SessionInv, FateInv, [Next]_vars,
                    NEW m \in Requests, NEW u \in Users, Pending(m, u)'
             PROVE  <<m, u>> \notin unsaved' \union lost'
  BY DEF FateInv
<1>1. Typed /\ OnceInv /\ LetterInv
  BY DEF SessionInv, Typed
<1>2. Pending(m, u) /\ <<m, u>> \notin unsaved \union lost
  BY <1>1, PendingStep DEF FateInv
<1>3. CASE LettersStay
  BY <1>2, <1>3 DEF LettersStay, errors
<1>4. ASSUME NEW w \in Workers, GetAndClearOfflineMessages(w) \/ PushOffline(w) \/ Forward(w)
      PROVE  <<m, u>> \notin unsaved' \union lost'
  BY <1>2, <1>4 DEF GetAndClearOfflineMessages, PushOffline, Forward, history, errors, ends
<1>5. ASSUME NEW w \in Workers, Store(w)
      PROVE  <<m, u>> \notin unsaved' \union lost'
  <2>1. <<m, u>> # Letter(w)
    BY <1>1, <1>5, LetterDelivered
  <2>2. unsaved' \subseteq unsaved \union {Letter(w)} /\ lost' = lost
    BY <1>5 DEF Store, ends
  <2> QED
    BY <1>2, <2>1, <2>2
<1>6. CASE Crash
  <2>1. \A w \in Workers : <<m, u>> \notin held[w]
    BY <1>1, <1>2 DEF LetterInv, Untouched
  <2>2. unsaved' = unsaved /\ lost' = lost \union UNION {held[w] : w \in Workers}
    BY <1>6 DEF Crash, errors
  <2> QED
    BY <1>2, <2>1, <2>2
<1> QED
  BY <1>1, <1>3, <1>4, <1>5, <1>6, LetterMoves

(* What the handlers do to a letter they deliver, LetterPost does to it:   *)
(* it was untouched.                                                       *)
LEMMA PostDelivers ==
  ASSUME SessionInv, FateInv, NEW w \in Workers, Forward(w) \/ Store(w)
  PROVE  \E l \in Letters : Post!Send(l) \/ Post!Save(l) \/ Post!Refuse(l)
<1> USE DEF Post!Send, Post!Save, Post!Refuse
<1>1. Typed /\ OnceInv /\ LetterInv /\ PlaceOf(w)
  BY DEF SessionInv, Typed, PlaceInv
<1>2. job[w].msg \in Requests /\ member[w] \in Users /\ Letter(w) \in Letters
  BY <1>1, LetterDelivered DEF Letter, Letters
<1>3. Untouched(Letter(w)) /\ Letter(w) \notin unsaved \union lost
  <2>1. Pending(job[w].msg, member[w])
    BY <1>1, <1>2, LetterDelivered DEF Letter
  <2> QED
    BY <1>1, <1>2, <2>1 DEF Letter, LetterInv, FateInv
<1>4. held' = held
  BY DEF Forward, Store, AfterLetter
<1>5. Post!Fresh(Letter(w))
  <2>1. Letter(w) \notin UNION {held[v] : v \in Workers}
    BY <1>3 DEF Untouched
  <2>2. Len(pushes[Letter(w)]) = 0
    BY <1>3 DEF Untouched
  <2> QED
    BY <1>2, <1>3, <2>1, <2>2 DEF Post!Fresh, Post!InHand, Untouched
<1>6. CASE Forward(w)
  <2>1. /\ pushes' = [pushes EXCEPT ![Letter(w)] = Append(@, target[w])] /\ target[w] \in Conns
        /\ pushes[Letter(w)] = <<>> /\ pushes \in [Letters -> Seq(Conns)]
    BY <1>1, <1>3, <1>6 DEF Forward, PlaceOf, Untouched, Typed, TypeOK
  <2>2. Len(pushes'[Letter(w)]) = 1 /\ \A l \in Letters \ {Letter(w)} : pushes'[l] = pushes[l]
    BY <1>2, <2>1
  <2>3. [l \in Letters |-> Len(pushes'[l])] =
          [[l \in Letters |-> Len(pushes[l])] EXCEPT ![Letter(w)] = 1]
    BY <1>2, <2>2
  <2>4. UNCHANGED <<rows, unsaved, kept, lost>>
    BY <1>6 DEF Forward, server, errors, ends
  <2> QED
    BY <1>2, <1>4, <1>5, <2>3, <2>4
<1>7. CASE Store(w)
  <2>1. /\ \/ rows' = rows \union {Letter(w)} /\ unsaved' = unsaved
           \/ /\ rows' \in {rows, rows \union {Letter(w)}}
              /\ unsaved' = unsaved \union {Letter(w)}
        /\ UNCHANGED <<pushes, kept, lost>>
    BY <1>7 DEF Store, ends
  <2> QED
    BY <1>2, <1>4, <1>5, <2>1
<1> QED
  BY <1>6, <1>7

(* A login takes out all that waits for its user.                          *)
LEMMA PostTakesOut ==
  ASSUME SessionInv, NEW w \in Workers, GetAndClearOfflineMessages(w)
  PROVE  Post!Next
<1>1. PlaceOf(w) /\ rows \subseteq Letters /\ at[w] = "fetching"
  BY DEF SessionInv, PlaceInv, TypeOK, GetAndClearOfflineMessages
<1>2. held[w] = {} /\ job[w].user \in Users
  BY <1>1 DEF PlaceOf, LoginPlaces, LoginTask
<1> DEFINE u == job[w].user
           lot == {l \in rows : [k \in Letters |-> k[2]][l] = u}
<1>3. lot = Waiting(u)
  BY <1>1 DEF Waiting
<1>4. /\ lot # {} /\ held' = [held EXCEPT ![w] = lot]
      /\ \/ rows' = rows \ lot /\ kept' = kept
         \/ rows' \in {rows, rows \ lot} /\ kept' = kept \union lot
      /\ UNCHANGED <<pushes, unsaved, lost>>
  BY <1>3 DEF GetAndClearOfflineMessages, RowsAfterTake, ends
<1> HIDE DEF lot
<1>5. Post!TakeOut(w, u)
  BY <1>2, <1>4 DEF Post!TakeOut, lot
<1> QED
  BY <1>2, <1>5 DEF Post!Next

(* A login sends the letters it has taken out one by one.                  *)
LEMMA PostSendsOne ==
  ASSUME SessionInv, NEW w \in Workers, PushOffline(w)
  PROVE  Post!Next
<1>1. /\ PlaceOf(w) /\ held \in [Workers -> SUBSET Letters]
      /\ pushes \in [Letters -> Seq(Conns)]
  BY DEF SessionInv, PlaceInv, TypeOK
<1>2. job[w].conn \in Conns
  BY <1>1 DEF PlaceOf, PushOffline, LoginPlaces, LoginTask
<1>3. PICK k \in held[w] :
        /\ pushes' = [pushes EXCEPT ![k] = Append(@, job[w].conn)]
        /\ held' = [held EXCEPT ![w] = held[w] \ {k}]
  BY DEF PushOffline, Unsent, Done
<1>4. UNCHANGED <<rows, unsaved, kept, lost>>
  BY DEF PushOffline, server, errors, ends
<1>5. k \in Letters /\ Len(Append(pushes[k], job[w].conn)) = Len(pushes[k]) + 1
  <2>1. k \in Letters /\ pushes[k] \in Seq(Conns)
    BY <1>1
  <2> QED
    BY <1>2, <2>1
<1>6. [l \in Letters |-> Len(pushes'[l])] =
        [[l \in Letters |-> Len(pushes[l])] EXCEPT ![k] = @ + 1]
  <2>1. pushes'[k] = Append(pushes[k], job[w].conn) /\ \A l \in Letters \ {k} : pushes'[l] = pushes[l]
    BY <1>1, <1>3, <1>5
  <2> QED
    BY <1>5, <2>1
<1>7. Post!Deliver(w, k)
  BY <1>3, <1>4, <1>6 DEF Post!Deliver
<1> QED
  BY <1>3, <1>7 DEF Post!Next

(* Every step of the server moves the letters as LetterPost does, or not   *)
(* at all.                                                                 *)
LEMMA PostStep == SessionInv /\ FateInv /\ [Next]_vars => [Post!Next]_(Post!vars)
<1> SUFFICES ASSUME SessionInv, FateInv, [Next]_vars PROVE Post!Next \/ UNCHANGED Post!vars
  OBVIOUS
<1>1. CASE LettersStay
  BY <1>1 DEF LettersStay, errors, Post!vars
<1>2. ASSUME NEW w \in Workers, Forward(w) \/ Store(w) PROVE Post!Next
  BY <1>2, PostDelivers DEF Post!Next
<1>3. CASE Crash
  BY <1>3 DEF Crash, errors, Post!Next, Post!End, Post!InHand
<1> QED
  BY <1>1, <1>2, <1>3, PostTakesOut, PostSendsOne, LetterMoves DEF SessionInv, Typed

(* A letter has one fate: chats, group chats and logins, on any number of  *)
(* workers, with statements that report errors and with connections and    *)
(* the server ending between their calls, implement the post: a letter is  *)
(* delivered or stored in one step, taken out with all the others of its   *)
(* receiver in one step, and each of these is sent in a step of its own.    *)
THEOREM SessionImplementsPost == Spec => ImplementsPost
<1>1. Init => Post!Init /\ FateInv
  <2> SUFFICES ASSUME Init PROVE Post!Init /\ FateInv
    OBVIOUS
  <2>1. [l \in Letters |-> Len(pushes[l])] = [l \in Letters |-> 0]
    BY DEF Init
  <2> QED
    BY <2>1 DEF Init, Post!Init, FateInv
<1> QED
  BY <1>1, SessionInvariant, FateStep, PostStep, PTL DEF Spec, ImplementsPost, Post!Spec

(* A step of LetterPost leaves each letter that is not kept in one place,  *)
(* and the letters of a carrier for one receiver.                          *)
LEMMA OneFateStep ==
  TypeOK /\ Post!OneFate /\ [Post!Next]_(Post!vars) => Post!OneFate'
<1> SUFFICES ASSUME TypeOK, Post!OneFate, [Post!Next]_(Post!vars)
             PROVE  Post!OneFate'
  OBVIOUS
<1> DEFINE sends == [l \in Letters |-> Len(pushes[l])]
           For == [l \in Letters |-> l[2]]
           Single(l, st, ca, se, lo) ==
             /\ se[l] \in {0, 1}
             /\ l \in st \/ l \in lo \/ (\E c \in Workers : l \in ca[c]) => se[l] = 0
             /\ l \in st => l \notin lo /\ \A c \in Workers : l \notin ca[c]
             /\ \A c \in Workers : l \in ca[c] => l \notin lo
             /\ \A c, d \in Workers : l \in ca[c] /\ l \in ca[d] => c = d
           OneReceiver(ca) == \A c \in Workers : \A k, l \in ca[c] : For[k] = For[l]
<1>0. rows \subseteq Letters /\ held \in [Workers -> SUBSET Letters]
  BY DEF TypeOK
<1>1. /\ \A l \in Letters \ kept : Single(l, rows, held, sends, lost)
      /\ OneReceiver(held)
  BY DEF Post!OneFate, Post!InHand
<1>2. ASSUME \A l \in Letters \ kept' : Single(l, rows', held', sends', lost'),
             OneReceiver(held')
      PROVE  Post!OneFate'
  <2>1. ASSUME NEW l \in Letters \ kept'
        PROVE  /\ sends'[l] \in {0, 1}
               /\ l \in rows' \union (UNION {held'[c] : c \in Workers}) \union lost' => sends'[l] = 0
               /\ l \in rows' => l \notin (UNION {held'[c] : c \in Workers}) \union lost'
               /\ l \in UNION {held'[c] : c \in Workers} => l \notin lost'
               /\ \A c, d \in Workers : l \in held'[c] /\ l \in held'[d] => c = d
    <3>1. Single(l, rows', held', sends', lost')
      BY <1>2
    <3> HIDE DEF sends
    <3> QED
      BY <3>1
  <2> QED
    BY <1>2, <2>1 DEF Post!OneFate, Post!InHand
<1> HIDE DEF sends, For
<1>3. CASE UNCHANGED Post!vars
  BY <1>1, <1>2, <1>3 DEF Post!vars, sends
<1>4. ASSUME NEW l \in Letters, Post!Send(l) \/ Post!Save(l) \/ Post!Refuse(l)
      PROVE  Post!OneFate'
  <2>1. /\ sends[l] = 0 /\ l \notin rows /\ l \notin lost /\ \A c \in Workers : l \notin held[c]
        /\ UNCHANGED <<held, kept, lost>>
        /\ \/ sends' = [sends EXCEPT ![l] = 1] /\ rows' = rows
           \/ sends' = sends /\ rows' \in {rows, rows \union {l}}
    BY <1>4 DEF Post!Send, Post!Save, Post!Refuse, Post!Fresh, Post!InHand, sends
  <2>2. \A k \in Letters : k # l => sends'[k] = sends[k]
    BY <2>1 DEF sends
  <2>3. sends'[l] \in {0, 1} /\ (sends'[l] # 0 => rows' = rows)
    BY <2>1 DEF sends
  <2> QED
    BY <1>1, <1>2, <2>1, <2>2, <2>3
<1>5. ASSUME NEW w \in Workers, NEW u \in Users, Post!TakeOut(w, u) PROVE Post!OneFate'
  <2>1. PICK lot : lot = {l \in rows : For[l] = u}
    OBVIOUS
  <2>2. /\ held' = [held EXCEPT ![w] = lot] /\ lot \subseteq rows
        /\ \/ rows' = rows \ lot /\ kept' = kept
           \/ rows' \in {rows, rows \ lot} /\ kept' = kept \union lot
        /\ sends' = sends /\ UNCHANGED lost
    BY <1>0, <1>5, <2>1 DEF Post!TakeOut, sends, For
  <2>3. \A k, l \in lot : For[k] = For[l]
    BY <2>1
  <2>4. held'[w] = lot /\ \A v \in Workers \ {w} : held'[v] = held[v]
    BY <1>0, <2>2
  <2>5. OneReceiver(held')
    BY <1>1, <2>3, <2>4
  <2>6. \A l \in Letters \ kept' : Single(l, rows', held', sends', lost')
    BY <1>1, <2>2, <2>4
  <2> QED
    BY <1>2, <2>5, <2>6
<1>6. ASSUME NEW w \in Workers, NEW k \in held[w], Post!Deliver(w, k) PROVE Post!OneFate'
  <2>1. /\ held' = [held EXCEPT ![w] = held[w] \ {k}] /\ UNCHANGED <<rows, kept, lost>>
        /\ sends' = [sends EXCEPT ![k] = sends[k] + 1]
    BY <1>6 DEF Post!Deliver, sends
  <2>2. /\ held'[w] = held[w] \ {k} /\ \A v \in Workers \ {w} : held'[v] = held[v]
        /\ k \in Letters
    BY <1>0, <2>1
  <2>3. sends'[k] = sends[k] + 1 /\ \A l \in Letters \ {k} : sends'[l] = sends[l]
    BY <2>1, <2>2 DEF sends
  <2>4. OneReceiver(held')
    BY <1>1, <2>2
  <2>5. ASSUME NEW l \in Letters \ kept' PROVE Single(l, rows', held', sends', lost')
    <3>1. CASE l = k
      <4>1. /\ sends[l] = 0 /\ l \notin rows' /\ l \notin lost'
            /\ \A v \in Workers \ {w} : l \notin held[v]
        BY <1>1, <2>1, <3>1
      <4>2. sends'[l] = 1 /\ \A v \in Workers : l \notin held'[v]
        BY <2>2, <2>3, <3>1, <4>1
      <4> QED
        BY <4>1, <4>2
    <3>2. CASE l # k
      BY <1>1, <2>1, <2>2, <2>3, <3>2
    <3> QED
      BY <3>1, <3>2
  <2> QED
    BY <1>2, <2>4, <2>5
<1>7. CASE Post!End
  <2>1. /\ held' = [c \in Workers |-> {}]
        /\ \A l \in Letters : l \in lost' <=> l \in lost \/ \E c \in Workers : l \in held[c]
        /\ sends' = sends /\ UNCHANGED <<rows, kept>>
    BY <1>7 DEF Post!End, Post!InHand, sends
  <2> QED
    BY <1>1, <1>2, <2>1
<1> QED
  BY <1>3, <1>4, <1>5, <1>6, <1>7 DEF Post!Next

(* What LetterPost says of a letter holds of the server's.  Unless a       *)
(* DELETE that reported an error has kept it, it is pushed once at most,   *)
(* and in one place at most: in the table, in the hands of one worker,     *)
(* pushed, or lost there when the server ended.  A worker has letters for  *)
(* one user in its hands.                                                  *)
THEOREM LettersHaveOneFate == Spec => []Post!OneFate
<1>1. Post!Init => Post!OneFate
  BY DEF Post!Init, Post!OneFate, Post!InHand
<1>2. SessionInv => TypeOK
  BY DEF SessionInv
<1> QED
  BY <1>1, <1>2, OneFateStep, SessionInvariant, SessionImplementsPost, PTL
     DEF ImplementsPost, Post!Spec
=============================================================================
