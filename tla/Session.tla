------------------------------ MODULE Session -------------------------------
(***************************************************************************)
(* The chat server's business logic: logins, one-to-one and group chat,    *)
(* the end of a connection, the watchdog and the presence keys in Redis,   *)
(* as they interleave on three kinds of threads.                           *)
(*                                                                         *)
(*   - The event loop parses requests and enqueues them, and handles the   *)
(*     end of a connection (Connection::Read).                             *)
(*   - The workers take tasks in order and run them concurrently; a task   *)
(*     holds a shared_ptr to its connection.                               *)
(*   - The watchdog runs UserManager::CheckTimeouts.                       *)
(*                                                                         *)
(* Each call into UserManager, MySQLManager or Redis and each Send is one  *)
(* step: the managers lock internally (OfflineStore shows it for the       *)
(* offline messages).  A task or handler that makes several such calls is  *)
(* several steps.  A MySQL statement that reports an error may have been   *)
(* executed.  user_map_ holds weak pointers: an entry whose connection is  *)
(* destroyed counts as absent until somebody erases it.  group_map_ is     *)
(* filled before the server accepts (InitLoadFromDB in main) and never     *)
(* changes: a constant.                                                    *)
(* A letter is what one request sends to one user.                         *)
(*                                                                         *)
(* The server may end at any moment and be started again: its memory and   *)
(* all connections are gone, the databases are not.  Nothing in it ignores *)
(* SIGPIPE when a peer has reset its connection, and a task lets every     *)
(* exception but json::parse_error out of its thread.                      *)
(***************************************************************************)
EXTENDS Naturals, Sequences, FiniteSets

CONSTANTS Conns, Users, Workers,
          Chats,            \* requests with the command "chat"
          To,               \* the receiver each of them names
          GroupChats,       \* requests with the command "group_chat"
          MembersOf,        \* group_map_ for the group each of them names
          MaxLetters,       \* bound: letters of the requests that are sent
          MaxLogins,        \* bound: login requests of each connection
          Silent,           \* connections that may fall silent
          Breaking,         \* connections that may break
          MaxCrashes,       \* bound: times the server ends and is started again
          RedisAnswers      \* whether a Redis call succeeds: TRUE, FALSE, or both

CONSTANTS NoUser, NoConn, NoTask, NoMsg

Requests == Chats \union GroupChats
Letters == Requests \X Users

LoginTask == [cmd : {"login"}, conn : Conns, user : Users, msg : {NoMsg}]
ChatTask == [cmd : {"chat"}, conn : Conns, user : {NoUser}, msg : Chats]
GroupTask == [cmd : {"group_chat"}, conn : Conns, user : {NoUser}, msg : GroupChats]
Task == LoginTask \union ChatTask \union GroupTask

ASSUME RequestsAssumption == /\ To \in [Chats -> Users]
                             /\ MembersOf \in [GroupChats -> SUBSET Users]
                             /\ Chats \intersect GroupChats = {}
ASSUME NoneAssumption == /\ NoUser \notin Users /\ NoConn \notin Conns
                         /\ NoMsg \notin Requests /\ NoTask \notin Task
ASSUME RedisAssumption == RedisAnswers \subseteq BOOLEAN /\ RedisAnswers # {}
ASSUME CrashesAssumption == MaxCrashes \in Nat

VARIABLES conn,             \* client and entry in connections_, per connection
          currentUser,      \* current_user_ of each connection
          userMap,          \* user_map_
          presence,         \* Redis: users with an online key
          loop,             \* where the event loop is, and for which connection
          tasks,            \* tasks_ of the pool
          at,               \* where each worker is in its task
          job,              \* the task of each worker
          target,           \* target_conn_ptr of each worker
          held,             \* offline_msgs of each worker
          todo,             \* members the loop over the group has not come to
          member,           \* the receiver each worker is serving
          rows,             \* table offline_message: the letters in it
          stale,            \* connections silent for more than 30 s
          asked,            \* the connection each request was sent on
          logins,           \* number of login requests per connection
          crashes           \* number of ends of the server

\* What has happened, for the properties.
VARIABLES session,          \* the user each client was last told to be
          authed,           \* users each connection has been authenticated for
          pushes,           \* connections each letter was pushed to, in order
          unsaved,          \* letters whose insert reported an error
          kept,             \* letters fetched by a call whose DELETE did so
          acks,             \* answers to each request
          lost,             \* letters a worker held when the server ended
          cut               \* requests not yet answered when the server ended

server == <<conn, currentUser, userMap, presence, loop, rows, stale>>
work == <<tasks, at, job, target, held, todo, member>>
inputs == <<asked, logins, crashes>>
errors == <<unsaved, kept>>
ends == <<lost, cut>>
history == <<session, authed, pushes, errors, acks, ends>>
vars == <<server, work, inputs, history>>

LoginPlaces == {"login", "adding", "presenting", "greeting", "fetching", "pushing"}
ChatPlaces == {"chat", "checking", "spreading", "forwarding", "storing", "accepted", "refused"}

TypeOK == /\ conn \in [Conns -> {"new", "open", "hungup", "reset", "erased"}]
          /\ currentUser \in [Conns -> Users \union {NoUser}]
          /\ userMap \in [Users -> Conns \union {NoConn}]
          /\ presence \subseteq Users
          /\ loop \in [at : {"polling", "removing", "offlining", "erasing"},
                       conn : Conns \union {NoConn}]
          /\ tasks \in Seq(Task)
          /\ at \in [Workers -> {"idle"} \union LoginPlaces \union ChatPlaces]
          /\ job \in [Workers -> Task \union {NoTask}]
          /\ target \in [Workers -> Conns \union {NoConn}]
          /\ held \in [Workers -> SUBSET Letters]
          /\ todo \in [Workers -> SUBSET Users]
          /\ member \in [Workers -> Users \union {NoUser}]
          /\ rows \subseteq Letters
          /\ stale \subseteq Conns
          /\ asked \in [Requests -> Conns \union {NoConn}]
          /\ logins \in [Conns -> Nat]
          /\ crashes \in 0 .. MaxCrashes
          /\ session \in [Conns -> Users \union {NoUser}]
          /\ authed \in [Conns -> SUBSET Users]
          /\ pushes \in [Letters -> Seq(Conns)]
          /\ unsaved \subseteq Letters
          /\ kept \subseteq Letters
          /\ acks \in [Requests -> Seq({"200", "403", "500"})]
          /\ lost \subseteq Letters
          /\ cut \subseteq Requests

Init == /\ conn = [c \in Conns |-> "new"]
        /\ currentUser = [c \in Conns |-> NoUser]
        /\ userMap = [u \in Users |-> NoConn]
        /\ presence = {}
        /\ loop = [at |-> "polling", conn |-> NoConn]
        /\ tasks = <<>>
        /\ at = [w \in Workers |-> "idle"]
        /\ job = [w \in Workers |-> NoTask]
        /\ target = [w \in Workers |-> NoConn]
        /\ held = [w \in Workers |-> {}]
        /\ todo = [w \in Workers |-> {}]
        /\ member = [w \in Workers |-> NoUser]
        /\ rows = {}
        /\ stale = {}
        /\ asked = [m \in Requests |-> NoConn]
        /\ logins = [c \in Conns |-> 0]
        /\ crashes = 0
        /\ session = [c \in Conns |-> NoUser]
        /\ authed = [c \in Conns |-> {}]
        /\ pushes = [l \in Letters |-> <<>>]
        /\ unsaved = {}
        /\ kept = {}
        /\ acks = [m \in Requests |-> <<>>]
        /\ lost = {}
        /\ cut = {}

\* The Connection object exists: somebody still holds a shared_ptr to it.
Alive(c) == \/ conn[c] \in {"open", "hungup", "reset"}
            \/ loop.conn = c
            \/ \E i \in 1 .. Len(tasks) : tasks[i].conn = c
            \/ \E w \in Workers : target[w] = c \/ (job[w] # NoTask /\ job[w].conn = c)

\* weak_ptr::lock on the entry of u.
Registered(u) == IF userMap[u] # NoConn /\ Alive(userMap[u]) THEN userMap[u] ELSE NoConn

-----------------------------------------------------------------------------
(* Seeded faults.                                                          *)
FaultWaitingNullRow(u) == {l \in rows : l[2] = u} \union {<<NoMsg, u>>}
FaultWaitingEverybodys(u) == rows
FaultRowsAfterTake(u) == rows
FaultOutcome(saved) == "accepted"
FaultUnsent(w, l) == {}
FaultReplies(m, code) == IF code = "500" THEN <<>> ELSE <<code>>
FaultKeepsEntry(u) == userMap[u] # NoConn => Registered(u) = NoConn \/ userMap[u] \notin stale
-----------------------------------------------------------------------------
(* Clients.                                                                *)

Connect(c) == /\ conn[c] = "new"
              /\ conn' = [conn EXCEPT ![c] = "open"]
              /\ UNCHANGED <<currentUser, userMap, presence, loop, rows, stale>>
              /\ UNCHANGED <<work, inputs, history>>

\* The client closes, or its connection breaks.
HangUp(c) == /\ conn[c] = "open"
             /\ \/ conn' = [conn EXCEPT ![c] = "hungup"]
                \/ c \in Breaking /\ conn' = [conn EXCEPT ![c] = "reset"]
             /\ UNCHANGED <<currentUser, userMap, presence, loop, rows, stale>>
             /\ UNCHANGED <<work, inputs, history>>

FallSilent(c) == /\ c \in Silent
                 /\ conn[c] = "open"
                 /\ stale' = stale \union {c}
                 /\ UNCHANGED <<conn, currentUser, userMap, presence, loop, rows>>
                 /\ UNCHANGED <<work, inputs, history>>

-----------------------------------------------------------------------------
(* The event loop.                                                         *)

\* Read parses a request: UpdateActiveTime, and Enqueue of a task that
\* holds the connection.
Receive(c, t) == /\ loop.at = "polling"
                 /\ conn[c] = "open"
                 /\ stale' = stale \ {c}
                 /\ tasks' = Append(tasks, t)
                 /\ UNCHANGED <<conn, currentUser, userMap, presence, loop, rows>>
                 /\ UNCHANGED <<at, job, target, held, todo, member, history>>

ReceiveLogin(c, u) ==
  /\ logins[c] < MaxLogins[c]
  /\ logins' = [logins EXCEPT ![c] = @ + 1]
  /\ Receive(c, [cmd |-> "login", conn |-> c, user |-> u, msg |-> NoMsg])
  /\ UNCHANGED <<asked, crashes>>

Receivers(m) == IF m \in Chats THEN {To[m]} ELSE MembersOf[m]
LettersSent == {l \in Letters : asked[l[1]] # NoConn /\ l[2] \in Receivers(l[1])}

ReceiveChat(c, m) ==
  /\ asked[m] = NoConn
  /\ Cardinality(LettersSent \union {<<m, u>> : u \in Receivers(m)}) <= MaxLetters
  /\ asked' = [asked EXCEPT ![m] = c]
  /\ Receive(c, [cmd |-> IF m \in Chats THEN "chat" ELSE "group_chat",
                 conn |-> c, user |-> NoUser, msg |-> m])
  /\ UNCHANGED <<logins, crashes>>

\* A ping is answered on the spot and only renews the activity.
ReceivePing(c) == /\ loop.at = "polling"
                  /\ conn[c] = "open"
                  /\ stale' = stale \ {c}
                  /\ UNCHANGED <<conn, currentUser, userMap, presence, loop, rows>>
                  /\ UNCHANGED <<work, inputs, history>>

\* read returned 0: is current_user_ empty?  epoll reports the end again for
\* as long as a task keeps an erased connection alive.
ReadEof(c) == /\ loop.at = "polling"
              /\ conn[c] \in {"hungup", "erased"}
              /\ Alive(c)
              /\ loop' = [at |-> IF currentUser[c] = NoUser THEN "erasing" ELSE "removing",
                          conn |-> c]
              /\ UNCHANGED <<conn, currentUser, userMap, presence, rows, stale>>
              /\ UNCHANGED <<work, inputs, history>>

\* read failed: no RemoveUser, no SetUserOffline.
ReadError(c) == /\ loop.at = "polling"
                /\ conn[c] = "reset"
                /\ loop' = [at |-> "erasing", conn |-> c]
                /\ UNCHANGED <<conn, currentUser, userMap, presence, rows, stale>>
                /\ UNCHANGED <<work, inputs, history>>

\* RemoveUser(current_user_) erases the name, whatever it maps to.
RemoveUser == /\ loop.at = "removing"
              /\ userMap' = [userMap EXCEPT ![currentUser[loop.conn]] = NoConn]
              /\ loop' = [loop EXCEPT !.at = "offlining"]
              /\ UNCHANGED <<conn, currentUser, presence, rows, stale>>
              /\ UNCHANGED <<work, inputs, history>>

\* A Redis call that fails is logged and ignored by the caller.
RedisOutcomes(p) == {IF ok THEN p ELSE presence : ok \in RedisAnswers}

SetUserOffline == /\ loop.at = "offlining"
                  /\ presence' \in RedisOutcomes(presence \ {currentUser[loop.conn]})
                  /\ loop' = [loop EXCEPT !.at = "erasing"]
                  /\ UNCHANGED <<conn, currentUser, userMap, rows, stale>>
                  /\ UNCHANGED <<work, inputs, history>>

CloseCallback == /\ loop.at = "erasing"
                 /\ conn' = [conn EXCEPT ![loop.conn] = "erased"]
                 /\ loop' = [at |-> "polling", conn |-> NoConn]
                 /\ UNCHANGED <<currentUser, userMap, presence, rows, stale>>
                 /\ UNCHANGED <<work, inputs, history>>

-----------------------------------------------------------------------------
(* The workers.                                                            *)

Goto(w, place) == at' = [at EXCEPT ![w] = place]

\* The task returns and drops its pointers.
Done(w) == /\ Goto(w, "idle")
           /\ job' = [job EXCEPT ![w] = NoTask]
           /\ target' = [target EXCEPT ![w] = NoConn]
           /\ held' = [held EXCEPT ![w] = {}]
           /\ todo' = [todo EXCEPT ![w] = {}]
           /\ member' = [member EXCEPT ![w] = NoUser]

Continue(w, place) == Goto(w, place) /\ UNCHANGED <<job, target, held, todo, member>>

Routes == [login |-> "login", chat |-> "chat", group_chat |-> "checking"]

TakeTask(w) == /\ at[w] = "idle"
               /\ tasks # <<>>
               /\ job' = [job EXCEPT ![w] = Head(tasks)]
               /\ tasks' = Tail(tasks)
               /\ Goto(w, Routes[Head(tasks).cmd])
               /\ UNCHANGED <<target, held, todo, member, server, inputs, history>>

\* CheckUser says no, or its query fails: 401.
LoginRefused(w) == /\ at[w] = "login"
                   /\ Done(w)
                   /\ UNCHANGED <<tasks, server, inputs, history>>

LoginAccepted(w) == /\ at[w] = "login"
                    /\ currentUser' = [currentUser EXCEPT ![job[w].conn] = job[w].user]
                    /\ authed' = [authed EXCEPT ![job[w].conn] = @ \union {job[w].user}]
                    /\ Continue(w, "adding")
                    /\ UNCHANGED <<conn, userMap, presence, loop, rows, stale, tasks, inputs>>
                    /\ UNCHANGED <<session, pushes, errors, acks, ends>>

AddUser(w) == /\ at[w] = "adding"
              /\ userMap' = [userMap EXCEPT ![job[w].user] = job[w].conn]
              /\ Continue(w, "presenting")
              /\ UNCHANGED <<conn, currentUser, presence, loop, rows, stale>>
              /\ UNCHANGED <<tasks, inputs, history>>

SetUserOnline(w) == /\ at[w] = "presenting"
                    /\ presence' \in RedisOutcomes(presence \union {job[w].user})
                    /\ Continue(w, "greeting")
                    /\ UNCHANGED <<conn, currentUser, userMap, loop, rows, stale>>
                    /\ UNCHANGED <<tasks, inputs, history>>

\* Send of the answer 200.
Greet(w) == /\ at[w] = "greeting"
            /\ session' = [session EXCEPT ![job[w].conn] = job[w].user]
            /\ Continue(w, "fetching")
            /\ UNCHANGED <<tasks, server, inputs, authed, pushes, errors, acks, ends>>

\* MySQLManager::GetAndClearOfflineMessages: the letters its SELECT returns,
\* and what its DELETE leaves.  OfflineStore shows that the two are one step;
\* an end of the server between them is one before it, or after it.
Waiting(u) == {l \in rows : l[2] = u}
RowsAfterTake(u) == rows \ Waiting(u)

\* A DELETE that reports an error is logged: the letters are returned all
\* the same.
GetAndClearOfflineMessages(w) ==
  LET lot == Waiting(job[w].user)
      left == RowsAfterTake(job[w].user)
  IN
  /\ at[w] = "fetching"
  /\ lot # {}
  /\ held' = [held EXCEPT ![w] = lot]
  /\ \/ rows' = left /\ kept' = kept
     \/ rows' \in {rows, left} /\ kept' = kept \union lot
  /\ Goto(w, "pushing")
  /\ UNCHANGED <<conn, currentUser, userMap, presence, loop, stale>>
  /\ UNCHANGED <<tasks, job, target, todo, member, inputs>>
  /\ UNCHANGED <<session, authed, pushes, unsaved, acks, ends>>

\* Its SELECT fails, or finds nothing: no DELETE, nothing to push.
NothingFetched(w) == /\ at[w] = "fetching"
                     /\ Done(w)
                     /\ UNCHANGED <<tasks, server, inputs, history>>

\* The letters that are left when l has been sent.
Unsent(w, l) == held[w] \ {l}

\* Each letter is a Send of its own; the task ends with the last one.
PushOffline(w) ==
  /\ at[w] = "pushing"
  /\ \E l \in held[w] :
       /\ pushes' = [pushes EXCEPT ![l] = Append(@, job[w].conn)]
       /\ \/ Unsent(w, l) = {} /\ Done(w)
          \/ /\ Unsent(w, l) # {}
             /\ held' = [held EXCEPT ![w] = Unsent(w, l)]
             /\ UNCHANGED <<at, job, target, todo, member>>
  /\ UNCHANGED <<tasks, server, inputs>>
  /\ UNCHANGED <<session, authed, errors, acks, ends>>

\* GetConnection(u).lock(), and the branch it decides.
Route(w, u) == LET c == Registered(u) IN
               /\ target' = [target EXCEPT ![w] = c]
               /\ member' = [member EXCEPT ![w] = u]
               /\ Goto(w, IF c = NoConn THEN "storing" ELSE "forwarding")

LookUp(w) == /\ at[w] = "chat"
             /\ Route(w, To[job[w].msg])
             /\ UNCHANGED <<tasks, job, held, todo, server, inputs, history>>

\* The answer to the sender, by the code it carries.
Replies(m, code) == <<code>>
Answer(m, code) == acks' = [acks EXCEPT ![m] = @ \o Replies(m, code)]

\* IsUserInGroup, then GetGroupMembers: group_map_ does not change between.
MayWrite(w) == currentUser[job[w].conn] \in MembersOf[job[w].msg]

NotInGroup(w) == /\ at[w] = "checking"
                 /\ ~MayWrite(w)
                 /\ Answer(job[w].msg, "403")
                 /\ Done(w)
                 /\ UNCHANGED <<tasks, server, inputs, session, authed, pushes, errors, ends>>

GetGroupMembers(w) == /\ at[w] = "checking"
                      /\ MayWrite(w)
                      /\ todo' = [todo EXCEPT ![w] = MembersOf[job[w].msg]]
                      /\ Goto(w, "spreading")
                      /\ UNCHANGED <<tasks, job, target, held, member>>
                      /\ UNCHANGED <<server, inputs, history>>

\* current_user_ is read anew for each member.
IsSelf(w, u) == u = currentUser[job[w].conn]

SkipSelf(w) == /\ at[w] = "spreading"
               /\ \E u \in todo[w] : /\ IsSelf(w, u)
                                     /\ todo' = [todo EXCEPT ![w] = @ \ {u}]
               /\ UNCHANGED <<tasks, at, job, target, held, member>>
               /\ UNCHANGED <<server, inputs, history>>

LookUpMember(w) == /\ at[w] = "spreading"
                   /\ \E u \in todo[w] : /\ ~IsSelf(w, u)
                                         /\ todo' = [todo EXCEPT ![w] = @ \ {u}]
                                         /\ Route(w, u)
                   /\ UNCHANGED <<tasks, job, held, server, inputs, history>>

Letter(w) == <<job[w].msg, member[w]>>

\* After the delivery of a letter its pointer is dropped: a chat goes on to
\* its answer, a group chat to the next member whatever came of this one.
AfterLetter(w, outcome) ==
  /\ Goto(w, IF job[w].cmd = "chat" THEN outcome ELSE "spreading")
  /\ target' = [target EXCEPT ![w] = NoConn]
  /\ member' = [member EXCEPT ![w] = NoUser]
  /\ UNCHANGED <<job, held, todo>>

Forward(w) == /\ at[w] = "forwarding"
              /\ pushes' = [pushes EXCEPT ![Letter(w)] = Append(@, target[w])]
              /\ AfterLetter(w, "accepted")
              /\ UNCHANGED <<tasks, server, inputs, session, authed, errors, acks, ends>>

\* InsertOfflineMessage: saved, or "internal server error".
Outcome(saved) == IF saved THEN "accepted" ELSE "refused"

Store(w) == /\ at[w] = "storing"
            /\ \/ /\ rows' = rows \union {Letter(w)}
                  /\ unsaved' = unsaved
                  /\ AfterLetter(w, Outcome(TRUE))
               \/ /\ rows' \in {rows, rows \union {Letter(w)}}
                  /\ unsaved' = unsaved \union {Letter(w)}
                  /\ AfterLetter(w, Outcome(FALSE))
            /\ UNCHANGED <<conn, currentUser, userMap, presence, loop, stale>>
            /\ UNCHANGED <<tasks, inputs, session, authed, pushes, kept, acks, ends>>

Answers == [accepted |-> "200", refused |-> "500"]

AnswerChat(w) == /\ at[w] \in DOMAIN Answers
                 /\ Answer(job[w].msg, Answers[at[w]])
                 /\ Done(w)
                 /\ UNCHANGED <<tasks, server, inputs, session, authed, pushes, errors, ends>>

\* The answer to a group chat, which counts every member as served.
AnswerGroup(w) == /\ at[w] = "spreading"
                  /\ todo[w] = {}
                  /\ Answer(job[w].msg, "200")
                  /\ Done(w)
                  /\ UNCHANGED <<tasks, server, inputs, session, authed, pushes, errors, ends>>

-----------------------------------------------------------------------------
(* The watchdog and the expiry of Redis keys.                              *)

\* The watchdog keeps an entry whose connection is alive and active.
KeepsEntry(u) == Registered(u) # NoConn /\ userMap[u] \notin stale

CheckTimeouts ==
  LET doomed == {u \in Users : userMap[u] # NoConn /\ ~KeepsEntry(u)} IN
  /\ doomed # {}
  /\ userMap' = [u \in Users |-> IF u \in doomed THEN NoConn ELSE userMap[u]]
  /\ UNCHANGED <<conn, currentUser, presence, loop, rows, stale>>
  /\ UNCHANGED <<work, inputs, history>>

\* The key was set with a time to live of 120 s, and nothing renews it.
Expire(u) == /\ u \in presence
             /\ presence' = presence \ {u}
             /\ UNCHANGED <<conn, currentUser, userMap, loop, rows, stale>>
             /\ UNCHANGED <<work, inputs, history>>

-----------------------------------------------------------------------------
(* The end of the process and a new start.  The databases keep their rows  *)
(* and keys, and InitLoadFromDB finds the same groups.                     *)

Crash == /\ crashes < MaxCrashes
         /\ crashes' = crashes + 1
         /\ conn' = [c \in Conns |-> IF conn[c] = "new" THEN "new" ELSE "erased"]
         /\ currentUser' = [c \in Conns |-> NoUser]
         /\ userMap' = [u \in Users |-> NoConn]
         /\ loop' = [at |-> "polling", conn |-> NoConn]
         /\ tasks' = <<>>
         /\ at' = [w \in Workers |-> "idle"]
         /\ job' = [w \in Workers |-> NoTask]
         /\ target' = [w \in Workers |-> NoConn]
         /\ held' = [w \in Workers |-> {}]
         /\ todo' = [w \in Workers |-> {}]
         /\ member' = [w \in Workers |-> NoUser]
         /\ stale' = {}
         /\ lost' = lost \union UNION {held[w] : w \in Workers}
         /\ cut' = cut \union {m \in Requests : asked[m] # NoConn /\ acks[m] = <<>>}
         /\ UNCHANGED <<presence, rows, asked, logins, session, authed, pushes, errors, acks>>

-----------------------------------------------------------------------------
ClientStep(c) == \/ Connect(c) \/ HangUp(c) \/ FallSilent(c)
                 \/ ReceivePing(c)
                 \/ \E u \in Users : ReceiveLogin(c, u)
                 \/ \E m \in Requests : ReceiveChat(c, m)

EndOf(c) == ReadEof(c) \/ ReadError(c)
HandleEnd == RemoveUser \/ SetUserOffline \/ CloseCallback

LoginStep(w) == \/ LoginRefused(w) \/ LoginAccepted(w) \/ AddUser(w) \/ SetUserOnline(w)
                \/ Greet(w) \/ GetAndClearOfflineMessages(w) \/ NothingFetched(w)
                \/ PushOffline(w)
ChatStep(w) == LookUp(w) \/ Forward(w) \/ Store(w) \/ AnswerChat(w)
GroupStep(w) == NotInGroup(w) \/ GetGroupMembers(w) \/ SkipSelf(w) \/ LookUpMember(w)
                \/ AnswerGroup(w)
WorkerStep(w) == TakeTask(w) \/ LoginStep(w) \/ ChatStep(w) \/ GroupStep(w)

Next == \/ \E c \in Conns : ClientStep(c) \/ EndOf(c)
        \/ HandleEnd
        \/ \E w \in Workers : WorkerStep(w)
        \/ CheckTimeouts
        \/ \E u \in Users : Expire(u)
        \/ Crash

Spec == Init /\ [][Next]_vars

\* epoll reports every ended connection and Loop handles each event of the
\* batch; workers are scheduled and their calls return; the watchdog wakes
\* every ten seconds.
FairSpec == /\ Spec
            /\ WF_vars(HandleEnd)
            /\ \A c \in Conns : SF_vars(EndOf(c))
            /\ \A w \in Workers : WF_vars(WorkerStep(w))
            /\ WF_vars(CheckTimeouts)

-----------------------------------------------------------------------------
\* Somebody has been told to be u and is still there.
HasSession(u) == \E c \in Conns : conn[c] = "open" /\ session[c] = u

(* A request answered with 200 is accounted for: each letter of it has     *)
(* been pushed to a connection, lies in the offline table, or is in the    *)
(* hands of a worker that has just fetched it, whatever logins and ends of *)
(* connections happened between lookup, insert and fetch.  The end of the  *)
(* server loses the letters in a worker's hands and no others: they leave  *)
(* the table before they are pushed.  A group chat passes over the members *)
(* its sender was logged in as, and over those whose insert failed: it has *)
(* counted them under "Offline saved".                                     *)
PassedOver(l) == /\ l[1] \in GroupChats
                 /\ l[2] \in authed[asked[l[1]]] \/ l \in unsaved
Accounted(l) == \/ pushes[l] # <<>>
                \/ l \in rows
                \/ \E w \in Workers : l \in held[w]
                \/ l \in lost
                \/ PassedOver(l)
AckedIsAccountedFor ==
  \A m \in Requests : acks[m] = <<"200">> => \A u \in Receivers(m) : Accounted(<<m, u>>)

(* A letter is pushed to connections that have logged in as its receiver,  *)
(* and more than once only when a DELETE reported an error after it had    *)
(* been fetched (GetAndClearOfflineMessages returns the letters then, and  *)
(* they may still be in the table at the next login): forwarding and the   *)
(* fetches of two logins of the receiver at the same time exclude each     *)
(* other, and the connection looked up in user_map_ is the receiver's      *)
(* although logins and ends go on before Send is called on it.             *)
PushedOnceUnlessKept == \A l \in Letters :
  /\ Len(pushes[l]) > 1 => l \in kept
  /\ \A i \in 1 .. Len(pushes[l]) : l[2] \in authed[pushes[l][i]]

(* A letter has one fate: the handlers of chats and logins, call by call   *)
(* and with ends of connections and of the server between the calls, move  *)
(* it only as LetterPost does.  It is pushed; or it is inserted, whatever  *)
(* the insert reports, and lies in the table until a login fetches it with *)
(* all the others of its receiver; these are pushed one after another, or  *)
(* lost when the server ends.  Only a DELETE that reports an error lets it *)
(* go this way again.                                                      *)
Post == INSTANCE LetterPost WITH ReceiverOf <- [l \in Letters |-> l[2]],
                                 Carriers <- Workers,
                                 stored <- rows, carried <- held,
                                 sends <- [l \in Letters |-> Len(pushes[l])],
                                 refused <- unsaved
ImplementsPost == Post!Spec

(* Every chat and group chat is answered, also when MySQL fails, unless    *)
(* the server ends before.                                                 *)
EveryChatAnswered ==
  \A m \in Requests : (asked[m] # NoConn) ~> (acks[m] # <<>> \/ m \in cut)

(* An entry of user_map_ whose connection has gone is erased in the end,   *)
(* also when a read error or a login that finished late left it behind.    *)
DeadEntriesGo == \A u \in Users : \A c \in Conns :
                   (userMap[u] = c /\ conn[c] = "erased") ~> (userMap[u] # c)

(* A letter that waits when a login of its receiver comes to fetch is      *)
(* pushed in the end, by this login or by another that came first.  Else   *)
(* the server has ended with the letter in a worker's hands, or it waits   *)
(* on after the login (the SELECT failed, or the server ended before it).  *)
(* No row is deleted without its letter being pushed, no letter of a lot   *)
(* is forgotten.                                                           *)
LoginDelivers == \A m \in Requests : \A u \in Receivers(m), w \in Workers :
  LET l == <<m, u>> IN
  (l \in rows /\ at[w] = "fetching" /\ job[w].user = u)
    ~> (pushes[l] # <<>> \/ l \in lost \/ (l \in rows /\ at[w] = "idle"))

(* A chat is stored as offline ("target is not online" in Connection.cpp)  *)
(* only when its receiver has no session at the lookup.                    *)
GoesToStore(w) == at[w] = "chat" /\ at'[w] = "storing"
OfflineMeansNoSession ==
  [][\A w \in Workers : GoesToStore(w) => ~HasSession(To[job[w].msg])]_vars
=============================================================================
