# A TLA+ model of CppProjectLearn

The repository holds four C++ projects: **IM-Server**, a chat server on epoll
with a thread pool, MySQL and Redis; **MyLog**, an asynchronous logging
library; **MyJson**, a JSON value type with parser and serializer; and
**MySTL**, container and iterator exercises. This directory models the
concurrent core of the first two and the parser and serializer of the third,
model-checks them with TLC on small instances and proves the main results for
all instances with TLAPS.

## 1. Inventory

### IM-Server

The server has one event-loop thread, four worker threads and one watchdog
thread. The loop accepts connections, reads and frames requests and flushes
output; workers run the requests; the watchdog drops silent users every ten
seconds. State is shared through `std::shared_ptr<Connection>`, through
singletons with a mutex each, and, without any lock, through
`EventLoop::callbacks_` and `Connection::current_user_`.

| Component | State | Operations | Interacts with | What makes it correct |
|---|---|---|---|---|
| `TcpServer` | `connections_` (descriptor to owner) | `start`: accept lambda, close callback | creates `Connection`, is called back by it | an entry belongs to the live owner of its descriptor; the descriptor of a client that left is freed |
| `EventLoop` | `callbacks_`, epoll set | `AddEvent`, `RemoveEvent`, `Loop` | calls `Connection::HandleEvent` through the callback; workers call `AddEvent` and `RemoveEvent` | an event reaches the connection that owns the descriptor |
| `Connection`, receiving | `read_buffer_` | `Read`, framing by `Codec` over `Buffer` | enqueues one task per request | requests come out whole, once, in order; no complete frame waits |
| `Connection`, sending | `write_buffer_`, EPOLLOUT interest | `Send` (workers, `Read`), `Write` (loop) | `EventLoop::AddEvent`, the socket | EPOLLOUT is watched exactly while something is buffered; bytes leave in order, once |
| `Connection`, business | `current_user_` | the lambda of `Read`: login, chat, group chat; end of stream | `UserManager`, `MySQLManager`, `RedisManager`, `GroupManager` | an acknowledged message is accounted for, goes to its receiver, and is pushed again only after a failed DELETE |
| `UserManager` | `user_map_` (name to weak pointer) | `AddUser`, `RemoveUser`, `GetConnection`, `CheckTimeouts` | workers, loop, watchdog | a logged-in user is found, an ended connection is not kept |
| `MySQLManager` | table `offline_message`, one `mutex_` | `InsertOfflineMessage`, `GetAndClearOfflineMessages`, `CheckUser` | workers; the database outlives the server | no message is deleted unread |
| `RedisManager` | presence keys with 120 s to live | `SetUserOnline`, `SetUserOffline` | workers, loop; keys expire by themselves | a failing call changes nothing for chats and logins |
| `ThreadPool` | `tasks_`, `stop_`, workers | `Enqueue`, worker loop, destructor | the event loop enqueues | each task runs once, is taken in order; the destructor drains |
| `GroupManager` | `group_map_`, filled once | `InitLoadFromDB`, `IsUserInGroup`, `GetGroupMembers` | group chat | the sender is a member, each other member gets the message or has it stored |
| `Config`, `main` | constants read from a file | start-up | starts everything | sequential, no behaviour of its own but the watchdog |

### MyLog

| Component | State | Operations | Interacts with | What makes it correct |
|---|---|---|---|---|
| `AsyncQueue` | two buffers, `m_write_buf`, `m_closed` | `push`, `close`, `waitSwapBatch` | producers and the backend thread | FIFO without loss; no sleep beside work; close drains |
| `Logger` | log file, `m_writted_bytes`, `m_seq`, options, flags | `log`, `setRotateOptions`, `reopen`, `stop`, `BackendLoop` | owns the queue and the backend thread; an external logrotate moves its file | no line is lost by a rotation; reopen takes effect; stop returns with all written; files respect their limit |

### MyJson

| Component | State | Operations | Interacts with | What makes it correct |
|---|---|---|---|---|
| `JsonValue` | type, scalar, elements or members | `make_...`, `array_push_back`, `object_set`, `array_get`, `object_get`, `to_string`, `to_pretty_string` | read by `save_json` | what is written is read back |
| `JsonParser` | text, position | `parse` and one function per type | `load_json` | every parse function leaves the position where the next one expects it; a text cut short is refused, but for a bare number |

MyJson is sequential; its parser recurses without a limit of depth.

### MySTL

A vector, iterator adaptors and type traits: templates and exercises, nothing
concurrent and no I/O, used by its own tests only. `json.hpp` in
IM-Server is a third-party header; with 24,765 lines it is most of the
repository.

### What is hard here

- A request is parsed on the loop and run on a worker, so two requests of one
  connection, or the end of a connection and its last request, overlap.
- The last `shared_ptr` to a connection may be dropped by a worker: its
  destructor then changes `callbacks_` and closes the descriptor while the loop
  is dispatching, and the kernel may hand the same descriptor out at once.
- `Send` and `Write` share a buffer, a socket and an epoll registration.
- `GetAndClearOfflineMessages` is two SQL statements; inserts by other workers,
  a failing DELETE or a crash may come between them.
- A login, an insert of an offline message and the end of an older session of
  the same user interleave call by call; a group chat does so once per member.
- The server may end between any two calls (a write to a connection that its
  peer has reset raises SIGPIPE; a task lets every exception but
  `json::parse_error` out of its thread) and is started again beside databases
  that went on.
- Two condition variables are notified less often than on every change (MyLog)
  or outside the lock (pool).
- Files are renamed by the logger and by an external logrotate while lines are
  being written; an earlier process has left files of the same names, and a
  directory may not be there when a file is opened in it.
- The JSON parser skips white space in some places and not in others, and
  nothing escapes what a string contains.

`PROJECT.json` lists every such hazard at its line with the properties that
watch it; where no property does, its note says why.

## 2. Modules and how they correspond to the code

The modules are independent state machines, joined where the code joins them:
`Logger` extends `AsyncQueue`; the queue and the pool implement the same
abstract channel; `Session` uses the offline store as the mailbox, with the
statements of it that fail, that `OfflineStore` is shown to implement, the pool
as the FIFO that
`ThreadPool` is shown to be, and connections as the objects whose life is
`ConnLifecycle`.

| Module | Code | Its steps |
|---|---|---|
| `AsyncQueue` | `AsyncQueue` in `Log.cpp`, `Log.h` | one per call of `push` and `close` (they hold the mutex); `waitSwapBatch` up to each wait; the write of one entry; end of a batch |
| `ClosableChannel` | what the queue and the pool promise | Accept, Deliver, Close, Finish |
| `Logger` | `Logger` in `Log.cpp` | the same steps with files; the exchange of `m_need_reopen`, `doReopen_`, the decision with `rotateNow_`; an open that finds its file, makes it, or fails; `reopen`, `setRotateOptions`, `stop` in three steps; an external logrotate; midnight; what an earlier process left |
| `OfflineStore` | `MySQLManager::InsertOfflineMessage`, `GetAndClearOfflineMessages` | inserts, SELECT, DELETE with its return, each statement failing or not; a crash between the statements |
| `Mailbox` | what the store promises | Put, Take (atomic), and what failures allow |
| `ThreadPool` | `ThreadPool.h` | push and notification apart; the worker from its predicate to the pop; the task's return; the destructor in three steps |
| `ReceivePath` | `Connection::Read`, `Buffer`, `Codec::ParseMessage` | one `read`, one parsed frame; arrival in pieces of any size and the end of the stream between any two |
| `SendPath` | `Connection::Send`, `Write`, `HandleEvent` | `Send` and `Write` (each under `send_mutex_`) and `epoll_wait` are a step each; the kernel's buffer, a client that reads, closes, resets |
| `Session` | the lambda of `Connection::Read`, `UserManager`, `GroupManager`, `RedisManager`, `CheckTimeouts` | each call into a manager is one step: login, chat, and group chat with its check, one lookup and one send or insert per member, and its answer; offline messages are pushed one Send at a time; SELECT, DELETE and inserts may fail, and a statement that reports an error may have been executed; the end of a connection; the end and restart of the server |
| `LetterPost` | what the server promises of a letter | Send, Save, Refuse (an error, which may have stored it), TakeOut (all that is stored for a user; on an error it may stay stored), Deliver (one letter), End (of the server) |
| `ConnLifecycle` | `TcpServer::start`, `EventLoop`, ownership of `Connection` | accept; `count(fd)`, the call, `shared_from_this` as three steps; `RemoveEvent` and `close` of a destructor as two; locks and releases on other threads |
| `Json` | `json.cpp` | operators: a value to its texts, a text and a position to a value and a position |
| `JsonFile` | `test_io_json.cpp`, `load_json`, `save_json` | changes anywhere in a document, saves whole or cut short, another program that adds white space, loads |
| `SequenceLemmas` | - | facts about sequences for the proofs |
| `LoggerProofs` (with the queue's), `ThreadPoolProofs`, `OfflineStoreProofs`, `ReceivePathProofs`, `SendPathProofs`, `SessionProofs`, `ConnLifecycleProofs` | - | theorems |
| `MC...` | - | the constants of the small instances |

Variables carry the names of the members they model (`write_buffer_` is
`writeBuffer`); variables marked "history" exist only for properties. A
section "Seeded faults" in each module holds mutated forms of single
definitions. They take no part in the specification: they document, for each
property, a slip in the code that the property detects.

Data is abstract. A byte of a stream is a pair of message and position, a
message is a model value, a log line is the number of the call that made it; a
user's password or a message's text does not occur. What conversions do to
data is kept where a property depends on it: framing works on header and body
lengths, rotation on byte counts, a JSON text on brackets, separators, quotes
and white space, and a number on its sign, digits, point and exponent, so that
a cut may leave a shorter number. `null`, `true`, `false`, and a run of the white
space that the pretty printer puts between two tokens, are one character each. A
number loses the digits that are not written.

Where the code has undefined behaviour, the model takes the outcomes a build
can produce or names the limit: a callback into a freed object counts as the
end of the server; the unlocked accesses to `callbacks_` are taken as atomic,
so that `ConnLifecycle` shows what remains wrong even then.

## 3. The runs

| Run | Instance | What it shows |
|---|---|---|
| `Logger` | nothing or two files left by an earlier process, one directory not there at first, 1 logging thread with 2 calls, threshold 2, two directories, a limit of one line or none, one external move, two days, one caller of `stop` | NoLostWakeup, KeptInOneFile (and in the order of the calls), ReopenTakesEffect; StopReturns; refinement of `ClosableChannel` with its fairness |
| `Logger_size` | limit of two lines | *violated*: RotatesBySize |
| `OfflineStore` | 2 workers, 3 messages, 2 users | NothingDeletedUnread, RepeatedOnlyAfterFailedDelete; refinement of `Mailbox` |
| `ThreadPool` | 3 workers, 4 tasks | NoSleepBesideTask, JoinedMeansDone; refinement of `ClosableChannel`; EveryTaskStarts, StopJoins |
| `ReceivePath` | header 2, chunk 3, bodies of 1, 0 and 4 bytes | HandledIntact, NoFrameLeftBehind; HandledUnlessClientEnds |
| `SendPath` | 2 senders with 2 messages of 2 bytes each, kernel buffer of 3 | InterestMatchesBuffer, FlushedInOrder; BufferDrains |
| `SendPath_once` | 2 senders with 1 message | *violated*: WireIsQueuedOnce |
| `Session_safety` | 2 workers, 2 connections, 2 users in one group, a chat, a group chat or both (2 letters in all), 1 login per connection, 1 crash and restart, MySQL may fail | AckedIsAccountedFor, PushedOnceUnlessKept; refinement of `LetterPost` |
| `Session_live` | 1 worker, 1 connection that may fall silent or break, 2 users in one group, 1 login, two chats to one user or a group chat (2 letters in all), 1 crash and restart, MySQL may fail, Redis fails | EveryChatAnswered, DeadEntriesGo, LoginDelivers |
| `Session_offline` | 2 workers, 2 connections, 1 user | *violated*: OfflineMeansNoSession |
| `ConnLifecycle` | 3 connections on 2 descriptors, one pointer elsewhere per connection, one late lookup | CallbackIsOwners, NoneIsDeaf, EntryIsOwners, HeldIsLive; EndedIsFreed |
| `JsonFile` | documents of up to 4 values, a single scalar among them: 5 leaves, 2 member names | FileReadsBack, CutIsRefused |

Every run also checks its module's type invariant, except the liveness run of
`Session`, the run of `JsonFile`, whose FileReadsBack says which value is in
the document, and the three that refute a statement.

### Why the bounds are enough

- `Logger`: two entries allow one in the batch and one pushed beside it, or a
  batch of two, which reaches the threshold; with a limit of one line every
  batch after the first rotates, and the first too when an earlier process has
  left a live file, so names are used twice if they can be; one move and two
  directories make `m_file`, the live name and the moved file three different
  files; the second directory is missing at first, so that a reopen or a
  rotation after `setRotateOptions` fails and a later one succeeds. One logging thread is enough because `push` is atomic
  and the queue never looks at who pushed; the theorems are for any number.
- `OfflineStore`: two workers are what it takes to get between two statements;
  two messages to one user let one be inserted in between, a third to another
  user tells deletion by receiver from deletion of everything.
- `ThreadPool`: with three workers one may run, one be on its way and one
  sleep, which is where a notification can go to the wrong one; four tasks
  outnumber the workers.
- `ReceivePath`: the bodies are empty, shorter and longer than a chunk, and the
  header is cut by every chunk boundary; arrivals cut the stream everywhere.
- `SendPath`: the kernel takes one packet and a part of the next, so partial
  writes, EAGAIN and sends between report and write all occur.
- `Session`: two connections of one user are an old and a new session, the
  second worker makes logins and chats overlap. Two letters are what a lot needs
  to be sent in part when the server ends, or to be joined by a letter while the
  first is on its way; of the two members of the group one may be the sender,
  the other is served either way. MaxLetters bounds the letters of all
  requests together: a chat has one, the group chat two. One login per
  connection suffices to push a letter twice: the first fetches it, its DELETE
  fails, the second fetches it again. One crash suffices: a restarted server keeps nothing of its memory. In the
  safety run connections are closed by their client and do not break; a
  connection that breaks goes the shorter way past `RemoveUser`, which leaves an
  entry without a live connection: the other two runs have it. The run tells
  states apart by everything but the keys in Redis (VIEW AllButPresence), and its
  Redis calls succeed: only the steps that change the keys look at them, and no
  other step waits for one, so that states that differ in keys alone have the
  same letters, answers and sessions ahead of them. For liveness one connection
  and one worker do, because no step of a worker waits for another; the loop ends
  the connection beside the worker, and the second request is queued behind the
  first.
- `ConnLifecycle`: with more connections than descriptors a descriptor is
  reused while the object before it dies.
- `JsonFile`: four values make arrays and objects with a nested one, empty or
  not, before and after another part, and documents that are one scalar; strings
  have white space inside and at the end; the number has a sign, and is written
  with a point and an exponent and fewer digits than it has, so that a cut may
  fall at each of them.

Deadlock is not checked: each of these systems may stop for good, with all
calls made (their number is bounded), all clients gone, or the pool joined.
That nothing stops too early is what the liveness properties say.

### Fairness

Fairness is stated where the scheduler or an outside component gives it and
nowhere else:

- the backend thread, the workers and the event loop are scheduled (weak
  fairness of their steps taken together, or per thread); a task returns
  because none of its calls waits for another task;
- nobody has to log, send a request, hang up, call `stop` or enqueue;
- in `Session`, `epoll_wait` is level-triggered and reports an ended
  connection again until it is handled: strong fairness of the end of each
  connection, because the loop serves others in between; the watchdog wakes
  every ten seconds;
- in `SendPath` a client that stays connected reads; in `ConnLifecycle` tasks
  and the watchdog let go of their pointers.

### What the violated runs show

1. **Send writes every packet twice** (`SendPath_once`, `Connection.cpp:277`).
   `Send` appends the packet to `write_buffer_` and also writes it to the
   socket, ignoring the result; the loop then writes the buffer. The comment
   there describes the intended order: write first, keep what is left. As it
   is, a client gets each packet twice, and a direct write may fall between two
   halves of a buffered one. `FlushedInOrder` and `BufferDrains` hold of the
   buffered copy.
2. **A user with a session is treated as offline** (`Session_offline`,
   `Connection.cpp:58`). The end of an older connection removes the user's
   name from `user_map_` although a newer connection owns the entry. Messages
   are then stored; `AckedIsAccountedFor` shows that they are not lost, they
   wait for the next login.
3. **Files are not rotated by their size** (`Logger_size`, `Log.cpp:130`).
   `m_writted_bytes` is assigned the size of the last line instead of being
   increased by it.

Noticed while modelling, without a run of their own: after `close_callback_` a
connection stays registered while a task holds it, and when that task ends
between the loop's lookup and `shared_from_this` the loop calls an empty
function or gets `bad_weak_ptr`, which ends `Loop` and the server
(`EventLoop.cpp:49`; the variable `down` of `ConnLifecycle`); requests read in
the same call that meets the end of the stream are dropped (`Connection.cpp:69`;
`ReceivePath` states the promise that remains as HandledUnlessClientEnds);
nothing handles SIGPIPE (`Connection.cpp:277`) nor an
exception of the JSON library for a field of the wrong type
(`Connection.cpp:259`), which both end the server; the watchdog removes a silent user without closing the
connection (`UserManager.cpp:37`); a presence key is never renewed
(`RedisManager.h:47`); group chat counts members whose message could not be
saved (`Connection.cpp:237`; PassedOver in `Session`), and passes over a member
whom another worker logs the sender's connection in as meanwhile
(`Connection.cpp:218`); offline messages are deleted before they are sent, so
that an end of the server between loses them (`Connection.cpp:139`; the history
`lost` of `Session`), also when the write to a reset connection raises SIGPIPE
after a part of them; messages whose DELETE failed are returned all the same and
pushed again at the next login (`MySQLManager.cpp:132`; the history `kept`); an
insert that reports an error may have stored its row, so that a chat answered
with 500 is delivered later (`MySQLManager.cpp:82`); a rotation in a second process of the same day renames
onto the file the first one rotated (`Log.cpp:187`; Replaceable in `Logger`);
an open that fails is not noticed, and lines are dropped until the next reopen
or rotation (`Log.cpp:192`; the history `dropped`). In MyJson white space in a
string is lost when it is read, and before the closing quote it makes the
string run on (`json.cpp:414`; `Plain` in `JsonFile` leaves such documents out
of the promises); quotes in strings are not escaped; `[ ]` is refused although
`[]` is read; what follows the value in a file is ignored; a file that holds a
bare number and was cut short is read as the number its first characters make
(`json.cpp:351`; CutIsRefused excludes such documents).

## 4. What is proved

All theorems hold for every value of the constants that meets the named
assumptions in the modules: bounds are natural numbers, the batch threshold is
positive, the pool has finitely many workers and at least one, `To` maps
messages to users, packets and the kernel's send buffer are not empty, the
values for no connection and no descriptor are none of them, a request is a chat or a group chat and not both, members of groups are users,
the header of a frame and the chunk of one `read` are not empty, bodies have
natural lengths, the logger's first options are among its options and its
directory is there, a line has a natural number of bytes, there is at least one
day, and files of earlier processes have different names, each a live or a
rotated one.

**LoggerProofs, the queue.** `TypeCorrect` is inductive as it stands. `NoLostWakeup`
and `DrainedWhenDone` are not: whether the consumer may sleep depends on the
buffer having been empty when it went to sleep, and what is written depends on
where each accepted entry is. `QueueInv` adds this: the read buffer is empty
between calls, the batch is empty unless the consumer writes, the accepted
entries are the written ones, the batch and the write buffer *in this order*,
and a finished consumer left a closed and empty queue. `QueueInvariant` proves
it step by step; `NeverSleepsBesideWork` and `DoneMeansDrained` follow.
`QueueImplementsChannel` maps each step to one of `ClosableChannel`: `push` to
Accept, the write of an entry to Deliver, the false return of `waitSwapBatch`
to Finish, and the swap to a stutter, for which the read buffer must be empty.

**LoggerProofs, the logger.** Every step of the logger is a step of the queue or
leaves the queue alone (`LoggerImplementsQueue`), hence the same results for
the whole logger with its files, rotations and callers of `stop`. That
everything accepted was given to `Write2File` at the end is the queue's part of
it; `LoggerDrainsWhenDone` combines it with `LinesAreKeptInOneFile`: each
accepted line is then in exactly one file, or was given to a stream whose open
had failed (`dropped`).
`LoggerTypeCorrect` adds the types of its own variables: a name always leads to
a file there is.

`KeptInOneFile` says where each line is, but not why no step can take it away;
`FilesInv` does. No two names lead to the same file. A rotated name is *past*
(behind `m_cur_data` and `m_seq`), so that `rotateNow_`, which takes the next
number, never renames onto it, or it was found and its file holds the found
line alone: only such a file can be replaced, and it holds nothing of this
process. A moved file has the name it was moved to. `m_file` has a name that is
not a rotated one. Lines of files were written or found, and none is in two
files; that a line just written was in no file needs the queue again, whose
entries are distinct and are either written or on their way
(`EntriesAreDistinct`, `WhereEntriesAre`). Renaming, by a rotation or from
outside, and opening are separate lemmas (`RenamedNamesMayBecome`,
`MoveAwayKeepsFiles`, `OpenKeepsFiles`), which share what a change of names may
be (`MayBecome`). `FilesInvariant` and `LinesAreKeptInOneFile` follow, for any
options, days, moves and leftovers.

`ReopenTakesEffect` is about the file an entry goes to at the end of its way.
`ReopenInv` follows it: what is barred to an entry on its way is among the
files left behind by the last call; those still have the names they were moved
to, hence no live name leads to them; and with `m_need_reopen` clear and no
reopening under way, `m_file` is none of them. The batch in hand was checked
before, and entries logged later are not in it. `ReopenTakesEffectAlways` is
the action property.

**ThreadPoolProofs.** `NoSleepBesideTask` counts: as long as somebody sleeps,
the number of queued tasks is at most the number of workers on their way to the
queue plus one for a notification still to be sent. The count survives each
step because a push is always followed by a notification (and not only when the
queue was empty), a taken task takes one worker with it, and a worker sleeps or
exits only on an empty queue. `PoolInv` adds what the destructor's promise
needs: started tasks are finished or held by a running worker, workers exit
only when stopped with an empty queue, joining means all have exited.
`TypedPoolInvariant` proves it together with the types (that `finished` holds
task numbers needs to know that a running worker has a task), and
`TasksTakenInOrder`, `NeverSleepsBesideTask`, `JoinRunsEverything` follow.
`PoolImplementsChannel` maps Enqueue to Accept, the pop to Deliver, `stop_` to
Close and the end of the join to Finish: the pool and the log queue, written
apart, keep one promise. `NoTaskRunsTwice` adds that the tasks of running
workers are different and not finished (`RunsTaken`: what ran or runs was
taken, and the next task was not). `JoinFindsAllAwake` is the safety part
of StopJoins: from the `notify_all` on nobody sleeps, because a worker that
sees `stop_` does not wait. The cardinalities need the worker set to be finite, the destructor's promise needs
it not to be empty.

**OfflineStoreProofs.** `StoreInv` says that at most one worker is between its
SELECT and its DELETE, and holds exactly the rows its DELETE will remove;
messages found both in the table and among those returned are those a failed
DELETE kept. `SavedIsNeverDeletedUnread`, `RepeatsNeedAFailedDelete` and
`StoreImplementsMailbox` follow.

**SessionProofs.** Neither of the two promises is inductive: whether a letter
can still be pushed depends on what the queue, the workers and the table hold.
`SessionInv` says where everything is. `PlaceInv`: the task of a worker fits
the place it is at, which also makes `TypeOK` provable (no step reads a field
its task has not). `OnceInv`: a request is queued or in the hands of one worker
at most, and is not answered before that worker is through. `LetterInv`: a
letter whose turn is still to come is untouched, and any other is in one place
at most, the table, the hands of one login, or pushed, unless a failed DELETE
has kept it; this is what keeps a forward and the fetches of two logins apart. `AuthInv`: entries of `user_map_`,
looked-up targets and logins lead only to connections authenticated for the
user. `AckInv`: members a group chat has come past are accounted for, and so are a
chat about to be answered with 200 and all that was answered so. Steps are sorted by what they do to these parts
(`OutsideIsQuiet`, `WorkerKinds`), so that each part is proved with the few
cases that touch it. The end of the server empties queue, hands and entries:
what it held goes to `lost`, which `AccountedStays` follows.
"Accounted for" is not "never lost": a letter may be lost in the hands of a
login at an end of the server (`Connection.cpp:139`), and a group chat answers
200 though a member's insert failed (`Connection.cpp:237`). `AckedAccounted` says
that these are the only ways. `SessionInvariant`
is the inductive invariant, `AckedAccounted` and `PushedOnce` the promises (the
second for letters that no failed DELETE has kept), for any number of workers, connections, users, groups, requests and crashes.

`SessionImplementsPost` says what all the calls of a login and a chat come to.
`stored` is the table, `carried` the lots in the hands of logins, `sends` the
number of pushes. The send and the insert of a chat or of one member of a group
are a step of `LetterPost` each, the SELECT with its DELETE takes a lot out and
may leave it in the table too when an error is reported, each Send of a lot
delivers one letter (`PostSendsOne`), and every other call is a stutter. That a send or an insert
finds its letter fresh is `LetterInv` together with `FateInv` (a letter whose
turn is still to come was neither refused nor lost). The steps are split again by
what they do to letters (`LetterMoves`). `LettersHaveOneFate` is then proved of
the abstract steps alone and carried over by the refinement; it is about letters
that were never kept.

`NoRequestIsDropped` is the safety part of EveryChatAnswered: a request that was
received is in the queue, in the hands of a worker, answered once, or cut off by
an end of the server. Its step needs `OnceInv`, since a worker answers only what
is not answered yet.

**ReceivePathProofs.** The stream of a client is a recursive function of the
number of its messages. What is needed of it, that it is a sequence of bytes
and that message `n + 1` follows the first `n`, is shown for all messages by the
least number for which it would fail (`LeastElement`), since induction over an
operator is not available. `ReceiveInv` then says that the frames already
parsed, the input buffer and the bytes in the kernel are, in this order, what
has arrived of the stream. A frame at the front of the buffer is therefore the
next message and nothing else (`FrameIsNextMessage`), however the bytes were cut
into reads: `MessagesAreIntact`. `NoFrameIsLeft` says that `ParseMessage` stops
only before a frame that is not complete, and `IdleOwesNothing` combines the
two: when the connection waits for events with nothing left to read, every
message that has arrived in full was handled.

**SendPathProofs.** With the types both promises are inductive. Only `Send` and
a successful `Write` touch the buffer (`OthersLeaveBuffer`). `Send` leaves it
non-empty, because a packet is, with EPOLLOUT watched; `Write` gives EPOLLOUT
back exactly with the last byte (`InterestIsRight`). What `Write` erases is a
prefix of the buffer, since the kernel takes at most what it is offered
(`AcceptsBounds`), so that erased and waiting bytes stay the queued ones
(`FlushesInOrder`). `TypeCorrect` includes that the kernel is never given more
than it has room for. This is about the buffered copy; that the wire carries
more is the finding `SendPath_once`.

**ConnLifecycleProofs.** A destructor gives up a connection's traces one by
one, and each promise is about one trace. `LifeInv` ties them together:
`OwnersMatch`, the kernel's table of descriptors is the inverse of `fd_` until
`close`; `RegisteredMatch`, an object has its callback until `RemoveEvent` and
no other callback exists; an entry of `connections_` and every held pointer
belong to a live object; and the loop between its lookup and its guard has a
descriptor and, unless it has thrown, an object. A new connection then gets a
descriptor without traces, `RemoveEvent` and `close_callback_` erase only their
own, and `close` finds nothing left. `LifeInvariant` has one lemma for each
step that changes an object; `CallbacksAreOwners`, `NobodyIsDeaf`,
`EntriesAreOwners` and `HoldersAreSafe` follow for any number of connections,
descriptors and holders. `NothingLeaks` is the safety part of EndedIsFreed: a
live object has an owner, be it the entry, a task or the guard of the loop
(`OwnedInv`, kept because `close_callback_` erases no entry but its own), and if
its client has gone `epoll_wait` reports it. The order of the two calls in `~Connection` is what
makes `RemoveEventKeeps` and `CloseFdKeeps` provable.

`SequenceLemmas` holds the facts about heads, tails, cuts and concatenation used
in the two queues and the two byte streams.

### Only model-checked

Liveness under fairness, and with it the fair refinement
`ImplementsFairChannel`, is out of the prover's reach: StopReturns,
EveryTaskStarts, StopJoins, HandledUnlessClientEnds, BufferDrains,
EveryChatAnswered, DeadEntriesGo, LoginDelivers and EndedIsFreed are checked on the
instances above. `Json` is recursive over values and texts; what it computes
for every value needs induction over data, so that FileReadsBack and
CutIsRefused stay with TLC, as do the three runs that show a disagreement.

## 5. Not modelled, and the plan

All safety invariants, action properties and refinements without fairness that
the runs check are proved, but for those of `JsonFile`; and of the liveness
properties the safety part, wherever there is one: StopReturns, EveryTaskStarts
and StopJoins need that nobody sleeps beside work or a stop,
HandledUnlessClientEnds that no complete frame is left in the buffer,
BufferDrains that EPOLLOUT is watched while bytes wait, EveryChatAnswered that
no request is dropped, EndedIsFreed that every connection is owned and reported.
That of LoginDelivers is in the refinement of `LetterPost`: only taking out
removes a letter from the table, and only sending it or an end of the server
takes it out of a worker's hands. DeadEntriesGo has none: the step of the
watchdog is enabled as long as it has something to do.

`SendPath` and `ReceivePath` are not put together. The wire carries every packet
twice (finding 1), so that what reaches the other side is not the sequence of
queued packets, and what a peer would read is settled only when `Send` is.

Left out for good: configuration and start-up (sequential reading of
constants), formatting of log lines, the level filter and formatters of MyLog
(one atomic load before a push, one pointer copy before a write), errors of
`epoll_wait` and `accept` (logged and ignored by the code), requests that are
not well formed beyond the end of the server they cause, the vendored JSON
header and the Python test clients. The practice files of MySTL print what the
standard library does; its vector is a sequential template that only its test
uses, and whose assignment (`vector.h:28` compares a pointer with an object)
does not compile once it is instantiated. What is left of the repository
without the vendored header, MySTL, tests and start-up is covered by the
modules above.
