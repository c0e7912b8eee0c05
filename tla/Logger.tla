------------------------------- MODULE Logger -------------------------------
(***************************************************************************)
(* MyLog's Logger around its AsyncQueue: the backend thread with its log   *)
(* files, and the calls that other threads make of it at any moment.       *)
(*                                                                         *)
(* AsyncQueue has the calls of push and waitSwapBatch; here each batch is  *)
(* also brought to a file.  Before it writes a batch, BackendLoop looks at *)
(* m_need_reopen, then at the size of the file: it may reopen the live     *)
(* file, which an external logrotate has moved away, or rename it and open *)
(* a new one.  Files have a number each, as inodes do: a name may change   *)
(* while m_file writes.  A line that was written is in the file at once    *)
(* (m_file is flushed at the end of a batch and before it is closed).      *)
(* PushAccepted is a call of log at or above the runtime level.            *)
(*                                                                         *)
(* The process may be one of several that wrote to the same directories:   *)
(* it finds the files that earlier ones left, which have ended or crashed, *)
(* and starts with m_seq 0 all the same.  A directory of the options may   *)
(* not be there yet: open then fails and m_file drops what is written to   *)
(* it, until it is opened again.                                           *)
(***************************************************************************)
EXTENDS AsyncQueue, FiniteSets, SequencesExt

CONSTANTS Options,          \* LogRotateOptions: records [dir, max_bytes]
          DefaultOptions,   \* the ones of the constructor
          LineBytes,        \* bytes of one line, as written
          EstimatedBytes,   \* bytes of one line, as BackendLoop estimates it
          MaxMoves,         \* bound: files moved away by an external logrotate
          MaxDays,          \* bound: days
          Stoppers,         \* threads that may call stop
          AbsentDirs,       \* directories that are not there at first
          Leftovers         \* what earlier processes may leave: sequences of names

CONSTANTS Earlier           \* the producer of the lines of earlier processes

Dirs == {o.dir : o \in Options}
Live(d) == [kind |-> "live", dir |-> d]
Rotated(d, day, n) == [kind |-> "rotated", dir |-> d, day |-> day, seq |-> n]
Moved(n) == [kind |-> "moved", n |-> n]
NoFile == 0                 \* a stream whose open failed

\* What a process leaves under names of its own.
Leavable == [kind : {"live"}, dir : Dirs]
              \union [kind : {"rotated"}, dir : Dirs, day : Nat, seq : Nat]

ASSUME OptionsAssumption == DefaultOptions \in Options
ASSUME AbsentAssumption == AbsentDirs \subseteq Dirs \ {DefaultOptions.dir}
ASSUME EarlierAssumption == /\ Earlier \notin Producers
                            /\ \A names \in Leftovers :
                                 names \in Seq(Leavable) /\ IsInjective(names)
ASSUME BytesAssumption == LineBytes \in Nat
ASSUME DaysAssumption == MaxDays \in Nat \ {0}

VARIABLES path,             \* the file each name leads to
          content,          \* the lines of each file
          file,             \* m_file
          written,          \* m_writted_bytes
          rotOpt,           \* m_rot_opt
          curData,          \* m_cur_data
          seq,              \* m_seq
          needReopen,       \* m_need_reopen
          place,            \* where BackendLoop is with its batch
          today,            \* the date
          stopper,          \* where the callers of stop are
          moved,            \* files moved away
          absent,           \* directories that are not there
          found,            \* history: names of the files of earlier processes
          dropped,          \* history: lines written to a stream that had failed
          left,             \* history: where nothing goes after the last reopen
          barred            \* history: left, when each entry on its way was accepted

files == <<path, content, file, written, curData, seq, moved, dropped>>
calls == <<rotOpt, needReopen, today, stopper, absent, found, left, barred>>
loggerVars == <<vars, files, calls, place>>

Line == Entry \union ({Earlier} \X found)

LoggerTypeOK == /\ TypeOK
                /\ content \in Seq(Seq(Line))
                /\ \A name \in DOMAIN path : path[name] \in 1 .. Len(content)
                /\ file \in {NoFile} \union (1 .. Len(content))
                /\ written \in Nat
                /\ rotOpt \in Options
                /\ curData \in 1 .. MaxDays /\ today \in 1 .. MaxDays
                /\ seq \in Nat
                /\ needReopen \in BOOLEAN
                /\ place \in {"waiting", "checking", "reopening", "rotating", "writing"}
                /\ stopper \in [Stoppers -> {"out", "closing", "joining", "joined", "refused"}]
                /\ moved \subseteq 1 .. Len(content)
                /\ absent \subseteq AbsentDirs
                /\ dropped \subseteq Entry
                /\ left \subseteq moved \union {NoFile}

LineOf(name) == <<Earlier, name>>

\* The constructor opens ./app.log, which an earlier process left or not.
\* Each file that is found has one line.
LoggerInit == /\ Init
              /\ rotOpt = DefaultOptions
              /\ \E names \in Leftovers :
                   LET live == Live(DefaultOptions.dir)
                       all  == IF live \in ToSet(names) THEN names ELSE Append(names, live)
                   IN /\ found = ToSet(names)
                      /\ path = [name \in ToSet(all) |-> CHOOSE i \in DOMAIN all : all[i] = name]
                      /\ content = [i \in DOMAIN all |-> IF i <= Len(names)
                                                         THEN <<LineOf(names[i])>>
                                                         ELSE <<>>]
                      /\ file = path[live]
                      /\ written = LineBytes * Len(content[file])
              /\ today = 1 /\ curData = 1
              /\ seq = 0
              /\ needReopen = FALSE
              /\ place = "waiting"
              /\ stopper = [s \in Stoppers |-> "out"]
              /\ moved = {}
              /\ absent = AbsentDirs
              /\ dropped = {}
              /\ left = {}
              /\ barred = <<>>

Size(f) == LineBytes * Len(content[f])

\* A map with one key set, as by creating or renaming a file, and names with
\* some of them gone.
With(map, key, value) == [k \in DOMAIN map \union {key} |-> IF k = key THEN value ELSE map[k]]
Without(names) == [n \in DOMAIN path \ names |-> path[n]]

-----------------------------------------------------------------------------
(* Seeded faults.                                                          *)
FaultNextSeq(n) == n                       \* m_seq without ++
FaultOpened(f) == file                     \* open without close: it fails

-----------------------------------------------------------------------------
(* Calls on other threads.                                                 *)

Log(p) == /\ \/ /\ PushAccepted(p)
                /\ barred' = With(barred, <<p, pushed[p] + 1>>, left)
             \/ PushRefused(p) /\ UNCHANGED barred
          /\ UNCHANGED <<files, place, rotOpt, needReopen, today, stopper, absent, found, left>>

Reopen == /\ needReopen' = TRUE
          /\ left' = moved \union (IF absent = {} THEN {NoFile} ELSE {})
          /\ UNCHANGED <<vars, files, place, rotOpt, today, stopper, absent, found, barred>>

SetRotateOptions(o) == /\ rotOpt' = o
                       /\ UNCHANGED <<vars, files, place, needReopen, today>>
                       /\ UNCHANGED <<stopper, absent, found, left, barred>>

\* The compare-and-exchange on m_stopped: later callers return at once.
Stop(s) == /\ stopper[s] = "out"
           /\ stopper' = [stopper EXCEPT ![s] =
                IF \A t \in Stoppers : stopper[t] = "out" THEN "closing" ELSE "refused"]
           /\ UNCHANGED <<vars, files, place, rotOpt, needReopen, today>>
           /\ UNCHANGED <<absent, found, left, barred>>

CloseQueue(s) == /\ stopper[s] = "closing"
                 /\ Close
                 /\ stopper' = [stopper EXCEPT ![s] = "joining"]
                 /\ UNCHANGED <<files, place, rotOpt, needReopen, today>>
                 /\ UNCHANGED <<absent, found, left, barred>>

JoinBackend(s) == /\ stopper[s] = "joining"
                  /\ consumer = "done"
                  /\ stopper' = [stopper EXCEPT ![s] = "joined"]
                  /\ UNCHANGED <<vars, files, place, rotOpt, needReopen, today>>
                  /\ UNCHANGED <<absent, found, left, barred>>

-----------------------------------------------------------------------------
(* The world outside.                                                      *)

\* An external logrotate moves a live file, and creates a new one or leaves
\* that to the logger.
MoveAway(d) == LET f == path[Live(d)]
                   gone == With(Without({Live(d)}), Moved(f), f)
               IN /\ Live(d) \in DOMAIN path
                  /\ Cardinality(moved) < MaxMoves
                  /\ moved' = moved \union {f}
                  /\ \/ path' = gone /\ UNCHANGED content
                     \/ /\ path' = With(gone, Live(d), Len(content) + 1)
                        /\ content' = Append(content, <<>>)
                  /\ UNCHANGED <<vars, place, file, written, curData, seq, dropped, calls>>

Midnight == /\ today < MaxDays
            /\ today' = today + 1
            /\ UNCHANGED <<vars, files, place, rotOpt, needReopen, stopper>>
            /\ UNCHANGED <<absent, found, left, barred>>

MakeDir(d) == /\ d \in absent
              /\ absent' = absent \ {d}
              /\ UNCHANGED <<vars, files, place, rotOpt, needReopen, today, stopper>>
              /\ UNCHANGED <<found, left, barred>>

-----------------------------------------------------------------------------
(* BackendLoop.                                                            *)

\* waitSwapBatch.
Wait == /\ WaitSleeps \/ WaitSwaps \/ WaitReturnsFalse
        /\ place' = IF consumer' = "writing" THEN "checking" ELSE "waiting"
        /\ UNCHANGED <<files, calls>>

\* m_need_reopen.exchange(false): what it leaves, and where it leads.
Found == [flag |-> FALSE, place |-> IF needReopen THEN "reopening" ELSE "rotating"]

ExchangeReopen == /\ place = "checking"
                  /\ needReopen' = Found.flag
                  /\ place' = Found.place
                  /\ UNCHANGED <<vars, files, rotOpt, today, stopper, absent, found, left, barred>>

\* The stream was closed before, so that open succeeds if there is a file.
Opened(f) == f

\* m_file.open of the live file, when these are the names.
OpenFound(names) == LET f == names[Live(rotOpt.dir)] IN
                    /\ Live(rotOpt.dir) \in DOMAIN names
                    /\ path' = names
                    /\ file' = Opened(f)
                    /\ written' = Size(f)
                    /\ UNCHANGED content

OpenNew(names) == /\ Live(rotOpt.dir) \notin DOMAIN names
                  /\ rotOpt.dir \notin absent
                  /\ path' = With(names, Live(rotOpt.dir), Len(content) + 1)
                  /\ content' = Append(content, <<>>)
                  /\ file' = Opened(Len(content) + 1)
                  /\ written' = 0

OpenFails(names) == /\ rotOpt.dir \in absent
                    /\ path' = names
                    /\ file' = NoFile
                    /\ written' = 0
                    /\ UNCHANGED content

OpenLive(names) == OpenFound(names) \/ OpenNew(names) \/ OpenFails(names)

DoReopen == /\ place = "reopening"
            /\ OpenLive(path)
            /\ place' = "rotating"
            /\ UNCHANGED <<vars, curData, seq, moved, dropped, calls>>

Estimate == EstimatedBytes * Len(out)
TooLarge == rotOpt.max_bytes # 0 /\ written + Estimate > rotOpt.max_bytes

NextSeq(n) == n + 1

\* rotateNow_: a rename of a live file that is not there fails, and its
\* failure is ignored; a rename onto an existing name replaces it.
RotateNow ==
  LET live    == Live(rotOpt.dir)
      n       == IF curData = today THEN seq ELSE 0
      rotated == Rotated(rotOpt.dir, today, n)
  IN /\ curData' = today
     /\ seq' = NextSeq(n)
     /\ OpenLive(IF live \in DOMAIN path
                 THEN With(Without({live}), rotated, path[live])
                 ELSE path)

MaybeRotate == /\ place = "rotating"
               /\ IF TooLarge
                  THEN RotateNow
                  ELSE UNCHANGED <<path, content, file, written, curData, seq>>
               /\ place' = "writing"
               /\ UNCHANGED <<vars, moved, dropped, calls>>

\* m_writted_bytes = Write2File(...): assigned, not added, and whether the
\* stream took the line or not.
Write2File == /\ place = "writing"
              /\ WriteEntry
              /\ IF file = NoFile
                 THEN dropped' = dropped \union {Head(out)} /\ UNCHANGED content
                 ELSE content' = [content EXCEPT ![file] = Append(@, Head(out))]
                      /\ UNCHANGED dropped
              /\ written' = LineBytes
              /\ barred' = Restrict(barred, DOMAIN barred \ {Head(out)})
              /\ UNCHANGED <<path, file, curData, seq, moved, place, rotOpt, needReopen>>
              /\ UNCHANGED <<today, stopper, absent, found, left>>

Flush == /\ place = "writing"
         /\ FinishBatch
         /\ place' = "waiting"
         /\ UNCHANGED <<files, calls>>

BackendLoop == \/ Wait \/ ExchangeReopen \/ DoReopen \/ MaybeRotate
               \/ Write2File \/ Flush

WakeSpuriously == SpuriousWake /\ UNCHANGED <<files, calls, place>>

LoggerNext == \/ \E p \in Producers : Log(p)
              \/ Reopen
              \/ \E o \in Options : SetRotateOptions(o)
              \/ \E s \in Stoppers : Stop(s) \/ CloseQueue(s) \/ JoinBackend(s)
              \/ \E d \in Dirs : MoveAway(d)
              \/ \E d \in AbsentDirs : MakeDir(d)
              \/ Midnight
              \/ WakeSpuriously
              \/ BackendLoop

LoggerSpec == LoggerInit /\ [][LoggerNext]_loggerVars

\* The backend thread is scheduled, and so is a thread inside stop.
LoggerFairSpec ==
  /\ LoggerSpec
  /\ WF_loggerVars(BackendLoop)
  /\ \A s \in Stoppers : WF_loggerVars(CloseQueue(s) \/ JoinBackend(s))

-----------------------------------------------------------------------------
(* Every line that was written to an open stream is in exactly one file    *)
(* that still has a name, whatever rotations, moves, reopens, failing      *)
(* opens and changes of the options came between: no rename hits a name    *)
(* this process uses.  It is there once, and after the lines of the file   *)
(* that were logged before it.  What this process found in a live file is  *)
(* in one file, too; a file that an earlier process rotated may be         *)
(* replaced by one of the same name, since m_seq starts at 0 again, but    *)
(* not vanish.                                                             *)
Holding(e) == {name \in DOMAIN path :
                 \E i \in 1 .. Len(content[path[name]]) : content[path[name]][i] = e}
Replaceable(name) == name.kind = "rotated" /\ name \in DOMAIN path
InOrder(lines) == \A i, j \in 1 .. Len(lines) : \A a, b \in 1 .. Len(delivered) :
                    i < j /\ lines[i] = delivered[a] /\ lines[j] = delivered[b] => a < b
KeptInOneFile ==
  /\ \A i \in 1 .. Len(delivered) :
       delivered[i] \notin dropped => Cardinality(Holding(delivered[i])) = 1
  /\ \A name \in found : \/ Cardinality(Holding(LineOf(name))) = 1
                         \/ Holding(LineOf(name)) = {} /\ Replaceable(name)
  /\ \A f \in 1 .. Len(content) : InOrder(content[f])

(* README.md: after an external logrotate moved the file, reopen lets the  *)
(* backend thread "go on writing to a new file".  An entry logged after    *)
(* the call never goes to a file that had been moved away before it, even  *)
(* if the call comes while the backend is in the middle of a batch.  Nor   *)
(* is it dropped, if all directories were there at the call: reopen also   *)
(* mends a stream that had failed.                                         *)
ReopenTakesEffect ==
  [][\A e \in DOMAIN barred : delivered' = Append(delivered, e) => file \notin barred[e]]_loggerVars

(* The first caller of stop comes back, and then everything that push      *)
(* accepted has been given to Write2File.                                  *)
StopReturns == \A s \in Stoppers :
  (stopper[s] = "closing") ~> (stopper[s] = "joined" /\ delivered = accepted)

(* README.md: the backend "estimates the volume before it writes a batch   *)
(* and decides whether to rotate" by the file's size threshold.  A batch   *)
(* then goes to a file that has room for it, or to an empty one.           *)
RotatesBySize ==
  [][place = "rotating" /\ place' = "writing" =>
       \/ rotOpt.max_bytes = 0 \/ file' = NoFile
       \/ content'[file'] = <<>>
       \/ LineBytes * Len(content'[file']) + Estimate <= rotOpt.max_bytes]_loggerVars
=============================================================================
