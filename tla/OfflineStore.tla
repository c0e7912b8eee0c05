---------------------------- MODULE OfflineStore ----------------------------
(***************************************************************************)
(* MySQLManager's offline messages: InsertOfflineMessage and               *)
(* GetAndClearOfflineMessages, called by the pool's workers over one MySQL *)
(* connection under mutex_.                                                *)
(*                                                                         *)
(* InsertOfflineMessage sends one statement under the mutex and is one     *)
(* step.  GetAndClearOfflineMessages sends two, SELECT and DELETE, which   *)
(* are two steps: the mutex is held exactly while some worker is between   *)
(* them.  A statement that reports an error may have been executed.  The   *)
(* table survives a crash of the server; what a worker had fetched does    *)
(* not.  The order of rows in a result is MySQL's and is left out.         *)
(***************************************************************************)
CONSTANTS Workers, Messages, Users,
          To                \* receiver column of each message

ASSUME ToAssumption == To \in [Messages -> Users]

VARIABLES rows,             \* table offline_message
          stage,            \* per worker: outside, or between SELECT and DELETE
          receiver,         \* per worker: argument of GetAndClearOfflineMessages
          fetched,          \* per worker: the vector messages
          tried,            \* messages for which an insert was attempted
          saved,            \* history: inserts that returned true
          handed,           \* history: messages returned to a caller
          again,            \* history: messages returned more than once
          kept,             \* history: messages whose DELETE reported an error
          dropped           \* history: deleted by a statement that was in flight
                            \* when the server died

vars == <<rows, stage, receiver, fetched, tried, saved, handed, again, kept, dropped>>

TypeOK == /\ rows \subseteq Messages
          /\ stage \in [Workers -> {"outside", "deleting"}]
          /\ receiver \in [Workers -> Users]
          /\ fetched \in [Workers -> SUBSET Messages]
          /\ tried \subseteq Messages
          /\ saved \subseteq tried
          /\ handed \subseteq Messages
          /\ again \subseteq handed
          /\ kept \subseteq handed
          /\ dropped \subseteq Messages

Init == /\ rows = {}
        /\ stage = [w \in Workers |-> "outside"]
        /\ receiver \in {[w \in Workers |-> u] : u \in Users}
        /\ fetched = [w \in Workers |-> {}]
        /\ tried = {}
        /\ saved = {}
        /\ handed = {}
        /\ again = {}
        /\ kept = {}
        /\ dropped = {}

-----------------------------------------------------------------------------
(* Seeded faults.                                                          *)
FaultNoMutex == TRUE
FaultPushesNullRow(u) == {m \in rows : To[m] = u} \union {"null"}
FaultRowsLeft(w) == {}      \* DELETE without its WHERE clause

-----------------------------------------------------------------------------
\* mutex_ can be taken.
MutexFree == \A w \in Workers : stage[w] = "outside"

\* SELECT ... WHERE receiver = u
RowsFor(u) == {m \in rows : To[m] = u}

InsertOk(m) == /\ MutexFree
               /\ m \notin tried
               /\ rows' = rows \union {m}
               /\ tried' = tried \union {m}
               /\ saved' = saved \union {m}
               /\ UNCHANGED <<stage, receiver, fetched, handed, again, kept, dropped>>

\* mysql_query reports an error: the caller answers 500.
InsertFails(m) == /\ MutexFree
                  /\ m \notin tried
                  /\ rows' \in {rows, rows \union {m}}
                  /\ tried' = tried \union {m}
                  /\ UNCHANGED <<stage, receiver, fetched, saved, handed, again, kept, dropped>>

\* An empty result, or a SELECT that fails, returns without a DELETE and
\* changes nothing.
Select(w, u) == /\ MutexFree
                /\ stage[w] = "outside"
                /\ RowsFor(u) # {}
                /\ stage' = [stage EXCEPT ![w] = "deleting"]
                /\ receiver' = [receiver EXCEPT ![w] = u]
                /\ fetched' = [fetched EXCEPT ![w] = RowsFor(u)]
                /\ UNCHANGED <<rows, tried, saved, handed, again, kept, dropped>>

\* The result is returned whether or not the DELETE succeeded.
Return(w) == /\ stage[w] = "deleting"
             /\ stage' = [stage EXCEPT ![w] = "outside"]
             /\ fetched' = [fetched EXCEPT ![w] = {}]
             /\ handed' = handed \union fetched[w]
             /\ again' = again \union (handed \intersect fetched[w])
             /\ UNCHANGED <<receiver, tried, saved, dropped>>

\* DELETE ... WHERE receiver = u, with the rows of the moment it runs.
RowsLeft(w) == rows \ RowsFor(receiver[w])

DeleteOk(w) == /\ Return(w)
               /\ rows' = RowsLeft(w)
               /\ UNCHANGED kept

DeleteFails(w) == /\ Return(w)
                  /\ rows' \in {rows, RowsLeft(w)}
                  /\ kept' = kept \union fetched[w]

\* The process dies with its workers; MySQL and its table go on.  A DELETE
\* in flight is executed or not, and nobody is left to take the result.
CrashRestart(w) == /\ stage[w] = "deleting"
                   /\ \/ UNCHANGED <<rows, dropped>>
                      \/ /\ rows' = RowsLeft(w)
                         /\ dropped' = dropped \union fetched[w]
                   /\ stage' = [v \in Workers |-> "outside"]
                   /\ fetched' = [v \in Workers |-> {}]
                   /\ UNCHANGED <<receiver, tried, saved, handed, again, kept>>

Next == \/ \E m \in Messages : InsertOk(m) \/ InsertFails(m)
        \/ \E w \in Workers : \/ \E u \in Users : Select(w, u)
                              \/ DeleteOk(w)
                              \/ DeleteFails(w)
                              \/ CrashRestart(w)

Spec == Init /\ [][Next]_vars

-----------------------------------------------------------------------------
(* Every message whose insert returned true is still in the table, has     *)
(* been returned to a caller, or was among those a worker had selected     *)
(* when the server died: the DELETE, which names only the receiver, never  *)
(* removes a row that its SELECT did not see, in spite of the inserts of   *)
(* other workers and of crashes between the two statements.                *)
NothingDeletedUnread == saved \subseteq (rows \union handed \union dropped)

(* A message is returned twice only when a DELETE reported an error after  *)
(* an earlier return (GetAndClearOfflineMessages only logs that error):    *)
(* two logins of one user at the same time share the messages out.         *)
RepeatedOnlyAfterFailedDelete == again \subseteq kept

(* The store is a mailbox: SELECT and DELETE together are one Take at the  *)
(* moment of the DELETE.                                                   *)
Box == INSTANCE Mailbox WITH box <- rows

ImplementsMailbox == Box!Spec

-----------------------------------------------------------------------------
(* The inductive invariant: at most one worker is between its statements,  *)
(* and what it fetched is what the table holds for its receiver.           *)
OneDeleter == \A v, w \in Workers :
                stage[v] = "deleting" /\ stage[w] = "deleting" => v = w
FetchedIsCurrent == \A w \in Workers :
                      stage[w] = "deleting" => /\ fetched[w] = RowsFor(receiver[w])
                                               /\ fetched[w] # {}
\* What lies in the table after having been returned once survived a DELETE
\* that failed.
LeftoversWereKept == rows \intersect handed \subseteq kept
RowsWereTried == rows \subseteq tried /\ handed \subseteq tried

StoreInv == /\ OneDeleter
            /\ FetchedIsCurrent
            /\ LeftoversWereKept
            /\ RowsWereTried
            /\ NothingDeletedUnread
            /\ RepeatedOnlyAfterFailedDelete
=============================================================================
