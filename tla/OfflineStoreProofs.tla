------------------------- MODULE OfflineStoreProofs -------------------------
(***************************************************************************)
(* Theorems about OfflineStore for any sets of workers, users and messages *)
(***************************************************************************)
EXTENDS OfflineStore, TLAPS

(* The table, the fetched results and the histories hold messages only;    *)
(* nothing is recorded as saved, repeated or kept that was not tried or    *)
(* handed out.                                                             *)
THEOREM TypeCorrect == Spec => []TypeOK
<1>1. Init => TypeOK
  BY DEF Init, TypeOK
<1>2. TypeOK /\ [Next]_vars => TypeOK'
  <2> SUFFICES ASSUME TypeOK, [Next]_vars PROVE TypeOK'
    OBVIOUS
  <2> USE DEF TypeOK
  <2>1. ASSUME NEW m \in Messages, InsertOk(m) PROVE TypeOK'
    BY <2>1 DEF InsertOk
  <2>2. ASSUME NEW m \in Messages, InsertFails(m) PROVE TypeOK'
    BY <2>2 DEF InsertFails
  <2>3. ASSUME NEW w \in Workers, NEW u \in Users, Select(w, u) PROVE TypeOK'
    BY <2>3 DEF Select, RowsFor
  <2>4. ASSUME NEW w \in Workers, DeleteOk(w) PROVE TypeOK'
    BY <2>4 DEF DeleteOk, Return, RowsLeft
  <2>5. ASSUME NEW w \in Workers, DeleteFails(w) PROVE TypeOK'
    BY <2>5 DEF DeleteFails, Return, RowsLeft
  <2>6. ASSUME NEW w \in Workers, CrashRestart(w) PROVE TypeOK'
    BY <2>6 DEF CrashRestart, RowsLeft
  <2>7. CASE UNCHANGED vars
    BY <2>7 DEF vars
  <2> QED
    BY <2>1, <2>2, <2>3, <2>4, <2>5, <2>6, <2>7 DEF Next
<1> QED
  BY <1>1, <1>2, PTL DEF Spec

-----------------------------------------------------------------------------
(* While the mutex is free nobody is between SELECT and DELETE; while one  *)
(* worker is, no insert and no other SELECT can run.                       *)
LEMMA StoreInvStep == TypeOK /\ StoreInv /\ [Next]_vars => StoreInv'
<1> SUFFICES ASSUME TypeOK, StoreInv, [Next]_vars PROVE StoreInv'
  OBVIOUS
<1> USE DEF TypeOK, StoreInv, OneDeleter, FetchedIsCurrent, LeftoversWereKept,
            RowsWereTried, NothingDeletedUnread, RepeatedOnlyAfterFailedDelete
<1>1. ASSUME NEW m \in Messages, InsertOk(m) PROVE StoreInv'
  BY <1>1 DEF InsertOk, MutexFree
<1>2. ASSUME NEW m \in Messages, InsertFails(m) PROVE StoreInv'
  BY <1>2 DEF InsertFails, MutexFree
<1>3. ASSUME NEW w \in Workers, NEW u \in Users, Select(w, u) PROVE StoreInv'
  <2>1. \A v \in Workers : stage'[v] = "deleting" => v = w
    BY <1>3 DEF Select, MutexFree
  <2>2. fetched'[w] = RowsFor(u) /\ receiver'[w] = u /\ RowsFor(u) # {}
    BY <1>3 DEF Select
  <2>3. FetchedIsCurrent'
    BY <1>3, <2>1, <2>2 DEF Select, RowsFor
  <2> QED
    BY <1>3, <2>1, <2>3 DEF Select
<1>4. ASSUME NEW w \in Workers, Return(w), rows' \in {rows, RowsLeft(w)},
             kept' \in {kept, kept \union fetched[w]},
             rows' = RowsLeft(w) \/ kept' = kept \union fetched[w]
      PROVE  StoreInv'
  <2>1. \A v \in Workers : stage'[v] # "deleting"
    BY <1>4 DEF Return
  <2>2. fetched[w] = {m \in rows : To[m] = receiver[w]}
    BY <1>4 DEF Return, RowsFor
  <2>3. RowsLeft(w) = rows \ fetched[w]
    BY <2>2 DEF RowsLeft, RowsFor
  <2>4. NothingDeletedUnread'
    BY <1>4, <2>3 DEF Return
  <2>5. LeftoversWereKept'
    BY <1>4, <2>2, <2>3 DEF Return
  <2>6. RepeatedOnlyAfterFailedDelete'
    BY <1>4, <2>2, <2>3 DEF Return
  <2> QED
    BY <1>4, <2>1, <2>2, <2>3, <2>4, <2>5, <2>6 DEF Return
<1>5. ASSUME NEW w \in Workers, DeleteOk(w) PROVE StoreInv'
  BY <1>4, <1>5 DEF DeleteOk
<1>6. ASSUME NEW w \in Workers, DeleteFails(w) PROVE StoreInv'
  BY <1>4, <1>6 DEF DeleteFails
<1>7. ASSUME NEW w \in Workers, CrashRestart(w) PROVE StoreInv'
  <2>1. \A v \in Workers : stage'[v] # "deleting"
    BY <1>7 DEF CrashRestart
  <2>2. fetched[w] = RowsFor(receiver[w])
    BY <1>7 DEF CrashRestart
  <2> QED
    BY <1>7, <2>1, <2>2 DEF CrashRestart, RowsLeft
<1>8. CASE UNCHANGED vars
  BY <1>8 DEF vars, RowsFor
<1> QED
  BY <1>1, <1>2, <1>3, <1>5, <1>6, <1>7, <1>8 DEF Next

(* The invariant of the store: one worker at a time between SELECT and     *)
(* DELETE, with a result that is still what the table holds.               *)
THEOREM StoreInvariant == Spec => []StoreInv
<1>1. Init => StoreInv
  BY DEF Init, StoreInv, OneDeleter, FetchedIsCurrent, LeftoversWereKept,
         RowsWereTried, NothingDeletedUnread, RepeatedOnlyAfterFailedDelete
<1> QED
  BY <1>1, StoreInvStep, TypeCorrect, PTL DEF Spec

(* No saved message is deleted without having been read.                   *)
THEOREM SavedIsNeverDeletedUnread == Spec => []NothingDeletedUnread
<1>1. StoreInv => NothingDeletedUnread
  BY DEF StoreInv
<1> QED
  BY <1>1, StoreInvariant, PTL

(* No message is handed out twice unless its DELETE failed.                *)
THEOREM RepeatsNeedAFailedDelete == Spec => []RepeatedOnlyAfterFailedDelete
<1>1. StoreInv => RepeatedOnlyAfterFailedDelete
  BY DEF StoreInv
<1> QED
  BY <1>1, StoreInvariant, PTL

-----------------------------------------------------------------------------
(* The store implements the mailbox: GetAndClearOfflineMessages is one     *)
(* Take, at the moment of its DELETE.                                      *)
THEOREM StoreImplementsMailbox == Spec => ImplementsMailbox
<1>1. Init => Box!Init
  BY DEF Init, Box!Init
<1>2. TypeOK /\ StoreInv /\ [Next]_vars => [Box!Next]_(Box!mailboxVars)
  <2> SUFFICES ASSUME TypeOK, StoreInv, [Next]_vars
               PROVE  [Box!Next]_(Box!mailboxVars)
    OBVIOUS
  <2>1. ASSUME NEW m \in Messages, InsertOk(m) PROVE Box!Next
    BY <2>1 DEF InsertOk, Box!Next, Box!Put
  <2>2. ASSUME NEW m \in Messages, InsertFails(m)
        PROVE  Box!Next \/ UNCHANGED Box!mailboxVars
    BY <2>2 DEF InsertFails, Box!Next, Box!Put, Box!mailboxVars
  <2>3. ASSUME NEW w \in Workers, NEW u \in Users, Select(w, u)
        PROVE  UNCHANGED Box!mailboxVars
    BY <2>3 DEF Select, Box!mailboxVars
  <2>4. ASSUME NEW w \in Workers, stage[w] = "deleting"
        PROVE  /\ receiver[w] \in Users
               /\ fetched[w] = Box!Waiting(receiver[w])
               /\ fetched[w] # {}
               /\ RowsLeft(w) = rows \ Box!Waiting(receiver[w])
    BY <2>4 DEF TypeOK, StoreInv, FetchedIsCurrent, Box!Waiting, RowsLeft, RowsFor
  <2>5. ASSUME NEW w \in Workers, DeleteOk(w) PROVE Box!Next
    <3>1. Box!Take(receiver[w])
      BY <2>4, <2>5 DEF DeleteOk, Return, Box!Take, Box!HandOut
    <3> QED
      BY <2>4, <2>5, <3>1 DEF Box!Next, DeleteOk, Return
  <2>6. ASSUME NEW w \in Workers, DeleteFails(w) PROVE Box!Next
    <3>1. Box!Take(receiver[w]) \/ Box!TakeKeeping(receiver[w])
      BY <2>4, <2>6
         DEF DeleteFails, Return, Box!Take, Box!TakeKeeping, Box!HandOut
    <3> QED
      BY <2>4, <2>6, <3>1 DEF Box!Next, DeleteFails, Return
  <2>7. ASSUME NEW w \in Workers, CrashRestart(w)
        PROVE  Box!Next \/ UNCHANGED Box!mailboxVars
    <3>1. Box!TakeCutShort(receiver[w]) \/ UNCHANGED Box!mailboxVars
      BY <2>4, <2>7 DEF CrashRestart, Box!TakeCutShort, Box!mailboxVars
    <3> QED
      BY <2>4, <2>7, <3>1 DEF Box!Next, CrashRestart
  <2>8. CASE UNCHANGED vars
    BY <2>8 DEF vars, Box!mailboxVars
  <2> QED
    BY <2>1, <2>2, <2>3, <2>5, <2>6, <2>7, <2>8 DEF Next
<1> QED
  BY <1>1, <1>2, TypeCorrect, StoreInvariant, PTL
     DEF Spec, ImplementsMailbox, Box!Spec
=============================================================================
