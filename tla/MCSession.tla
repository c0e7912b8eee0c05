----------------------------- MODULE MCSession ------------------------------
(* Small instances of Session.                                             *)
EXTENDS Session, TLC

CONSTANTS c1, c2, w1, w2, m1, m2, g1, alice, bob

TwoConns == {c1, c2}
TwoWorkers == {w1, w2}
OneConn == {c1}
OneWorker == {w1}
OneUser == {alice}
TwoUsers == {alice, bob}
OneMessage == {m1}
ToAlice == m1 :> alice
TwoMessages == {m1, m2}
BothToAlice == m1 :> alice @@ m2 :> alice
OneGroupChat == {g1}
BothAreMembers == g1 :> {alice, bob}
NoGroupChat == {}
NoMembers == <<>>
Nobody == {}

\* Login requests of each connection.
OneLoginEach == c1 :> 1 @@ c2 :> 1
OneLogin == c1 :> 1

\* The workers are interchangeable, and so are the connections where the
\* constants do not tell them apart.
MCSymmetry == Permutations(TwoWorkers) \union Permutations(TwoConns)

\* States that differ in presence alone have the same letters, answers and
\* sessions ahead of them: only SetUserOnline, SetUserOffline and Expire read
\* or change the keys, and none of the three waits for them.
AllButPresence == <<conn, currentUser, userMap, loop, rows, stale, work, inputs, history>>
=============================================================================
