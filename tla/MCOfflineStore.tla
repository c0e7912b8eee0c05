--------------------------- MODULE MCOfflineStore ---------------------------
(* Small instance of OfflineStore: two workers, two users, two messages    *)
(* for the first user and one for the second.                              *)
EXTENDS OfflineStore, TLC

CONSTANTS w1, w2, m1, m2, m3, alice, bob

MCWorkers == {w1, w2}
MCUsers == {alice, bob}
MCMessages == {m1, m2, m3}
MCTo == m1 :> alice @@ m2 :> alice @@ m3 :> bob

\* The workers are interchangeable, and so are the two messages to alice.
MCSymmetry == Permutations(MCWorkers) \union Permutations({m1, m2})
=============================================================================
