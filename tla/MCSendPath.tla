----------------------------- MODULE MCSendPath -----------------------------
(* Small instance of SendPath: two threads that send to one client, whose  *)
(* socket buffer takes one packet and a part of the next.                  *)
EXTENDS SendPath

CONSTANTS s1, s2

TwoSenders == {s1, s2}
=============================================================================
