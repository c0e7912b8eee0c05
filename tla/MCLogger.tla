------------------------------ MODULE MCLogger ------------------------------
(* Small instances of Logger: one thread that logs, kBatchThreshold 2, two *)
(* directories.  A limit of one line makes every batch after the first     *)
(* rotate; a limit of two lets the recorded size and the size differ.  An  *)
(* earlier process has left nothing, or its live file and a rotated file   *)
(* of the first day.                                                       *)
EXTENDS Logger

CONSTANTS p1, s1

OneProducer == {p1}
OneStopper == {s1}
OneLine == [dir |-> "here", max_bytes |-> 1]
TwoLines == [dir |-> "here", max_bytes |-> 2]
Unlimited == [dir |-> "logs", max_bytes |-> 0]
OneLineHere == {OneLine, Unlimited}
TwoLinesHere == {TwoLines}
NoDirs == {}
LogsDir == {"logs"}
Nothing == {<<>>}
NothingOrTwo == {<<>>, <<Live("here"), Rotated("here", 1, 0)>>}
=============================================================================
