-------------------------- MODULE ClosableChannel --------------------------
(***************************************************************************)
(* A first-in first-out channel that can be closed: an entry is either     *)
(* refused or handed over exactly once, in the order of acceptance;        *)
(* closing refuses what comes later and loses nothing that was accepted.   *)
(* MyLog promises this of the path between Logger::log and the log file,   *)
(* where AsyncQueue implements it with two buffers, a mutex and a          *)
(* condition variable.  IM-Server's ThreadPool promises it of the path     *)
(* between Enqueue and the workers, up to the end of its destructor.       *)
(***************************************************************************)
EXTENDS Sequences

CONSTANT Entry          \* what may be offered: log entries, tasks

VARIABLES pending,      \* accepted, not yet handed over
          delivered,    \* handed over, oldest first
          open,         \* entries are still accepted
          finished      \* it is known that nothing will follow

chanVars == <<pending, delivered, open, finished>>

Init == /\ pending = <<>>
        /\ delivered = <<>>
        /\ open = TRUE
        /\ finished = FALSE

Accept == /\ open
          /\ \E e \in Entry : pending' = Append(pending, e)
          /\ UNCHANGED <<delivered, open, finished>>

Deliver == /\ pending # <<>>
           /\ delivered' = Append(delivered, Head(pending))
           /\ pending' = Tail(pending)
           /\ UNCHANGED <<open, finished>>

Close == /\ open' = FALSE
         /\ UNCHANGED <<pending, delivered, finished>>

Finish == /\ ~open
          /\ pending = <<>>
          /\ finished' = TRUE
          /\ UNCHANGED <<pending, delivered, open>>

Next == Accept \/ Deliver \/ Close \/ Finish

Spec == Init /\ [][Next]_chanVars

\* What was accepted is handed over in the end, and a close is noticed.
FairSpec == /\ Spec
            /\ WF_chanVars(Deliver)
            /\ WF_chanVars(Finish)
=============================================================================
