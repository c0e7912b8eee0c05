------------------------------ MODULE Mailbox -------------------------------
(***************************************************************************)
(* What the chat server needs of its offline-message store: a mailbox per  *)
(* user.  Put leaves a message; Take hands out everything that lies in the *)
(* user's box and empties it in one step.  A Take whose cleaning fails     *)
(* keeps the box and hands the same messages out again later; a Take cut   *)
(* short by the death of the taker may lose what lay in the box.           *)
(***************************************************************************)
CONSTANTS Messages, Users,
          To                \* the receiver of each message

VARIABLES box,              \* messages waiting
          handed,           \* messages handed to a caller
          again             \* messages handed out more than once

mailboxVars == <<box, handed, again>>

Waiting(u) == {m \in box : To[m] = u}

Init == box = {} /\ handed = {} /\ again = {}

Put == /\ \E m \in Messages : box' = box \union {m}
       /\ UNCHANGED <<handed, again>>

HandOut(u) == /\ Waiting(u) # {}
              /\ handed' = handed \union Waiting(u)
              /\ again' = again \union (handed \intersect Waiting(u))

Take(u) == HandOut(u) /\ box' = box \ Waiting(u)

TakeKeeping(u) == HandOut(u) /\ box' = box

TakeCutShort(u) == /\ box' = box \ Waiting(u)
                   /\ UNCHANGED <<handed, again>>

Next == \/ Put
        \/ \E u \in Users : Take(u) \/ TakeKeeping(u) \/ TakeCutShort(u)

Spec == Init /\ [][Next]_mailboxVars
=============================================================================
