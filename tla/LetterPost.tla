----------------------------- MODULE LetterPost -----------------------------
(***************************************************************************)
(* What the chat server promises of letters, the abstract specification    *)
(* that Session implements.  The delivery of a letter is tried once: it is *)
(* sent to its receiver's connection, stored, or refused, where a refusal  *)
(* may still have stored it.  What is stored is taken out with all the     *)
(* others of its receiver, by one carrier, who sends it letter by letter;  *)
(* only the end of the server loses what carriers have not sent yet.       *)
(* Taking out may leave what it takes in the table as well: these letters  *)
(* are kept, and only they can be taken out and sent again.                *)
(***************************************************************************)
EXTENDS Naturals

CONSTANTS Users, Letters, Carriers,
          ReceiverOf          \* the user each letter is for

VARIABLES stored,     \* letters in the table
          carried,    \* letters each carrier has taken out and not yet sent
          sends,      \* how often each letter has been sent
          refused,    \* letters whose insert reported an error
          kept,       \* letters whose taking out reported an error
          lost        \* letters that were carried at an end

vars == <<stored, carried, sends, refused, kept, lost>>

Init == /\ stored = {}
        /\ carried = [c \in Carriers |-> {}]
        /\ sends = [l \in Letters |-> 0]
        /\ refused = {}
        /\ kept = {}
        /\ lost = {}

InHand == UNION {carried[c] : c \in Carriers}

\* Nothing has happened to the letter.
Fresh(l) == /\ sends[l] = 0
            /\ l \notin stored \union InHand \union refused \union kept \union lost

Send(l) == /\ Fresh(l)
           /\ sends' = [sends EXCEPT ![l] = 1]
           /\ UNCHANGED <<stored, carried, refused, kept, lost>>

Save(l) == /\ stored' = stored \union {l}
           /\ Fresh(l)
           /\ UNCHANGED <<carried, sends, refused, kept, lost>>

Refuse(l) == /\ refused' = refused \union {l}
             /\ Fresh(l)
             /\ stored' \in {stored, stored \union {l}}
             /\ UNCHANGED <<carried, sends, kept, lost>>

\* All that is stored for a receiver is taken out together.
TakeOut(c, u) == LET lot == {l \in stored : ReceiverOf[l] = u} IN
                 /\ carried[c] = {}
                 /\ lot # {}
                 /\ carried' = [carried EXCEPT ![c] = lot]
                 /\ \/ stored' = stored \ lot /\ kept' = kept
                    \/ stored' \in {stored, stored \ lot} /\ kept' = kept \union lot
                 /\ UNCHANGED <<sends, refused, lost>>

Deliver(c, l) == /\ l \in carried[c]
                 /\ carried' = [carried EXCEPT ![c] = @ \ {l}]
                 /\ sends' = [sends EXCEPT ![l] = @ + 1]
                 /\ UNCHANGED <<stored, refused, kept, lost>>

End == /\ lost' = lost \union InHand
       /\ carried' = [c \in Carriers |-> {}]
       /\ UNCHANGED <<stored, sends, refused, kept>>

Next == \/ End
        \/ \E c \in Carriers : \/ \E l \in carried[c] : Deliver(c, l)
                               \/ \E u \in Users : TakeOut(c, u)
        \/ \E l \in Letters : Save(l) \/ Refuse(l) \/ Send(l)

Spec == Init /\ [][Next]_vars

(* What follows for a letter that was never kept: it is sent once at most, *)
(* and when it has been, it is nowhere else; until then it is in the       *)
(* table, in the hands of one carrier or lost, in one of them at most.     *)
(* Every carrier has letters for one receiver.                             *)
OneFate ==
  /\ \A l \in Letters \ kept :
       /\ sends[l] \in {0, 1}
       /\ l \in stored \union InHand \union lost => sends[l] = 0
       /\ l \in stored => l \notin InHand \union lost
       /\ l \in InHand => l \notin lost
       /\ \A c, d \in Carriers : l \in carried[c] /\ l \in carried[d] => c = d
  /\ \A c \in Carriers : \A k, l \in carried[c] : ReceiverOf[k] = ReceiverOf[l]
=============================================================================
