------------------------------ MODULE JsonFile ------------------------------
(***************************************************************************)
(* A JSON document as test_io_json.cpp uses it: built or loaded, changed   *)
(* with array_push_back and object_set, and saved in either form.         *)
(* Between the save and the load, another program may put white space into *)
(* the file, and a save may leave a part of the text only: save_json does  *)
(* not look at the state of its stream.                                    *)
(*                                                                         *)
(* Each save is to a file of its own and is followed by the load of it:    *)
(* what the document becomes in between shows in the next file only.       *)
(***************************************************************************)
EXTENDS Json, FiniteSets

CONSTANTS Keys,             \* names of members
          Leaves,           \* values that are neither array nor object
          MaxSize           \* bound: values in a document

VARIABLES root,             \* the document
          file,             \* the text in the file
          condition         \* what the file is: absent, as saved, reformatted, cut

vars == <<root, file, condition>>

Empty == {Array(<<>>), Object(NoMembers)}

\* The values next below v.
Parts(v) == CASE v.type = "array"  -> {<<i, v.items[i]>> : i \in DOMAIN v.items}
              [] v.type = "object" -> {<<k, v.members[k]>> : k \in DOMAIN v.members}
              [] OTHER             -> {}

RECURSIVE SizeOf(_)
SizeOf(v) == 1 + MapThenSumSet(LAMBDA part : SizeOf(part[2]), Parts(v))

\* What one call of array_push_back or object_set makes of v, on v itself or
\* on a value that array_get and object_get lead to.
RECURSIVE Changed(_)
Changed(v) ==
  CASE v.type = "array"  ->
         {Array(Append(v.items, x)) : x \in Leaves \union Empty}
         \union UNION {{Array([v.items EXCEPT ![i] = x]) : x \in Changed(v.items[i])} :
                       i \in DOMAIN v.items}
    [] v.type = "object" ->
         {Object(ObjectSet(v.members, k, x)) : k \in Keys, x \in Leaves \union Empty}
         \union UNION {{Object([v.members EXCEPT ![k] = x]) : x \in Changed(v.members[k])} :
                       k \in DOMAIN v.members}
    [] OTHER             -> {}

Init == /\ root \in Leaves \union Empty
        /\ file = <<>>
        /\ condition = "absent"

Change == /\ condition = "absent"
          /\ root' \in {v \in Changed(root) : SizeOf(v) <= MaxSize}
          /\ UNCHANGED <<file, condition>>

Save(pretty) == /\ condition = "absent"
                /\ file' \in Texts(root, pretty)
                /\ condition' = "saved"
                /\ UNCHANGED root

\* The disk is full, and nobody looks.
SaveCut(pretty) == /\ condition = "absent"
                   /\ \E t \in Texts(root, pretty) : \E n \in 0 .. Len(t) - 1 :
                        file' = SubSeq(t, 1, n)
                   /\ condition' = "cut"
                   /\ UNCHANGED root

\* load_json: the document that was read, which will be saved to another
\* file, or an exception, after which the caller has what it had.
Load == /\ condition # "absent"
        /\ parse(file).ok
        /\ root' = parse(file).value
        /\ file' = <<>>
        /\ condition' = "absent"

\* A place between two tokens: not within a string or a number, and not
\* between the brackets of an empty array or object.
Quotes(n) == Cardinality({i \in 1 .. n : file[i][1] = "quote"})
OfNumber == {"-", "+", ".", "e", "digit"}
BetweenTokens(n) ==
  /\ Quotes(n) % 2 = 0
  /\ n \in 1 .. Len(file) - 1 =>
       LET around == <<file[n][1], file[n + 1][1]>>
       IN around \notin {<<"[", "]">>, <<"{", "}">>} \union (OfNumber \X OfNumber)

\* Another program puts white space at one such place.
Reformat == /\ condition = "saved"
            /\ \E n \in 0 .. Len(file) :
                 /\ BetweenTokens(n)
                 /\ file' = SubSeq(file, 1, n) \o <<<<"blank">>>> \o SubSeq(file, n + 1, Len(file))
            /\ condition' = "reformatted"
            /\ UNCHANGED root

Next == \/ Change
        \/ \E pretty \in BOOLEAN : Save(pretty) \/ SaveCut(pretty)
        \/ Load
        \/ Reformat

Spec == Init /\ [][Next]_vars

-----------------------------------------------------------------------------
(* What is known to be lost: a string is read without its white space, and *)
(* a fraction with the digits that were written.                           *)

Squeezed(s) == SelectSeq(s, LAMBDA c : c[1] # "blank")

RECURSIVE AsPrinted(_)
AsPrinted(v) ==
  CASE v.type = "number" -> Number(Printed(v.number))
    [] v.type = "string" -> String(Squeezed(v.string))
    [] v.type = "array"  -> Array([i \in DOMAIN v.items |-> AsPrinted(v.items[i])])
    [] v.type = "object" -> Object([k \in DOMAIN v.members |-> AsPrinted(v.members[k])])
    [] OTHER             -> v

\* No string contains a quote or ends with white space: the parser would
\* take the closing quote for a character.
PlainString(s) == /\ \A i \in DOMAIN s : s[i][1] # "quote"
                  /\ s # <<>> => s[Len(s)][1] # "blank"

RECURSIVE Plain(_)
Plain(v) == /\ v.type = "string" => PlainString(v.string)
            /\ \A part \in Parts(v) : Plain(part[2])

(* A document that was saved, in either form and with its members in any   *)
(* order, is read back as it was but for its white space and the digits of *)
(* fractions, even after another program has spaced its tokens out: all    *)
(* parse functions leave the position where the next one expects it.       *)
FileReadsBack == condition \in {"saved", "reformatted"} /\ Plain(root) =>
                   parse(file).ok /\ parse(file).value = AsPrinted(root)

(* A file that a full disk cut short anywhere is refused with an exception *)
(* and never taken for a shorter document, also when the cut goes through  *)
(* a number in an array or object.  Only a document that is a bare number  *)
(* may be taken for the one its first characters make: 1234 cut to 12.     *)
CutIsRefused == condition = "cut" /\ Plain(root) /\ root.type # "number" => ~parse(file).ok
=============================================================================
