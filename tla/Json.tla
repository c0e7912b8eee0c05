-------------------------------- MODULE Json --------------------------------
(***************************************************************************)
(* MyJson as pure operators: JsonValue, its serializer and JsonParser.     *)
(*                                                                         *)
(* A text is a sequence of characters.  A character is a tuple whose first *)
(* component is its kind: a bracket, "," or ":", "quote", "blank", a       *)
(* literal, a letter, "-", "+", ".", "e", or "digit", with the digit as    *)
(* second component.  A literal, which the parser compares as a whole, and *)
(* a run of white space written by the pretty printer are one character    *)
(* each, and the line and column of error messages are left out.  A number *)
(* is counted in units of 1 / Unit.                                        *)
(***************************************************************************)
EXTENDS Integers, SequencesExt

CONSTANTS Unit, Precision   \* setprecision(6) in the code

ASSUME UnitAssumption == Unit \in {10^k : k \in 0 .. 4}
ASSUME PrecisionAssumption == Precision \in Nat \ {0}

-----------------------------------------------------------------------------
(* JsonValue: the members of the class that its m_type gives a meaning to. *)

Null == [type |-> "null"]
Bool(b) == [type |-> "bool", bool |-> b]
Number(n) == [type |-> "number", number |-> n]
String(s) == [type |-> "string", string |-> s]
Array(items) == [type |-> "array", items |-> items]
Object(members) == [type |-> "object", members |-> members]

NoMembers == [k \in {} |-> Null]

\* object_set overwrites a member of the same name.
ObjectSet(members, k, v) ==
  [x \in DOMAIN members \union {k} |-> IF x = k THEN v ELSE members[x]]

-----------------------------------------------------------------------------
(* Seeded faults.                                                          *)
FaultClosedBy(bracket) == {bracket, "end"}   \* the end of the text closes all
FaultColonAt(t, p) == p                      \* no skip_whitespace before ':'

-----------------------------------------------------------------------------
(* to_string and to_pretty_string.                                         *)

\* A number that equals its conversion to long long is written exactly, any
\* other with Precision significant digits.  A tie is rounded up here; there
\* it goes by what the double holds.
Printed(n) ==
  IF n % Unit = 0 THEN n
  ELSE LET size == IF n < 0 THEN -n ELSE n
           step == Min({10^k : k \in {k \in 0 .. 9 : size \div 10^k < 10^Precision}})
           nearest == ((size + step \div 2) \div step) * step
       IN IF n < 0 THEN -nearest ELSE nearest

\* n with k decimal digits, and the number of digits it needs.
Decimal(n, k) == [i \in 1 .. k |-> <<"digit", (n \div 10^(k - i)) % 10>>]
Places(n) == CHOOSE k \in 1 .. 9 : n < 10^k /\ (k = 1 \/ n >= 10^(k - 1))

\* Digits behind the point: without zeros at the end, none without a digit.
Fraction(digits) ==
  LET last == Max({0} \union {i \in DOMAIN digits : digits[i][2] # 0})
  IN IF last = 0 THEN <<>> ELSE <<<<".">>>> \o SubSeq(digits, 1, last)

Fixed(n) == Decimal(n \div Unit, Places(n \div Unit))
            \o Fraction(Decimal(n % Unit, Places(Unit) - 1))
Scientific(n, exponent) ==
  LET digits == Decimal(n, Places(n))
  IN <<Head(digits)>> \o Fraction(Tail(digits)) \o <<<<"e">>, <<"+">>>> \o Decimal(exponent, 2)

\* noshowpoint: the shorter form, scientific from 10^Precision on.
NumberText(n) ==
  LET size == IF n < 0 THEN -Printed(n) ELSE Printed(n)
      exponent == Places(size) - Places(Unit)
  IN (IF n < 0 THEN <<<<"-">>>> ELSE <<>>)
     \o IF n % Unit = 0 \/ exponent < Precision THEN Fixed(size) ELSE Scientific(size, exponent)

\* Strings are written as they are, without escapes.
Quoted(s) == <<<<"quote">>>> \o s \o <<<<"quote">>>>

\* The parts of an array or object between its brackets, one to a line in
\* the pretty form.
Bracketed(open, parts, close, pretty) ==
  LET gap == IF pretty /\ parts # <<>> THEN <<<<"blank">>>> ELSE <<>>
      comma(i) == IF i < Len(parts) THEN <<<<",">>>> ELSE <<>>
  IN <<<<open>>>> \o gap
     \o FlattenSeq([i \in DOMAIN parts |-> parts[i] \o comma(i) \o gap])
     \o <<<<close>>>>

Colon(pretty) == IF pretty THEN <<<<":">>, <<"blank">>>> ELSE <<<<":">>>>

\* One element of each set of a sequence of sets.
OneOfEach(sets) == {f \in [DOMAIN sets -> UNION {sets[i] : i \in DOMAIN sets}] :
                    \A i \in DOMAIN sets : f[i] \in sets[i]}

\* The texts a value may be written as: m_object is unordered.
RECURSIVE Texts(_, _)
Texts(v, pretty) ==
  CASE v.type = "null"   -> {<<<<"null">>>>}
    [] v.type = "bool"   -> {<<<<IF v.bool THEN "true" ELSE "false">>>>}
    [] v.type = "number" -> {NumberText(v.number)}
    [] v.type = "string" -> {Quoted(v.string)}
    [] v.type = "array"  ->
         {Bracketed("[", parts, "]", pretty) :
            parts \in OneOfEach([i \in DOMAIN v.items |-> Texts(v.items[i], pretty)])}
    [] v.type = "object" ->
         UNION {{Bracketed("{", parts, "}", pretty) :
                   parts \in OneOfEach([i \in DOMAIN keys |->
                               {Quoted(keys[i]) \o Colon(pretty) \o t :
                                  t \in Texts(v.members[keys[i]], pretty)}])} :
                keys \in SetToSeqs(DOMAIN v.members)}

-----------------------------------------------------------------------------
(* JsonParser.  Each operator takes the text and a position, and returns a *)
(* value with the position behind it, or Error, the exception that every   *)
(* parse function lets pass.                                               *)

Error == [ok |-> FALSE]
Ok(v, p) == [ok |-> TRUE, value |-> v, pos |-> p]
Try(r, Then(_, _)) == IF r.ok THEN Then(r.value, r.pos) ELSE Error

peek(t, p) == IF p > Len(t) THEN "end" ELSE t[p][1]

RECURSIVE skip_whitespace(_, _)
skip_whitespace(t, p) ==
  IF peek(t, p) = "blank" THEN skip_whitespace(t, p + 1) ELSE p

ClosedBy(bracket) == {bracket}
Closes(t, p, bracket) == peek(t, p) \in ClosedBy(bracket)
ColonAt(t, p) == skip_whitespace(t, p)

\* The characters of a string.  White space before a character is skipped
\* here too, which drops it, and the character consumed after it is not
\* compared with the closing quote.
RECURSIVE Characters(_, _, _)
Characters(t, p, s) ==
  CASE peek(t, p) = "quote" -> Ok(String(s), p + 1)
    [] peek(t, p) = "end"   -> Error
    [] OTHER -> LET q == skip_whitespace(t, p)
                IN IF peek(t, q) = "end" THEN Error
                   ELSE Characters(t, q + 1, Append(s, t[q]))

parse_string(t, p) == IF peek(t, p) = "quote" THEN Characters(t, p + 1, <<>>) ELSE Error

parse_null(t, p) == Ok(Null, p + 1)
parse_bool(t, p) == Ok(Bool(peek(t, p) = "true"), p + 1)

\* The number that digits write, and where the digits from p on end.
Value(digits) == FoldLeft(LAMBDA n, c : 10 * n + c[2], 0, digits)
BehindDigits(t, p) ==
  CHOOSE q \in p .. Len(t) + 1 : /\ peek(t, q) # "digit"
                                 /\ \A i \in p .. q - 1 : peek(t, i) = "digit"

\* An optional sign, digits, an optional fraction, an optional exponent.
parse_number(t, p) ==
  LET first == IF peek(t, p) = "-" THEN p + 1 ELSE p
      point == BehindDigits(t, first)
      behind == IF peek(t, point) = "." THEN BehindDigits(t, point + 1) ELSE point
      sign == IF peek(t, behind) \in {"e", "E"} THEN behind + 1 ELSE behind
      power == IF sign > behind /\ peek(t, sign) \in {"+", "-"} THEN sign + 1 ELSE sign
      last == IF sign > behind THEN BehindDigits(t, power) ELSE behind
      places == IF behind > point THEN behind - point - 1 ELSE 0
      mantissa == Value(SubSeq(t, first, point - 1) \o SubSeq(t, point + 1, behind - 1))
      exponent == Value(SubSeq(t, power, last - 1))
      shift == (IF peek(t, sign) = "-" THEN -exponent ELSE exponent) - places
      size == IF shift < 0 THEN (mantissa * Unit) \div 10^(-shift)
              ELSE mantissa * Unit * 10^shift
  IN IF \/ point = first
        \/ behind = point + 1
        \/ sign > behind /\ last = power
     THEN Error
     ELSE Ok(Number(IF first > p THEN -size ELSE size), last)

RECURSIVE parse_value(_, _), Elements(_, _, _), Members(_, _, _)

\* parse_array, behind the bracket or a comma.  An empty array is seen only
\* when no white space separates its brackets.
Elements(t, p, items) ==
  IF peek(t, p) = "end" THEN Error
  ELSE Try(parse_value(t, p), LAMBDA v, q :
         LET r == skip_whitespace(t, q)
             longer == Append(items, v)
         IN CASE Closes(t, r, "]")  -> Ok(Array(longer), r + 1)
              [] peek(t, r) = ","   -> Elements(t, r + 1, longer)
              [] OTHER              -> Error)

parse_array(t, p) == IF peek(t, p + 1) = "]" THEN Ok(Array(<<>>), p + 2)
                     ELSE Elements(t, p + 1, <<>>)

\* parse_object, behind the bracket or a comma.
Members(t, p, members) ==
  Try(parse_string(t, skip_whitespace(t, p)), LAMBDA k, q :
    LET colon == ColonAt(t, q) IN
    IF peek(t, colon) # ":" THEN Error
    ELSE Try(parse_value(t, colon + 1), LAMBDA v, q2 :
           LET r == skip_whitespace(t, q2)
               longer == ObjectSet(members, k.string, v)
           IN CASE Closes(t, r, "}")  -> Ok(Object(longer), r + 1)
                [] peek(t, r) = ","   -> Members(t, r + 1, longer)
                [] OTHER              -> Error))

parse_object(t, p) == IF peek(t, p + 1) = "}" THEN Ok(Object(NoMembers), p + 2)
                      ELSE Members(t, p + 1, NoMembers)

parse_value(t, p) ==
  LET q == skip_whitespace(t, p)
      c == peek(t, q)
  IN CASE c = "null"             -> parse_null(t, q)
       [] c \in {"true", "false"} -> parse_bool(t, q)
       [] c \in {"-", "digit"}    -> parse_number(t, q)
       [] c = "quote"            -> parse_string(t, q)
       [] c = "["                -> parse_array(t, q)
       [] c = "{"                -> parse_object(t, q)
       [] OTHER                  -> Error

\* What follows the value is not looked at.
parse(t) == parse_value(t, 1)
=============================================================================
