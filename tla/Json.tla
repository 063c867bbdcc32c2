--------------------------------- MODULE Json ---------------------------------
(***************************************************************************)
(* JsonValue::serialize and JsonParser.  A value is [null], [bool],        *)
(* [number], [string], [array] or [object], an object being a function     *)
(* from strings to values.  A string, and a text, is a sequence of         *)
(* elements: a character, a word of characters that nobody looks at, the   *)
(* four digits of an escape, or a number.  Fractions, which no property of *)
(* the library has, are left out.                                          *)
(***************************************************************************)
EXTENDS Integers, Sequences, SequencesExt, FiniteSetsExt, Functions, TLC

CONSTANTS
    JsonNumbers,  \* the numbers that occur
    MaxExact,     \* up to this, numbers are written as integers: 2^32 - 1
    Digits        \* and else with so many digits: 6

Quote == "\""
Backslash == "\\"
High == "high"     \* a byte from 80 on
Control == "ctrl"  \* the control character 01

Is(v, kind) == kind \in DOMAIN v
Null == [null |-> TRUE]
Str(s) == [string |-> s]
Num(n) == [number |-> n]
Bool(b) == [bool |-> b]
Arr(s) == [array |-> s]
Obj(f) == [object |-> f]

-----------------------------------------------------------------------------
(* serialize *)

Escapes == (Quote :> <<Backslash, Quote>>) @@ (Backslash :> <<Backslash, Backslash>>)
           @@ ("\f" :> <<Backslash, "f">>) @@ ("\n" :> <<Backslash, "n">>)
           @@ ("\t" :> <<Backslash, "t">>)
           @@ (Control :> <<Backslash, "u", "0001">>)
           @@ (High :> <<Backslash, "u", "ffff", "ffc3">>)

\* Mutant: quotes are written as they are.
EscapedButQuote(s) ==
    FlattenSeq([i \in DOMAIN s |->
        IF s[i] \in DOMAIN Escapes \ {Quote} THEN Escapes[s[i]] ELSE <<s[i]>>])
\* escapeString.  char is signed: a byte from 80 on is below 20, too, and is
\* written with eight digits.
Escaped(s) ==
    FlattenSeq([i \in DOMAIN s |->
        IF s[i] \in DOMAIN Escapes THEN Escapes[s[i]] ELSE <<s[i]>>])

Quoted(s) == <<Quote>> \o Escaped(s) \o <<Quote>>

Magnitude(n) == IF n < 0 THEN -n ELSE n

Rounded(n) ==
    LET k == CHOOSE k \in 0 .. 9 : /\ Magnitude(n) \div 10 ^ k < 10 ^ Digits
                                   /\ \A j \in 0 .. k - 1 : Magnitude(n) \div 10 ^ j >= 10 ^ Digits
        m == ((Magnitude(n) + 10 ^ k \div 2) \div 10 ^ k) * 10 ^ k
    IN IF n < 0 THEN -m ELSE m

NumberText(n) == ToString(IF n \in 0 .. MaxExact THEN n ELSE Rounded(n))

\* Parts with a separator between two of them.
Joined(parts) ==
    FlattenSeq([i \in DOMAIN parts |-> IF i = 1 THEN parts[1] ELSE <<",">> \o parts[i]])

\* The keys in some order, which no reader looks at.
Keys(f) == FoldSet(LAMBDA k, s : Append(s, k), <<>>, DOMAIN f)

RECURSIVE Serialized(_)
Serialized(v) ==
    CASE Is(v, "null") -> <<"null">>
      [] Is(v, "bool") -> IF v.bool THEN <<"true">> ELSE <<"false">>
      [] Is(v, "number") -> <<NumberText(v.number)>>
      [] Is(v, "string") -> Quoted(v.string)
      [] Is(v, "array") ->
            <<"[">> \o Joined([i \in DOMAIN v.array |-> Serialized(v.array[i])]) \o <<"]">>
      [] Is(v, "object") ->
            LET keys == Keys(v.object)
                Member(k) == Quoted(k) \o <<":">> \o Serialized(v.object[k])
            IN <<"{">> \o Joined([i \in DOMAIN keys |-> Member(keys[i])]) \o <<"}">>

-----------------------------------------------------------------------------
(* parse: each operator reads from position i on and returns the value and   *)
(* the position after it, or Failed where the code throws.                   *)

Failed == [failed |-> TRUE]
Read(v, i) == [value |-> v, next |-> i]

Peek(t, i) == IF i > Len(t) THEN "end" ELSE t[i]

RECURSIVE Skipped(_, _)
Skipped(t, i) == IF Peek(t, i) \in {" ", "\n", "\t"} THEN Skipped(t, i + 1) ELSE i

\* What a backslash and a letter stand for.
Unescapes == (Quote :> Quote) @@ (Backslash :> Backslash) @@ ("/" :> "/")
             @@ ("f" :> "\f") @@ ("n" :> "\n") @@ ("t" :> "\t")
Decoded4 == ("0001" :> <<Control>>) @@ ("ffff" :> <<High, High, High>>)

\* unescapeString, for a string that has been decoded before: what looks like
\* an escape by now is decoded once more.
RECURSIVE Unescaped(_)
Unescaped(s) ==
    IF s = <<>> THEN <<>>
    ELSE IF s[1] = Backslash /\ Len(s) > 1 /\ s[2] \in DOMAIN Unescapes
    THEN <<Unescapes[s[2]]>> \o Unescaped(SubSeq(s, 3, Len(s)))
    ELSE IF s[1] = Backslash /\ Len(s) > 2 /\ s[2] = "u" /\ s[3] \in DOMAIN Decoded4
    THEN Decoded4[s[3]] \o Unescaped(SubSeq(s, 4, Len(s)))
    ELSE <<s[1]>> \o Unescaped(Tail(s))

\* parseString, after the first quote; s is what has been read.
RECURSIVE ReadString(_, _, _)
ReadString(t, i, s) ==
    IF i > Len(t) THEN Failed
    ELSE IF t[i] = Quote THEN Read(Str(Unescaped(s)), i + 1)
    ELSE IF t[i] # Backslash THEN ReadString(t, i + 1, Append(s, t[i]))
    ELSE IF Peek(t, i + 1) \in DOMAIN Unescapes
    THEN ReadString(t, i + 2, Append(s, Unescapes[t[i + 1]]))
    ELSE IF Peek(t, i + 1) = "u" /\ Peek(t, i + 2) \in DOMAIN Decoded4
    THEN ReadString(t, i + 3, s \o Decoded4[t[i + 2]])
    ELSE Failed

\* parseNumber.
NumberTexts == [n \in JsonNumbers |-> ToString(n)]
IsNumber(c) == c \in Range(NumberTexts)
NumberOf(c) == CHOOSE n \in JsonNumbers : NumberTexts[n] = c

\* parseLiteral.
Literals == ("null" :> Null) @@ ("true" :> Bool(TRUE)) @@ ("false" :> Bool(FALSE))

RECURSIVE ReadValue(_, _), ReadMembers(_, _, _), AfterKey(_, _, _),
          AfterMember(_, _, _, _), ReadItems(_, _, _), AfterItem(_, _, _)
ReadValue(t, from) ==
    LET i == Skipped(t, from)
        c == Peek(t, i)
        j == Skipped(t, i + 1)
    IN CASE c = "{" -> IF Peek(t, j) = "}" THEN Read(Obj(<<>>), j + 1)
                       ELSE ReadMembers(t, j, <<>>)
         [] c = "[" -> IF Peek(t, j) = "]" THEN Read(Arr(<<>>), j + 1)
                       ELSE ReadItems(t, j, <<>>)
         [] c = Quote -> ReadString(t, i + 1, <<>>)
         [] c \in DOMAIN Literals -> Read(Literals[c], i + 1)
         [] IsNumber(c) -> Read(Num(NumberOf(c)), i + 1)
         [] OTHER -> Failed

\* The loop of parseObject, which also ends with the text: f are the members
\* so far.
ReadMembers(t, from, f) ==
    LET i == Skipped(t, from)
    IN IF from > Len(t) THEN Read(Obj(f), from)
       ELSE IF Peek(t, i) # Quote THEN Failed
       ELSE AfterKey(t, ReadString(t, i + 1, <<>>), f)

AfterKey(t, key, f) ==
    IF key = Failed \/ Peek(t, Skipped(t, key.next)) # ":" THEN Failed
    ELSE AfterMember(t, key.value.string, ReadValue(t, Skipped(t, key.next) + 1), f)

AfterMember(t, key, v, f) ==
    LET after == Skipped(t, v.next)
        g == (key :> v.value) @@ f
    IN CASE v = Failed -> Failed
         [] v # Failed /\ Peek(t, after) = "}" -> Read(Obj(g), after + 1)
         [] v # Failed /\ Peek(t, after) = "," -> ReadMembers(t, after + 1, g)
         [] OTHER -> Failed

\* And that of parseArray: s are the items so far.
ReadItems(t, i, s) ==
    IF i > Len(t) THEN Read(Arr(s), i) ELSE AfterItem(t, ReadValue(t, i), s)

AfterItem(t, v, s) ==
    LET after == Skipped(t, v.next)
    IN CASE v = Failed -> Failed
         [] v # Failed /\ Peek(t, after) = "]" -> Read(Arr(Append(s, v.value)), after + 1)
         [] v # Failed /\ Peek(t, after) = "," -> ReadItems(t, after + 1, Append(s, v.value))
         [] OTHER -> Failed

\* JsonParser::parse looks at nothing after the value.
ValueRead(r) == IF r = Failed THEN Failed ELSE r.value
Parse(t) == ValueRead(ReadValue(t, 1))
=============================================================================
