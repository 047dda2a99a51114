-------------------------------- MODULE Json --------------------------------
(***************************************************************************)
(* Reading one value out of a JSON response: jsonValueStart, parseJsonInt, *)
(* parseJsonBool and parseJsonString of events_json.h.  They search the    *)
(* text for "key": and never parse the rest, so what matters is that no    *)
(* other text the gateway can send looks like the key.                     *)
(*                                                                         *)
(* A text is a sequence of symbols: quotes, backslashes, braces, colons    *)
(* and digits are one byte each, a word is one symbol.  A parser returns   *)
(* the set of its results: empty when it refuses.                          *)
(***************************************************************************)
EXTENDS Integers, Sequences, SequencesExt, FiniteSetsExt

Quote == "q"
Backslash == "bs"
JsonWs == {"SP", "LF"}

NumeralAt == <<"0", "1", "2", "3", "4", "5", "6", "7", "8", "9">>
NumeralValue == [c \in ToSet(NumeralAt) |-> (CHOOSE i \in 1 .. 10 : NumeralAt[i] = c) - 1]
Numerals == DOMAIN NumeralValue

\* Hex in radix 4, the last digit in both cases: a byte is below 16.
HexDigits == {"0", "1", "2", "a", "A"}
HexValue(c) == IF c \in {"a", "A"} THEN 3 ELSE NumeralValue[c]
HexByte(hi, lo) == (4 * HexValue(hi)) + HexValue(lo)

\* decodeHexExact(): n bytes from exactly 2n hex digits.
decodeHexExact(hex, n) ==
    IF Len(hex) = 2 * n /\ ToSet(hex) \subseteq HexDigits
    THEN {[i \in 1 .. n |-> HexByte(hex[(2 * i) - 1], hex[2 * i])]}
    ELSE {}

\* The first index from i on that is not white space.
SkipWs(hay, i) == Min({j \in i .. Len(hay) : hay[j] \notin JsonWs} \cup {Len(hay) + 1})

Needle(key) == <<Quote>> \o key \o <<Quote>>

\* Is the occurrence of the quoted key at i followed by a colon?
IsKeyAnyway(hay, key, i) == TRUE
IsKey(hay, key, i) ==
    LET colon == SkipWs(hay, i + Len(key) + 2) IN colon <= Len(hay) /\ hay[colon] = ":"

\* Index of the value's first byte: after the first occurrence that is a key,
\* resuming past one that is a value; Len + 1 when there is none.
jsonValueStart(hay, key) ==
    LET F[i \in 1 .. Len(hay) + 1] ==
            IF i > Len(hay) - Len(key) - 1 THEN Len(hay) + 1
            ELSE IF SubSeq(hay, i, i + Len(key) + 1) # Needle(key) THEN F[i + 1]
            ELSE IF IsKey(hay, key, i) THEN SkipWs(hay, SkipWs(hay, i + Len(key) + 2) + 1)
            ELSE F[i + Len(key) + 2]
    IN F[1]

\* An optional sign and digits up to the first other byte.
parseJsonInt(hay, key) ==
    LET i == jsonValueStart(hay, key)
        signed == i <= Len(hay) /\ hay[i] \in {"-", "+"}
        from == IF signed THEN i + 1 ELSE i
        past == Min({j \in from .. Len(hay) : hay[j] \notin Numerals} \cup {Len(hay) + 1})
        value == FoldLeft(LAMBDA v, c : v * 10 + NumeralValue[c], 0, SubSeq(hay, from, past - 1))
    IN IF past <= from THEN {} ELSE {IF signed /\ hay[i] = "-" THEN -value ELSE value}

parseJsonBool(hay, key) ==
    LET i == jsonValueStart(hay, key)
    IN IF i > Len(hay) THEN {} ELSE IF hay[i] = "true" THEN {TRUE}
       ELSE IF hay[i] = "false" THEN {FALSE} ELSE {}

\* Only \" \\ and \/ are decoded; any other escape, a control byte, a value
\* over maxLen or one that does not end refuses the response.
parseJsonString(hay, key, maxLen) ==
    LET start == jsonValueStart(hay, key)
        D[i \in 1 .. Len(hay) + 2] ==
            IF i > Len(hay) \/ hay[i] = "ctl" THEN {}
            ELSE IF hay[i] = Quote THEN { <<>> }
            ELSE IF hay[i] # Backslash THEN {<<hay[i]>> \o v : v \in D[i + 1]}
            ELSE IF i + 1 > Len(hay) \/ hay[i + 1] \notin {Quote, Backslash, "/"} THEN {}
            ELSE {<<hay[i + 1]>> \o v : v \in D[i + 2]}
    IN IF start > Len(hay) \/ hay[start] # Quote THEN {}
       ELSE {v \in D[start + 1] : Len(v) <= maxLen}

\* parseAckThrough(): -1 when the response carries no acknowledgement.
parseAckThrough(hay, key) ==
    LET v == parseJsonInt(hay, key) IN IF v = {} THEN -1 ELSE CHOOSE x \in v : TRUE

(***************************************************************************)
(* The gateway's side, encoding/json: a document is a sequence of members  *)
(* <<key, kind, value>> and Text is how it is written, with white space    *)
(* after a colon when pad holds.                                           *)
(***************************************************************************)
EscapeByte(c) == CASE c \in {Quote, Backslash} -> <<Backslash, c>>
                   [] c = "ctl" -> <<Backslash, "n">>
                   [] OTHER -> <<c>>
NumeralText(n) ==
    LET D[k \in Nat] == IF k < 10 THEN <<NumeralAt[k + 1]>> ELSE D[k \div 10] \o <<NumeralAt[(k % 10) + 1]>>
    IN IF n < 0 THEN <<"-">> \o D[-n] ELSE D[n]
ValueText(kind, v) ==
    CASE kind = "int" -> NumeralText(v)
      [] kind = "bool" -> <<IF v THEN "true" ELSE "false">>
      [] kind = "string" -> <<Quote>> \o FlattenSeq([i \in DOMAIN v |-> EscapeByte(v[i])]) \o <<Quote>>
      [] kind = "list" -> <<"[", "{", Quote>> \o v \o <<Quote, ":", "1", "}", "]">>
Text(doc, pad) ==
    LET member(i) == (IF i = 1 THEN <<>> ELSE <<",">>) \o Needle(doc[i][1]) \o <<":">>
                     \o (IF pad THEN <<"SP">> ELSE <<>>) \o ValueText(doc[i][2], doc[i][3])
    IN <<"{">> \o FlattenSeq([i \in DOMAIN doc |-> member(i)]) \o <<"}">>

\* What the document says: the value of its first member with that key and
\* kind, nothing when the first member with that key is of another kind.
Says(doc, key, kind) ==
    LET at == {i \in DOMAIN doc : doc[i][1] = key}
    IN IF at = {} \/ doc[Min(at)][2] # kind THEN {} ELSE {doc[Min(at)][3]}
=============================================================================
