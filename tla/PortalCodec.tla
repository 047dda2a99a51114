---------------------------- MODULE PortalCodec ----------------------------
(***************************************************************************)
(* What the setup portal and the serial port read and what is kept of it:  *)
(* the HTTP request parser, the form decoder and the records of            *)
(* wifi_provision.h, the token record and the /provision answer of         *)
(* provision.h.                                                            *)
(*                                                                         *)
(* A byte is a symbol.  The alphabet has 16 of them, so that a byte is two *)
(* hex digits in radix 4 as a real one is two in radix 16; lengths and     *)
(* caps are constants, scaled down with it.  A parser that may refuse      *)
(* returns the set of its results: empty for a refusal.                    *)
(***************************************************************************)
EXTENDS Json

CONSTANTS
    FieldCap,      \* kFormFieldCap
    SsidMax,       \* kWifiSsidMaxBytes
    PassMin, PassMax, PskHex,   \* the three password lengths that matter
    TokenChars,    \* kProvisionTokenHexChars
    KeyGroup, KeyChars,         \* the setup key: groups joined by dashes
    MaxHead, MaxBody,           \* kPortalMaxHead, kPortalMaxBody
    SecretBytes,   \* kDeviceSecretBytes
    KeyVersionMax  \* INT32_MAX

ASSUME PortalCodecAssumption ==
    /\ {FieldCap, SsidMax, PassMin, PassMax, PskHex, TokenChars, KeyGroup,
        KeyChars, MaxHead, MaxBody, SecretBytes, KeyVersionMax} \subseteq Nat \ {0}
    /\ PassMin <= PassMax /\ PskHex = PassMax + 1

Ascii == <<"NUL", "TAB", "SP", "%", "&", "+", "0", "1",
           "2", "A", "=", "a", "z", "-", "?", "hi">>
Byte == ToSet(Ascii)

Control == {"NUL", "TAB"}
Space == {"SP", "TAB"}

Split(s, c) ==
    FoldLeft(LAMBDA acc, x : IF x = c THEN Append(acc, <<>>)
                             ELSE [acc EXCEPT ![Len(acc)] = Append(@, x)],
             << <<>> >>, s)

\* Index of the first element satisfying Test, Len + 1 when there is none.
FirstIndex(s, Test(_)) == Min({i \in 1 .. Len(s) : Test(s[i])} \cup {Len(s) + 1})

(***************************************************************************)
(* application/x-www-form-urlencoded                                       *)
(***************************************************************************)
BadEscapeAt(s, i) ==
    s[i] = "%" /\ (i + 2 > Len(s) \/ s[i + 1] \notin HexDigits \/ s[i + 2] \notin HexDigits)

percentDecodeNoPlus(s, cap) ==
    LET D[i \in 1 .. Len(s) + 1] ==
            IF i > Len(s) THEN { <<>> }
            ELSE IF BadEscapeAt(s, i) THEN {}
            ELSE IF s[i] = "%"
                 THEN {<<Ascii[HexByte(s[i + 1], s[i + 2]) + 1]>> \o d : d \in D[i + 3]}
                 ELSE {<<s[i]>> \o d : d \in D[i + 1]}
    IN {d \in D[1] : Len(d) <= cap}

percentDecode(s, cap) ==
    LET D[i \in 1 .. Len(s) + 1] ==
            IF i > Len(s) THEN { <<>> }
            ELSE IF BadEscapeAt(s, i) THEN {}
            ELSE IF s[i] = "%"
                 THEN {<<Ascii[HexByte(s[i + 1], s[i + 2]) + 1]>> \o d : d \in D[i + 3]}
                 ELSE {<<IF s[i] = "+" THEN "SP" ELSE s[i]>> \o d : d \in D[i + 1]}
    IN {d \in D[1] : Len(d) <= cap}

\* The names of the three fields, as bytes.
FieldName == [ssid |-> <<"z">>, password |-> <<"a">>, token |-> <<"2">>]
Fields == DOMAIN FieldName

EmptyForm == [err |-> "Ok", val |-> [f \in Fields |-> <<>>], have |-> {}]
Refuse(form, why) == [form EXCEPT !.err = why]

\* One name=value of the body; a name that is not ours must still decode.
FormStep(form, pair) ==
    LET eq == FirstIndex(pair, LAMBDA c : c = "=")
        key == percentDecode(SubSeq(pair, 1, eq - 1), 32)
        raw == SubSeq(pair, eq + 1, Len(pair))
        value == percentDecode(raw, FieldCap)
    IN  IF form.err # "Ok" \/ pair = <<>> THEN form
        ELSE IF key = {} THEN Refuse(form, "Malformed")
        ELSE IF value = {}
             THEN Refuse(form, IF \E i \in 1 .. Len(raw) : BadEscapeAt(raw, i)
                               THEN "Malformed" ELSE "FieldTooLong")
        ELSE LET f == {g \in Fields : FieldName[g] \in key}
             IN IF f \cap form.have # {} THEN Refuse(form, "Duplicate")
                ELSE [form EXCEPT !.have = @ \cup f,
                                  !.val = [g \in Fields |-> IF g \in f THEN CHOOSE v \in value : TRUE
                                                            ELSE form.val[g]]]

\* A refused form keeps nothing of what was typed.
parseWifiForm(body) ==
    LET form == FoldLeft(FormStep, EmptyForm, Split(body, "&"))
        err == IF form.err = "Ok" /\ ~({"ssid", "password"} \subseteq form.have)
               THEN "Missing" ELSE form.err
    IN IF err = "Ok" THEN form ELSE [EmptyForm EXCEPT !.err = err]

(***************************************************************************)
(* The three records kept in NVS.  A record is a fixed array, zero filled. *)
(***************************************************************************)
Array(s, n) == [i \in 1 .. n |-> IF i <= Len(s) THEN s[i] ELSE "NUL"]
CString(a) == SubSeq(a, 1, FirstIndex(a, LAMBDA c : c = "NUL") - 1)
HasEnd(a) == "NUL" \in ToSet(a)

validateSsidAnyByte(s) == Len(s) \in 1 .. SsidMax
validateSsid(s) == Len(s) \in 1 .. SsidMax /\ ToSet(s) \cap Control = {}

validatePassword(s) ==
    \/ s = <<>>
    \/ Len(s) = PskHex /\ ToSet(s) \subseteq HexDigits
    \/ Len(s) \in PassMin .. PassMax /\ ToSet(s) \cap (Control \cup {"hi"}) = {}

makeCredentials(ssid, password) ==
    IF validateSsid(ssid) /\ validatePassword(password)
    THEN {[magic |-> "WIF1", ssid |-> Array(ssid, SsidMax + 1),
           password |-> Array(password, PskHex + 1)]}
    ELSE {}

credentialsUsable(c) ==
    /\ c.magic = "WIF1"
    /\ HasEnd(c.ssid) /\ HasEnd(c.password)
    /\ validateSsid(CString(c.ssid)) /\ validatePassword(CString(c.password))

trimSpaces(s) ==
    LET kept == {i \in 1 .. Len(s) : s[i] \notin Space}
    IN IF kept = {} THEN <<>> ELSE SubSeq(s, Min(kept), Max(kept))

Lower(s) == [i \in DOMAIN s |-> IF s[i] = "A" THEN "a" ELSE s[i]]

\* makeTokenRecord(): trimmed, validated and lower-cased.
makeTokenRecord(token) ==
    LET t == trimSpaces(token)
    IN IF Len(t) = TokenChars /\ ToSet(t) \subseteq HexDigits
       THEN {[magic |-> "TOK1", token |-> Array(Lower(t), TokenChars + 1)]}
       ELSE {}

tokenRecordUsable(r) ==
    /\ r.magic = "TOK1"
    /\ r.token[TokenChars + 1] = "NUL"
    /\ \A i \in 1 .. TokenChars : r.token[i] \in HexDigits \ {"A"}

\* kSetupKeyAlphabet has no character another is mistaken for.
KeyAlphabet == {"2", "a", "z"}
validSetupKey(s) ==
    /\ Len(s) = KeyChars
    /\ \A i \in 1 .. KeyChars : IF i % (KeyGroup + 1) = 0 THEN s[i] = "-" ELSE s[i] \in KeyAlphabet

makeSetupKey(key) ==
    IF validSetupKey(key) THEN {[magic |-> "SAK1", key |-> Array(key, KeyChars + 1)]} ELSE {}

setupKeyUsable(k) ==
    /\ k.magic = "SAK1"
    /\ k.key[KeyChars + 1] = "NUL"
    /\ validSetupKey(SubSeq(k.key, 1, KeyChars))

\* A serial line, its fixed words one symbol each: the kind and the key.
parseSetupCommand(line) ==
    IF line = <<>> \/ line[1] # "SETUP-" THEN [kind |-> "None", key |-> <<>>]
    ELSE IF line = <<"SETUP-", "ID">> THEN [kind |-> "Id", key |-> <<>>]
    ELSE IF Len(line) > 2 /\ line[2] = "KEY" THEN [kind |-> "SetKey", key |-> SubSeq(line, 3, Len(line))]
    ELSE [kind |-> "Malformed", key |-> <<>>]

(***************************************************************************)
(* One HTTP request.  Method names, header names and HTTP/1. are one       *)
(* symbol each, so that header names compare without regard to case.       *)
(***************************************************************************)
Upper == {"POST", "GET", "HEAD", "PUT"}
NoRequest == [method |-> <<>>, path |-> <<>>, body |-> <<>>]
Parsed(v) == [verdict |-> v, req |-> NoRequest]

\* Where the head's blank line starts; 0 when it has not arrived in MaxHead.
HeadEnd(buf) ==
    LET at == {i \in 1 .. Len(buf) - 3 :
                 i <= MaxHead + 1 /\ SubSeq(buf, i, i + 3) = <<"CR", "LF", "CR", "LF">>}
    IN IF at = {} THEN 0 ELSE Min(at)

\* Request line: METHOD SP target SP HTTP/1.x, else no result.
RequestLine(line) ==
    LET sp1 == FirstIndex(line, LAMBDA c : c = "SP")
        rest == SubSeq(line, sp1 + 1, Len(line))
        sp2 == FirstIndex(rest, LAMBDA c : c = "SP")
        target == SubSeq(rest, 1, sp2 - 1)
        version == SubSeq(rest, sp2 + 1, Len(rest))
        query == FirstIndex(target, LAMBDA c : c = "?")
    IN  IF /\ sp1 <= Len(line) /\ sp1 \in 2 .. 9 /\ \A i \in 1 .. sp1 - 1 : line[i] \in Upper
           /\ sp2 <= Len(rest) /\ target # <<>> /\ target[1] = "/"
           /\ Len(version) = 2 /\ version[1] = "HTTP/1."
           /\ ToSet(target) \cap {"SP", "TAB", "LF", "hi"} = {}
        THEN {[method |-> SubSeq(line, 1, sp1 - 1), path |-> SubSeq(target, 1, query - 1), body |-> <<>>]}
        ELSE {}

\* What the headers have said: the verdict, and the Content-Length if any.
NoHeaders == [verdict |-> "Ok", have |-> FALSE, length |-> 0]

\* Content-Length, digit by digit: the first offence decides.
LengthStep(acc, c) ==
    IF acc.verdict # "Ok" THEN acc
    ELSE IF c \notin Numerals THEN [acc EXCEPT !.verdict = "Bad"]
    ELSE LET n == acc.length * 10 + NumeralValue[c]
         IN [acc EXCEPT !.length = n, !.verdict = IF n > MaxBody THEN "TooLarge" ELSE @]

\* One header line; lf: the line feed after its carriage return.
HeaderStep(acc, line) ==
    LET colon == FirstIndex(line.text, LAMBDA c : c = ":")
        name == SubSeq(line.text, 1, colon - 1)
        value == trimSpaces(SubSeq(line.text, colon + 1, Len(line.text)))
    IN  IF acc.verdict # "Ok" THEN acc
        ELSE IF ~line.lf \/ colon > Len(line.text) \/ name = <<>> \/ name = <<"transfer-encoding">>
             THEN [acc EXCEPT !.verdict = "Bad"]
        ELSE IF name # <<"content-length">> THEN acc
        ELSE IF acc.have \/ value = <<>> THEN [acc EXCEPT !.verdict = "Bad"]
        ELSE FoldLeft(LengthStep, [acc EXCEPT !.have = TRUE], value)

HeadOverflowNever(buf) == FALSE
HeadOverflow(buf) == Len(buf) > MaxHead + 3
BodyArrivedAny(body, length) == TRUE
BodyArrived(body, length) == Len(body) >= length

\* A whole head: the request line's result, the verdict so far and the length.
parseHead(text) ==
    LET lines == Split(text, "CR")
        lf(k) == k = Len(lines) \/ (lines[k + 1] # <<>> /\ lines[k + 1][1] = "LF")
        line == RequestLine(lines[1])
        headers == [k \in 1 .. Len(lines) - 1 |->
                      [text |-> SubSeq(lines[k + 1], 2, Len(lines[k + 1])), lf |-> lf(k + 1)]]
        head == FoldLeft(HeaderStep, NoHeaders, headers)
    IN [line |-> line, length |-> head.length,
        verdict |-> IF ~lf(1) \/ line = {} THEN "Bad" ELSE head.verdict]

parseHttpRequest(buf) ==
    LET headEnd == HeadEnd(buf)
        head == parseHead(SubSeq(buf, 1, headEnd - 1))
        body == SubSeq(buf, headEnd + 4, Len(buf))
    IN  IF headEnd = 0 THEN Parsed(IF HeadOverflow(buf) THEN "TooLarge" ELSE "Incomplete")
        ELSE IF head.verdict # "Ok" THEN Parsed(head.verdict)
        ELSE IF ~BodyArrived(body, head.length) THEN Parsed("Incomplete")
        ELSE [verdict |-> "Ok", req |-> [(CHOOSE r \in head.line : TRUE) EXCEPT
                                           !.body = SubSeq(body, 1, Min({head.length, Len(body)}))]]

\* routePortal() and the answers of WifiPortal::handle() on an open portal.
routePortal(method, path) ==
    LET get == method \in {<<"GET">>, <<"HEAD">>}
    IN  IF path = <<"/">> THEN IF get THEN "Form" ELSE "MethodNotAllowed"
        ELSE IF path = <<"/", "save">>
             THEN IF method = <<"POST">> THEN "Save" ELSE IF get THEN "Redirect" ELSE "MethodNotAllowed"
        ELSE IF get THEN "Redirect" ELSE "NotFound"

handle(parsed) ==
    CASE parsed.verdict = "Incomplete" -> "408"
      [] parsed.verdict = "Bad" -> "400"
      [] parsed.verdict = "TooLarge" -> "413"
      [] OTHER -> routePortal(parsed.req.method, parsed.req.path)

(***************************************************************************)
(* The answer of POST /v1/device/provision                                 *)
(***************************************************************************)

\* Base64 scaled to 4-bit bytes in 3-bit digits: three bytes are still four
\* digits, and the unused bits of a last group must be zero.
Base64 == <<"d0", "d1", "d2", "d3", "d4", "d5", "d6", "d7">>
base64Value(c) == (CHOOSE i \in 1 .. 8 : Base64[i] = c) - 1
Pad == "="
PadLen(outLen) == IF outLen % 3 = 0 THEN 0 ELSE 3 - (outLen % 3)

Group(in, g) == SelectSeq(SubSeq(in, (4 * g) - 3, 4 * g), LAMBDA c : c # Pad)
GroupBits(in, g) == 3 * Len(Group(in, g))
GroupAcc(in, g) == FoldLeft(LAMBDA a, c : (a * 8) + base64Value(c), 0, Group(in, g))
GroupBytes(in, g) ==
    [j \in 1 .. GroupBits(in, g) \div 4 |->
       (GroupAcc(in, g) \div (2 ^ (GroupBits(in, g) - (4 * j)))) % 16]

UnusedBitsAny(in, g) == TRUE
UnusedBitsZero(in, g) == GroupAcc(in, g) % (2 ^ (GroupBits(in, g) % 4)) = 0

decodeBase64Exact(in, outLen) ==
    LET want == ((outLen + 2) \div 3) * 4
        groups == 1 .. want \div 4
        out == FlattenSeq([g \in groups |-> GroupBytes(in, g)])
    IN  IF /\ Len(in) = want /\ outLen # 0
           /\ \A i \in 1 .. want : (i > want - PadLen(outLen)) = (in[i] = Pad)
           /\ ToSet(in) \subseteq ToSet(Base64) \cup {Pad}
           /\ \A g \in groups : UnusedBitsZero(in, g)
           /\ Len(out) = outLen
        THEN {out} ELSE {}

\* A UUID scaled to two groups of one digit.
isUuidText(s) == Len(s) = 3 /\ s[1] \in HexDigits /\ s[2] = "-" /\ s[3] \in HexDigits

ValidKeyVersionAny(v) == v > 0
ValidKeyVersion(v) == v \in 1 .. KeyVersionMax

\* Every field present and well-formed, or the whole response is refused.
parseProvisionResponse(json) ==
    LET id == {v \in parseJsonString(json, <<"device_id">>, 3) : isUuidText(v)}
        secret == UNION {decodeBase64Exact(v, SecretBytes) : v \in parseJsonString(json, <<"device_secret">>, 8)}
        kv == {v \in parseJsonInt(json, <<"key_version">>) : ValidKeyVersion(v)}
        ts == {v \in parseJsonInt(json, <<"server_time_ms">>) : v > 0}
    IN {[deviceId |-> i, secret |-> s, keyVersion |-> k, serverTimeMs |-> t] :
          i \in id, s \in secret, k \in kv, t \in ts}

(***************************************************************************)
(* The bench build's serial command, its verb one symbol                   *)
(***************************************************************************)
BenchRefused(why) == [parse |-> why, id |-> <<>>, secret |-> <<>>, kv |-> 0]

\* A decimal without sign or leading zero.
benchKeyVersion(v) ==
    IF v # <<>> /\ v[1] # "0" /\ ToSet(v) \subseteq Numerals
    THEN FoldLeft(LAMBDA a, c : (a * 10) + NumeralValue[c], 0, v) ELSE 0

parseBenchSecretCommand(line) ==
    LET field == SelectSeq(Split(Tail(line), "SP"), LAMBDA f : f # <<>>)
        secret == decodeHexExact(field[2], SecretBytes)
        kv == IF Len(field) = 3 THEN benchKeyVersion(field[3]) ELSE 1
    IN  IF line = <<>> \/ line[1] # "BENCH-SECRET" \/ (Len(line) > 1 /\ line[2] # "SP")
        THEN BenchRefused("NotOurs")
        ELSE IF Len(field) < 2 THEN BenchRefused("MissingFields")
        ELSE IF Len(field) > 3 THEN BenchRefused("ExtraFields")
        ELSE IF ~isUuidText(field[1]) THEN BenchRefused("BadDeviceId")
        ELSE IF Len(field[2]) # 2 * SecretBytes THEN BenchRefused("BadSecretLength")
        ELSE IF secret = {} THEN BenchRefused("BadSecretHex")
        ELSE IF ~ValidKeyVersion(kv) THEN BenchRefused("BadKeyVersion")
        ELSE [parse |-> "Ok", id |-> Lower(field[1]), secret |-> CHOOSE s \in secret : TRUE, kv |-> kv]
=============================================================================
