---------------------------- MODULE ImageVerify ----------------------------
(***************************************************************************)
(* The check a downloaded image passes before it may boot: versions, the   *)
(* manifest, the signed preamble, Ed25519Stream and ImageVerifier of       *)
(* ota_verify.h, and the streaming half of SHA-512 in                      *)
(* monocypher-ed25519.c.  The compression function and the curve equation  *)
(* are ideal: a digest is the sequence of blocks it compressed, and a      *)
(* signature verifies on the message it was made for.                      *)
(***************************************************************************)
EXTENDS Json

CONSTANTS
    PartMax, PartDigits,   \* 65535 and its 5 digits
    VersionMaxLen,         \* kOtaVersionMaxLen
    SigBytes, ShaBytes,    \* bytes in a signature and in a sha256
    WordBytes, BlockBytes  \* SHA-512's word and block

\* The longest version is the largest part three times: "65535.65535.65535".
ASSUME ImageVerifyAssumption ==
    /\ {PartMax, PartDigits, VersionMaxLen, SigBytes, ShaBytes, WordBytes} \subseteq Nat \ {0}
    /\ PartDigits = Len(NumeralText(PartMax)) /\ VersionMaxLen = 3 * PartDigits + 2
    /\ BlockBytes = 4 * WordBytes

Part(s) == FoldLeft(LAMBDA v, c : v * 10 + NumeralValue[c], 0, s)
DotSplit(s) ==
    FoldLeft(LAMBDA acc, c : IF c = "." THEN Append(acc, <<>>)
                             ELSE [acc EXCEPT ![Len(acc)] = Append(@, c)], << <<>> >>, s)

(***************************************************************************)
(* Versions                                                                *)
(***************************************************************************)
PartOkLeadingZero(s) ==
    Len(s) \in 1 .. PartDigits /\ ToSet(s) \subseteq Numerals /\ Part(s) <= PartMax
PartOk(s) ==
    /\ Len(s) \in 1 .. PartDigits /\ ToSet(s) \subseteq Numerals
    /\ s[1] = "0" => Len(s) = 1
    /\ Part(s) <= PartMax

Pack(a, b, c) == (a * (PartMax + 1) + b) * (PartMax + 1) + c

\* The packed code, no result for kInvalidOtaVersion.
otaVersionCode(s) ==
    LET parts == DotSplit(s)
    IN IF Len(s) <= VersionMaxLen /\ Len(parts) = 3 /\ \A i \in 1 .. 3 : PartOk(parts[i])
       THEN {Pack(Part(parts[1]), Part(parts[2]), Part(parts[3]))} ELSE {}

formatOtaVersion(code) ==
    LET w == PartMax + 1
    IN NumeralText(code \div (w * w)) \o <<".">> \o NumeralText((code \div w) % w)
       \o <<".">> \o NumeralText(code % w)

(***************************************************************************)
(* The manifest                                                            *)
(***************************************************************************)
ImagesPath == "/v1/device/firmware/images/"
UrlBytes == {"a", "1", "/", ".", "-"}

otaUrlIsGatewayPath(url) ==
    /\ url # <<>> /\ url[1] = ImagesPath
    /\ ToSet(Tail(url)) \subseteq UrlBytes
    /\ ~\E i \in 1 .. Len(url) - 1 : url[i] = "." /\ url[i + 1] = "."

NoUpdate == [available |-> FALSE, version |-> <<>>, url |-> <<>>, size |-> 0, sha |-> <<>>, sig |-> <<>>]

SizeOkAny(n) == TRUE
SizeOk(n) == n > 0

\* The manifest, no result when it cannot be used.
parseOtaManifest(json) ==
    LET available == parseJsonBool(json, <<"available">>)
        version == {v \in parseJsonString(json, <<"version">>, VersionMaxLen + 1) : otaVersionCode(v) # {}}
        url == {u \in parseJsonString(json, <<"url">>, 8) :
                  otaUrlIsGatewayPath(u) \/ (u # <<>> /\ u[1] \in {"https://", "http://"})}
        size == {n \in parseJsonInt(json, <<"size">>) : SizeOk(n)}
        sha == UNION {decodeHexExact(h, ShaBytes) : h \in parseJsonString(json, <<"sha256">>, 2 * ShaBytes)}
        sig == UNION {decodeHexExact(h, SigBytes) : h \in parseJsonString(json, <<"signature">>, 2 * SigBytes)}
    IN  IF available = {FALSE} THEN {NoUpdate}
        ELSE {[available |-> a, version |-> v, url |-> u, size |-> n, sha |-> h, sig |-> g] :
                a \in available, v \in version, u \in url, n \in size, h \in sha, g \in sig}

(***************************************************************************)
(* SHA-512 over a message fed in pieces                                    *)
(***************************************************************************)
Zero == "00"
Marker == "80"
NoLength == -1
ShaInit == [input |-> [i \in 0 .. BlockBytes - 1 |-> Zero], idx |-> 0, bits |-> 0, blocks |-> <<>>]

AtMost(a, b) == IF a <= b THEN a ELSE b
From(m, n) == SubSeq(m, n + 1, Len(m))

\* sha512_set_input(): a byte is or-ed in, so it must fall on a zero.
SetInput(ctx, b) ==
    [ctx EXCEPT !.input[ctx.idx] = IF @ = Zero THEN b ELSE "mixed"]
PutByte(ctx, b) == [SetInput(ctx, b) EXCEPT !.idx = @ + 1]

\* load64_be_buf(): whole words written at a position.
Load(ctx, at, m) ==
    [ctx EXCEPT !.input = [i \in DOMAIN @ |-> IF i \in at .. at + Len(m) - 1 THEN m[i - at + 1] ELSE @[i]],
                !.idx = @ + Len(m)]

Digested(ctx, length) ==
    Append(ctx.blocks, [bytes |-> [i \in 1 .. BlockBytes |-> ctx.input[i - 1]], bits |-> length])
CompressUncleared(ctx) ==
    [ctx EXCEPT !.blocks = Digested(ctx, NoLength), !.bits = @ + 8 * BlockBytes, !.idx = 0]
Compress(ctx) ==
    [ctx EXCEPT !.blocks = Digested(ctx, NoLength), !.bits = @ + 8 * BlockBytes, !.idx = 0,
                !.input = ShaInit.input]

crypto_sha512_update(ctx, m) ==
    LET \* up to a word boundary
        n1 == IF ctx.idx % WordBytes = 0 THEN 0 ELSE AtMost(WordBytes - (ctx.idx % WordBytes), Len(m))
        c1 == FoldLeft(PutByte, ctx, SubSeq(m, 1, n1))
        m1 == From(m, n1)
        \* whole words up to a block boundary
        n2 == IF c1.idx % BlockBytes = 0 THEN 0
              ELSE (AtMost(BlockBytes - (c1.idx % BlockBytes), Len(m1)) \div WordBytes) * WordBytes
        c2 == Load(c1, c1.idx, SubSeq(m1, 1, n2))
        m2 == From(m1, n2)
        c3 == IF c2.idx = BlockBytes THEN Compress(c2) ELSE c2
        \* whole blocks
        k == Len(m2) \div BlockBytes
        c4 == FoldLeft(LAMBDA c, b : Compress(Load(c, 0, b)), c3,
                       [i \in 1 .. k |-> SubSeq(m2, (i - 1) * BlockBytes + 1, i * BlockBytes)])
        m4 == From(m2, k * BlockBytes)
        \* the words and bytes left, loaded from the start of the block
        n5 == (Len(m4) \div WordBytes) * WordBytes
        c5 == Load(c4, 0, SubSeq(m4, 1, n5))
    IN IF m = <<>> THEN ctx ELSE FoldLeft(PutByte, c5, From(m4, n5))

\* Marker, a block of its own when the length does not fit, then the length.
crypto_sha512_final(ctx) ==
    LET marked == SetInput(IF ctx.idx = 0 THEN [ctx EXCEPT !.input = ShaInit.input] ELSE ctx, Marker)
        bits == ctx.bits + 8 * ctx.idx
        room == BlockBytes - 2 * WordBytes
        last == IF ctx.idx > room - 1
                THEN [marked EXCEPT !.blocks = Digested(marked, NoLength), !.input = ShaInit.input]
                ELSE marked
        bytes == [i \in DOMAIN last.input |-> IF i < room THEN last.input[i] ELSE Zero]
    IN Digested([last EXCEPT !.input = bytes], bits)

\* What the standard says is hashed.
Padded(m) ==
    LET room == BlockBytes - 2 * WordBytes
        n == Len(m) + 1
        zeros == CHOOSE z \in 0 .. BlockBytes - 1 : (n + z) % BlockBytes = room % BlockBytes
        text == m \o <<Marker>> \o [i \in 1 .. zeros + 2 * WordBytes |-> Zero]
        count == Len(text) \div BlockBytes
    IN [i \in 1 .. count |-> [bytes |-> SubSeq(text, (i - 1) * BlockBytes + 1, i * BlockBytes),
                              bits |-> IF i = count THEN 8 * Len(m) ELSE NoLength]]

(***************************************************************************)
(* The verifier.  A key is its y coordinate and its sign bit.              *)
(***************************************************************************)
SmallOrderY == {Zero, "y1", "y8"}
isSentinelKey(key) == key = <<Zero, Zero>>
isSmallOrderKey(key) == key[1] \in SmallOrderY
isUnusableKey(key) == isSentinelKey(key) \/ isSmallOrderKey(key)

otaSignedPreamble(version, size) ==
    <<"tag", "version=">> \o version \o <<"LF", "size=">> \o NumeralText(size) \o <<"LF">>

\* External, crypto_eddsa_check_equation(): cofactored, so a small-order key
\* verifies every message under the identity.
CheckEquation(sig, key, digest) ==
    \/ sig.by = key /\ digest = Padded(sig.r \o key \o sig.msg)
    \/ key[1] \in SmallOrderY /\ sig.r = <<"y1", Zero>>

NewStream(key, sig) ==
    [key |-> key, sig |-> sig, finished |-> FALSE,
     ctx |-> crypto_sha512_update(crypto_sha512_update(ShaInit, sig.r), key)]
StreamUpdate(s, data) ==
    IF s.finished \/ data = <<>> THEN s ELSE [s EXCEPT !.ctx = crypto_sha512_update(@, data)]
StreamVerifies(s) ==
    ~s.finished /\ ~isUnusableKey(s.key) /\ CheckEquation(s.sig, s.key, crypto_sha512_final(s.ctx))

NewVerifier(key, sig, version, size) ==
    LET ok == otaVersionCode(version) # {}
        stream == NewStream(key, sig)
    IN [stream |-> IF ok THEN StreamUpdate(stream, otaSignedPreamble(version, size)) ELSE stream,
        expected |-> size, noKey |-> isUnusableKey(key), versionOk |-> ok,
        seen |-> 0, finished |-> FALSE]

VerifierUpdate(v, data) ==
    IF v.finished \/ data = <<>> THEN v
    ELSE [v EXCEPT !.seen = @ + Len(data), !.stream = StreamUpdate(@, data)]

Verdict(v) ==
    IF v.finished THEN "BadSignature"
    ELSE IF v.noKey THEN "NoKey"
    ELSE IF ~v.versionOk THEN "BadVersion"
    ELSE IF v.expected = 0 \/ v.seen = 0 THEN "EmptyImage"
    ELSE IF v.seen # v.expected THEN "SizeMismatch"
    ELSE IF StreamVerifies(v.stream) THEN "Ok" ELSE "BadSignature"

VerifierFinish(v) == [v EXCEPT !.finished = TRUE, !.stream.finished = @ \/ Verdict(v) \in {"Ok", "BadSignature"}]
=============================================================================
