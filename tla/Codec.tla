------------------------------- MODULE Codec -------------------------------
(***************************************************************************)
(* The terminal's encoders and decoders at work: each job is one text that *)
(* arrives or leaves, with what its sender or its reader means by it.      *)
(*                                                                         *)
(* A request of the setup portal arrives in pieces (serveOne) and an image *)
(* is hashed in pieces (ImageVerifier); every other text is read at once.  *)
(***************************************************************************)
EXTENDS PortalCodec, PunchCodec, ImageVerify, RingFile

CONSTANTS
    Chunk,      \* most bytes one read returns
    Requests,   \* what clients of the portal send
    Forms,      \* fields as a browser submits them, in order
    Logins,     \* network names with their passwords
    Tokens,     \* claim tokens as typed
    Keys,       \* setup keys as typed
    Times,      \* times the clock chip can show
    Punches,    \* records the ring can hold
    Disks,      \* file systems the ring file is opened on
    MaxBoots    \* bound: times it is opened

LastDay == 2932896   \* 9999-12-31: the text of a time has four digits for the year
DayMs == 86400000

\* A request and a field are any bytes; a part of a version has two digits; a
\* block holds more than its pointers.
ASSUME CodecAssumption ==
    /\ Chunk \in Nat \ {0} /\ MaxBoots \in Nat /\ PartMax >= 10
    /\ Requests \subseteq Seq(STRING)
    /\ Forms \subseteq Seq((Fields \cup {"submit"}) \X Seq(Byte))
    /\ \A l \in Logins : {l.ssid, l.password} \subseteq Seq(Byte)
    /\ Tokens \subseteq Seq(Byte) /\ Keys \subseteq Seq(Byte)
    /\ Times \subseteq (0 .. LastDay) \X (0 .. DayMs - 1)
    /\ \A r \in Punches :
         /\ {r.seq, r.uptime, r.slot, r.score} \subseteq IntMin .. IntMax
         /\ r.epoch \in Times \cup {<<0, 0>>}
    /\ \A d \in Disks :
         /\ {d.bs, d.blocks, d.meta} \subseteq Nat /\ d.bs > CtzOverhead
         /\ d.size \in Nat \cup {Absent} /\ d.meta + BlocksOf(d.bs, d.size) <= d.blocks

VARIABLES job, st
codecVars == <<job, st>>

Waiting == [done |-> FALSE]
Start(op, in) == job = [op |-> op, in |-> in] /\ st = Waiting
Pending(op) == job.op = op /\ ~st.done
Out(v) == st' = [done |-> TRUE, out |-> v] /\ UNCHANGED job

(***************************************************************************)
(* The setup portal: serveOne() and the form                               *)
(***************************************************************************)
HttpInit == \E w \in Requests :
    /\ job = [op |-> "http", in |-> w]
    /\ st = [done |-> FALSE, buf |-> <<>>, got |-> Parsed("Incomplete"), answer |-> "none"]

\* client.read() returns some bytes; the whole buffer is parsed again.
Read(n) ==
    /\ Pending("http") /\ n \in 1 .. Len(job.in) - Len(st.buf)
    /\ LET buf == SubSeq(job.in, 1, Len(st.buf) + n)
           got == parseHttpRequest(buf)
       IN st' = [done |-> got.verdict # "Incomplete", buf |-> buf, got |-> got,
                 answer |-> IF got.verdict # "Incomplete" THEN handle(got) ELSE "none"]
    /\ UNCHANGED job

\* The client is gone, or the read timed out.
ReadTimeout ==
    /\ Pending("http")
    /\ st' = [st EXCEPT !.done = TRUE, !.answer = handle(st.got)]
    /\ UNCHANGED job

\* The browser's encoding of a submitted field: the bytes it must escape, or
\* every byte.
HexText(b) == <<<<"0", "1", "2", "A">>[(b \div 4) + 1], <<"0", "1", "2", "A">>[(b % 4) + 1]>>
EncodeByte(c, all) ==
    IF c = "SP" /\ ~all THEN <<"+">>
    ELSE IF all \/ c \in {"NUL", "TAB", "SP", "%", "&", "+", "=", "?", "hi"}
         THEN <<"%">> \o HexText((CHOOSE i \in 1 .. 16 : Ascii[i] = c) - 1)
         ELSE <<c>>
Encode(s, all) == FlattenSeq([i \in DOMAIN s |-> EncodeByte(s[i], all)])
NameText == [f \in Fields \cup {"submit"} |-> IF f = "submit" THEN <<"-">> ELSE FieldName[f]]
Body(pairs, all) ==
    FlattenSeq([i \in DOMAIN pairs |->
                  (IF i = 1 THEN <<>> ELSE <<"&">>) \o Encode(NameText[pairs[i][1]], all)
                  \o <<"=">> \o Encode(pairs[i][2], all)])

FormInit == \E pairs \in Forms, all \in BOOLEAN : Start("form", [pairs |-> pairs, all |-> all])
DecodeForm == Pending("form") /\ Out(parseWifiForm(Body(job.in.pairs, job.in.all)))

Typed(pairs, f) == {pairs[i][2] : i \in {j \in DOMAIN pairs : pairs[j][1] = f}}
FormWhole(pairs) ==
    /\ \A i, j \in DOMAIN pairs : pairs[i][1] = pairs[j][1] /\ pairs[i][1] # "submit" => i = j
    /\ Typed(pairs, "ssid") # {} /\ Typed(pairs, "password") # {}
    /\ \A i \in DOMAIN pairs : Len(pairs[i][2]) <= FieldCap

(***************************************************************************)
(* Records                                                                 *)
(***************************************************************************)
CredsInit == \E l \in Logins : Start("creds", l)
MakeCreds == Pending("creds") /\ Out(makeCredentials(job.in.ssid, job.in.password))

TokenInit == \E t \in Tokens : Start("token", t)
MakeToken == Pending("token") /\ Out(makeTokenRecord(job.in))

KeyInit == \E k \in Keys : Start("key", <<"SETUP-", "KEY">> \o k)
MakeKey ==
    /\ Pending("key")
    /\ Out(LET c == parseSetupCommand(job.in)
           IN IF c.kind = "SetKey" THEN makeSetupKey(c.key) ELSE {})

(***************************************************************************)
(* Responses                                                               *)
(***************************************************************************)
DocKeys == {<<"k">>, <<"x">>, <<"x", "k">>}
DocValues == {<<"int", 0>>, <<"int", 12>>, <<"bool", TRUE>>, <<"list", <<"x">>>>}
             \cup {<<"string", s>> : s \in SeqOf({"k", Quote, Backslash, "ctl", ":"}, 2) \cup
                                           {<<Quote, "k", Quote, ":">>, <<"k", Quote, "k">>}}
Docs == SeqOf({<<k>> \o v : k \in DocKeys, v \in DocValues}, 2)
JsonInit == \E doc \in Docs, pad \in BOOLEAN : Start("json", [doc |-> doc, pad |-> pad])
DecodeJson ==
    /\ Pending("json")
    /\ LET text == Text(job.in.doc, job.in.pad)
       IN Out([int |-> parseJsonInt(text, <<"k">>), bool |-> parseJsonBool(text, <<"k">>),
               string |-> parseJsonString(text, <<"k">>, 2), ack |-> parseAckThrough(text, <<"k">>)])

Base64Init == \E n \in 1 .. 3, in \in SeqOf({"d0", "d3", "d4", "d7", Pad, "x"}, 4) :
                  Start("base64", [n |-> n, text |-> in])
DecodeBase64 == Pending("base64") /\ Out(decodeBase64Exact(job.in.text, job.in.n))

\* base64.StdEncoding of n bytes.
Encode64(bytes) ==
    LET bit(i) == IF i > 4 * Len(bytes) THEN 0
                  ELSE (bytes[((i - 1) \div 4) + 1] \div (2 ^ (3 - ((i - 1) % 4)))) % 2
        digit(d) == IF 3 * (d - 1) >= 4 * Len(bytes) THEN Pad
                    ELSE Base64[(4 * bit((3 * d) - 2)) + (2 * bit((3 * d) - 1)) + bit(3 * d) + 1]
    IN [d \in 1 .. ((Len(bytes) + 2) \div 3) * 4 |-> digit(d)]

\* An identity as the gateway or the bench tool sends it, a field of it wrong.
Ids == {<<"1", "-", "a">>, <<"A", "-", "a">>, <<"1", "a">>, <<"1", "-", "z">>}
Secrets == {[i \in 1 .. SecretBytes |-> 3], [i \in 1 .. SecretBytes - 1 |-> 0], [i \in 1 .. SecretBytes |-> i + 8]}
KeyVersions == {1, KeyVersionMax, KeyVersionMax + 1, 0}
Identities == [id : Ids, secret : Secrets, kv : KeyVersions]
GoodIdentity(i) ==
    /\ isUuidText(i.id) /\ Len(i.secret) = SecretBytes /\ i.kv \in 1 .. KeyVersionMax

ProvisionText(i) ==
    Text(<<<<<<"device_id">>, "string", i.id>>, <<<<"device_secret">>, "string", Encode64(i.secret)>>,
           <<<<"key_version">>, "int", i.kv>>, <<<<"server_time_ms">>, "int", 7>>>>, FALSE)
BenchText(i) ==
    <<"BENCH-SECRET", "SP">> \o i.id \o <<"SP", "SP">>
    \o FlattenSeq([k \in DOMAIN i.secret |-> HexText(i.secret[k])]) \o <<"SP">> \o NumeralText(i.kv)

IdentityInit == \E i \in Identities, way \in {"provision", "cut", "bench"} :
                    Start("identity", [i |-> i, way |-> way])
\* "cut": the response lost its end.
Sent == CASE job.in.way = "bench" -> BenchText(job.in.i)
          [] job.in.way = "provision" -> ProvisionText(job.in.i)
          [] OTHER -> SubSeq(ProvisionText(job.in.i), 1, Len(ProvisionText(job.in.i)) - 3)
TakeIdentity ==
    /\ Pending("identity")
    /\ LET b == parseBenchSecretCommand(Sent)
       IN Out(IF job.in.way = "bench"
              THEN IF b.parse = "Ok" THEN {[id |-> b.id, secret |-> b.secret, kv |-> b.kv]} ELSE {}
              ELSE {[id |-> r.deviceId, secret |-> r.secret, kv |-> r.keyVersion] :
                      r \in parseProvisionResponse(Sent)})

(***************************************************************************)
(* Versions, manifests and images                                          *)
(***************************************************************************)
PartTexts == {<<"0">>, <<"0", "1">>, <<"1">>, <<"9">>, <<"1", "0">>, NumeralText(PartMax),
              NumeralText(PartMax + 1), <<"1", "0", "0">>, <<>>, <<"x">>}
Versions == {p[1] \o <<".">> \o p[2] \o <<".">> \o p[3] : p \in [1 .. 3 -> PartTexts]}
            \cup SeqOf({"0", "1", "9", ".", "-"}, 5)
SpellingInit == \E s \in Versions : Start("spelling", s)
ReadVersion == Pending("spelling") /\ Out(otaVersionCode(job.in))

Triples == [1 .. 3 -> {0, 1, 9, 10, PartMax}]
TripleText(t) == NumeralText(t[1]) \o <<".">> \o NumeralText(t[2]) \o <<".">> \o NumeralText(t[3])
Older(a, b) == \E i \in 1 .. 3 : a[i] < b[i] /\ \A j \in 1 .. i - 1 : a[j] = b[j]
OrderInit == \E a, b \in Triples : Start("order", <<a, b>>)
CompareVersions ==
    /\ Pending("order")
    /\ Out(<<otaVersionCode(TripleText(job.in[1])), otaVersionCode(TripleText(job.in[2]))>>)

\* A manifest as the gateway sends it, one or two of its members replaced.
Manifest == [available |-> <<"bool", TRUE>>, version |-> <<"string", <<"1", ".", "0", ".", "1">>>>,
             url |-> <<"string", <<ImagesPath, "a", "1">>>>, size |-> <<"int", 3>>,
             sha256 |-> <<"string", <<"1", "a">>>>, signature |-> <<"string", <<"1", "a", "0", "2">>>>]
Replacements ==
    {<<"available", <<"bool", FALSE>>>>, <<"version", <<"string", <<"1", ".", "0">>>>>>,
     <<"version", <<"int", 1>>>>, <<"url", <<"string", <<ImagesPath, ".", ".">>>>>>,
     <<"url", <<"string", <<ImagesPath, "?">>>>>>, <<"url", <<"string", <<"https://", "x">>>>>>,
     <<"url", <<"string", <<>>>>>>, <<"size", <<"int", 0>>>>, <<"size", <<"int", -3>>>>,
     <<"sha256", <<"string", <<"1">>>>>>, <<"signature", <<"string", <<"1", "a", "0">>>>>>,
     <<"signature", <<"string", <<"1", "a", "0", "x">>>>>>}
     \cup {<<f, <<"list", <<"x">>>>>> : f \in DOMAIN Manifest}
ManifestInit == \E r1, r2 \in Replacements \cup {<<"none", <<"int", 0>>>>} :
    Start("manifest", [f \in DOMAIN Manifest |-> IF f = r1[1] THEN r1[2]
                                                 ELSE IF f = r2[1] THEN r2[2] ELSE Manifest[f]])
ManifestText ==
    LET order == <<"available", "version", "url", "size", "sha256", "signature">>
    IN Text([i \in 1 .. 6 |-> <<<<order[i]>>>> \o job.in[order[i]]], FALSE)
ReadManifest == Pending("manifest") /\ Out(parseOtaManifest(ManifestText))

\* Images the release key signed, and what else may be offered and read back.
ReleaseKey == <<"y5", "s">>
Released == {[version |-> <<"1", ".", "0", ".", "0">>, image |-> <<"i", "LF">>],
             [version |-> <<"1", ".", "0", ".", "1">>, image |-> <<"i", "1", "i">>]}
SignatureOf(r) == [by |-> ReleaseKey, r |-> <<"R", "R">>,
                   msg |-> otaSignedPreamble(r.version, Len(r.image)) \o r.image]
Identity0 == [by |-> <<"none", Zero>>, r |-> <<"y1", Zero>>, msg |-> <<>>]
ImageInit ==
    \E key \in {ReleaseKey, <<Zero, Zero>>, <<"y1", "s">>, <<"y7", "s">>},
       sig \in {SignatureOf(r) : r \in Released} \cup {Identity0},
       version \in {r.version : r \in Released} \cup {<<"1", ".", "0">>},
       size \in 0 .. 3,
       flash \in {r.image : r \in Released} \cup {<<>>, <<"i", "i">>, <<"LF", "i", "LF">>} :
         /\ job = [op |-> "image", in |-> [key |-> key, sig |-> sig, version |-> version,
                                           size |-> size, flash |-> flash]]
         /\ st = [done |-> FALSE, fed |-> 0, v |-> NewVerifier(key, sig, version, size), said |-> <<>>]

\* A chunk read back from the partition; an empty one is allowed.
Feed(n) ==
    /\ Pending("image") /\ n \in 0 .. Len(job.in.flash) - st.fed
    /\ st' = [st EXCEPT !.fed = @ + n, !.v = VerifierUpdate(@, SubSeq(job.in.flash, st.fed + 1, st.fed + n))]
    /\ UNCHANGED job

\* finish(), which a second call must not make say Ok again.
Finish ==
    /\ Pending("image")
    /\ st' = [st EXCEPT !.said = Append(@, Verdict(st.v)), !.v = VerifierFinish(@), !.done = (st.said # <<>>)]
    /\ UNCHANGED job

(***************************************************************************)
(* Punches                                                                 *)
(***************************************************************************)
TimeInit == \E t \in Times : Start("time", t)
FormatTime == Pending("time") /\ Out(formatRfc3339Utc(job.in))

NumberInit == \E v \in IntMin .. IntMax : Start("number", v)
FormatNumber == Pending("number") /\ Out(jsonInt(job.in))

PunchInit == \E r \in Punches : Start("punch", r)
BuildEvent == Pending("punch") /\ Out(buildEvent(job.in))

(***************************************************************************)
(* The ring file, over several boots                                       *)
(***************************************************************************)
\* Boots on any disk, with a file an earlier build left or none.  Cursors that
\* are in order say whether the file holds an unacknowledged punch; without them
\* it may.
FileInit ==
    \E d \in Disks, cursors \in {{}, {<<3, 3>>}, {<<3, 2>>}}, unsent \in {"none", "kept"} :
        /\ unsent = "kept" => d.size >= MinBytes /\ cursors # {<<3, 3>>}
        /\ unsent = "none" => d.size < MinBytes \/ cursors # {<<3, 2>>}
        /\ job = [op |-> "file", in |-> d.bs]
        /\ st = [done |-> FALSE, boots |-> 1, at |-> "begin", existing |-> 0, cap |-> 0,
                 unsent |-> unsent, blind |-> FALSE, clean |-> (unsent = "none"),
                 fs |-> [bs |-> d.bs, blocks |-> d.blocks, meta |-> d.meta, size |-> d.size,
                         cursors |-> cursors]]
OpenFile == Pending("file") /\ st' \in BeginStep(st) /\ UNCHANGED job

\* A running terminal buffers a punch, or saves the cursors past an
\* acknowledged one.
UseFile ==
    /\ Pending("file") /\ st.at = "opened"
    /\ st' \in {[st EXCEPT !.fs.cursors = {<<3, 2>>}, !.unsent = "kept", !.blind = FALSE],
                [st EXCEPT !.fs.cursors = {<<3, 3>>}, !.unsent = "none", !.blind = FALSE]}
    /\ UNCHANGED job

\* Power is cut, at any point.
RebootFile ==
    /\ Pending("file") /\ st.boots < MaxBoots
    /\ st' = [st EXCEPT !.at = "begin", !.existing = 0, !.cap = 0, !.boots = @ + 1,
                        !.blind = (st.blind /\ st.unsent = "lost"),
                        !.clean = (st.unsent # "kept")]
    /\ UNCHANGED job

CodecInit ==
    \/ FileInit
    \/ HttpInit \/ FormInit \/ CredsInit \/ TokenInit \/ KeyInit \/ JsonInit \/ Base64Init \/ IdentityInit
    \/ SpellingInit \/ OrderInit \/ ManifestInit \/ ImageInit \/ TimeInit \/ NumberInit \/ PunchInit
CodecNext ==
    \/ \E n \in 1 .. Chunk : Read(n)
    \/ ReadTimeout \/ DecodeForm \/ MakeCreds \/ MakeToken \/ MakeKey
    \/ DecodeJson \/ DecodeBase64 \/ TakeIdentity
    \/ ReadVersion \/ CompareVersions \/ ReadManifest
    \/ \E n \in 0 .. Chunk : Feed(n)
    \/ Finish \/ FormatTime \/ FormatNumber \/ BuildEvent
    \/ OpenFile \/ UseFile \/ RebootFile
CodecSpec == CodecInit /\ [][CodecNext]_codecVars

(***************************************************************************)
(* Properties                                                              *)
(***************************************************************************)
Done(op) == job.op = op /\ st.done

\* However the network splits a request, serveOne() hands the portal what the
\* whole request says: never half a form, never another verdict.
RequestWhole ==
    job.op = "http" /\ st.got.verdict # "Incomplete" => st.got = parseHttpRequest(job.in)

\* The buffer of serveOne() stays bounded whatever a client sends: the caps of
\* parseHttpRequest() stop the reading.
PortalBufferBounded ==
    job.op = "http" => Len(st.buf) <= MaxHead + 3 + MaxBody + Chunk

\* serveOne() answers a request as a whole and within its memory.
RequestServed == RequestWhole /\ PortalBufferBounded

\* parseWifiForm() accepts exactly the submissions with one network name, one
\* password and at most one token, however the browser escapes them, returns
\* them byte for byte, and keeps nothing of a submission it refuses.
FormExact ==
    Done("form") =>
        LET pairs == job.in.pairs
        IN IF FormWhole(pairs)
           THEN st.out.err = "Ok" /\ \A f \in Fields : {st.out.val[f]} = Typed(pairs, f) \cup
                                       (IF Typed(pairs, f) = {} THEN {<<>>} ELSE {})
           ELSE st.out.err # "Ok" /\ \A f \in Fields : st.out.val[f] = <<>>

\* What make...() accepts and NVS keeps, the next boot reads as usable and as
\* the same network, token or key: the page that said "saved" is not followed
\* by a terminal that finds nothing.
SavedIsUsable ==
    /\ Done("creds") => \A c \in st.out :
         credentialsUsable(c) /\ CString(c.ssid) = job.in.ssid /\ CString(c.password) = job.in.password
    /\ Done("token") => \A r \in st.out :
         tokenRecordUsable(r) /\ CString(r.token) = Lower(trimSpaces(job.in))
    /\ Done("key") => \A k \in st.out :
         setupKeyUsable(k) /\ <<"SETUP-", "KEY">> \o CString(k.key) = job.in

\* What an installer types is what the terminal has after its next boot.
FormSaved == FormExact /\ SavedIsUsable

\* The readers that search a response for "key": return what the document
\* says, whatever its strings hold, and a response without an acknowledgement
\* is told from one that acknowledges nothing.
JsonFaithful ==
    Done("json") =>
        LET doc == job.in.doc
        IN /\ st.out.int = Says(doc, <<"k">>, "int")
           /\ st.out.bool = Says(doc, <<"k">>, "bool")
           /\ st.out.string = {s \in Says(doc, <<"k">>, "string") : Len(s) <= 2 /\ "ctl" \notin ToSet(s)}
           /\ (st.out.ack = -1) = (Says(doc, <<"k">>, "int") = {})

\* One secret has one encoding: decodeBase64Exact() accepts a text exactly
\* when the gateway's encoder writes it, and decodes it to the same bytes.
Base64Canonical ==
    Done("base64") =>
        /\ \A out \in st.out : Len(out) = job.in.n /\ Encode64(out) = job.in.text
        /\ \A bytes \in [1 .. job.in.n -> {0, 7, 13}] : Encode64(bytes) = job.in.text => st.out = {bytes}

\* An identity is taken whole and unchanged or not at all, over /provision and
\* over the bench command alike, and not from a response cut short.
IdentityExact ==
    Done("identity") =>
        LET i == job.in.i
            sent == [id |-> IF job.in.way = "bench" THEN Lower(i.id) ELSE i.id, secret |-> i.secret, kv |-> i.kv]
        IN st.out = IF GoodIdentity(i) /\ job.in.way # "cut" THEN {sent} ELSE {}

\* A manifest that parses gives the verifier what it needs: a version it can
\* sign for, a size, a whole digest and signature; and one without an update
\* is understood whatever else it carries.
ManifestUsable ==
    Done("manifest") =>
        /\ \A m \in st.out : m.available =>
             /\ NewVerifier(ReleaseKey, Identity0, m.version, m.size).versionOk
             /\ m.size > 0 /\ Len(m.sha) = ShaBytes /\ Len(m.sig) = SigBytes
             /\ <<"string", m.url>> = job.in.url
        /\ job.in.available = <<"bool", FALSE>> => st.out = {NoUpdate}

\* The terminal takes from the gateway's answers what the gateway put there:
\* numbers, flags, strings, secrets, identities, manifests.
AnswersExact == JsonFaithful /\ Base64Canonical /\ IdentityExact /\ ManifestUsable

\* A version has one spelling and its code orders as versions do, so signer
\* and terminal cannot disagree on which image is newer.
VersionsExact ==
    /\ Done("spelling") => \A c \in st.out : formatOtaVersion(c) = job.in
    /\ Done("order") => \E a \in st.out[1], b \in st.out[2] : (a < b) = Older(job.in[1], job.in[2])

\* However the image is chunked, the verifier says Ok exactly for the bytes
\* released under that version and size with the release key compiled in, and
\* says it once.
VerdictExact ==
    job.op = "image" /\ st.said # <<>> =>
        LET i == job.in
            genuine == \E r \in Released : /\ r.version = i.version /\ r.image = i.flash
                                           /\ i.size = Len(r.image) /\ i.sig = SignatureOf(r)
        IN /\ st.said[1] = "Ok" => genuine /\ i.key = ReleaseKey
           /\ ~st.done /\ genuine /\ i.key = ReleaseKey /\ st.v.seen = i.size => st.said[1] = "Ok"
           /\ Len(st.said) = 2 => st.said[2] # "Ok"

\* applyOta() admits released images and no others, and agrees with the signer
\* on which is newer.
ImageAdmitted == VersionsExact /\ VerdictExact

\* A punch's time reaches the gateway to the millisecond over the years the
\* clock chip can show, as a date the calendar has.
TimeExact == Done("time") => ParseTime(st.out) = {job.in}

\* Every number and optional member of a punch reads back as recorded, and a
\* punch without a usable clock reads as one without a time, not as 1970.
PunchSurvives ==
    /\ Done("number") => ReadNumber(st.out) = job.in
    /\ Done("punch") =>
         LET r == job.in
         IN ReadEvent(st.out) = [seq |-> r.seq, uptime |-> r.uptime, slot |-> r.slot, score |-> r.score,
                                 at |-> IF r.epoch = <<0, 0>> THEN {} ELSE {r.epoch}]

\* The ledger gets the punch the terminal recorded (buildEventsJson).
PunchExact == TimeExact /\ PunchSurvives

\* A ring file that begin() does not keep for its punches can be rewritten whole
\* once it is open: littlefs has room for a second copy of its blocks and the
\* slack, whatever file earlier boots, failed calls and cuts left behind.
RingRewritable ==
    job.op = "file" /\ st.at = "opened" /\ st.clean =>
        LET n == BlocksOf(st.fs.bs, st.fs.size)
        IN  st.cap \in MinBytes .. st.fs.size /\ st.fs.meta + n + n + RingSlackBlocks <= st.fs.blocks

\* "If it holds records, keep it": a boot, whole or cut short, drops a file that
\* holds a punch the gateway has not acknowledged only if it could not open the
\* file, which existingSize() reports as no file, or could not read its cursors,
\* which bufferEmpty() takes for an empty ring.  A kept file is opened at its
\* own size: positions are taken modulo its slots.
FileKeepsPunches ==
    job.op = "file" =>
        /\ st.unsent = "lost" => st.blind
        /\ st.unsent = "kept" /\ st.at = "opened" =>
              st.cap = (st.fs.size \div RecordBytes) * RecordBytes

\* The file LittleFsStorage::begin() leaves can be written, and drops punches
\* only where it cannot know of them.
RingFileSafe == RingRewritable /\ FileKeepsPunches
=============================================================================
