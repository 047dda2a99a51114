------------------------------ MODULE MCCodec ------------------------------
(***************************************************************************)
(* The inputs of Codec for TLC: on both sides of each boundary.            *)
(***************************************************************************)
EXTENDS Codec

Header(name, value) == <<name, ":">> \o value \o <<"CR", "LF">>
Headers == {Header("content-length", v) : v \in {<<"2">>, <<"SP", "0", "1">>, <<>>, <<"9">>, <<"1", "hi">>}}
           \cup {Header("transfer-encoding", <<"1">>), Header("host", <<"z">>)}
Line(method, target) == <<method, "SP">> \o target \o <<"SP", "HTTP/1.", "1", "CR", "LF">>
Lines == {Line("POST", <<"/", "save">>), Line("GET", <<"/", "?", "z">>)}
Bodies == {<<>>, <<"z">>, <<"z", "CR">>, <<"CR", "LF", "CR", "LF">>}
Request(line, headers, body) == line \o FlattenSeq(headers) \o <<"CR", "LF">> \o body

Damaged(w) == {RemoveAt(w, i) : i \in DOMAIN w}
              \cup {ReplaceAt(w, i, c) : i \in DOMAIN w, c \in {"CR", "LF", "SP", ":"}}
MCRequests == {Request(l, h, b) : l \in Lines, h \in SeqOf(Headers, 2), b \in Bodies}
         \cup UNION {Damaged(Request(l, h, <<"z", "z">>)) : l \in Lines, h \in SeqOf(Headers, 1)}
         \cup {[i \in 1 .. 40 |-> "z"]}

\* Bytes a browser escapes, and values over the cap.
MCForms == SeqOf((DOMAIN NameText) \X
                 {<<>>, <<"&">>, <<"%", "0">>, <<"SP", "=">>, <<"hi">>, <<"+", "z", "z">>}, 3)

\* Every length up to one over the longest that is accepted.
MCLogins == [ssid : SeqOf({"NUL", "z", "hi"}, SsidMax + 1), password : SeqOf({"NUL", "a", "z"}, PskHex + 1)]
MCTokens == SeqOf({"SP", "TAB", "A", "1", "z"}, TokenChars + 2)
MCKeys == SeqOf({"2", "z", "-", "0"}, KeyChars + 1)

\* The years 2000 to 2106, at the ends of a day and of an hour.
MCFirstDay == 10957
MCTimes == (MCFirstDay .. 49709) \X {0, 3599999, DayMs - 1}
MCPunches == [seq : {1, 20}, epoch : {<<0, 0>>, <<MCFirstDay, 3599999>>}, uptime : {0, 10}, source : 0 .. 3,
              kind : {0}, slot : {0, 9}, score : {0, 100}, hint : {0}]

\* Small blocks, so that a few of them hold a ring.
MCDisks ==
    {d \in [bs : {64, 128}, blocks : 3 .. 14, meta : 1 .. 2,
            size : {Absent, 0, RecordBytes} \cup {n * RecordBytes : n \in 2 .. 12} \cup {150, 500}] :
       d.meta + BlocksOf(d.bs, d.size) <= d.blocks}
=============================================================================
