----------------------------- MODULE PunchCodec -----------------------------
(***************************************************************************)
(* A punch on the wire: formatRfc3339Utc, jsonInt, the enum spellings and  *)
(* buildEventsJson of events_json.h, and how the gateway reads them back   *)
(* (encoding/json and time.RFC3339, external).                             *)
(*                                                                         *)
(* An epoch time is <<day, msOfDay>>: TLC's integers are too narrow for    *)
(* milliseconds since 1970.                                                *)
(***************************************************************************)
EXTENDS Json

CONSTANT IntBits   \* width of the integers jsonInt renders

ASSUME PunchCodecAssumption == 2 ^ (IntBits - 1) \in Nat \ {0}

IntMin == -(2 ^ (IntBits - 1))
IntMax == 2 ^ (IntBits - 1) - 1
Neg(v) == IF v = IntMin THEN IntMin ELSE -v

(***************************************************************************)
(* Time                                                                    *)
(***************************************************************************)

\* Days to a civil date, with the year beginning in March.
civilLeapEveryFour(days) ==
    LET z == days + 719468
        era == z \div 146097
        doe == z - era * 146097
        yoe == (doe - doe \div 1460) \div 365
        doy == doe - (365 * yoe + yoe \div 4)
        mp == (5 * doy + 2) \div 153
        month == IF mp < 10 THEN mp + 3 ELSE mp - 9
    IN [year |-> yoe + era * 400 + (IF month <= 2 THEN 1 ELSE 0), month |-> month,
        day |-> doy - (153 * mp + 2) \div 5 + 1]

civil(days) ==
    LET z == days + 719468
        era == z \div 146097
        doe == z - era * 146097
        yoe == (doe - doe \div 1460 + doe \div 36524 - doe \div 146096) \div 365
        doy == doe - (365 * yoe + yoe \div 4 - yoe \div 100)
        mp == (5 * doy + 2) \div 153
        month == IF mp < 10 THEN mp + 3 ELSE mp - 9
        year == yoe + era * 400 + (IF month <= 2 THEN 1 ELSE 0)
    IN [year |-> IF year > 9999 THEN 9999 ELSE year, month |-> month,
        day |-> doy - (153 * mp + 2) \div 5 + 1]

\* The fields of the text, which appendPadded() gives fixed widths.
formatRfc3339Utc(t) ==
    [date |-> civil(t[1]),
     hour |-> t[2] \div 3600000, minute |-> (t[2] \div 60000) % 60,
     second |-> (t[2] \div 1000) % 60, milli |-> t[2] % 1000]

\* The gateway's reading, from the calendar: no result for a date that is none.
Leap(y) == y % 4 = 0 /\ (y % 100 # 0 \/ y % 400 = 0)
MonthDays(y, m) == IF m = 2 THEN IF Leap(y) THEN 29 ELSE 28
                   ELSE IF m \in {4, 6, 9, 11} THEN 30 ELSE 31
DaysBeforeYear(y) == 365 * (y - 1970) + Cardinality({k \in 1970 .. y - 1 : Leap(k)})
DaysBeforeMonth(y, m) ==
    <<0, 31, 59, 90, 120, 151, 181, 212, 243, 273, 304, 334>>[m] + (IF m > 2 /\ Leap(y) THEN 1 ELSE 0)
ParseTime(f) ==
    LET d == f.date
    IN  IF /\ d.month \in 1 .. 12 /\ d.day \in 1 .. MonthDays(d.year, d.month)
           /\ f.hour < 24 /\ f.minute < 60 /\ f.second < 60 /\ f.milli < 1000
        THEN {<<DaysBeforeYear(d.year) + DaysBeforeMonth(d.year, d.month) + d.day - 1,
                ((f.hour * 60 + f.minute) * 60 + f.second) * 1000 + f.milli>>}
        ELSE {}

(***************************************************************************)
(* Numbers and names                                                       *)
(***************************************************************************)

\* jsonInt(): digits taken on the negative side, where every value fits.
jsonInt(v) ==
    LET D[x \in IntMin .. 0] == IF x = 0 THEN <<>> ELSE D[-((-x) \div 10)] \o <<NumeralAt[((-x) % 10) + 1]>>
    IN IF v = 0 THEN <<"0">>
       ELSE IF v < 0 THEN <<"-">> \o D[v] ELSE D[Neg(v)]

credentialKindName(c) ==
    IF c \in 1 .. 4 THEN <<"rfid_card", "nfc_tag", "pin", "qr">>[c] ELSE "fingerprint"
timeSourceName(c) ==
    IF c \in 0 .. 2 THEN <<"rtc_synced", "rtc_unsynced", "uptime_only">>[c + 1] ELSE "server_assigned"
directionHintName(c) == IF c \in 1 .. 2 THEN <<"in", "out">>[c] ELSE "unknown"

(***************************************************************************)
(* buildEventsJson: one event, as its members                              *)
(***************************************************************************)
\* Left out because the record has no such reading.
LeftOutButTime(r) ==
    {k \in {"captured_uptime_ms", "slot_no", "match_score"} :
       r[CASE k = "captured_uptime_ms" -> "uptime" [] k = "slot_no" -> "slot" [] OTHER -> "score"] = 0}
LeftOut(r) ==
    (IF r.epoch = <<0, 0>> THEN {"captured_at"} ELSE {})
    \cup (IF r.uptime = 0 THEN {"captured_uptime_ms"} ELSE {})
    \cup (IF r.slot = 0 THEN {"slot_no"} ELSE {})
    \cup (IF r.score = 0 THEN {"match_score"} ELSE {})

buildEvent(r) ==
    LET all == [seq |-> jsonInt(r.seq), captured_at |-> formatRfc3339Utc(r.epoch),
                captured_uptime_ms |-> jsonInt(r.uptime), time_source |-> timeSourceName(r.source),
                credential_kind |-> credentialKindName(r.kind), slot_no |-> jsonInt(r.slot),
                match_score |-> jsonInt(r.score), direction_hint |-> directionHintName(r.hint)]
    IN [k \in DOMAIN all \ LeftOut(r) |-> all[k]]

\* The gateway's decoding of one event: an absent number is zero, an absent
\* time no time at all.
ReadNumber(text) ==
    LET neg == text[1] = "-"
        v == FoldLeft(LAMBDA a, c : a * 10 - NumeralValue[c], 0, IF neg THEN Tail(text) ELSE text)
    IN IF neg THEN v ELSE -v
ReadEvent(e) ==
    LET number(k) == IF k \in DOMAIN e THEN ReadNumber(e[k]) ELSE 0
    IN [seq |-> number("seq"), uptime |-> number("captured_uptime_ms"),
        slot |-> number("slot_no"), score |-> number("match_score"),
        at |-> IF "captured_at" \in DOMAIN e THEN ParseTime(e.captured_at) ELSE {}]
=============================================================================
