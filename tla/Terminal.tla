------------------------------ MODULE Terminal ------------------------------
(***************************************************************************)
(* The scanning half of the terminal: scanTask and feedbackTask            *)
(* (firmware/src/main.cpp) and the state they compute (terminal_state.h),  *)
(* over the punch buffer of RingBuffer.  The scan task polls the sensor,   *)
(* persists a match and only then queues a verdict; the feedback task      *)
(* turns verdicts into lights.  Time passes in ticks of 200 ms, only as    *)
(* far as the two tasks' delays tell it apart.                             *)
(***************************************************************************)
EXTENDS RingBuffer, Sequences, FiniteSets

CONSTANTS
    Fingers,      \* template slots on the sensor
    LostAfter,    \* kSensorLostAfter
    QueueLen      \* length of g_feedbackQueue

ASSUME TerminalAssumption == LostAfter \in Nat \ {0} /\ QueueLen \in Nat \ {0}

VARIABLES
    answers,      \* the sensor answers packets            (environment)
    sensorOk,     \* sensorOk_
    commErrors,   \* commErrors_
    opened,       \* setup() opened the punch buffer
    provisioned,  \* provisioned_
    lastSlot,     \* g_lastSlot while g_lastSlotAtMs is recent, or NoFinger
    pause,        \* ticks the scan task still sleeps
    queue,        \* g_feedbackQueue
    light, left,  \* the light that is on, and for how many ticks
    streak,       \* history: polls without a reply, in a row
    lit,          \* history: green lights shown
    dropped       \* history: xQueueSend found the queue full

sensorVars == <<answers, sensorOk, commErrors, streak>>
lightVars == <<light, left, lit>>
termVars == <<answers, sensorOk, commErrors, opened, provisioned, lastSlot,
              pause, queue, light, left, streak, lit, dropped>>
allVars == <<flash, cursors, nvsSeq, head, tail, seq, pc, rec, confirmed,
             evicted, acked, punches, cuts, answers, sensorOk, commErrors,
             opened, provisioned, lastSlot, pause, queue, light, left, streak,
             lit, dropped>>

NoFinger == "none"

\* TerminalStatus::state() once setup() is through; noteBufferWriteFailed() is
\* RingBuffer's pc = "fault", latched until a reboot.
State ==
    IF ~sensorOk \/ ~opened \/ pc = "fault" THEN "FAULT"
    ELSE IF ~provisioned THEN "PROVISION" ELSE "READY"

TerminalInit ==
    /\ Init
    /\ answers \in BOOLEAN /\ sensorOk = answers /\ commErrors = 0
    /\ opened = TRUE /\ provisioned \in BOOLEAN
    /\ lastSlot = NoFinger /\ pause = 0
    /\ queue = <<>> /\ light = "off" /\ left = 0
    /\ streak = 0 /\ lit = 0 /\ dropped = FALSE

(***************************************************************************)
(* scanTask                                                                *)
(***************************************************************************)

Awake == pc \in {"idle", "fault"} /\ pause = 0
Polling == Awake /\ State = "READY"

\* xQueueSend(..., 0): a full queue loses the verdict.
Send(verdict) ==
    IF Len(queue) < QueueLen
    THEN queue' = Append(queue, verdict) /\ UNCHANGED dropped
    ELSE dropped' = TRUE /\ UNCHANGED queue

\* FAULT for want of the sensor: verifyPassword() and noteSensorProbe().  A
\* probe that fails only lengthens the wait for the next one.
NoteSensorProbeIgnored ==
    /\ Awake /\ ~sensorOk
    /\ answers
    /\ commErrors' = 0
    /\ UNCHANGED <<ringVars, answers, sensorOk, streak, opened, provisioned, lastSlot, pause,
                   queue, lightVars, dropped>>

NoteSensorProbe ==
    /\ Awake /\ ~sensorOk
    /\ answers
    /\ sensorOk' = TRUE /\ commErrors' = 0
    /\ streak' = 0
    /\ UNCHANGED <<ringVars, answers, opened, provisioned, lastSlot, pause,
                   queue, lightVars, dropped>>

\* getImage() gets no reply, or a garbled one: noteSensorCommError().
NoteSensorCommErrorForgets ==
    /\ Polling /\ ~answers
    /\ streak' = IF streak < LostAfter THEN streak + 1 ELSE streak
    /\ IF 1 < LostAfter
       THEN commErrors' = 1 /\ UNCHANGED sensorOk
       ELSE commErrors' = 0 /\ sensorOk' = FALSE
    /\ UNCHANGED <<ringVars, answers, opened, provisioned, lastSlot, pause,
                   queue, lightVars, dropped>>

NoteSensorCommError ==
    /\ Polling /\ ~answers
    /\ streak' = IF streak < LostAfter THEN streak + 1 ELSE streak
    /\ IF commErrors + 1 < LostAfter
       THEN commErrors' = commErrors + 1 /\ UNCHANGED sensorOk
       ELSE commErrors' = 0 /\ sensorOk' = FALSE
    /\ UNCHANGED <<ringVars, answers, opened, provisioned, lastSlot, pause,
                   queue, lightVars, dropped>>

\* Any reply: noteSensorReplied().
RepliedUncounted ==
    /\ Polling /\ answers
    /\ streak' = 0
    /\ UNCHANGED <<commErrors, answers, sensorOk>>

Replied ==
    /\ Polling /\ answers
    /\ commErrors' = 0 /\ streak' = 0
    /\ UNCHANGED <<answers, sensorOk>>

\* No finger, or image2Tz() failed.
NoImage ==
    /\ Replied
    /\ UNCHANGED <<ringVars, opened, provisioned, lastSlot, pause, queue,
                   lightVars, dropped>>

\* fingerFastSearch() finds no match: a red light, and 600 ms of sleep.
DenyWithoutPause ==
    /\ Replied
    /\ Send("red")
    /\ UNCHANGED <<ringVars, opened, provisioned, lastSlot, pause, lightVars>>

Deny ==
    /\ Replied
    /\ Send("red")
    /\ pause' = 3
    /\ UNCHANGED <<ringVars, opened, provisioned, lastSlot, lightVars>>

\* The same finger again within kDebounceMs.
Debounced(f) ==
    /\ Replied
    /\ f = lastSlot
    /\ pause' = 1
    /\ UNCHANGED <<ringVars, opened, provisioned, lastSlot, queue, lightVars,
                   dropped>>

\* A match: nextSeq() and the record.
Match(f) ==
    /\ Replied
    /\ f # lastSlot
    /\ lastSlot' = f
    /\ NextSeq
    /\ UNCHANGED <<opened, provisioned, pause, queue, lightVars, dropped>>

Write ==
    /\ AppendWrite
    /\ UNCHANGED termVars

\* "Persist first, confirm second."
VerdictAlwaysGreen(persisted) == "green"

Verdict(persisted) == IF persisted THEN "green" ELSE "red"

\* append() returns: the verdict, the latch, and 800 ms of sleep.
Appended ==
    /\ \/ AppendSave /\ Send(Verdict(TRUE))
       \/ (AppendWriteFails \/ AppendSaveFails) /\ Send(Verdict(FALSE))
    /\ pause' = 4
    /\ UNCHANGED <<sensorVars, opened, provisioned, lastSlot, lightVars>>

(***************************************************************************)
(* feedbackTask                                                            *)
(***************************************************************************)

\* xQueueReceive(): green for 400 ms, red for 600.
Receive ==
    /\ light = "off" /\ queue # <<>>
    /\ queue' = Tail(queue)
    /\ light' = Head(queue)
    /\ left' = IF Head(queue) = "green" THEN 2 ELSE 3
    /\ lit' = IF Head(queue) = "green" THEN lit + 1 ELSE lit
    /\ UNCHANGED <<ringVars, sensorVars, opened, provisioned, lastSlot, pause,
                   dropped>>

Less(n) == IF n > 0 THEN n - 1 ELSE 0

\* 200 ms pass.  A task that is ready runs first: the feedback task shares its
\* core only with a scan task that sleeps and with loop().
Tick ==
    /\ pause > 0 \/ left > 0
    /\ ~(light = "off" /\ queue # <<>>)
    /\ pause' = Less(pause)
    /\ left' = Less(left)
    /\ light' = IF left <= 1 THEN "off" ELSE light
    /\ UNCHANGED <<ringVars, sensorVars, opened, provisioned, lastSlot, queue,
                   lit, dropped>>

(***************************************************************************)
(* The environment, the network task and reboots                           *)
(***************************************************************************)

\* The sensor's cable, its supply or a noisy line.
SensorChanges ==
    /\ answers' = ~answers
    /\ UNCHANGED <<ringVars, sensorOk, commErrors, streak, opened, provisioned,
                   lastSlot, pause, queue, lightVars, dropped>>

\* kDebounceMs pass.
DebounceOver ==
    /\ lastSlot # NoFinger
    /\ lastSlot' = NoFinger
    /\ UNCHANGED <<ringVars, sensorVars, opened, provisioned, pause, queue,
                   lightVars, dropped>>

\* The network task stored a device secret.
SetProvisioned ==
    /\ ~provisioned
    /\ provisioned' = TRUE
    /\ UNCHANGED <<ringVars, sensorVars, opened, lastSlot, pause, queue,
                   lightVars, dropped>>

\* flushEvents() got an answer.  A buffer that was not opened is empty.
Ack ==
    /\ opened
    /\ \E ack \in 1 .. seq : AckThrough(ack)
    /\ UNCHANGED termVars

NvsCorrupts ==
    /\ CorruptCursors
    /\ UNCHANGED termVars

\* Power is cut and setup() runs: self-test of the sensor, then the buffer.
Restart ==
    /\ PowerCut \/ PowerCutTearsWrite
    /\ sensorOk' = answers /\ commErrors' = 0 /\ streak' = 0
    /\ opened' \in BOOLEAN
    /\ lastSlot' = NoFinger /\ pause' = 0
    /\ queue' = <<>> /\ light' = "off" /\ left' = 0
    /\ UNCHANGED <<answers, provisioned, lit, dropped>>

TerminalNext ==
    \/ NoteSensorProbe
    \/ NoteSensorCommError
    \/ NoImage
    \/ Deny
    \/ \E f \in Fingers : Debounced(f) \/ Match(f)
    \/ Write
    \/ Appended
    \/ Receive
    \/ Tick
    \/ SensorChanges
    \/ DebounceOver
    \/ SetProvisioned
    \/ Ack
    \/ NvsCorrupts
    \/ Restart

TerminalSpec == TerminalInit /\ [][TerminalNext]_allVars

\* Both tasks run for ever and time passes.  The sensor and the user are free.
TerminalFairness ==
    /\ WF_allVars(NoteSensorProbe) /\ WF_allVars(NoteSensorCommError)
    /\ WF_allVars(Write) /\ WF_allVars(Appended)
    /\ WF_allVars(Receive) /\ WF_allVars(Tick)

FairTerminalSpec == TerminalSpec /\ TerminalFairness

(***************************************************************************)
(* Properties                                                              *)
(***************************************************************************)

\* The type of every variable.
TerminalTypeOK ==
    /\ TypeOK
    /\ answers \in BOOLEAN /\ sensorOk \in BOOLEAN /\ opened \in BOOLEAN
    /\ provisioned \in BOOLEAN /\ dropped \in BOOLEAN
    /\ commErrors \in 0 .. (LostAfter - 1) /\ streak \in 0 .. LostAfter
    /\ lastSlot \in Fingers \cup {NoFinger}
    /\ pause \in 0 .. 4 /\ left \in 0 .. 3
    /\ light \in {"off", "green", "red"}
    /\ queue \in Seq({"green", "red"}) /\ Len(queue) <= QueueLen
    /\ lit \in Nat

\* "confirming a punch that was never persisted is worse than a slow beep":
\* every green light shown or still queued stands for a punch of its own that
\* append() persisted.
GreenIsPersisted ==
    lit + Cardinality({i \in DOMAIN queue : queue[i] = "green"}) <= Cardinality(confirmed)

\* The scan loop's sleeps leave the lights time to catch up: no verdict is lost
\* to a full queue, so every punch and every refusal is shown.
FeedbackKeepsUp == ~dropped

\* What a user sees is what the terminal did: every verdict is shown, and a
\* green one stands for a persisted punch.
LightsTrue == TerminalTypeOK /\ GreenIsPersisted /\ FeedbackKeepsUp

\* "A single garbled reply on a noisy UART is not a fault": a running terminal
\* gives its sensor up only after LostAfter polls in a row without a reply.
LostOnlyAfterSilence ==
    [][(sensorOk /\ ~sensorOk' /\ cuts' = cuts) => streak' >= LostAfter]_allVars

\* "one good probe returns it to READY": a sensor that answers again is used
\* again.
SensorRecovers == <>[]answers => <>[]sensorOk

\* A sensor that stays silent is noticed: the terminal does not look READY.
SilenceNoticed == <>[](~answers /\ provisioned) => <>[](State = "FAULT")

\* The terminal's view of its sensor follows the sensor, after single errors,
\* silence and recovery alike (noteSensorCommError, noteSensorProbe).
SensorFollowed == LostOnlyAfterSilence /\ SensorRecovers /\ SilenceNoticed
=============================================================================
