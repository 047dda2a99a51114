--------------------------- MODULE TerminalProofs ---------------------------
(***************************************************************************)
(* The lights and the sensor of Terminal, for any ring, any fingers, any   *)
(* queue and any limit on sensor errors, and under every storage fault.    *)
(*                                                                         *)
(* The argument is about time: the scan task sleeps at least as long after *)
(* a verdict as its light lasts, so the queue never holds two (Shown).     *)
(***************************************************************************)
EXTENDS Terminal, RingBufferProofs, FiniteSetTheorems

\* How long feedbackTask shows a verdict, in ticks.
Lasts(verdict) == IF verdict = "green" THEN 2 ELSE 3

\* The scan task sleeps until the light is off and nothing is queued; while it
\* persists a punch it is awake.
Shown ==
    /\ \/ queue = <<>> /\ left <= pause /\ (left = 0 => light = "off")
       \/ \E v \in {"green", "red"} :
             queue = <<v>> /\ light = "off" /\ left = 0 /\ Lasts(v) <= pause
    /\ pc \in {"numbered", "written"} => pause = 0

\* Every light stands for a punch of its own.
Counted == IsFiniteSet(confirmed) /\ GreenIsPersisted

\* The error count never runs ahead of the silence.
Silence == sensorOk => commErrors <= streak

TermInv == DepthInv /\ TerminalTypeOK /\ Shown /\ Counted /\ Silence /\ FeedbackKeepsUp

-----------------------------------------------------------------------------

\* Seen from the ring every step is one of its own or none.
LEMMA TerminalIsRing ==
    ASSUME [TerminalNext]_allVars
    PROVE  [Next]_ringVars
<1>1. CASE Appended \/ Write \/ NvsCorrupts \/ Restart
  BY <1>1 DEF Appended, Write, NvsCorrupts, Restart, Next, RingStep
<1>2. ASSUME NEW f \in Fingers, Match(f) PROVE [Next]_ringVars
  BY <1>2 DEF Match, Next, RingStep
<1>3. CASE Ack
  BY <1>3 DEF Ack, Next
<1>4. ASSUME NEW f \in Fingers, Debounced(f) PROVE [Next]_ringVars
  BY <1>4 DEF Debounced
<1>5. CASE \/ NoteSensorProbe \/ NoteSensorCommError \/ NoImage \/ Deny \/ Receive
           \/ Tick \/ SensorChanges \/ DebounceOver \/ SetProvisioned
  BY <1>5 DEF NoteSensorProbe, NoteSensorCommError, NoImage, Deny, Receive, Tick,
              SensorChanges, DebounceOver, SetProvisioned
<1>6. CASE UNCHANGED allVars
  BY <1>6 DEF allVars, ringVars
<1> QED BY <1>1, <1>2, <1>3, <1>4, <1>5, <1>6 DEF TerminalNext

\* How many green verdicts a queue of at most one verdict holds.
LEMMA GreensQueued ==
    /\ queue = <<>> => Cardinality({i \in DOMAIN queue : queue[i] = "green"}) = 0
    /\ queue = <<"red">> => Cardinality({i \in DOMAIN queue : queue[i] = "green"}) = 0
    /\ queue = <<"green">> => Cardinality({i \in DOMAIN queue : queue[i] = "green"}) = 1
<1>1. ASSUME queue = <<>> PROVE {i \in DOMAIN queue : queue[i] = "green"} = {}
  BY <1>1
<1>2. ASSUME queue = <<"red">> PROVE {i \in DOMAIN queue : queue[i] = "green"} = {}
  BY <1>2
<1>3. ASSUME queue = <<"green">> PROVE {i \in DOMAIN queue : queue[i] = "green"} = {1}
  BY <1>3
<1> QED BY <1>1, <1>2, <1>3, FS_EmptySet, FS_Singleton

\* While the scan task is awake nothing is shown or waits to be shown.
LEMMA AwakeIsDark ==
    ASSUME TerminalTypeOK, Shown, pause = 0
    PROVE  queue = <<>> /\ left = 0 /\ light = "off"
  BY DEF TerminalTypeOK, Shown, Lasts

\* A verdict sent by the scan task finds the queue empty.
LEMMA SendEffect ==
    ASSUME TerminalTypeOK, Shown, pause = 0, NEW v \in {"green", "red"}, Send(v)
    PROVE  queue' = <<v>> /\ dropped' = dropped
<1>1. queue = <<>> /\ Len(queue) = 0
  BY AwakeIsDark
<1>2. 0 < QueueLen
  BY TerminalAssumption
<1>3. Append(<<>>, v) = <<v>>
  OBVIOUS
<1> QED BY <1>1, <1>2, <1>3 DEF Send

\* One verdict is a queue of verdicts that fits.
LEMMA OneVerdict ==
    \A v \in {"green", "red"} : <<v>> \in Seq({"green", "red"}) /\ Len(<<v>>) <= QueueLen
  BY TerminalAssumption

\* The parts of the invariant that a step of the sensor, the network task or
\* the debounce cannot touch.
LEMMA LightsKept ==
    ASSUME TermInv, UNCHANGED <<confirmed, queue, light, left, lit, dropped, pause>>,
           pc' = pc \/ pc' \in {"idle", "fault"} \/ pause = 0
    PROVE  Shown' /\ Counted' /\ FeedbackKeepsUp'
<1>1. Shown'
  BY DEF TermInv, Shown
<1>2. Counted'
  BY DEF TermInv, Counted, GreenIsPersisted
<1> QED BY <1>1, <1>2 DEF TermInv, FeedbackKeepsUp

\* Polls and probes of the sensor.
LEMMA SensorStep ==
    ASSUME TermInv, TypeOK', NoteSensorProbe \/ NoteSensorCommError \/ NoImage
    PROVE  TerminalTypeOK' /\ Shown' /\ Counted' /\ Silence' /\ FeedbackKeepsUp'
<1>1. UNCHANGED <<ringVars, answers, opened, provisioned, lastSlot, pause, queue,
                  lightVars, dropped>>
  BY DEF NoteSensorProbe, NoteSensorCommError, NoImage, Replied
<1>2. Shown' /\ Counted' /\ FeedbackKeepsUp'
  BY <1>1, LightsKept DEF ringVars, lightVars
<1>t. /\ commErrors \in 0 .. (LostAfter - 1) /\ streak \in 0 .. LostAfter
      /\ LostAfter \in Nat /\ LostAfter > 0 /\ sensorOk \in BOOLEAN
      /\ sensorOk => commErrors <= streak
  <2>1. sensorOk => commErrors <= streak
    BY DEF TermInv, Silence
  <2> QED BY <2>1, TerminalAssumption DEF TermInv, TerminalTypeOK
<1>b. sensorOk' \in BOOLEAN
  BY <1>t DEF NoteSensorProbe, NoteSensorCommError, NoImage, Replied
<1>3. /\ commErrors' \in 0 .. (LostAfter - 1) /\ streak' \in 0 .. LostAfter
      /\ commErrors' <= streak' \/ sensorOk' = FALSE
  <2>1. CASE NoteSensorProbe \/ NoImage
    <3>1. commErrors' = 0 /\ streak' = 0
      BY <2>1 DEF NoteSensorProbe, NoImage, Replied
    <3> QED BY <3>1, <1>t
  <2>2. CASE NoteSensorCommError
    <3>1. sensorOk
      BY <2>2 DEF NoteSensorCommError, Polling, State
    <3>2. streak' = IF streak < LostAfter THEN streak + 1 ELSE streak
      BY <2>2 DEF NoteSensorCommError
    <3>3. CASE commErrors + 1 < LostAfter
      <4>1. commErrors' = commErrors + 1
        BY <2>2, <3>3 DEF NoteSensorCommError
      <4> QED BY <3>1, <3>2, <3>3, <4>1, <1>t
    <3>4. CASE ~(commErrors + 1 < LostAfter)
      <4>1. commErrors' = 0 /\ sensorOk' = FALSE
        BY <2>2, <3>4 DEF NoteSensorCommError
      <4>2. streak' \in 0 .. LostAfter
        BY <3>2, <1>t
      <4>3. 0 \in 0 .. (LostAfter - 1)
        BY <1>t
      <4> QED BY <4>1, <4>2, <4>3
    <3> QED BY <3>3, <3>4
  <2> QED BY <2>1, <2>2
<1>4. TerminalTypeOK'
  BY <1>1, <1>b, <1>3 DEF TermInv, TerminalTypeOK, lightVars
<1> QED BY <1>2, <1>3, <1>4 DEF Silence

\* A finger that is not recognised, is seen again too soon, or matches.
LEMMA FingerStep ==
    ASSUME TermInv, TypeOK', Deny \/ \E f \in Fingers : Debounced(f) \/ Match(f)
    PROVE  TerminalTypeOK' /\ Shown' /\ Counted' /\ Silence' /\ FeedbackKeepsUp'
<1>1. /\ pause = 0 /\ commErrors' = 0 /\ streak' = 0 /\ sensorOk' = sensorOk
      /\ UNCHANGED <<answers, opened, provisioned, lightVars, confirmed>>
  BY DEF Deny, Debounced, Match, Replied, Polling, Awake, NextSeq, ringVars
<1>2. 0 \in 0 .. (LostAfter - 1) /\ 0 \in 0 .. LostAfter
  BY TerminalAssumption
<1>3. Silence'
  BY <1>1 DEF Silence
<1>4. queue = <<>> /\ left = 0 /\ light = "off"
  BY <1>1, AwakeIsDark DEF TermInv
<1>5. CASE Deny
  <2>1. queue' = <<"red">> /\ dropped' = dropped
    BY <1>1, <1>5, SendEffect DEF Deny, TermInv
  <2>2. pause' = 3 /\ lastSlot' = lastSlot /\ UNCHANGED <<pc, light, left, lit>>
    BY <1>5 DEF Deny, ringVars, lightVars
  <2>3. pc \notin {"numbered", "written"}
    BY <1>5 DEF Deny, Replied, Polling, Awake
  <2>4. TerminalTypeOK'
    BY <1>1, <1>2, <2>1, <2>2, OneVerdict DEF TermInv, TerminalTypeOK, lightVars
  <2>5. Shown'
    BY <1>4, <2>1, <2>2, <2>3 DEF Shown, Lasts
  <2>6. Counted'
    <3>1. Cardinality({i \in DOMAIN queue' : queue'[i] = "green"}) = 0
      BY <2>1, FS_EmptySet
    <3>2. Cardinality({i \in DOMAIN queue : queue[i] = "green"}) = 0
      BY <1>4, GreensQueued
    <3> QED BY <1>1, <2>2, <3>1, <3>2 DEF TermInv, Counted, GreenIsPersisted
  <2> QED BY <1>3, <2>1, <2>4, <2>5, <2>6 DEF TermInv, FeedbackKeepsUp
<1>6. ASSUME NEW f \in Fingers, Debounced(f)
      PROVE  TerminalTypeOK' /\ Shown' /\ Counted' /\ FeedbackKeepsUp'
  <2>1. pause' = 1 /\ UNCHANGED <<pc, lastSlot, queue, light, left, lit, dropped, confirmed>>
    BY <1>6 DEF Debounced, ringVars, lightVars
  <2>2. pc \notin {"numbered", "written"}
    BY <1>6 DEF Debounced, Replied, Polling, Awake
  <2>3. TerminalTypeOK'
    BY <1>1, <1>2, <2>1 DEF TermInv, TerminalTypeOK
  <2>4. Shown'
    BY <1>4, <2>1, <2>2 DEF Shown
  <2> QED BY <2>1, <2>3, <2>4 DEF TermInv, Counted, GreenIsPersisted, FeedbackKeepsUp
<1>7. ASSUME NEW f \in Fingers, Match(f)
      PROVE  TerminalTypeOK' /\ Shown' /\ Counted' /\ FeedbackKeepsUp'
  <2>1. lastSlot' = f /\ UNCHANGED <<pause, queue, light, left, lit, dropped, confirmed>>
    BY <1>7 DEF Match, NextSeq, lightVars
  <2>2. TerminalTypeOK'
    BY <1>1, <1>2, <2>1 DEF TermInv, TerminalTypeOK
  <2> QED BY <1>1, <2>1, <2>2, LightsKept
<1> QED BY <1>3, <1>5, <1>6, <1>7

\* append() and the verdict about it: a green one comes with one more punch.
LEMMA AppendStep ==
    ASSUME TermInv, TypeOK', Write \/ Appended
    PROVE  TerminalTypeOK' /\ Shown' /\ Counted' /\ Silence' /\ FeedbackKeepsUp'
<1>1. pc \in {"numbered", "written"} /\ pause = 0
  <2>1. pc \in {"numbered", "written"}
    BY DEF Write, Appended, AppendWrite, AppendSave, AppendWriteFails, AppendSaveFails
  <2> QED BY <2>1 DEF TermInv, Shown
<1>2. CASE Write
  <2>1. UNCHANGED termVars /\ confirmed' = confirmed
    BY <1>2 DEF Write, AppendWrite
  <2>2. Shown' /\ Counted' /\ FeedbackKeepsUp'
    BY <1>1, <2>1, LightsKept DEF termVars
  <2>3. TerminalTypeOK' /\ Silence'
    BY <2>1 DEF termVars, TermInv, TerminalTypeOK, Silence
  <2> QED BY <2>2, <2>3
<1>3. CASE Appended
  <2>1. /\ pause' = 4 /\ pc' \in {"idle", "fault"}
        /\ UNCHANGED <<answers, sensorOk, commErrors, streak, opened, provisioned, lastSlot,
                       light, left, lit>>
    BY <1>3 DEF Appended, AppendSave, AppendWriteFails, AppendSaveFails, sensorVars, lightVars
  <2>2. queue = <<>> /\ left = 0 /\ light = "off"
    BY <1>1, AwakeIsDark DEF TermInv
  <2>3. \/ AppendSave /\ queue' = <<"green">> /\ dropped' = dropped
        \/ confirmed' = confirmed /\ queue' = <<"red">> /\ dropped' = dropped
    <3>1. CASE AppendSave /\ Send(Verdict(TRUE))
      <4>1. Send("green")
        BY <3>1 DEF Verdict
      <4> QED BY <1>1, <3>1, <4>1, SendEffect DEF TermInv
    <3>2. CASE (AppendWriteFails \/ AppendSaveFails) /\ Send(Verdict(FALSE))
      <4>1. Send("red") /\ confirmed' = confirmed
        BY <3>2 DEF Verdict, AppendWriteFails, AppendSaveFails
      <4> QED BY <1>1, <4>1, SendEffect DEF TermInv
    <3> QED BY <1>3, <3>1, <3>2 DEF Appended
  <2>4. Shown'
    BY <2>1, <2>2, <2>3 DEF Shown, Lasts
  <2>5. FeedbackKeepsUp' /\ Silence'
    <3>1. FeedbackKeepsUp'
      BY <2>3 DEF TermInv, FeedbackKeepsUp
    <3>2. Silence'
      BY <2>1 DEF TermInv, Silence
    <3> QED BY <3>1, <3>2
  <2>6. TerminalTypeOK'
    <3>1. queue' \in Seq({"green", "red"}) /\ Len(queue') <= QueueLen
      BY <2>3, OneVerdict
    <3>2. dropped' = dropped
      BY <2>3
    <3> QED BY <2>1, <3>1, <3>2 DEF TermInv, TerminalTypeOK
  <2>7. Counted'
    <3>1. IsFiniteSet(confirmed) /\ lit <= Cardinality(confirmed) /\ lit \in Nat
      <4>1. Cardinality({i \in DOMAIN queue : queue[i] = "green"}) = 0
        BY <2>2, GreensQueued
      <4>2. IsFiniteSet(confirmed) /\ lit + 0 <= Cardinality(confirmed) /\ lit \in Nat
        BY <4>1 DEF TermInv, Counted, GreenIsPersisted, TerminalTypeOK
      <4> QED BY <4>2
    <3>2. CASE AppendSave /\ queue' = <<"green">>
      <4>1. confirmed' = confirmed \cup {rec} /\ rec \notin confirmed
        BY <3>2 DEF AppendSave, TermInv, DepthInv, RecInv, TypeOK
      <4>2. /\ IsFiniteSet(confirmed')
            /\ Cardinality(confirmed') = Cardinality(confirmed) + 1
            /\ Cardinality(confirmed) \in Nat
        BY <3>1, <4>1, FS_AddElement, FS_CardinalityType
      <4>3. Cardinality({i \in DOMAIN queue' : queue'[i] = "green"}) = 1
        <5>1. {i \in DOMAIN queue' : queue'[i] = "green"} = {1}
          BY <3>2
        <5> QED BY <5>1, FS_Singleton
      <4>4. lit + 1 <= Cardinality(confirmed) + 1
        BY <3>1, <4>2
      <4>5. lit' + Cardinality({i \in DOMAIN queue' : queue'[i] = "green"})
              <= Cardinality(confirmed')
        BY <2>1, <4>2, <4>3, <4>4
      <4> QED BY <4>2, <4>5 DEF Counted, GreenIsPersisted
    <3>3. CASE confirmed' = confirmed /\ queue' = <<"red">>
      <4>1. Cardinality({i \in DOMAIN queue' : queue'[i] = "green"}) = 0
        <5>1. {i \in DOMAIN queue' : queue'[i] = "green"} = {}
          BY <3>3
        <5> QED BY <5>1, FS_EmptySet
      <4>2. lit' + Cardinality({i \in DOMAIN queue' : queue'[i] = "green"})
              <= Cardinality(confirmed')
        BY <2>1, <3>1, <3>3, <4>1
      <4> QED BY <3>1, <3>3, <4>2 DEF Counted, GreenIsPersisted
    <3> QED BY <2>3, <3>2, <3>3
  <2> QED BY <2>4, <2>5, <2>6, <2>7
<1> QED BY <1>2, <1>3

\* feedbackTask, and time.
LEMMA FeedbackStep ==
    ASSUME TermInv, TypeOK', Receive \/ Tick
    PROVE  TerminalTypeOK' /\ Shown' /\ Counted' /\ Silence' /\ FeedbackKeepsUp'
<1>t. /\ pause \in 0 .. 4 /\ left \in 0 .. 3 /\ lit \in Nat
      /\ light \in {"off", "green", "red"}
  BY DEF TermInv, TerminalTypeOK
<1>1. CASE Receive
  <2>1. PICK v \in {"green", "red"} :
          queue = <<v>> /\ light = "off" /\ left = 0 /\ Lasts(v) <= pause
    BY <1>1 DEF Receive, TermInv, Shown
  <2>2. Head(queue) = v /\ Tail(queue) = <<>>
    BY <2>1
  <2>3. /\ queue' = <<>> /\ light' = v /\ left' = Lasts(v)
        /\ lit' = IF v = "green" THEN lit + 1 ELSE lit
        /\ UNCHANGED <<pc, confirmed, answers, sensorOk, commErrors, streak, opened,
                       provisioned, lastSlot, pause, dropped>>
    BY <1>1, <2>2 DEF Receive, ringVars, sensorVars, Lasts
  <2>4. Lasts(v) \in {2, 3}
    BY DEF Lasts
  <2>5. <<>> \in Seq({"green", "red"}) /\ Len(<<>>) <= QueueLen
    BY TerminalAssumption
  <2>6. TerminalTypeOK'
    BY <2>3, <2>4, <2>5, <1>t DEF TermInv, TerminalTypeOK
  <2>7. Shown'
    <3>1. pc \in {"numbered", "written"} => pause = 0
      BY DEF TermInv, Shown
    <3> QED BY <2>1, <2>3, <2>4, <3>1 DEF Shown
  <2>8. Counted'
    <3>1. Cardinality({i \in DOMAIN queue' : queue'[i] = "green"}) = 0
      <4>1. {i \in DOMAIN queue' : queue'[i] = "green"} = {}
        BY <2>3
      <4> QED BY <4>1, FS_EmptySet
    <3>2. lit + Cardinality({i \in DOMAIN queue : queue[i] = "green"})
            <= Cardinality(confirmed)
      BY DEF TermInv, Counted, GreenIsPersisted
    <3>3. Cardinality({i \in DOMAIN queue : queue[i] = "green"}) = IF v = "green" THEN 1 ELSE 0
      BY <2>1, GreensQueued
    <3>4. PICK n \in Nat : n = lit' /\ n <= Cardinality(confirmed)
      BY <2>3, <3>2, <3>3, <1>t
    <3>5. lit' + Cardinality({i \in DOMAIN queue' : queue'[i] = "green"})
            <= Cardinality(confirmed')
      BY <2>3, <3>1, <3>4
    <3> QED BY <2>3, <3>5 DEF TermInv, Counted, GreenIsPersisted
  <2> QED BY <2>3, <2>6, <2>7, <2>8 DEF TermInv, Silence, FeedbackKeepsUp
<1>2. CASE Tick
  <2>1. queue = <<>> /\ left <= pause
    BY <1>2 DEF Tick, TermInv, Shown
  <2>2. /\ pause' = Less(pause) /\ left' = Less(left)
        /\ light' = IF left <= 1 THEN "off" ELSE light
        /\ UNCHANGED <<pc, confirmed, answers, sensorOk, commErrors, streak, opened,
                       provisioned, lastSlot, queue, lit, dropped>>
    BY <1>2 DEF Tick, ringVars, sensorVars
  <2>3. /\ Less(pause) \in 0 .. 4 /\ Less(left) \in 0 .. 3 /\ Less(left) <= Less(pause)
        /\ Less(left) = 0 => left <= 1
        /\ pause = 0 => Less(pause) = 0
    BY <2>1, <1>t DEF Less
  <2>4. TerminalTypeOK'
    BY <2>2, <2>3 DEF TermInv, TerminalTypeOK
  <2>5. Shown'
    <3>1. pc \in {"numbered", "written"} => pause = 0
      BY DEF TermInv, Shown
    <3> QED BY <2>1, <2>2, <2>3, <3>1 DEF Shown
  <2> QED BY <2>2, <2>4, <2>5 DEF TermInv, Counted, GreenIsPersisted, Silence, FeedbackKeepsUp
<1> QED BY <1>1, <1>2

\* The environment, the network task and reboots.
LEMMA OutsideStep ==
    ASSUME TermInv, TypeOK',
           SensorChanges \/ DebounceOver \/ SetProvisioned \/ Ack \/ NvsCorrupts \/ Restart
    PROVE  TerminalTypeOK' /\ Shown' /\ Counted' /\ Silence' /\ FeedbackKeepsUp'
<1>1. CASE SensorChanges \/ DebounceOver \/ SetProvisioned
  <2>1. UNCHANGED <<pc, confirmed, sensorOk, commErrors, streak, opened, pause, queue, light,
                    left, lit, dropped>>
    BY <1>1 DEF SensorChanges, DebounceOver, SetProvisioned, ringVars, lightVars, sensorVars
  <2>2. /\ answers' \in BOOLEAN /\ provisioned' \in BOOLEAN
        /\ lastSlot' \in Fingers \cup {NoFinger}
    BY <1>1 DEF SensorChanges, DebounceOver, SetProvisioned, sensorVars, TermInv, TerminalTypeOK
  <2>3. Shown' /\ Counted' /\ FeedbackKeepsUp'
    BY <2>1, LightsKept
  <2>4. TerminalTypeOK' /\ Silence'
    BY <2>1, <2>2 DEF TermInv, TerminalTypeOK, Silence
  <2> QED BY <2>3, <2>4
<1>2. CASE Ack \/ NvsCorrupts
  <2>1. UNCHANGED termVars /\ UNCHANGED <<pc, confirmed>>
    BY <1>2 DEF Ack, AckThrough, NvsCorrupts, CorruptCursors, ram, history
  <2>2. Shown' /\ Counted' /\ FeedbackKeepsUp'
    BY <2>1, LightsKept DEF termVars
  <2>3. TerminalTypeOK' /\ Silence'
    BY <2>1 DEF termVars, TermInv, TerminalTypeOK, Silence
  <2> QED BY <2>2, <2>3
<1>3. CASE Restart
  <2>1. /\ pc' = "idle" /\ confirmed' = confirmed
        /\ sensorOk' = answers /\ commErrors' = 0 /\ streak' = 0 /\ opened' \in BOOLEAN
        /\ lastSlot' = NoFinger /\ pause' = 0 /\ queue' = <<>> /\ light' = "off" /\ left' = 0
        /\ UNCHANGED <<answers, provisioned, lit, dropped>>
    BY <1>3 DEF Restart, PowerCut, PowerCutTearsWrite, Boot
  <2>2. /\ 0 \in 0 .. (LostAfter - 1) /\ 0 \in 0 .. LostAfter
        /\ <<>> \in Seq({"green", "red"}) /\ Len(<<>>) <= QueueLen
    BY TerminalAssumption
  <2>3. TerminalTypeOK'
    BY <2>1, <2>2 DEF TermInv, TerminalTypeOK
  <2>4. Shown' /\ Silence' /\ FeedbackKeepsUp'
    BY <2>1 DEF Shown, Silence, TermInv, FeedbackKeepsUp
  <2>5. Counted'
    <3>1. Cardinality({i \in DOMAIN queue' : queue'[i] = "green"}) = 0
      <4>1. {i \in DOMAIN queue' : queue'[i] = "green"} = {}
        BY <2>1
      <4> QED BY <4>1, FS_EmptySet
    <3>2. lit <= Cardinality(confirmed) /\ lit \in Nat
      <4>1. queue = <<>> \/ queue = <<"red">> \/ queue = <<"green">>
        BY DEF TermInv, Shown
      <4>2. Cardinality({i \in DOMAIN queue : queue[i] = "green"}) \in {0, 1}
        BY <4>1, GreensQueued
      <4>3. /\ lit + Cardinality({i \in DOMAIN queue : queue[i] = "green"})
                 <= Cardinality(confirmed)
            /\ lit \in Nat /\ Cardinality(confirmed) \in Nat
        BY FS_CardinalityType DEF TermInv, Counted, GreenIsPersisted, TerminalTypeOK
      <4> QED BY <4>2, <4>3
    <3>3. lit' + Cardinality({i \in DOMAIN queue' : queue'[i] = "green"})
            <= Cardinality(confirmed')
      BY <2>1, <3>1, <3>2
    <3> QED BY <2>1, <3>3 DEF TermInv, Counted, GreenIsPersisted
  <2> QED BY <2>3, <2>4, <2>5
<1> QED BY <1>1, <1>2, <1>3

-----------------------------------------------------------------------------

\* The invariant holds when the terminal is new, and every step keeps it.
LEMMA TermInvInit == TerminalInit => TermInv
<1> SUFFICES ASSUME TerminalInit PROVE TermInv
  OBVIOUS
<1>1. DepthInv /\ confirmed = {}
  BY DepthInit DEF TerminalInit, Init
<1>2. /\ 0 \in 0 .. (LostAfter - 1) /\ 0 \in 0 .. LostAfter
      /\ <<>> \in Seq({"green", "red"}) /\ Len(<<>>) <= QueueLen
  BY TerminalAssumption
<1>3. TerminalTypeOK
  <2>1. answers \in BOOLEAN /\ sensorOk \in BOOLEAN /\ opened \in BOOLEAN
        /\ provisioned \in BOOLEAN /\ dropped \in BOOLEAN
    BY DEF TerminalInit
  <2>2. /\ commErrors = 0 /\ streak = 0 /\ lastSlot = NoFinger /\ pause = 0
        /\ left = 0 /\ light = "off" /\ queue = <<>> /\ lit = 0
    BY DEF TerminalInit
  <2> QED BY <1>1, <1>2, <2>1, <2>2 DEF TerminalTypeOK, DepthInv
<1>4. Shown /\ Silence /\ FeedbackKeepsUp
  BY DEF TerminalInit, Init, Shown, Silence, FeedbackKeepsUp
<1>5. Counted
  <2>1. Cardinality({i \in DOMAIN queue : queue[i] = "green"}) = 0 /\ lit = 0
    BY GreensQueued DEF TerminalInit
  <2>2. IsFiniteSet(confirmed) /\ Cardinality(confirmed) = 0
    BY <1>1, FS_EmptySet
  <2> QED BY <2>1, <2>2 DEF Counted, GreenIsPersisted
<1> QED BY <1>1, <1>3, <1>4, <1>5 DEF TermInv

LEMMA TermInvStep == TermInv /\ [TerminalNext]_allVars => TermInv'
<1> SUFFICES ASSUME TermInv, [TerminalNext]_allVars PROVE TermInv'
  OBVIOUS
<1>1. DepthInv' /\ TypeOK'
  BY TerminalIsRing, DepthStep DEF TermInv, DepthInv
<1>2. CASE NoteSensorProbe \/ NoteSensorCommError \/ NoImage
  BY <1>1, <1>2, SensorStep DEF TermInv
<1>3. CASE Deny \/ \E f \in Fingers : Debounced(f) \/ Match(f)
  BY <1>1, <1>3, FingerStep DEF TermInv
<1>4. CASE Write \/ Appended
  BY <1>1, <1>4, AppendStep DEF TermInv
<1>5. CASE Receive \/ Tick
  BY <1>1, <1>5, FeedbackStep DEF TermInv
<1>6. CASE SensorChanges \/ DebounceOver \/ SetProvisioned \/ Ack \/ NvsCorrupts \/ Restart
  BY <1>1, <1>6, OutsideStep DEF TermInv
<1>7. CASE UNCHANGED allVars
  <2>1. UNCHANGED termVars /\ UNCHANGED <<pc, confirmed>>
    BY <1>7 DEF allVars, termVars
  <2>2. Shown' /\ Counted' /\ FeedbackKeepsUp'
    BY <2>1, LightsKept DEF termVars
  <2>3. TerminalTypeOK' /\ Silence'
    BY <1>1, <2>1 DEF termVars, TermInv, TerminalTypeOK, Silence
  <2> QED BY <1>1, <2>2, <2>3 DEF TermInv
<1> QED BY <1>2, <1>3, <1>4, <1>5, <1>6, <1>7 DEF TerminalNext

\* The scan and feedback tasks drive the ring exactly as the ring allows, so
\* everything proved of the ring holds on the terminal.
THEOREM TerminalRing == TerminalSpec => Spec
<1>1. TerminalInit => Init
  BY DEF TerminalInit
<1>2. [TerminalNext]_allVars => [Next]_ringVars
  BY TerminalIsRing
<1> QED BY <1>1, <1>2, PTL DEF TerminalSpec, Spec

\* Every verdict is shown, whatever the queue's length, and every green light
\* stands for a punch of its own that append() persisted, under every storage
\* fault, cut and sensor error.
THEOREM LightsTrueSafe == TerminalSpec => []LightsTrue
<1>1. TermInv => LightsTrue
  BY DEF TermInv, Counted, LightsTrue
<1> QED BY <1>1, TermInvInit, TermInvStep, PTL DEF TerminalSpec

\* A running terminal gives its sensor up only after LostAfter polls in a row
\* without a reply (noteSensorCommError, noteSensorReplied).
THEOREM LostOnlyAfterSilenceSafe == TerminalSpec => LostOnlyAfterSilence
<1>1. TermInv /\ [TerminalNext]_allVars =>
        [(sensorOk /\ ~sensorOk' /\ cuts' = cuts) => streak' >= LostAfter]_allVars
  <2> SUFFICES ASSUME TermInv, TerminalNext, sensorOk, ~sensorOk', cuts' = cuts
               PROVE  streak' >= LostAfter
    OBVIOUS
  <2>1. CASE NoteSensorCommError
    <3>1. /\ commErrors \in Nat /\ streak \in Nat /\ LostAfter \in Nat
          /\ commErrors <= streak
      BY TerminalAssumption DEF TermInv, TerminalTypeOK, Silence
    <3>2. ~(commErrors + 1 < LostAfter)
      BY <2>1 DEF NoteSensorCommError
    <3>3. streak' = IF streak < LostAfter THEN streak + 1 ELSE streak
      BY <2>1 DEF NoteSensorCommError
    <3> QED BY <3>1, <3>2, <3>3
  <2>2. CASE Restart
    <3>1. cuts' = cuts + 1 /\ cuts \in Nat
      BY <2>2 DEF Restart, PowerCut, PowerCutTearsWrite, Boot, TermInv, DepthInv, TypeOK
    <3> QED BY <3>1
  <2>3. CASE ~NoteSensorCommError /\ ~Restart
    <3>1. sensorOk' = sensorOk \/ sensorOk' = TRUE
      BY <2>3 DEF TerminalNext, NoteSensorProbe, NoImage, Deny, Debounced, Match, Replied,
                  Write, Appended, Receive, Tick, SensorChanges, DebounceOver,
                  SetProvisioned, Ack, NvsCorrupts, sensorVars, termVars
    <3> QED BY <3>1
  <2> QED BY <2>1, <2>2, <2>3
<1> QED BY <1>1, TermInvInit, TermInvStep, PTL DEF TerminalSpec, LostOnlyAfterSilence
=============================================================================
