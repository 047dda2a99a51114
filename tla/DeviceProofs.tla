---------------------------- MODULE DeviceProofs ----------------------------
(***************************************************************************)
(* The terminal's clock and its firmware update.                           *)
(*                                                                         *)
(* Clock: for every set of drift errors, every window and any number of    *)
(* drifts and power cuts.                                                  *)
(*                                                                         *)
(* OtaGuard: power-cut safety, the pending and bad records and the version *)
(* floor, for any number of versions and builds and under every fault.     *)
(***************************************************************************)
EXTENDS Clock, OtaGuard, TLAPS

(***************************************************************************)
(* Clock.  The inductive invariant: StampRight speaks of a finished punch; *)
(* what carries it there is what the tasks have in hand.                   *)
(***************************************************************************)

\* The offset is half written, and the clock under suspicion, only while a
\* correction is running.  What NVS holds is not part of it: a put may fail.
Correcting ==
    /\ torn => net \in {"trust", "saveZero"}
    /\ net # "idle" => suspect

\* What a correction has achieved at each of its steps.
Progress ==
    /\ net \in {"trust", "save"} => offset = -rtcErr
    /\ net = "zero" => rtcErr = 0
    /\ net = "saveZero" => rtcErr = 0 /\ offset = 0

\* A clock that is not suspect is inside the gateway's window.
ClockRight == ~suspect => Within(rtcErr + offset, Window)

\* A stamp no correction has overlapped was read from the clock as it is now.
StampCurrent ==
    (scan # "idle" /\ ~overlapped) =>
        /\ net = "idle"
        /\ captured = IF ~trusted THEN NoTime
                      ELSE IF scan = "read" THEN Time(rtcErr)
                      ELSE Time(rtcErr + offset)

ClockInv ==
    /\ ClockTypeOK
    /\ Correcting
    /\ Progress
    /\ ClockRight
    /\ StampCurrent
    /\ StampRight
    /\ SourceTells

(***************************************************************************)
(* Facts about the definitions                                             *)
(***************************************************************************)

\* Errors and offsets are integers, and the zero offset is one of them.
LEMMA OffsetFacts ==
    /\ Errors \subseteq Int /\ Offsets \subseteq Int
    /\ 0 \in Errors /\ 0 \in Offsets
    /\ \A e \in Errors : -e \in Offsets
  BY ClockAssumption DEF Offsets

\* The three kinds of time are different and are times.
LEMMA TimeFacts ==
    /\ NoTime \in Times /\ Garbage \in Times
    /\ \A e \in Int : Time(e) \in Times /\ Time(e).kind = "clock" /\ Time(e).err = e
    /\ \A e \in Int : Time(e) # NoTime /\ Time(e) # Garbage
    /\ NoTime # Garbage
  BY DEF NoTime, Garbage, Time, Times

(***************************************************************************)
(* Initial states and steps                                                *)
(***************************************************************************)

LEMMA InitClockInv == ClockInit => ClockInv
  <1> SUFFICES ASSUME ClockInit PROVE ClockInv
    OBVIOUS
  <1> USE OffsetFacts, TimeFacts, ClockAssumption
  <1>1. ClockTypeOK
    BY DEF ClockInit, ClockTypeOK, NoPunch
  <1>2. Correcting /\ Progress /\ ClockRight /\ StampCurrent
    BY DEF ClockInit, Correcting, Progress, ClockRight, StampCurrent
  <1>3. StampRight /\ SourceTells
    BY DEF ClockInit, NoPunch, StampRight, SourceTells
  <1> QED
    BY <1>1, <1>2, <1>3 DEF ClockInv

\* A step that leaves the finished punch alone keeps what is said of it.
LEMMA PunchKept ==
    ASSUME StampRight, SourceTells, punch' = punch
    PROVE  StampRight' /\ SourceTells'
  BY DEF StampRight, SourceTells

\* Every step preserves the types.
LEMMA TypeStep ==
    ASSUME ClockTypeOK, [ClockNext]_clockVars
    PROVE  ClockTypeOK'
  <1> USE OffsetFacts, TimeFacts, ClockAssumption DEF ClockTypeOK
  <1>1. CASE Accepted
    BY <1>1 DEF Accepted, chipVars, netVars, scanVars
  <1>2. CASE SkewOffset
    BY <1>2 DEF SkewOffset, Taint, chipVars, scanVars
  <1>3. CASE SkewTrust
    BY <1>3 DEF SkewTrust, Taint, chipVars, scanVars
  <1>4. CASE SkewSave
    BY <1>4 DEF SkewSave, Taint, chipVars, scanVars
  <1>5. CASE SkewAdjust
    BY <1>5 DEF SkewAdjust, Taint, scanVars
  <1>6. CASE SkewZero
    BY <1>6 DEF SkewZero, Taint, chipVars, scanVars
  <1>7. CASE SkewSaveZero
    BY <1>7 DEF SkewSaveZero, Taint, chipVars, scanVars
  <1>8. CASE StampRtc
    <2>1. captured' \in Times
      BY <1>8 DEF StampRtc
    <2> QED
      BY <1>8, <2>1 DEF StampRtc, chipVars, netVars
  <1>9. CASE StampOffset
    <2>1. captured.err + offset \in Int
      BY DEF Times
    <2>2. captured' \in Times
      BY <1>9, <2>1 DEF StampOffset
    <2> QED
      BY <1>9, <2>2 DEF StampOffset, chipVars, netVars
  <1>10. CASE StampSource
    <2>1. PICK s \in Sources :
            punch' = [time |-> captured, source |-> s,
                      overlapped |-> overlapped, suspect |-> suspect]
      BY <1>10 DEF StampSource
    <2>2. s \in {"rtc_synced", "rtc_unsynced", "uptime_only"}
      BY <2>1 DEF Sources
    <2>3. punch' \in [time : Times, overlapped : BOOLEAN, suspect : BOOLEAN,
                      source : {"rtc_synced", "rtc_unsynced", "uptime_only"}]
      BY <2>1, <2>2
    <2> QED
      BY <1>10, <2>3 DEF StampSource, chipVars, netVars
  <1>11. CASE Drift
    BY <1>11 DEF Drift, netVars, scanVars
  <1>12. CASE ClockPowerCut
    <2>1. rtcErr' \in Errors /\ rtcLost' \in BOOLEAN /\ suspect' \in BOOLEAN
      BY <1>12 DEF ClockPowerCut, chipVars
    <2>2. trusted' \in BOOLEAN
      BY <1>12 DEF ClockPowerCut
    <2>3. cuts' \in Nat /\ drifts' \in Nat
      BY <1>12 DEF ClockPowerCut
    <2>4. /\ nvsOffset' \in Offsets /\ offset' \in Offsets
          /\ torn' \in BOOLEAN /\ overlapped' \in BOOLEAN
          /\ net' = "idle" /\ scan' = "idle" /\ captured' \in Times
          /\ punch' = punch
      BY <1>12 DEF ClockPowerCut
    <2> QED
      BY <2>1, <2>2, <2>3, <2>4
  <1>13. CASE UNCHANGED clockVars
    BY <1>13 DEF clockVars
  <1> QED
    BY <1>1, <1>2, <1>3, <1>4, <1>5, <1>6, <1>7, <1>8, <1>9, <1>10, <1>11,
       <1>12, <1>13 DEF ClockNext, Correct

\* A step that changes the clock or the tasks preserves what they know.
LEMMA KnownStep ==
    ASSUME ClockInv, [ClockNext]_clockVars
    PROVE  Correcting' /\ Progress' /\ ClockRight' /\ StampCurrent'
  <1> USE OffsetFacts, ClockAssumption DEF ClockInv
  <1>a. /\ rtcErr \in Int /\ offset \in Int /\ nvsOffset \in Int
        /\ overlapped \in BOOLEAN /\ suspect \in BOOLEAN /\ torn \in BOOLEAN
        /\ trusted \in BOOLEAN
    BY DEF ClockTypeOK
  <1> USE <1>a
  <1>1. CASE Accepted
    BY <1>1 DEF Accepted, SkewAccepted, chipVars, netVars, scanVars, Correcting,
                Progress, ClockRight, StampCurrent
  <1>2. CASE SkewOffset
    BY <1>2 DEF SkewOffset, Taint, chipVars, scanVars, Correcting, Progress,
                ClockRight, StampCurrent
  <1>3. CASE SkewTrust
    BY <1>3 DEF SkewTrust, Taint, chipVars, scanVars, Correcting, Progress,
                ClockRight, StampCurrent
  <1>4. CASE SkewSave
    <2>1. rtcErr + offset = 0
      BY <1>4 DEF SkewSave, Progress
    <2>2. ~torn
      BY <1>4 DEF SkewSave, Correcting
    <2>3. /\ rtcErr' = rtcErr /\ offset' = offset
          /\ ~torn' /\ scan' = scan
          /\ net' = "idle" \/ (net' = "adjust" /\ suspect' = suspect)
      BY <1>4, <2>2 DEF SkewSave, chipVars, scanVars
    <2>4. net = "save" /\ suspect
      BY <1>4 DEF SkewSave, Correcting
    <2>5. Correcting' /\ Progress'
      BY <2>3, <2>4 DEF Correcting, Progress
    <2>6. ClockRight'
      BY <2>1, <2>3 DEF ClockRight, Within
    <2>7. StampCurrent'
      BY <1>4, <2>3, <2>4 DEF SkewSave, Taint, StampCurrent
    <2> QED
      BY <2>5, <2>6, <2>7
  <1>5. CASE SkewAdjust
    BY <1>5 DEF SkewAdjust, Taint, scanVars, Correcting, Progress, ClockRight,
                StampCurrent
  <1>6. CASE SkewZero
    BY <1>6 DEF SkewZero, Taint, chipVars, scanVars, Correcting, Progress,
                ClockRight, StampCurrent
  <1>7. CASE SkewSaveZero
    BY <1>7 DEF SkewSaveZero, Taint, chipVars, scanVars, Correcting, Progress,
                ClockRight, StampCurrent, Within
  <1>8. CASE StampRtc
    BY <1>8 DEF StampRtc, chipVars, netVars, Correcting, Progress, ClockRight,
                StampCurrent
  <1>9. CASE StampOffset
    <2>1. ~overlapped => ~torn /\ captured = IF trusted THEN Time(rtcErr) ELSE NoTime
      BY <1>9 DEF StampOffset, StampCurrent, Correcting
    <2>2. ~overlapped => captured' = IF trusted THEN Time(rtcErr + offset) ELSE NoTime
      BY <1>9, <2>1, TimeFacts DEF StampOffset
    <2> QED
      BY <1>9, <2>2 DEF StampOffset, chipVars, netVars, Correcting, Progress,
                        ClockRight, StampCurrent
  <1>10. CASE StampSource
    BY <1>10 DEF StampSource, chipVars, netVars, Correcting, Progress,
                 ClockRight, StampCurrent
  <1>11. CASE Drift
    BY <1>11 DEF Drift, netVars, scanVars, Correcting, Progress, ClockRight,
                 StampCurrent
  <1>12. CASE ClockPowerCut
    <2>1. ~suspect' => rtcErr' + offset' = rtcErr + offset /\ ~suspect
      BY <1>12 DEF ClockPowerCut, chipVars
    <2> QED
      BY <1>12, <2>1 DEF ClockPowerCut, Correcting, Progress, ClockRight,
                         StampCurrent
  <1>13. CASE UNCHANGED clockVars
    BY <1>13 DEF clockVars, Correcting, Progress, ClockRight, StampCurrent
  <1> QED
    BY <1>1, <1>2, <1>3, <1>4, <1>5, <1>6, <1>7, <1>8, <1>9, <1>10, <1>11,
       <1>12, <1>13 DEF ClockNext, Correct

\* The one step that finishes a punch finishes it rightly.
LEMMA PunchStep ==
    ASSUME ClockInv, [ClockNext]_clockVars
    PROVE  StampRight' /\ SourceTells'
  <1> USE DEF ClockInv
  <1>1. CASE StampSource
    <2>1. PICK s \in Sources :
            punch' = [time |-> captured, source |-> s,
                      overlapped |-> overlapped, suspect |-> suspect]
      BY <1>1 DEF StampSource
    <2>2. rtcErr + offset \in Int
      BY OffsetFacts DEF ClockTypeOK
    <2>3. ~overlapped =>
            captured = IF trusted THEN Time(rtcErr + offset) ELSE NoTime
      BY <1>1 DEF StampSource, StampCurrent
    <2>4. s = "uptime_only" <=> ~trusted
      BY <2>1 DEF Sources
    <2>5. SourceTells'
      BY <2>1, <2>2, <2>3, <2>4, TimeFacts DEF SourceTells
    <2>6. StampRight'
      BY <2>1, <2>2, <2>3, <2>4, TimeFacts DEF StampRight, ClockRight
    <2> QED
      BY <2>5, <2>6
  <1>2. CASE UNCHANGED punch
    BY <1>2, PunchKept
  <1>3. StampSource \/ UNCHANGED punch
    BY DEF ClockNext, Correct, clockVars, scanVars, Accepted, SkewOffset,
           SkewTrust, SkewSave, SkewAdjust, SkewZero, SkewSaveZero, StampRtc,
           StampOffset, Drift, ClockPowerCut
  <1> QED
    BY <1>1, <1>2, <1>3

\* The inductive invariant holds in every reachable state.
THEOREM ClockInvariant == ClockSpec => []ClockInv
  <1>1. ClockInv /\ [ClockNext]_clockVars => ClockInv'
    BY TypeStep, KnownStep, PunchStep DEF ClockInv
  <1> QED
    BY InitClockInv, <1>1, PTL DEF ClockSpec

\* Types, for every value of the constants.
THEOREM ClockTypes == ClockSpec => []ClockTypeOK
  BY ClockInvariant, PTL DEF ClockInv

\* Every punch that no correction overlapped, stamped by a clock the gateway
\* has accepted or set and no boot has since restored otherwise, carries a
\* time inside the gateway's window, whichever NVS puts failed.
THEOREM ClockStampRight == ClockSpec => []StampRight
  BY ClockInvariant, PTL DEF ClockInv

\* Every punch that no correction overlapped says truly whether it has a time.
THEOREM ClockSourceTells == ClockSpec => []SourceTells
  BY ClockInvariant, PTL DEF ClockInv

-----------------------------------------------------------------------------
(***************************************************************************)
(* OtaGuard.  None of its properties is inductive alone.  What a cut       *)
(* leaves behind depends on how far the installer has come (Install), on   *)
(* which slot otadata names at that point (Where), and on what the other   *)
(* slot holds while an image is on trial (Trial).                          *)
(***************************************************************************)

\* otadata names the running slot, except between the commit and the reboot,
\* and an image is on trial only while nothing is being installed.
Where ==
    /\ selected = IF pc = "committed" THEN Idle ELSE running
    /\ imgState = "new" <=> pc = "committed"
    /\ imgState = "pending" => pc \in {"idle", "rolling"}

\* An image on trial is recorded and has a proven one beside it.
Trial ==
    imgState = "pending" =>
        /\ awaiting
        /\ slots[Idle] \in proven
        /\ Running \in Image
        /\ nvs.pending = Running
        /\ st.pending = Running

\* Outside a trial the running image has worked.
Worked == imgState # "pending" => Running \in proven

\* What the installer has established at each of its steps.
Install ==
    /\ pc \in {"erased", "written", "verified", "noted", "committed"} =>
          cand \in Image /\ cand.version > st.floor
    /\ pc \in {"verified", "noted", "committed"} => slots[Idle] = cand
    /\ pc \in {"noted", "committed"} => nvs.pending = cand

\* NVS may lag behind the guard's copy, and neither floor is invented.
Floors ==
    /\ nvs.floor <= st.floor
    /\ nvs.floor # 0 => \E i \in proven : i.version = nvs.floor
    /\ st.floor # 0 => \E i \in proven : i.version = st.floor

OtaInv == OtaTypeOK /\ Where /\ Trial /\ Worked /\ Install /\ Floors

-----------------------------------------------------------------------------

\* The all-zero record names no image.
LEMMA NoImageIsNone == NoImage \notin Image
  BY OtaAssumption DEF NoImage, Image

\* The two slots are each other's other.
LEMMA OtherSide ==
    \A s \in Side : Other(s) \in Side /\ Other(s) # s /\ Other(Other(s)) = s
  BY DEF Side, Other

\* The all-zero record and a stored image can both be compared by version.
LEMMA ImageFields ==
    \A i \in Image \cup {NoImage} : i.version \in 0 .. MaxVersion
  BY OtaAssumption DEF Image, NoImage

\* What a boot loads is a persisted record with the floor NVS held.
LEMMA LoadedRecord ==
    ASSUME nvs \in Persisted, NEW i \in Image
    PROVE  /\ Loaded(i) \in Persisted
           /\ Loaded(i).floor = nvs.floor
           /\ nvs.pending = i => Loaded(i) = nvs
  BY DEF Loaded, Persisted

\* A boot of an image that is either proven or on its recorded trial
\* establishes the invariant again, whatever RAM held (setup() and begin()).
LEMMA BootKeeps ==
    ASSUME OtaInv, NEW s \in Side, NEW state \in {"pending", "valid"},
           BootFrom(s, state),
           slots' \in [Side -> Image \cup {NoImage}],
           slots'[s] = slots[s], slots[s] \in Image,
           state = "pending" => slots[s] = nvs.pending
                                  /\ slots'[Other(s)] \in proven,
           state = "valid" => slots[s] \in proven,
           rotten' \subseteq proven,
           lastFailed' \in Image \cup {NoImage}
    PROVE  OtaInv'
<1>1. /\ st' \in Persisted /\ nvs' \in Persisted
      /\ st'.floor = nvs.floor /\ nvs'.floor = nvs.floor
      /\ nvs.pending = slots[s] => st' = nvs /\ nvs' = nvs
  <2>1. nvs \in Persisted
    BY DEF OtaInv, OtaTypeOK
  <2>2. st' = Loaded(slots[s]) /\ nvs' \in {nvs, st'}
    BY DEF BootFrom, Save
  <2> QED BY <2>1, <2>2, LoadedRecord
<1>2. OtaTypeOK'
  <2>1. armed' \in BOOLEAN /\ hung' \in BOOLEAN /\ awaiting' \in BOOLEAN
    BY DEF BootFrom
  <2>2. broken' = broken /\ proven' = proven
    BY DEF BootFrom
  <2> QED BY <1>1, <2>1, <2>2 DEF OtaInv, OtaTypeOK, BootFrom
<1>3. Running' = slots[s] /\ Idle' = Other(s) /\ proven' = proven
  BY DEF BootFrom, Running, Idle
<1>4. Where'
  BY DEF BootFrom, Where
<1>5. Trial'
  BY <1>1, <1>3 DEF BootFrom, Trial
<1>6. Worked'
  BY <1>3 DEF BootFrom, Worked
<1>7. Install'
  BY DEF BootFrom, Install
<1>8. Floors'
  BY <1>1, <1>3 DEF Floors, OtaInv, OtaTypeOK, Persisted
<1> QED BY <1>2, <1>4, <1>5, <1>6, <1>7, <1>8 DEF OtaInv

\* Every reboot the firmware or a power cut causes keeps the invariant: the
\* new image gets its trial, an image on trial is abandoned.
LEMMA RebootKeeps ==
    ASSUME OtaInv, Reboot
    PROVE  OtaInv'
<1> USE DEF OtaInv
<1>1. BootSlot \in Side /\ BootState \in {"pending", "valid"}
  BY OtherSide DEF BootSlot, BootState, OtaTypeOK
<1>2. slots' \in [Side -> Image \cup {NoImage}] /\ slots' = slots
  BY DEF Reboot, OtaTypeOK
<1>3. proven \subseteq Image
  BY DEF OtaTypeOK
<1>4. /\ slots[BootSlot] \in Image
      /\ BootState = "pending" => slots[BootSlot] = nvs.pending
                                    /\ slots[Other(BootSlot)] \in proven
      /\ BootState = "valid" => slots[BootSlot] \in proven
  <2>1. CASE imgState = "new"
    <3>1. BootSlot = Idle /\ Other(BootSlot) = running
      BY <2>1, OtherSide DEF BootSlot, Where, Idle, OtaTypeOK
    <3> QED BY <2>1, <3>1 DEF Where, Install, Worked, Running, BootState
  <2>2. CASE imgState = "pending"
    <3>1. BootSlot = Idle
      BY <2>2, OtherSide DEF BootSlot, Where, Idle, OtaTypeOK
    <3> QED BY <2>2, <3>1, <1>3 DEF Trial, BootState
  <2>3. CASE imgState = "valid"
    <3>1. BootSlot = running
      BY <2>3 DEF BootSlot, Where
    <3> QED BY <2>3, <3>1, <1>3 DEF Worked, Running, BootState
  <2> QED BY <2>1, <2>2, <2>3 DEF OtaTypeOK
<1>5. rotten' \subseteq proven /\ lastFailed' \in Image \cup {NoImage}
  BY DEF Reboot, OtaTypeOK
<1>6. BootFrom(BootSlot, BootState)
  BY DEF Reboot
<1> HIDE DEF OtaInv
<1> QED BY <1>1, <1>2, <1>4, <1>5, <1>6, BootKeeps

\* Whenever the device is not on trial or between commit and reboot, its slot
\* is confirmed; the installer runs only then.
LEMMA InstallingConfirmed ==
    ASSUME OtaInv, pc \in {"marked", "erased", "written", "verified", "noted"}
    PROVE  imgState = "valid" /\ selected = running /\ Running \in proven
  BY DEF OtaInv, OtaTypeOK, Where, Worked

\* Writing the idle slot leaves the running image alone.
LEMMA WriteIdle ==
    ASSUME OtaTypeOK, NEW i \in Image \cup {NoImage},
           slots' = [slots EXCEPT ![Idle] = i], running' = running
    PROVE  /\ slots' \in [Side -> Image \cup {NoImage}]
           /\ slots'[running] = slots[running] /\ Running' = Running
           /\ slots'[Idle] = i /\ Idle' = Idle
  BY OtherSide DEF OtaTypeOK, Idle, Running

\* The factory state satisfies the invariant.
LEMMA InitEstablishes == OtaInit => OtaInv
<1> SUFFICES ASSUME OtaInit PROVE OtaInv
  OBVIOUS
<1>1. Factory \in Image
  BY OtaAssumption DEF Factory, Image
<1>2. nvs \in Persisted /\ st = nvs /\ nvs.floor = 0
  BY OtaAssumption DEF OtaInit, Persisted
<1>3. OtaTypeOK
  <2>1. slots \in [Side -> Image \cup {NoImage}]
    BY <1>1 DEF OtaInit
  <2>2. selected \in Side /\ running \in Side
    BY DEF OtaInit, Side
  <2> QED BY <1>1, <1>2, <2>1, <2>2 DEF OtaInit, OtaTypeOK
<1>4. Running = Factory
  BY DEF OtaInit, Running, Side
<1>5. Where /\ Trial /\ Worked /\ Install
  BY <1>4 DEF OtaInit, Where, Trial, Worked, Install
<1>6. Floors
  BY <1>2 DEF OtaInit, Floors
<1> QED BY <1>3, <1>5, <1>6 DEF OtaInv

\* The confirm window's steps inside one boot keep the invariant.
LEMMA ConfirmKeeps ==
    ASSUME OtaInv, Heartbeat \/ OnHealthy \/ Tick
    PROVE  OtaInv'
<1> USE DEF OtaInv
<1>0. Running \in Image
  BY DEF OtaTypeOK, Trial, Worked
<1>1. CASE Heartbeat
  <2>1. UNCHANGED <<slots, selected, nvs, st, running, awaiting, cand>>
        /\ Running' = Running /\ Idle' = Idle
    BY <1>1 DEF Heartbeat, Running, Idle
  <2>2. proven \subseteq proven' /\ proven' \subseteq Image
    BY <1>0, <1>1 DEF Heartbeat, OtaTypeOK
  <2>3. \/ imgState' = imgState /\ pc' = "idle" /\ proven' = proven
        \/ imgState' = "valid" /\ pc' = "marked" /\ Running \in proven'
    BY <1>1 DEF Heartbeat
  <2>4. pc = "idle"
    BY <1>1 DEF Heartbeat
  <2>5. OtaTypeOK'
    BY <1>1, <2>1, <2>2, <2>3 DEF Heartbeat, OtaTypeOK
  <2>6. Where' /\ Trial' /\ Worked' /\ Install'
    BY <2>1, <2>2, <2>3, <2>4 DEF Where, Trial, Worked, Install
  <2>7. Floors'
    BY <2>1, <2>2 DEF Floors
  <2> QED BY <2>5, <2>6, <2>7
<1>2. CASE OnHealthy
  <2>1. imgState = "valid" /\ selected = running /\ Running \in proven
    BY <1>2, InstallingConfirmed DEF OnHealthy
  <2>2. /\ UNCHANGED <<slots, selected, imgState, running, cand, proven>>
        /\ pc' = "idle" /\ Running' = Running /\ Idle' = Idle
    BY <1>2 DEF OnHealthy, Running, Idle, flashVars, histVars
  <2>3. /\ st' \in Persisted
        /\ st'.floor \in {st.floor, Running.version} /\ st.floor <= st'.floor
    <3>1. st \in Persisted /\ Running.version \in 0 .. MaxVersion
      BY <1>0, ImageFields DEF OtaTypeOK
    <3>2. st' = [floor |-> IF Running.version > st.floor THEN Running.version
                           ELSE st.floor,
                 pending |-> IF PendingIsRunning THEN NoImage ELSE st.pending,
                 bad |-> st.bad]
      BY <1>2, <3>1 DEF OnHealthy, Persisted
    <3> QED BY <3>1, <3>2, OtaAssumption DEF Persisted
  <2>4. nvs' \in {st', nvs} /\ nvs \in Persisted /\ st \in Persisted
    <3>1. nvs' \in {st', nvs}
      BY <1>2 DEF OnHealthy, Save
    <3> QED BY <3>1 DEF OtaTypeOK
  <2>5. OtaTypeOK'
    BY <1>2, <2>2, <2>3, <2>4
    DEF OnHealthy, OtaTypeOK, histVars, flashVars
  <2>6. Where' /\ Trial' /\ Worked' /\ Install'
    BY <1>2, <2>1, <2>2 DEF OnHealthy, Where, Trial, Worked, Install
  <2>7. Floors'
    BY <2>1, <2>2, <2>3, <2>4 DEF Floors, Persisted
  <2> QED BY <2>5, <2>6, <2>7
<1>3. CASE Tick
  <2>1. /\ UNCHANGED <<slots, selected, imgState, running, awaiting, cand, proven>>
        /\ pc = "idle" /\ pc' = "rolling" /\ Running' = Running /\ Idle' = Idle
    BY <1>3 DEF Tick, Running, Idle, flashVars, histVars
  <2>2. st' \in Persisted /\ st'.floor = st.floor /\ st'.pending = st.pending
    BY <1>3 DEF Tick, OtaTypeOK, Persisted
  <2>3. nvs' \in {st', nvs}
    BY <1>3 DEF Tick, Save
  <2>4. nvs \in Persisted /\ st \in Persisted
    BY DEF OtaTypeOK
  <2>5. OtaTypeOK'
    BY <1>3, <2>1, <2>2, <2>3 DEF Tick, OtaTypeOK, histVars, taskVars
  <2>6. Where' /\ Worked' /\ Install'
    BY <2>1 DEF Where, Worked, Install
  <2>7. Trial'
    BY <2>1, <2>2, <2>3 DEF Trial
  <2>8. Floors'
    BY <2>1, <2>2, <2>3, <2>4 DEF Floors, Persisted
  <2> QED BY <2>5, <2>6, <2>7, <2>8
<1> QED BY <1>1, <1>2, <1>3

\* checkFirmware() and applyOta(), up to the signature check: only the idle
\* slot is written, and the candidate is above the floor.
LEMMA FetchKeeps ==
    ASSUME OtaInv,
           \/ NotTaken
           \/ \E i \in Image : RejectUnerased(i) \/ EspOtaBegin(i)
           \/ Download \/ DownloadFails \/ Verify \/ VerifyRejects
    PROVE  OtaInv'
<1> USE DEF OtaInv
<1>0. nvs' = nvs /\ st' = st /\ running' = running /\ selected' = selected
      /\ imgState' = imgState /\ awaiting' = awaiting /\ proven' = proven
      /\ Idle' = Idle
  BY DEF NotTaken, RejectUnerased, EspOtaBegin, Download, DownloadFails, Verify,
         VerifyRejects, flashVars, histVars, Idle
<1>1. Floors'
  BY <1>0 DEF Floors
<1>2. CASE NotTaken \/ \E i \in Image : RejectUnerased(i)
  <2>1. slots' = slots /\ pc' = pc /\ cand' = cand /\ Running' = Running
    BY <1>2 DEF NotTaken, RejectUnerased, flashVars, Running
  <2>2. OtaTypeOK'
    BY <1>0, <1>2, <2>1 DEF NotTaken, RejectUnerased, OtaTypeOK, histVars
  <2>3. Where' /\ Trial' /\ Worked' /\ Install'
    BY <1>0, <2>1 DEF Where, Trial, Worked, Install
  <2> QED BY <1>1, <2>2, <2>3
<1>3. ASSUME NEW i \in Image, EspOtaBegin(i) PROVE OtaInv'
  <2>1. /\ slots' \in [Side -> Image \cup {NoImage}]
        /\ Running' = Running
    BY <1>0, <1>3, WriteIdle DEF EspOtaBegin
  <2>2. /\ pc = "idle" /\ pc' = "erased" /\ cand' = i /\ ~awaiting
        /\ i.version > st.floor
    BY <1>3 DEF EspOtaBegin, Check
  <2>3. OtaTypeOK'
    BY <1>0, <1>3, <2>1, <2>2 DEF EspOtaBegin, OtaTypeOK, histVars, taskVars
  <2>4. Where' /\ Trial' /\ Worked'
    BY <1>0, <2>1, <2>2 DEF Where, Trial, Worked
  <2>5. Install'
    BY <1>0, <2>2 DEF Install
  <2> QED BY <1>1, <2>3, <2>4, <2>5
<1>4. CASE Download \/ DownloadFails \/ VerifyRejects
  <2>1. PICK j \in Image \cup {NoImage} : slots' = [slots EXCEPT ![Idle] = j]
    BY <1>4 DEF Download, DownloadFails, VerifyRejects
  <2>2. slots' \in [Side -> Image \cup {NoImage}] /\ Running' = Running
    BY <1>0, <2>1, WriteIdle
  <2>3. /\ pc \in {"erased", "written"}
        /\ \/ pc' = "idle" /\ cand' = NoImage
           \/ pc' = "written" /\ cand' = cand
    BY <1>4 DEF Download, DownloadFails, VerifyRejects
  <2>4. imgState = "valid"
    BY <2>3, InstallingConfirmed
  <2>5. OtaTypeOK'
    BY <1>0, <1>4, <2>2, <2>3
    DEF Download, DownloadFails, VerifyRejects, OtaTypeOK, histVars, taskVars
  <2>6. Where' /\ Trial' /\ Worked' /\ Install'
    BY <1>0, <2>2, <2>3, <2>4 DEF Where, Trial, Worked, Install
  <2> QED BY <1>1, <2>5, <2>6
<1>5. CASE Verify
  <2>1. /\ slots' = slots /\ cand' = cand /\ Running' = Running
        /\ pc = "written" /\ pc' = "verified" /\ slots[Idle] = cand
    BY <1>5 DEF Verify, flashVars, Running
  <2>2. imgState = "valid"
    BY <2>1, InstallingConfirmed
  <2>3. OtaTypeOK'
    BY <1>0, <1>5, <2>1 DEF Verify, OtaTypeOK, histVars, taskVars
  <2>4. Where' /\ Trial' /\ Worked' /\ Install'
    BY <1>0, <2>1, <2>2 DEF Where, Trial, Worked, Install
  <2> QED BY <1>1, <2>3, <2>4
<1> QED BY <1>2, <1>3, <1>4, <1>5

\* applyOta() from notePending() to the commit: the record is in NVS before
\* otadata names the slot.
LEMMA CommitKeeps ==
    ASSUME OtaInv,
           NotePending \/ NotePendingFails \/ SetBoot \/ SetBootFails
    PROVE  OtaInv'
<1> USE DEF OtaInv
<1>0. /\ running' = running /\ awaiting' = awaiting /\ proven' = proven
      /\ Idle' = Idle /\ pc \in {"verified", "noted"}
      /\ imgState = "valid" /\ selected = running /\ Running \in proven
      /\ cand \in Image /\ slots[Idle] = cand /\ cand.version > st.floor
  <2>1. pc \in {"verified", "noted"}
    BY DEF NotePending, NotePendingFails, SetBoot, SetBootFails
  <2>2. running' = running /\ awaiting' = awaiting /\ proven' = proven
        /\ Idle' = Idle
    BY DEF NotePending, NotePendingFails, SetBoot, SetBootFails, histVars, Idle
  <2> QED BY <2>1, <2>2, InstallingConfirmed DEF Install
<1>1. /\ st' \in Persisted /\ nvs' \in Persisted
      /\ st'.floor = st.floor /\ nvs'.floor \in {nvs.floor, st.floor}
  <2>1. st \in Persisted /\ nvs \in Persisted
    BY DEF OtaTypeOK
  <2>2. \/ st' = st
        \/ st' = [st EXCEPT !.pending = cand]
        \/ st' = [st EXCEPT !.pending = NoImage]
    BY DEF NotePending, NotePendingFails, SetBoot, SetBootFails
  <2>3. nvs' \in {st', nvs}
    BY DEF NotePending, NotePendingFails, SetBoot, SetBootFails, Save
  <2>4. st' \in Persisted /\ st'.floor = st.floor
    BY <1>0, <2>1, <2>2 DEF Persisted
  <2> QED BY <2>1, <2>3, <2>4
<1>2. Floors'
  BY <1>0, <1>1 DEF Floors, OtaTypeOK, Persisted
<1>3. CASE NotePending
  <2>1. /\ UNCHANGED <<slots, selected, imgState, cand>> /\ Running' = Running
        /\ pc' = "noted" /\ nvs'.pending = cand
    BY <1>3 DEF NotePending, flashVars, Running, OtaTypeOK, Persisted
  <2>2. OtaTypeOK'
    BY <1>0, <1>1, <1>3, <2>1 DEF NotePending, OtaTypeOK, taskVars
  <2>3. Where' /\ Trial' /\ Worked' /\ Install'
    BY <1>0, <1>1, <2>1 DEF Where, Trial, Worked, Install
  <2> QED BY <1>2, <2>2, <2>3
<1>4. CASE NotePendingFails \/ SetBootFails
  <2>1. slots' \in [Side -> Image \cup {NoImage}] /\ Running' = Running
    BY <1>0, <1>4, WriteIdle DEF NotePendingFails, SetBootFails
  <2>2. pc' = "idle" /\ selected' = selected /\ imgState' = imgState
    BY <1>4 DEF NotePendingFails, SetBootFails
  <2>3. OtaTypeOK'
    BY <1>0, <1>1, <1>4, <2>1, <2>2
    DEF NotePendingFails, SetBootFails, OtaTypeOK, histVars, taskVars
  <2>4. Where' /\ Trial' /\ Worked' /\ Install'
    BY <1>0, <2>1, <2>2 DEF Where, Trial, Worked, Install
  <2> QED BY <1>2, <2>3, <2>4
<1>5. CASE SetBoot
  <2>1. /\ UNCHANGED <<slots, nvs, st, cand>> /\ Running' = Running
        /\ pc = "noted" /\ pc' = "committed"
        /\ selected' = Idle /\ imgState' = "new"
    BY <1>5 DEF SetBoot, Running
  <2>2. Idle \in Side
    BY OtherSide DEF OtaTypeOK, Idle
  <2>3. OtaTypeOK'
    BY <1>0, <1>1, <1>5, <2>1, <2>2 DEF SetBoot, OtaTypeOK, histVars, taskVars
  <2>4. Where' /\ Trial' /\ Worked' /\ Install'
    BY <1>0, <2>1 DEF Where, Trial, Worked, Install
  <2> QED BY <1>2, <2>3, <2>4
<1> QED BY <1>3, <1>4, <1>5

\* The bootloader's fall back from a confirmed slot that no longer boots.
LEMMA RotKeeps ==
    ASSUME OtaInv, SlotRots
    PROVE  OtaInv'
<1>1. /\ Idle \in Side /\ slots[Idle] \in Image /\ slots[Idle] \in proven
      /\ Idle # running /\ Running \in proven /\ rotten \subseteq proven
      /\ lastFailed \in Image \cup {NoImage}
  BY OtherSide DEF OtaInv, OtaTypeOK, Worked, SlotRots, Idle
<1>2. slots' \in [Side -> Image \cup {NoImage}] /\ slots'[Idle] = slots[Idle]
  BY <1>1 DEF SlotRots, OtaInv, OtaTypeOK
<1>3. rotten' \subseteq proven /\ lastFailed' = lastFailed
  BY <1>1 DEF SlotRots
<1>4. BootFrom(Idle, "valid")
  BY DEF SlotRots
<1> QED BY <1>1, <1>2, <1>3, <1>4, BootKeeps

\* Every step keeps the invariant.
LEMMA NextKeeps == OtaInv /\ [OtaNext]_otaVars => OtaInv'
<1> SUFFICES ASSUME OtaInv, [OtaNext]_otaVars PROVE OtaInv'
  OBVIOUS
<1>1. CASE Heartbeat \/ OnHealthy \/ Tick
  BY <1>1, ConfirmKeeps
<1>2. CASE Rollback \/ OnConfirmDeadline \/ RebootIntoNewImage \/ PowerCut
  <2>1. Reboot
    BY <1>2 DEF Rollback, OnConfirmDeadline, RebootIntoNewImage, PowerCut
  <2> QED BY <2>1, RebootKeeps
<1>3. CASE \/ NotTaken
           \/ \E i \in Image : RejectUnerased(i) \/ EspOtaBegin(i)
           \/ Download \/ DownloadFails \/ Verify \/ VerifyRejects
  BY <1>3, FetchKeeps
<1>4. CASE NotePending \/ NotePendingFails \/ SetBoot \/ SetBootFails
  BY <1>4, CommitKeeps
<1>5. CASE SlotRots
  BY <1>5, RotKeeps
<1>6. CASE UNCHANGED otaVars
  BY <1>6 DEF otaVars, OtaInv, OtaTypeOK, Where, Trial, Worked, Install, Floors,
              Running, Idle
<1> QED BY <1>1, <1>2, <1>3, <1>4, <1>5, <1>6 DEF OtaNext

\* The invariant holds in every reachable state.
THEOREM OtaInvariant == OtaSpec => []OtaInv
  BY InitEstablishes, NextKeeps, PTL DEF OtaSpec

-----------------------------------------------------------------------------

\* Every variable keeps its type, whatever fails (OtaPersistedState, the
\* slots, otadata and the network task's position).
THEOREM OtaTypeCorrect == OtaSpec => []OtaTypeOK
<1>1. OtaInv => OtaTypeOK
  BY DEF OtaInv
<1> QED BY <1>1, OtaInvariant, PTL

\* At every instant of applyOta(), of the confirm window and of a rollback,
\* a power cut boots a complete image, and one that has never worked boots
\* only with a proven image in the other slot to fall back to.
THEOREM PowerCutAlwaysSafe == OtaSpec => []PowerCutSafe
<1>1. OtaInv => PowerCutSafe
  <2> SUFFICES ASSUME OtaInv PROVE PowerCutSafe
    OBVIOUS
  <2> USE DEF OtaInv
  <2>1. NoImage \notin proven
    BY NoImageIsNone DEF OtaTypeOK
  <2>2. CASE imgState = "new"
    <3>1. BootSlot = Idle /\ Other(BootSlot) = running
      BY <2>2, OtherSide DEF BootSlot, Where, Idle, OtaTypeOK
    <3> QED BY <2>2, <3>1, NoImageIsNone
            DEF PowerCutSafe, Where, Install, Worked, Running
  <2>3. CASE imgState = "pending"
    <3>1. BootSlot = Idle
      BY <2>3 DEF BootSlot, Where, Idle
    <3> QED BY <2>1, <2>3, <3>1 DEF PowerCutSafe, Trial
  <2>4. CASE imgState = "valid"
    <3>1. BootSlot = running
      BY <2>4 DEF BootSlot, Where
    <3> QED BY <2>1, <2>4, <3>1 DEF PowerCutSafe, Worked, Running
  <2> QED BY <2>2, <2>3, <2>4 DEF OtaTypeOK
<1> QED BY <1>1, OtaInvariant, PTL

\* NVS names an image from before the commit until it is confirmed or
\* abandoned, so the boot after a fallback can tell what failed.
THEOREM TrialAlwaysRecorded == OtaSpec => []TrialRecorded
<1>1. OtaInv => TrialRecorded
  BY DEF OtaInv, TrialRecorded, Where, Trial, Install, Running
<1> QED BY <1>1, OtaInvariant, PTL

\* Neither the floor in NVS nor the guard's copy of it is ever a version that
\* has not been marked valid on this terminal.
THEOREM FloorAlwaysProven == OtaSpec => []FloorProven
<1>1. OtaInv => FloorProven
  BY DEF OtaInv, FloorProven, Floors
<1> QED BY <1>1, OtaInvariant, PTL

\* The commit never makes bootable an image at or below the floor in NVS: the
\* guard checked the candidate against its own copy, and NVS only lags.
THEOREM NeverDowngrades == OtaSpec => NoDowngrade
<1>1. OtaInv /\ [OtaNext]_otaVars =>
        [(imgState' = "new" /\ imgState # "new")
            => slots'[selected'].version > nvs.floor]_otaVars
  <2> SUFFICES ASSUME OtaInv, [OtaNext]_otaVars,
                      imgState' = "new", imgState # "new"
               PROVE  slots'[selected'].version > nvs.floor
    OBVIOUS
  <2>1. OtaInv'
    BY NextKeeps
  <2>2. SetBoot
    <3>1. pc' = "committed" /\ pc # "committed"
      BY <2>1 DEF OtaInv, Where
    <3> QED BY <3>1
        DEF OtaNext, otaVars, Heartbeat, OnHealthy, Tick, Rollback,
            OnConfirmDeadline, RebootIntoNewImage, PowerCut, SlotRots, Reboot,
            BootFrom, NotTaken, RejectUnerased, EspOtaBegin, Download,
            DownloadFails, Verify, VerifyRejects, NotePending,
            NotePendingFails, SetBootFails
  <2>3. slots'[selected'] = cand /\ cand.version > st.floor /\ cand \in Image
    BY <2>2 DEF SetBoot, OtaInv, Install
  <2> QED BY <2>3, ImageFields
          DEF OtaInv, Floors, OtaTypeOK, Persisted
<1> QED BY <1>1, OtaInvariant, PTL DEF OtaSpec, NoDowngrade

-----------------------------------------------------------------------------
(***************************************************************************)
(* What the guard remembers of earlier images.  The pending and bad        *)
(* records survive a failed save in one place or the other (Retried); no   *)
(* image that works is ever a candidate, because the record that announces *)
(* its successor also stores the floor (Newer); and so none is ever blamed *)
(* (Blamed).                                                               *)
(***************************************************************************)

Good == proven \ rotten

\* The image the terminal returns to if the running one is not confirmed.
Home == IF imgState = "pending" THEN slots[Idle] ELSE Running

Installing == pc \in {"erased", "written", "verified", "noted", "committed"}
Announced == pc \in {"noted", "committed"} \/ imgState = "pending"

\* The network task looks for an update only after onHealthy(), which raised
\* the floor to the running version.
Flags ==
    /\ awaiting => imgState = "pending" \/ pc = "marked"
    /\ pc = "marked" => ~healthy
    /\ available => healthy \/ awaiting \/ pc = "marked"
    /\ Installing => healthy
    /\ healthy => Running.version <= st.floor

\* Of the images that work, all but the one to return to are at or below the
\* floor in NVS, and that one too once a successor is announced.
Newer ==
    /\ Announced => Home.version <= nvs.floor
    /\ imgState = "pending" => Running.version > st.floor
    /\ \A i \in Good : i.version <= nvs.floor \/ i = Home

\* Neither record names an image that works, save the pending record of the
\* running one; what is installed or on trial has not been blamed before.
Blamed ==
    /\ GoodNeverBlamed
    /\ \A r \in {nvs, st} : r.pending \in Good => r.pending = Running
    /\ Installing => cand # st.bad
    /\ pc \in {"noted", "committed"} => cand # nvs.bad
    /\ imgState = "pending" /\ pc = "idle" => Running \notin {st.bad, nvs.bad}

\* Record r keeps the image that failed last from being installed.
Bars(r) == r.bad = lastFailed \/ lastFailed.version <= r.floor

\* The image that failed last is barred by the guard's copy or older than the
\* running one, and NVS bars it or still names it as pending.
Retried ==
    /\ Announced => lastFailed = NoImage
    /\ lastFailed # NoImage =>
         /\ nvs.pending \in {NoImage, lastFailed}
         /\ Bars(nvs) \/ nvs.pending = lastFailed
         /\ st.pending \in {NoImage, lastFailed} \/ healthy
         /\ Bars(st) \/ lastFailed.version <= Running.version
    /\ NoImmediateRetry

Memory == Flags /\ Newer /\ Blamed /\ Retried

\* What each record's fields and the running image's version are.
LEMMA MemoryTypes ==
    ASSUME OtaInv
    PROVE  /\ nvs.floor \in Nat /\ st.floor \in Nat /\ nvs.floor <= st.floor
           /\ nvs.pending \in Image \cup {NoImage} /\ st.pending \in Image \cup {NoImage}
           /\ Running \in Image /\ Running.version \in Nat
           /\ proven \subseteq Image /\ NoImage \notin proven
           /\ \A i \in Image \cup {NoImage} : i.version \in Nat
<1>1. nvs \in Persisted /\ st \in Persisted /\ proven \subseteq Image /\ MaxVersion \in Nat
  BY OtaAssumption DEF OtaInv, OtaTypeOK
<1>2. nvs.floor \in Nat /\ st.floor \in Nat
  BY <1>1 DEF Persisted
<1>3. nvs.pending \in Image \cup {NoImage} /\ st.pending \in Image \cup {NoImage}
  BY <1>1 DEF Persisted
<1>4. Running \in Image
  BY <1>1 DEF OtaInv, Trial, Worked
<1>5. \A i \in Image \cup {NoImage} : i.version \in Nat
  BY <1>1, ImageFields
<1> QED BY <1>1, <1>2, <1>3, <1>4, <1>5, NoImageIsNone DEF OtaInv, Floors

\* A boot keeps the memory if the records in NVS fit the image that boots.
LEMMA BootRemembers ==
    ASSUME OtaInv, NEW s \in Side, NEW state \in {"pending", "valid"},
           BootFrom(s, state), slots[s] \in Image, slots'[s] = slots[s],
           GoodNeverBlamed, rotten \subseteq rotten',
           nvs.pending \in proven \ rotten' => nvs.pending = slots[s],
           \A i \in proven \ rotten' : i.version <= nvs.floor \/ i = Home',
           state = "pending" =>
               /\ Home'.version <= nvs.floor /\ slots[s].version > nvs.floor
               /\ slots[s] = nvs.pending /\ slots[s] # nvs.bad
               /\ lastFailed' = NoImage,
           lastFailed' \in Image \cup {NoImage},
           lastFailed' # NoImage =>
               /\ nvs.pending \in {NoImage, lastFailed'}
               /\ \/ nvs.bad = lastFailed' \/ lastFailed'.version <= nvs.floor
                  \/ nvs.pending = lastFailed'
    PROVE  Memory'
<1>t. /\ nvs \in Persisted /\ nvs.floor \in Nat
      /\ \A i \in Image \cup {NoImage} : i.version \in Nat
      /\ NoImage \notin proven
  BY MemoryTypes DEF OtaInv, OtaTypeOK
<1>1. /\ Running' = slots[s] /\ imgState' = state /\ proven' = proven
      /\ pc' = "idle" /\ ~healthy' /\ ~available' /\ (awaiting' => state = "pending")
  BY DEF BootFrom, Running
<1>2. st' = Loaded(slots[s]) /\ nvs' \in {nvs, st'}
  BY DEF BootFrom, Save
<1>3. \/ st' = nvs /\ (nvs.pending # NoImage => nvs.pending.version = slots[s].version)
      \/ /\ st'.floor = nvs.floor /\ st'.pending = NoImage /\ st'.bad = nvs.pending
         /\ nvs.pending # NoImage /\ nvs.pending # slots[s]
  BY <1>2, <1>t DEF Loaded, Persisted
<1>4. /\ nvs'.floor = nvs.floor /\ st'.floor = nvs.floor
      /\ nvs'.pending \in {nvs.pending, NoImage} /\ st'.pending \in {nvs.pending, NoImage}
  BY <1>2, <1>3
<1>5. Flags'
  BY <1>1 DEF Flags, Installing
<1>6. Newer'
  BY <1>1, <1>4 DEF Newer, Announced, Good
<1>7. Blamed'
  <2>1. \A r \in {nvs', st'} : r.bad \notin proven \ rotten'
    BY <1>2, <1>3 DEF GoodNeverBlamed
  <2>2. GoodNeverBlamed'
    BY <2>1, <1>1 DEF GoodNeverBlamed
  <2>3. \A r \in {nvs', st'} : r.pending \in proven \ rotten' => r.pending = slots[s]
    BY <1>4, <1>t
  <2>4. state = "pending" => slots[s] \notin {st'.bad, nvs'.bad}
    BY <1>2, <1>3
  <2> QED BY <1>1, <2>2, <2>3, <2>4 DEF Blamed, Good, Installing
<1>8. Retried'
  <2>1. ASSUME lastFailed' # NoImage
        PROVE  /\ nvs'.pending \in {NoImage, lastFailed'}
               /\ Bars(nvs)' \/ nvs'.pending = lastFailed'
               /\ st'.pending \in {NoImage, lastFailed'}
               /\ Bars(st)' \/ lastFailed'.version <= Running'.version
    <3>1. nvs'.pending \in {NoImage, lastFailed'} /\ st'.pending \in {NoImage, lastFailed'}
      BY <1>4, <2>1
    <3>2. CASE nvs.pending = lastFailed'
      <4>1. \/ st' = nvs /\ lastFailed'.version = slots[s].version
            \/ st'.bad = lastFailed'
        BY <1>3, <2>1, <3>2
      <4>2. lastFailed'.version \in Nat
        BY <1>t
      <4> QED BY <1>1, <1>2, <3>1, <3>2, <4>1, <4>2 DEF Bars
    <3>3. CASE nvs.pending # lastFailed'
      <4>1. nvs.pending = NoImage /\ st' = nvs /\ nvs' = nvs
        BY <1>2, <1>3, <2>1, <3>3
      <4> QED BY <2>1, <3>1, <3>3, <4>1 DEF Bars
    <3> QED BY <3>2, <3>3
  <2>2. Announced' => lastFailed' = NoImage
    BY <1>1 DEF Announced
  <2> QED BY <1>1, <2>1, <2>2 DEF Retried, NoImmediateRetry
<1> QED BY <1>5, <1>6, <1>7, <1>8 DEF Memory

\* A reboot gives an announced image its trial, abandons one on trial, and
\* otherwise starts the same image again.
LEMMA RebootRemembers ==
    ASSUME OtaInv, Memory, Reboot
    PROVE  Memory'
<1>t. /\ nvs.floor \in Nat /\ st.floor \in Nat /\ nvs.floor <= st.floor
      /\ Running \in Image /\ proven \subseteq Image /\ NoImage \notin proven
      /\ \A i \in Image \cup {NoImage} : i.version \in Nat
  BY MemoryTypes
<1>b. BootFrom(BootSlot, BootState) /\ slots' = slots /\ rotten' = rotten
  BY DEF Reboot
<1>g. GoodNeverBlamed
  BY DEF Memory, Blamed
<1>l. lastFailed \in Image \cup {NoImage} /\ running \in Side
  BY DEF OtaInv, OtaTypeOK
<1>1. CASE imgState = "new"
  <2>1. BootSlot = Idle /\ BootState = "pending" /\ Other(Idle) = running /\ Idle \in Side
    BY <1>1, <1>l, OtherSide DEF BootSlot, BootState, OtaInv, Where, Idle
  <2>2. /\ pc = "committed" /\ slots[Idle] = cand /\ cand \in Image /\ cand.version > st.floor
        /\ nvs.pending = cand
    BY <1>1 DEF OtaInv, Where, Install
  <2>3. cand # nvs.bad /\ Home = Running /\ Running.version <= nvs.floor /\ lastFailed = NoImage
    BY <1>1, <2>2 DEF Memory, Blamed, Newer, Retried, Announced, Home
  <2>4. imgState' = "pending" /\ Idle' = running /\ Home' = Running
    BY <1>b, <2>1 DEF BootFrom, Idle, Home, Running
  <2>5. lastFailed' = NoImage
    BY <1>1, <2>3 DEF Reboot
  <2>6. \A i \in proven \ rotten' : i.version <= nvs.floor \/ i = Home'
    BY <1>b, <2>3, <2>4 DEF Memory, Newer, Good
  <2>7. cand.version > nvs.floor
    BY <1>t, <2>2
  <2> QED BY <1>b, <1>g, <2>1, <2>2, <2>3, <2>4, <2>5, <2>6, <2>7, BootRemembers
<1>2. CASE imgState = "pending"
  <2>1. BootSlot = Idle /\ BootState = "valid" /\ Idle \in Side /\ selected = running
    BY <1>2, <1>l, OtherSide DEF BootSlot, BootState, OtaInv, Where, Idle
  <2>2. slots[Idle] \in Image /\ nvs.pending = Running
    BY <1>2, <1>t DEF OtaInv, Trial
  <2>3. Home = slots[Idle] /\ Home' = slots[Idle]
    BY <1>2, <1>b, <2>1 DEF BootFrom, Home, Running
  <2>4. lastFailed' = Running
    BY <1>2, <2>1 DEF Reboot, Running
  <2>5. Running \notin Good
    <3>1. Running.version > st.floor /\ Home.version <= nvs.floor
      BY <1>2 DEF Memory, Newer, Announced
    <3>2. Running.version \in Nat /\ Home.version \in Nat
      BY <1>t, <2>2, <2>3
    <3>3. ~(Running.version <= nvs.floor) /\ Running # Home
      BY <1>t, <3>1, <3>2
    <3> QED BY <3>3 DEF Memory, Newer
  <2>6. \A i \in proven \ rotten' : i.version <= nvs.floor \/ i = Home'
    BY <1>b, <2>3 DEF Memory, Newer, Good
  <2>7. nvs.pending \notin proven \ rotten'
    BY <1>b, <2>2, <2>5 DEF Good
  <2> QED BY <1>b, <1>g, <1>t, <2>1, <2>2, <2>4, <2>6, <2>7, BootRemembers
<1>3. CASE imgState = "valid"
  <2>1. BootSlot = running /\ BootState = "valid" /\ pc # "committed"
    BY <1>3 DEF BootSlot, BootState, OtaInv, Where
  <2>2. Home = Running /\ Home' = Running
    BY <1>3, <1>b, <2>1 DEF BootFrom, Home, Running
  <2>3. lastFailed' = lastFailed
    BY <1>3 DEF Reboot
  <2>4. \A i \in proven \ rotten' : i.version <= nvs.floor \/ i = Home'
    BY <1>b, <2>2 DEF Memory, Newer, Good
  <2>5. nvs.pending \in proven \ rotten' => nvs.pending = Running
    BY <1>b DEF Memory, Blamed, Good
  <2>6. lastFailed # NoImage =>
          /\ nvs.pending \in {NoImage, lastFailed}
          /\ \/ nvs.bad = lastFailed \/ lastFailed.version <= nvs.floor
             \/ nvs.pending = lastFailed
    BY DEF Memory, Retried, Bars
  <2>7. slots[running] = Running
    BY DEF Running
  <2> QED BY <1>b, <1>g, <1>l, <1>t, <2>1, <2>3, <2>4, <2>5, <2>6, <2>7, BootRemembers
<1> QED BY <1>1, <1>2, <1>3 DEF OtaInv, OtaTypeOK

\* A confirmed image that stops booting no longer counts as one that works.
LEMMA RotRemembers ==
    ASSUME OtaInv, Memory, SlotRots
    PROVE  Memory'
<1>1. /\ Idle \in Side /\ Idle # running /\ slots[Idle] \in Image
      /\ lastFailed' = lastFailed /\ lastFailed \in Image \cup {NoImage}
  BY OtherSide DEF SlotRots, OtaInv, OtaTypeOK, Idle
<1>2. BootFrom(Idle, "valid") /\ rotten' = rotten \cup {Running} /\ imgState = "valid"
  BY DEF SlotRots
<1>3. slots'[Idle] = slots[Idle]
  BY <1>1 DEF SlotRots, OtaInv, OtaTypeOK
<1>4. GoodNeverBlamed
  BY DEF Memory, Blamed
<1>5. \A i \in proven \ rotten' : i.version <= nvs.floor
  BY <1>2 DEF Memory, Newer, Good, Home
<1>6. nvs.pending \notin proven \ rotten'
  BY <1>2 DEF Memory, Blamed, Good
<1>7. lastFailed # NoImage =>
        /\ nvs.pending \in {NoImage, lastFailed}
        /\ \/ nvs.bad = lastFailed \/ lastFailed.version <= nvs.floor
           \/ nvs.pending = lastFailed
  BY DEF Memory, Retried, Bars
<1> QED BY <1>1, <1>2, <1>3, <1>4, <1>5, <1>6, <1>7, BootRemembers

\* Confirming an image, or giving up on it, within one boot.
LEMMA ConfirmRemembers ==
    ASSUME OtaInv, OtaInv', Memory, Heartbeat \/ OnHealthy \/ Tick
    PROVE  Memory'
<1>t. /\ nvs.floor \in Nat /\ st.floor \in Nat /\ nvs.floor <= st.floor
      /\ Running \in Image /\ Running.version \in Nat
      /\ proven \subseteq Image /\ NoImage \notin proven
      /\ \A i \in Image \cup {NoImage} : i.version \in Nat
  BY MemoryTypes
<1>1. CASE Heartbeat
  <2>1. /\ UNCHANGED <<slots, nvs, st, running, awaiting, healthy, cand, rotten, lastFailed>>
        /\ Running' = Running /\ Idle' = Idle /\ pc = "idle"
    BY <1>1 DEF Heartbeat, Running, Idle
  <2>2. CASE imgState' = imgState /\ proven' = proven /\ pc' = "idle"
             /\ (healthy \/ awaiting)
    <3>1. Home' = Home /\ Good' = Good
      BY <2>1, <2>2 DEF Home, Good
    <3>2. Flags'
      BY <2>1, <2>2 DEF Memory, Flags, Installing
    <3>3. Newer'
      BY <2>1, <2>2, <3>1 DEF Memory, Newer, Announced
    <3>4. Blamed'
      BY <2>1, <2>2, <3>1 DEF Memory, Blamed, GoodNeverBlamed, Good, Installing
    <3>5. Retried'
      BY <2>1, <2>2 DEF Memory, Retried, Bars, Announced, NoImmediateRetry
    <3> QED BY <3>2, <3>3, <3>4, <3>5 DEF Memory
  <2>3. CASE imgState' = "valid" /\ proven' = proven \cup {Running} /\ pc' = "marked"
             /\ ~healthy
    <3>1. Good' \subseteq Good \cup {Running} /\ Home' = Running
      BY <2>1, <2>3 DEF Good, Home
    <3>2. Flags'
      BY <2>1, <2>3 DEF Flags, Installing
    <3>3. CASE imgState = "pending"
      <4>1. \A i \in Good' : i.version <= nvs.floor \/ i = Running
        BY <3>1, <3>3 DEF Memory, Newer, Announced
      <4>2. Newer'
        BY <2>1, <2>3, <3>1, <4>1 DEF Newer, Announced
      <4>3. Running \notin {st.bad, nvs.bad} /\ nvs.pending = Running /\ st.pending = Running
        BY <2>1, <3>3 DEF Memory, Blamed, OtaInv, Trial
      <4>4. nvs.bad \notin Good' /\ st.bad \notin Good'
        BY <3>1, <4>3 DEF Memory, Blamed, GoodNeverBlamed, Good
      <4>5. Blamed'
        BY <2>1, <2>3, <4>3, <4>4 DEF Blamed, GoodNeverBlamed, Good, Installing
      <4>6. lastFailed = NoImage
        BY <3>3 DEF Memory, Retried, Announced
      <4>7. Retried'
        BY <2>1, <2>3, <4>6 DEF Retried, NoImmediateRetry
      <4> QED BY <3>2, <4>2, <4>5, <4>7 DEF Memory
    <3>4. CASE imgState # "pending"
      <4>1. proven' = proven /\ Good' = Good /\ Home' = Home
        BY <2>1, <2>3, <3>1, <3>4 DEF OtaInv, Worked, Good, Home
      <4>2. Newer'
        BY <2>1, <2>3, <4>1 DEF Memory, Newer, Announced
      <4>3. Blamed'
        BY <2>1, <2>3, <4>1 DEF Memory, Blamed, GoodNeverBlamed, Good, Installing
      <4>4. Retried'
        BY <2>1, <2>3 DEF Memory, Retried, Bars, Announced, NoImmediateRetry
      <4> QED BY <3>2, <4>2, <4>3, <4>4 DEF Memory
    <3> QED BY <3>3, <3>4
  <2> QED BY <1>1, <2>1, <2>2, <2>3 DEF Heartbeat
<1>2. CASE OnHealthy
  <2>1. /\ UNCHANGED <<slots, imgState, running, cand, proven, rotten, lastFailed, available>>
        /\ Running' = Running /\ Idle' = Idle /\ Home' = Home /\ Good' = Good
        /\ pc = "marked" /\ pc' = "idle" /\ ~awaiting' /\ healthy' /\ ~healthy
    <3>1. /\ UNCHANGED <<slots, imgState, running, cand, proven, rotten, lastFailed, available>>
          /\ pc = "marked" /\ pc' = "idle" /\ ~awaiting' /\ healthy'
      BY <1>2 DEF OnHealthy, flashVars, histVars
    <3> QED BY <3>1 DEF Memory, Flags, Running, Idle, Home, Good
  <2>2. imgState = "valid" /\ Home = Running
    BY <2>1, InstallingConfirmed DEF Home
  <2>3. /\ st'.floor = IF Running.version > st.floor THEN Running.version ELSE st.floor
        /\ st'.pending \in {st.pending, NoImage} /\ st'.bad = st.bad
    <3>1. st \in Persisted
      BY DEF OtaInv, OtaTypeOK
    <3> QED BY <1>2, <3>1 DEF OnHealthy, Persisted
  <2>4. nvs' \in {nvs, st'}
    BY <1>2 DEF OnHealthy, Save
  <2>5. /\ st'.floor \in Nat /\ st.floor <= st'.floor /\ Running.version <= st'.floor
        /\ nvs'.floor \in Nat /\ nvs.floor <= nvs'.floor
    <3>1. PICK f \in Nat : f = st'.floor /\ st.floor <= f /\ Running.version <= f
      BY <1>t, <2>3
    <3> QED BY <1>t, <2>4, <3>1
  <2>6. Flags'
    BY <2>1, <2>5 DEF Flags, Installing
  <2>7. Newer'
    <3>1. \A i \in Good : i.version \in Nat
      BY <1>t DEF Good
    <3>2. \A i \in Good : i.version <= nvs'.floor \/ i = Home
      <4> SUFFICES ASSUME NEW i \in Good, i # Home PROVE i.version <= nvs'.floor
        OBVIOUS
      <4>1. i.version \in Nat /\ i.version <= nvs.floor
        BY <3>1 DEF Memory, Newer
      <4>2. PICK m \in Nat : m = nvs'.floor /\ nvs.floor <= m
        BY <2>5
      <4>3. i.version <= m
        BY <1>t, <4>1, <4>2
      <4> QED BY <4>2, <4>3
    <3> QED BY <2>1, <2>2, <3>2 DEF Newer, Announced
  <2>8. Blamed'
    <3>1. GoodNeverBlamed'
      BY <2>1, <2>3, <2>4 DEF Memory, Blamed, GoodNeverBlamed
    <3>2. \A r \in {nvs', st'} : r.pending \in Good => r.pending = Running
      BY <1>t, <2>3, <2>4 DEF Memory, Blamed, Good
    <3> QED BY <2>1, <2>2, <3>1, <3>2 DEF Blamed, Installing
  <2>9. Retried'
    <3>1. ASSUME lastFailed # NoImage
          PROVE  /\ nvs'.pending \in {NoImage, lastFailed}
                 /\ Bars(nvs)' \/ nvs'.pending = lastFailed
                 /\ Bars(st)'
      <4>1. /\ lastFailed.version \in Nat
            /\ nvs.pending \in {NoImage, lastFailed}
            /\ st.pending \in {NoImage, lastFailed}
            /\ Bars(nvs) \/ nvs.pending = lastFailed
            /\ Bars(st) \/ lastFailed.version <= Running.version
        BY <1>t, <2>1, <3>1 DEF Memory, Retried, OtaInv, OtaTypeOK
      <4>2. st'.bad = lastFailed \/ lastFailed.version <= st'.floor
        <5>1. PICK f \in Nat : f = st'.floor /\ st.floor <= f /\ Running.version <= f
          BY <2>5
        <5>2. st.bad = lastFailed \/ lastFailed.version <= f
          BY <1>t, <4>1, <5>1 DEF Bars
        <5> QED BY <2>3, <5>1, <5>2
      <4>3. Bars(st)'
        BY <2>1, <4>2 DEF Bars
      <4>4. CASE nvs' = nvs
        BY <2>1, <4>1, <4>3, <4>4 DEF Bars
      <4>5. CASE nvs' = st'
        BY <2>1, <2>3, <4>1, <4>2, <4>3, <4>5 DEF Bars
      <4> QED BY <2>4, <4>4, <4>5
    <3> QED BY <2>1, <2>2, <3>1 DEF Retried, Announced, NoImmediateRetry
  <2> QED BY <2>6, <2>7, <2>8, <2>9 DEF Memory
<1>3. CASE Tick
  <2>1. /\ UNCHANGED <<slots, imgState, running, awaiting, healthy, available, cand, proven,
                       rotten, lastFailed>>
        /\ Running' = Running /\ Idle' = Idle /\ Home' = Home /\ Good' = Good
        /\ pc = "idle" /\ pc' = "rolling" /\ awaiting
    BY <1>3 DEF Tick, flashVars, taskVars, histVars, Running, Idle, Home, Good
  <2>2. imgState = "pending" /\ st.pending = Running /\ nvs.pending = Running
    BY <2>1 DEF Memory, Flags, OtaInv, Trial
  <2>3. /\ st'.floor = st.floor /\ st'.pending = st.pending
        /\ st'.bad \in {st.bad, Running}
    BY <1>3, <2>2 DEF Tick, OtaInv, OtaTypeOK, Persisted
  <2>4. nvs' \in {nvs, st'}
    BY <1>3 DEF Tick, Save
  <2>5. Running \notin Good /\ Home.version <= nvs.floor /\ Running.version > st.floor
    <3>1. Running.version > st.floor /\ Home.version <= nvs.floor
      BY <2>2 DEF Memory, Newer, Announced
    <3>2. Home \in Image
      BY <1>t, <2>2 DEF Home, OtaInv, Trial
    <3>3. ~(Running.version <= nvs.floor) /\ Running # Home
      BY <1>t, <3>1, <3>2
    <3> QED BY <3>1, <3>3 DEF Memory, Newer
  <2>6. lastFailed = NoImage
    BY <2>2 DEF Memory, Retried, Announced
  <2>7. Flags'
    BY <2>1, <2>3 DEF Memory, Flags, Installing
  <2>8. Newer'
    <3>1. nvs'.floor \in {nvs.floor, st.floor}
      BY <2>3, <2>4
    <3>2. Home \in Image /\ \A i \in Good : i.version \in Nat
      BY <1>t, <2>2 DEF Home, OtaInv, Trial, Good
    <3>3. Home.version <= st.floor
      BY <1>t, <2>5, <3>2
    <3>4. \A i \in Good : (i.version <= nvs.floor /\ i.version <= st.floor) \/ i = Home
      BY <1>t, <3>2 DEF Memory, Newer
    <3> QED BY <2>1, <2>3, <2>5, <3>1, <3>3, <3>4 DEF Newer
  <2>9. Blamed'
    <3>1. GoodNeverBlamed'
      BY <2>1, <2>3, <2>4, <2>5 DEF Memory, Blamed, GoodNeverBlamed, Good
    <3>2. \A r \in {nvs', st'} : r.pending \in Good => r.pending = Running
      BY <2>2, <2>3, <2>4
    <3> QED BY <2>1, <3>1, <3>2 DEF Blamed, Installing
  <2>10. Retried'
    BY <2>1, <2>6 DEF Retried, NoImmediateRetry
  <2> QED BY <2>7, <2>8, <2>9, <2>10 DEF Memory
<1> QED BY <1>1, <1>2, <1>3

\* Looking for an update, downloading and verifying it: check() refuses what
\* the guard's copy bars and what is not newer than the running image.
LEMMA FetchRemembers ==
    ASSUME OtaInv, OtaInv', Memory,
           \/ NotTaken
           \/ \E i \in Image : RejectUnerased(i) \/ EspOtaBegin(i)
           \/ Download \/ DownloadFails \/ Verify \/ VerifyRejects
    PROVE  Memory'
<1>t. /\ st.floor \in Nat /\ Running.version \in Nat
      /\ \A i \in Image \cup {NoImage} : i.version \in Nat
      /\ lastFailed \in Image \cup {NoImage}
  BY MemoryTypes DEF OtaInv, OtaTypeOK
<1>0. /\ UNCHANGED <<nvs, st, running, imgState, awaiting, healthy, proven, rotten, lastFailed>>
      /\ Idle' = Idle /\ Good' = Good /\ (available' => available)
  BY DEF NotTaken, RejectUnerased, EspOtaBegin, Download, DownloadFails, Verify,
         VerifyRejects, flashVars, histVars, taskVars, Idle, Good
<1>1. /\ pc' \in {"idle", "erased", "written", "verified"} \/ pc' = pc
      /\ pc' = "marked" => pc = "marked"
      /\ pc = "marked" => pc' = "marked" \/ ~available
  BY DEF NotTaken, RejectUnerased, EspOtaBegin, Download, DownloadFails, Verify, VerifyRejects
<1>2. Running' = Running /\ Home' = Home
  <2>1. CASE slots' = slots
    BY <1>0, <2>1 DEF Running, Home
  <2>2. CASE slots' # slots
    <3>1. imgState # "pending"
      <4>1. \/ ~awaiting \/ pc \in {"erased", "written"}
        BY <2>2 DEF NotTaken, RejectUnerased, EspOtaBegin, Check, Download,
                    DownloadFails, Verify, VerifyRejects, flashVars
      <4> QED BY <4>1 DEF OtaInv, Where, Trial
    <3>2. PICK j \in Image \cup {NoImage} : slots' = [slots EXCEPT ![Idle] = j]
      BY <2>2 DEF NotTaken, RejectUnerased, EspOtaBegin, Download,
                  DownloadFails, Verify, VerifyRejects, flashVars
    <3>3. Running' = Running
      BY <1>0, <3>2, WriteIdle DEF OtaInv
    <3> QED BY <1>0, <3>1, <3>3 DEF Home
  <2> QED BY <2>1, <2>2
<1>3. Newer'
  BY <1>0, <1>1, <1>2 DEF Memory, Newer, Announced
<1>4. ASSUME NEW i \in Image, EspOtaBegin(i) PROVE Memory'
  <2>1. /\ pc = "idle" /\ pc' = "erased" /\ cand' = i /\ ~awaiting /\ available
        /\ i.version > Running.version /\ i.version > st.floor /\ i # st.bad
    BY <1>4 DEF EspOtaBegin, Check
  <2>2. Flags'
    BY <1>0, <1>2, <2>1 DEF Memory, Flags, Installing
  <2>3. Blamed'
    BY <1>0, <1>2, <2>1 DEF Memory, Blamed, GoodNeverBlamed, Installing, Good
  <2>4. i # lastFailed
    <3>1. CASE lastFailed = NoImage
      BY <3>1, NoImageIsNone
    <3>2. CASE lastFailed # NoImage
      <4>1. st.bad = lastFailed \/ lastFailed.version <= st.floor
              \/ lastFailed.version <= Running.version
        BY <3>2 DEF Memory, Retried, Bars
      <4>2. ~(i.version <= st.floor) /\ ~(i.version <= Running.version)
        BY <1>t, <2>1
      <4> QED BY <2>1, <4>1, <4>2
    <3> QED BY <3>1, <3>2
  <2>5. Retried'
    BY <1>0, <1>2, <2>1, <2>4 DEF Memory, Retried, Bars, Announced, NoImmediateRetry
  <2> QED BY <1>3, <2>2, <2>3, <2>5 DEF Memory
<1>5. CASE \/ NotTaken \/ \E i \in Image : RejectUnerased(i)
           \/ Download \/ DownloadFails \/ Verify \/ VerifyRejects
  <2>1. \/ pc' = pc /\ cand' = cand
        \/ pc \in {"erased", "written"} /\ pc' = "idle"
        \/ /\ pc \in {"erased", "written"} /\ pc' \in {"written", "verified"}
           /\ cand' = cand
    BY <1>5 DEF NotTaken, RejectUnerased, Download, DownloadFails, Verify, VerifyRejects
  <2>2. pc \in {"erased", "written"} => imgState # "pending" /\ healthy /\ ~awaiting
    BY DEF OtaInv, Where, Memory, Flags, Installing
  <2>3. Flags'
    BY <1>0, <1>2, <2>1, <2>2 DEF Memory, Flags, Installing
  <2>4. Blamed'
    BY <1>0, <1>2, <2>1, <2>2 DEF Memory, Blamed, GoodNeverBlamed, Installing, Good
  <2>5. Retried'
    BY <1>0, <1>2, <2>1, <2>2 DEF Memory, Retried, Bars, Announced, NoImmediateRetry
  <2> QED BY <1>3, <2>3, <2>4, <2>5 DEF Memory
<1> QED BY <1>4, <1>5

\* From notePending() to the commit: the record that announces the candidate
\* carries the floor of the running image to NVS.
LEMMA CommitRemembers ==
    ASSUME OtaInv, OtaInv', Memory,
           NotePending \/ NotePendingFails \/ SetBoot \/ SetBootFails
    PROVE  Memory'
<1>t. /\ nvs.floor \in Nat /\ st.floor \in Nat /\ nvs.floor <= st.floor
      /\ Running.version \in Nat /\ proven \subseteq Image /\ NoImage \notin proven
      /\ \A i \in Image \cup {NoImage} : i.version \in Nat
      /\ st \in Persisted
  BY MemoryTypes DEF OtaInv, OtaTypeOK
<1>0. /\ UNCHANGED <<running, awaiting, healthy, available, proven, rotten>>
      /\ Idle' = Idle /\ Good' = Good /\ pc \in {"verified", "noted"}
      /\ lastFailed' \in {lastFailed, NoImage}
  BY DEF NotePending, NotePendingFails, SetBoot, SetBootFails, histVars, taskVars, Idle, Good
<1>1. /\ imgState = "valid" /\ healthy /\ ~awaiting /\ cand \in Image
      /\ Running.version <= st.floor /\ cand.version > st.floor /\ cand # st.bad
      /\ Home = Running
  BY <1>0, InstallingConfirmed DEF Memory, Flags, Blamed, Installing, OtaInv, Install, Home
<1>2. Running' = Running /\ imgState' # "pending" /\ Home' = Running
  <2>1. Running' = Running
    <3>1. CASE slots' = slots
      BY <1>0, <3>1 DEF Running
    <3>2. CASE slots' = [slots EXCEPT ![Idle] = NoImage]
      BY <1>0, <3>2, WriteIdle DEF OtaInv
    <3> QED BY <3>1, <3>2 DEF NotePending, NotePendingFails, SetBoot, SetBootFails, flashVars
  <2>2. imgState' # "pending"
    BY <1>1 DEF NotePending, NotePendingFails, SetBoot, SetBootFails, flashVars
  <2> QED BY <2>1, <2>2 DEF Home
<1>3. cand \notin Good
  <2>1. ~(cand.version <= nvs.floor) /\ cand # Running
    BY <1>t, <1>1
  <2> QED BY <1>1, <2>1 DEF Memory, Newer
<1>4. /\ \A i \in Good : i.version <= st.floor
      /\ \A i \in Good : i.version <= nvs.floor \/ i = Running
  <2>1. \A i \in Good : i.version <= nvs.floor \/ i = Running
    BY <1>1 DEF Memory, Newer
  <2>2. \A i \in Good : i.version \in Nat
    BY <1>t DEF Good
  <2> QED BY <1>t, <1>1, <2>1, <2>2
<1>5. nvs.bad \notin Good /\ st.bad \notin Good /\ NoImage \notin Good
  BY <1>t DEF Memory, Blamed, GoodNeverBlamed, Good
<1>6. \A r \in {nvs, st} : r.pending \in Good => r.pending = Running
  BY DEF Memory, Blamed
<1>7. CASE NotePending
  <2>1. /\ pc' = "noted" /\ nvs' = st' /\ cand' = cand /\ lastFailed' = NoImage
        /\ st'.pending = cand /\ st'.floor = st.floor /\ st'.bad = st.bad
    BY <1>7, <1>t DEF NotePending, Persisted
  <2>2. Flags'
    BY <1>0, <1>1, <1>2, <2>1 DEF Flags, Installing
  <2>3. Newer'
    BY <1>0, <1>1, <1>2, <1>4, <2>1 DEF Newer
  <2>4. Blamed'
    BY <1>0, <1>1, <1>2, <1>3, <1>5, <2>1 DEF Blamed, GoodNeverBlamed, Good
  <2>5. Retried'
    BY <2>1 DEF Retried, NoImmediateRetry
  <2> QED BY <2>2, <2>3, <2>4, <2>5 DEF Memory
<1>8. CASE NotePendingFails
  <2>1. /\ pc' = "idle" /\ nvs' = nvs /\ lastFailed' = lastFailed
        /\ st'.pending = cand /\ st'.floor = st.floor /\ st'.bad = st.bad
    BY <1>8, <1>t DEF NotePendingFails, Persisted, histVars
  <2>2. Flags'
    BY <1>0, <1>1, <1>2, <2>1 DEF Flags, Installing
  <2>3. Newer'
    BY <1>0, <1>2, <1>4, <2>1 DEF Newer, Announced
  <2>4. Blamed'
    BY <1>0, <1>2, <1>3, <1>5, <1>6, <2>1 DEF Blamed, GoodNeverBlamed, Good, Installing
  <2>5. Retried'
    BY <1>0, <1>1, <1>2, <2>1 DEF Memory, Retried, Bars, Announced, NoImmediateRetry
  <2> QED BY <2>2, <2>3, <2>4, <2>5 DEF Memory
<1>9. CASE SetBoot \/ SetBootFails
  <2>1. pc = "noted" /\ lastFailed' = lastFailed /\ lastFailed = NoImage
        /\ Running.version <= nvs.floor /\ cand # nvs.bad
    BY <1>1, <1>9 DEF SetBoot, SetBootFails, histVars, Memory, Retried, Announced, Newer, Blamed
  <2>2. /\ nvs' \in {nvs, st'} /\ st'.floor = st.floor /\ st'.bad = st.bad
        /\ st'.pending \in {st.pending, NoImage}
        /\ \/ pc' = "committed" /\ nvs' = nvs /\ cand' = cand
           \/ pc' = "idle"
    BY <1>9, <1>t DEF SetBoot, SetBootFails, Save, Persisted
  <2>3. Flags'
    BY <1>0, <1>1, <1>2, <2>2 DEF Flags, Installing
  <2>4. Newer'
    BY <1>0, <1>2, <1>4, <2>1, <2>2 DEF Newer, Announced
  <2>5. Blamed'
    <3>1. GoodNeverBlamed'
      BY <1>0, <1>5, <2>2 DEF GoodNeverBlamed, Good
    <3>2. \A r \in {nvs', st'} : r.pending \in Good => r.pending = Running
      BY <1>5, <1>6, <2>2
    <3> QED BY <1>0, <1>1, <1>2, <2>1, <2>2, <3>1, <3>2 DEF Blamed, Installing
  <2>6. Retried'
    BY <2>1, <2>2 DEF Retried, NoImmediateRetry
  <2> QED BY <2>3, <2>4, <2>5, <2>6 DEF Memory
<1> QED BY <1>7, <1>8, <1>9

\* The factory state remembers nothing.
LEMMA InitRemembers == OtaInit => Memory
<1> SUFFICES ASSUME OtaInit PROVE Memory
  OBVIOUS
<1>1. Running = Factory /\ Home = Factory /\ Good = {Factory} /\ NoImage # Factory
  BY DEF OtaInit, Running, Home, Good, Side, NoImage, Factory
<1>2. Flags /\ Newer
  BY <1>1 DEF OtaInit, Flags, Newer, Installing, Announced
<1>3. Blamed
  BY <1>1 DEF OtaInit, Blamed, GoodNeverBlamed, Good, Installing
<1>4. Retried
  BY DEF OtaInit, Retried, NoImmediateRetry
<1> QED BY <1>2, <1>3, <1>4 DEF Memory

\* Every step keeps the memory.
LEMMA NextRemembers == OtaInv /\ Memory /\ [OtaNext]_otaVars => Memory'
<1> SUFFICES ASSUME OtaInv, Memory, [OtaNext]_otaVars PROVE Memory'
  OBVIOUS
<1>0. OtaInv'
  BY NextKeeps
<1>1. CASE Heartbeat \/ OnHealthy \/ Tick
  BY <1>0, <1>1, ConfirmRemembers
<1>2. CASE Rollback \/ OnConfirmDeadline \/ RebootIntoNewImage \/ PowerCut
  <2>1. Reboot
    BY <1>2 DEF Rollback, OnConfirmDeadline, RebootIntoNewImage, PowerCut
  <2> QED BY <2>1, RebootRemembers
<1>3. CASE \/ NotTaken
           \/ \E i \in Image : RejectUnerased(i) \/ EspOtaBegin(i)
           \/ Download \/ DownloadFails \/ Verify \/ VerifyRejects
  BY <1>0, <1>3, FetchRemembers
<1>4. CASE NotePending \/ NotePendingFails \/ SetBoot \/ SetBootFails
  BY <1>0, <1>4, CommitRemembers
<1>5. CASE SlotRots
  BY <1>5, RotRemembers
<1>6. CASE UNCHANGED otaVars
  BY <1>6 DEF otaVars, Memory, Flags, Newer, Blamed, Retried, Bars, GoodNeverBlamed,
              NoImmediateRetry, Good, Home, Installing, Announced, Running, Idle
<1> QED BY <1>1, <1>2, <1>3, <1>4, <1>5, <1>6 DEF OtaNext

\* The guard's memory is right in every reachable state.
THEOREM MemoryInvariant == OtaSpec => []Memory
  BY InitRemembers, NextRemembers, OtaInvariant, PTL DEF OtaSpec

\* An image that was confirmed here is never recorded as bad unless it has
\* stopped booting since, whatever saves of the guard's state fail.
THEOREM GoodNeverBlamedSafe == OtaSpec => []GoodNeverBlamed
<1>1. Memory => GoodNeverBlamed
  BY DEF Memory, Blamed
<1> QED BY <1>1, MemoryInvariant, PTL

\* The image the terminal has just fallen back from is not installed again
\* before another one is recorded as pending, also when the boot after the
\* fallback could not save what it found.
THEOREM NoImmediateRetrySafe == OtaSpec => []NoImmediateRetry
<1>1. Memory => NoImmediateRetry
  BY DEF Memory, Retried
<1> QED BY <1>1, MemoryInvariant, PTL
=============================================================================
