------------------------------ MODULE OtaGuard ------------------------------
(***************************************************************************)
(* Over-the-air updates of the terminal: the guard that decides what may   *)
(* be installed and whether it stays (firmware/src/ota_guard.h), the flash *)
(* plumbing that installs it (main.cpp applyOta, checkFirmware), the       *)
(* confirm window (confirmHealthy, netTask's tick, the esp_timer), and the *)
(* bootloader's A/B slots as that code relies on them (external).          *)
(*                                                                         *)
(* Each write to flash, NVS or otadata is a step of its own, so that power *)
(* can be cut between any two of them.                                     *)
(***************************************************************************)
EXTENDS Naturals, FiniteSets

CONSTANTS
    MaxVersion,   \* release versions, as otaVersionCode orders them
    Builds,       \* different images signed with the same version
    MaxBroken,    \* how many of the images never reach the gateway
    Faults        \* what the environment may do

\* "cut"     power is cut
\* "outage"  a working image fails to reach the gateway inside the window
\* "nvs"     saving the "ota_state" entry fails
\* "mark"    esp_ota_mark_app_valid_cancel_rollback() fails
\* "setboot" esp_ota_set_boot_partition() fails
\* "timer"   the confirm timer cannot be armed
\* "rot"     the confirmed slot stops booting and the bootloader falls back
FaultKinds == {"cut", "outage", "nvs", "mark", "setboot", "timer", "rot"}

ASSUME OtaAssumption ==
    /\ MaxVersion \in Nat \ {0} /\ Builds \in Nat \ {0}
    /\ MaxBroken \in Nat
    /\ Faults \subseteq FaultKinds

\* An image is its signed version and its content, which the sha256 names.
Image == [version : 1 .. MaxVersion, build : 1 .. Builds]
NoImage == [version |-> 0, build |-> 0]
Factory == [version |-> 1, build |-> 1]

Side == {0, 1}
Other(s) == 1 - s

VARIABLES
    slots,        \* ota_0 and ota_1; NoImage is erased or incomplete
    selected,     \* otadata: the slot to boot                 (persistent)
    imgState,     \* otadata: its esp_ota_img_states_t         (persistent)
    nvs,          \* OtaPersistedState                         (persistent)
    st,           \* st_, the guard's copy of it               (RAM)
    running,      \* the slot this boot runs from              (RAM)
    awaiting,     \* awaiting_                                 (RAM)
    healthy,      \* healthy_                                  (RAM)
    armed,        \* deadlineArmed_                            (RAM)
    hung,         \* this boot's network task hangs            (RAM)
    available,    \* g_firmwareAvailable                       (RAM)
    rejected,     \* g_otaRejectedSha                          (RAM)
    pc, cand,     \* where the network task is, its candidate  (RAM)
    broken,       \* the images that can never be confirmed
    proven,       \* history: images that were marked valid
    rotten,       \* history: images that worked and then stopped booting
    lastFailed    \* history: the latest of them since the last pending record

flashVars == <<slots, selected, imgState>>
taskVars == <<armed, hung, available, rejected>>
histVars == <<proven, rotten, lastFailed>>
otaVars == <<slots, selected, imgState, nvs, st, running, awaiting, healthy,
             armed, hung, available, rejected, pc, cand, broken, proven,
             rotten, lastFailed>>

Persisted == [floor : 0 .. MaxVersion, pending : Image \cup {NoImage},
              bad : Image \cup {NoImage}]

Running == slots[running]
Idle == Other(running)

(***************************************************************************)
(* Guard helpers                                                           *)
(***************************************************************************)

\* NvsOtaStateStore::save: one NVS entry, written whole or not at all.
Save(s) == nvs' \in {s} \cup (IF "nvs" \in Faults THEN {nvs} ELSE {})

\* check(): may this candidate be installed?
CheckIgnoresPendingVerify(i) ==
    /\ i.version > Running.version
    /\ i.version > st.floor
    /\ i # st.bad

CheckIgnoresFloor(i) ==
    ~awaiting /\ i.version > Running.version /\ i # st.bad

CheckIgnoresBad(i) ==
    ~awaiting /\ i.version > Running.version /\ i.version > st.floor

Check(i) ==
    /\ ~awaiting
    /\ i.version > Running.version
    /\ i.version > st.floor
    /\ i # st.bad

\* begin(): what becomes of the loaded state when image i is what booted.
LoadedKeepsPending(i) == nvs

Loaded(i) ==
    IF nvs.pending # NoImage /\ nvs.pending.version # i.version
    THEN [nvs EXCEPT !.bad = nvs.pending, !.pending = NoImage]
    ELSE nvs

\* The pending record, if any, names this build.
PendingIsRunning == st.pending # NoImage /\ st.pending.version = Running.version

\* This boot's confirm window can pass without a confirmation.
Unreachable == slots[running] \in broken \/ {"outage", "mark"} \cap Faults # {}

(***************************************************************************)
(* Boot: the bootloader's choice (external), then setup() and begin()      *)
(***************************************************************************)

\* The slot the next boot runs from.  A pending image is aborted; a new one
\* gets its single trial.
BootSlot == IF imgState = "pending" THEN Other(selected) ELSE selected
BootState == IF imgState = "new" THEN "pending" ELSE "valid"

BootFrom(s, state) ==
    /\ selected' = s
    /\ imgState' = state
    /\ running' = s
    /\ st' = Loaded(slots[s])
    /\ IF st' = nvs THEN UNCHANGED nvs ELSE Save(st')
    /\ awaiting' = (state = "pending")
    /\ armed' \in {awaiting'} \cup (IF "timer" \in Faults THEN {FALSE} ELSE {})
    /\ hung' \in {FALSE} \cup (IF slots[s] \in broken THEN {TRUE} ELSE {})
    /\ healthy' = FALSE /\ available' = FALSE /\ rejected' = NoImage
    /\ pc' = "idle" /\ cand' = NoImage
    /\ UNCHANGED <<broken, proven>>

Reboot ==
    /\ BootFrom(BootSlot, BootState)
    /\ IF imgState = "pending"
       THEN lastFailed' = slots[selected]
       ELSE UNCHANGED lastFailed
    /\ UNCHANGED <<slots, rotten>>

PowerCut == "cut" \in Faults /\ Reboot

\* The confirmed image no longer boots; the bootloader takes the other slot.
SlotRots ==
    /\ "rot" \in Faults
    /\ imgState = "valid" /\ selected = running
    /\ slots[Idle] \in proven
    /\ BootFrom(Idle, "valid")
    /\ slots' = [slots EXCEPT ![running] = NoImage]
    /\ rotten' = rotten \cup {Running}
    /\ UNCHANGED lastFailed

OtaInit ==
    /\ slots = [s \in Side |-> IF s = 0 THEN Factory ELSE NoImage]
    /\ selected = 0 /\ imgState = "valid"
    /\ nvs = [floor |-> 0, pending |-> NoImage, bad |-> NoImage]
    /\ st = nvs
    /\ running = 0 /\ awaiting = FALSE /\ healthy = FALSE
    /\ armed = FALSE /\ hung = FALSE
    /\ available = FALSE /\ rejected = NoImage
    /\ pc = "idle" /\ cand = NoImage
    /\ broken \in {b \in SUBSET (Image \ {Factory}) : Cardinality(b) <= MaxBroken}
    /\ proven = {Factory} /\ rotten = {} /\ lastFailed = NoImage

(***************************************************************************)
(* The confirm window                                                      *)
(***************************************************************************)

\* sendHeartbeat() succeeds and confirmHealthy() runs onHealthy() up to and
\* including markValid().
HeartbeatFloorFirst ==
    /\ pc = "idle" /\ ~hung
    /\ Running \notin broken
    /\ available' \in BOOLEAN
    /\ nvs' = [nvs EXCEPT !.floor = Running.version]
    /\ pc' = IF healthy THEN "idle" ELSE "marked"
    /\ UNCHANGED <<flashVars, st, running, awaiting, healthy, armed, hung,
                   rejected, cand, broken, histVars>>

Heartbeat ==
    /\ pc = "idle" /\ ~hung
    /\ Running \notin broken
    /\ available' \in BOOLEAN
    /\ IF healthy
       THEN UNCHANGED <<imgState, proven, pc>>
       ELSE \/ /\ imgState' = "valid"
               /\ proven' = proven \cup {Running}
               /\ pc' = "marked"
            \/ /\ awaiting /\ "mark" \in Faults
               /\ UNCHANGED <<imgState, proven, pc>>
    /\ UNCHANGED <<slots, selected, nvs, st, running, awaiting, healthy, armed,
                   hung, rejected, cand, broken, rotten, lastFailed>>

\* The rest of onHealthy(): raise the floor and clear the pending record.
OnHealthy ==
    /\ pc = "marked"
    /\ awaiting' = FALSE /\ armed' = FALSE /\ healthy' = TRUE
    /\ st' = [st EXCEPT
                !.floor = IF Running.version > @ THEN Running.version ELSE @,
                !.pending = IF PendingIsRunning THEN NoImage ELSE @]
    /\ IF st' = st THEN UNCHANGED nvs ELSE Save(st')
    /\ pc' = "idle"
    /\ UNCHANGED <<flashVars, running, hung, available, rejected, cand, broken,
                   histVars>>

\* tick() finds the window passed: record the image as bad, then roll back.
TickIgnoresConfirmed ==
    /\ pc = "idle" /\ ~hung
    /\ Unreachable
    /\ st' = IF PendingIsRunning THEN [st EXCEPT !.bad = st.pending] ELSE st
    /\ IF st' = st THEN UNCHANGED nvs ELSE Save(st')
    /\ pc' = "rolling"
    /\ UNCHANGED <<flashVars, running, awaiting, healthy, taskVars, cand,
                   broken, histVars>>

Tick ==
    /\ pc = "idle" /\ ~hung
    /\ awaiting /\ Unreachable
    /\ st' = IF PendingIsRunning THEN [st EXCEPT !.bad = st.pending] ELSE st
    /\ IF st' = st THEN UNCHANGED nvs ELSE Save(st')
    /\ pc' = "rolling"
    /\ UNCHANGED <<flashVars, running, awaiting, healthy, taskVars, cand,
                   broken, histVars>>

\* EspBootControl::rollback
Rollback == pc = "rolling" /\ Reboot

\* onConfirmDeadline(), in the timer's context and without the lock: it may
\* fire while the network task is inside onHealthy().
OnConfirmDeadlineInTask ==
    /\ awaiting /\ armed /\ ~hung
    /\ Unreachable \/ pc = "marked"
    /\ Reboot

OnConfirmDeadline ==
    /\ awaiting /\ armed
    /\ Unreachable \/ pc = "marked"
    /\ Reboot

(***************************************************************************)
(* checkFirmware() and applyOta()                                          *)
(***************************************************************************)

\* The manifest offers nothing, or nothing check() accepts.
NotTaken ==
    /\ pc = "idle" /\ ~hung /\ available
    /\ available' = FALSE
    /\ UNCHANGED <<flashVars, nvs, st, running, awaiting, healthy, armed, hung,
                   rejected, pc, cand, broken, histVars>>

\* applyOta() refuses before erasing: no usable key, an empty image, or one
\* larger than the slot.
RejectUnerased(i) ==
    /\ pc = "idle" /\ ~hung /\ available
    /\ i # rejected
    /\ Check(i)
    /\ rejected' = i
    /\ UNCHANGED <<flashVars, nvs, st, running, awaiting, healthy, armed, hung,
                   available, pc, cand, broken, histVars>>

\* applyOta(): check(), then esp_ota_begin() erases the idle slot.
EspOtaBegin(i) ==
    /\ pc = "idle" /\ ~hung /\ available
    /\ i # rejected
    /\ Check(i)
    /\ slots' = [slots EXCEPT ![Idle] = NoImage]
    /\ cand' = i
    /\ pc' = "erased"
    /\ UNCHANGED <<selected, imgState, nvs, st, running, awaiting, healthy,
                   taskVars, broken, histVars>>

\* The stream is written to the slot; what arrived is what the server sent,
\* and flash may have changed it.
Download ==
    /\ pc = "erased"
    /\ \E i \in Image \cup {NoImage} : slots' = [slots EXCEPT ![Idle] = i]
    /\ pc' = "written"
    /\ UNCHANGED <<selected, imgState, nvs, st, running, awaiting, healthy,
                   taskVars, cand, broken, histVars>>

\* A truncated download, a failed flash write or read-back: Transient.
DownloadFails ==
    /\ pc \in {"erased", "written"}
    /\ slots' = [slots EXCEPT ![Idle] = NoImage]
    /\ pc' = "idle" /\ cand' = NoImage
    /\ UNCHANGED <<selected, imgState, nvs, st, running, awaiting, healthy,
                   taskVars, broken, histVars>>

\* esp_ota_end(), sha256 and Ed25519 over what is in flash.
Verify ==
    /\ pc = "written"
    /\ slots[Idle] = cand
    /\ pc' = "verified"
    /\ UNCHANGED <<flashVars, nvs, st, running, awaiting, healthy, taskVars,
                   cand, broken, histVars>>

\* Not an app image, another sha256, or a signature that does not verify.
VerifyRejects ==
    /\ pc = "written"
    /\ slots' = [slots EXCEPT ![Idle] = NoImage]
    /\ rejected' = cand
    /\ pc' = "idle" /\ cand' = NoImage
    /\ UNCHANGED <<selected, imgState, nvs, st, running, awaiting, healthy,
                   armed, hung, available, broken, histVars>>

\* notePending() persists the record before the image can boot.
NotePendingUnsaved ==
    /\ pc = "verified"
    /\ st' = [st EXCEPT !.pending = cand]
    /\ lastFailed' = NoImage
    /\ pc' = "noted"
    /\ UNCHANGED <<flashVars, nvs, running, awaiting, healthy, taskVars, cand,
                   broken, proven, rotten>>

NotePending ==
    /\ pc = "verified"
    /\ st' = [st EXCEPT !.pending = cand]
    /\ nvs' = st'
    /\ lastFailed' = NoImage
    /\ pc' = "noted"
    /\ UNCHANGED <<flashVars, running, awaiting, healthy, taskVars, cand,
                   broken, proven, rotten>>

NotePendingFails ==
    /\ pc = "verified"
    /\ "nvs" \in Faults
    /\ st' = [st EXCEPT !.pending = cand]
    /\ slots' = [slots EXCEPT ![Idle] = NoImage]
    /\ pc' = "idle" /\ cand' = NoImage
    /\ UNCHANGED <<selected, imgState, nvs, running, awaiting, healthy,
                   taskVars, broken, histVars>>

\* esp_ota_set_boot_partition(): the commit.
SetBoot ==
    /\ pc = "noted"
    /\ selected' = Idle
    /\ imgState' = "new"
    /\ pc' = "committed"
    /\ UNCHANGED <<slots, nvs, st, running, awaiting, healthy, taskVars, cand,
                   broken, histVars>>

SetBootFails ==
    /\ pc = "noted"
    /\ "setboot" \in Faults
    /\ st' = [st EXCEPT !.pending = NoImage]
    /\ Save(st')
    /\ slots' = [slots EXCEPT ![Idle] = NoImage]
    /\ pc' = "idle" /\ cand' = NoImage
    /\ UNCHANGED <<selected, imgState, running, awaiting, healthy, taskVars,
                   broken, histVars>>

RebootIntoNewImage == pc = "committed" /\ Reboot

OtaNext ==
    \/ Heartbeat
    \/ OnHealthy
    \/ Tick
    \/ Rollback
    \/ OnConfirmDeadline
    \/ NotTaken
    \/ \E i \in Image : RejectUnerased(i) \/ EspOtaBegin(i)
    \/ Download
    \/ DownloadFails
    \/ Verify
    \/ VerifyRejects
    \/ NotePending
    \/ NotePendingFails
    \/ SetBoot
    \/ SetBootFails
    \/ RebootIntoNewImage
    \/ PowerCut
    \/ SlotRots

OtaSpec == OtaInit /\ [][OtaNext]_otaVars

(***************************************************************************)
(* Fairness: the network task and the timer keep running.  Nothing makes   *)
(* an update start or a download succeed.                                  *)
(***************************************************************************)
OtaFairness ==
    /\ WF_otaVars(OnHealthy) /\ WF_otaVars(Tick) /\ WF_otaVars(Rollback)
    /\ WF_otaVars(OnConfirmDeadline) /\ WF_otaVars(Heartbeat)
    /\ WF_otaVars(RebootIntoNewImage)

FairOtaSpec == OtaSpec /\ OtaFairness

(***************************************************************************)
(* Properties                                                              *)
(***************************************************************************)

\* The type of every variable.
OtaTypeOK ==
    /\ slots \in [Side -> Image \cup {NoImage}]
    /\ selected \in Side /\ running \in Side
    /\ imgState \in {"new", "pending", "valid"}
    /\ nvs \in Persisted /\ st \in Persisted
    /\ {awaiting, healthy, armed, hung, available} \subseteq BOOLEAN
    /\ rejected \in Image \cup {NoImage} /\ cand \in Image \cup {NoImage}
    /\ pc \in {"idle", "marked", "rolling", "erased", "written", "verified",
               "noted", "committed"}
    /\ broken \subseteq Image /\ proven \subseteq Image /\ rotten \subseteq proven
    /\ lastFailed \in Image \cup {NoImage}

\* Whenever power is cut, the slot that boots next holds a complete image, and
\* if that image has never worked here the other slot holds one that has
\* (applyOta: "Every failure path returns before" the commit; ota_guard.h:
\* never overwrite "the only image known to work").
PowerCutSafe ==
    /\ slots[BootSlot] # NoImage
    /\ slots[BootSlot] \notin proven =>
          imgState = "new" /\ slots[Other(BootSlot)] \in proven

\* Until an image is confirmed, NVS names it, so that a fallback is noticed on
\* the next boot whatever happens in between.
TrialRecorded ==
    imgState \in {"new", "pending"} => nvs.pending = slots[selected]

\* The floor never stands above what has worked on this terminal: marking valid
\* comes before raising the floor.
FloorProven ==
    \A s \in {nvs, st} :
        s.floor # 0 => \E i \in proven : i.version = s.floor

\* An image that was confirmed is never remembered as bad, unless it has since
\* stopped booting.
GoodNeverBlamed == {nvs.bad, st.bad} \cap proven \subseteq rotten

\* An image the terminal has just fallen back from is not installed again
\* before another image has been recorded as pending.
NoImmediateRetry ==
    pc \in {"erased", "written", "verified"} => cand # lastFailed


\* What becomes bootable is newer than every version whose floor reached NVS,
\* also after the bootloader fell back to an older slot.
NoDowngrade ==
    [][(imgState' = "new" /\ imgState # "new")
          => slots'[selected'].version > nvs.floor]_otaVars

\* A new image is confirmed or rolled back, also when its network task hangs or
\* its timer cannot be armed; both at once leave it to the next power cut.
Decided == awaiting /\ (armed \/ ~hung) ~> ~awaiting

\* What may take a proven image down: a power cut, a slot that rots, or a trial
\* that a working image does not get through.
Disturbed ==
    \/ Reboot /\ pc \notin {"rolling", "committed"}
              /\ ~(OnConfirmDeadline /\ Running \in broken)
    \/ SlotRots
    \/ Tick /\ Running \notin broken

\* With one broken release the terminal stops changing images once nothing
\* disturbs it any more: it does not download, boot, fail and roll back for ever.
Settles == <>[][~Disturbed]_otaVars => <>[][selected' = selected]_otaVars
=============================================================================
