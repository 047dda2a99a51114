------------------------------- MODULE Clock --------------------------------
(***************************************************************************)
(* The terminal's clock (firmware/src/main.cpp): the RTC chip, the offset  *)
(* learned from the gateway and kept in NVS, the network task that         *)
(* corrects both when a signed request is refused for clock skew, and the  *)
(* scan task that stamps punches with them from the other core.            *)
(*                                                                         *)
(* A clock is modelled by its error in minutes against the gateway's.  A   *)
(* correction and a stamp are several reads and writes of unlocked         *)
(* variables, one step each.  g_rtcOffsetMs has 64 bits on a 32-bit core:  *)
(* while it is being assigned another core may read half of each value.    *)
(***************************************************************************)
EXTENDS Integers

CONSTANTS
    Errors,       \* errors, in minutes, an RTC may drift to
    Window,       \* the gateway's MaxSkew: errors it still accepts
    MaxDrifts,    \* bound: times the RTC drifts
    MaxCuts       \* bound: power cuts

ASSUME ClockAssumption ==
    /\ Errors \subseteq Int /\ 0 \in Errors
    /\ Window \in Nat
    /\ MaxDrifts \in Nat /\ MaxCuts \in Nat

VARIABLES
    rtcErr,       \* error of g_rtc.now()                       (the chip)
    rtcLost,      \* lostPower(): the chip's clock stopped      (the chip)
    nvsOffset,    \* the "rtc_offset" NVS entry                 (persistent)
    offset,       \* g_rtcOffsetMs                              (RAM)
    torn,         \* g_rtcOffsetMs is half written              (RAM)
    trusted,      \* g_rtcTrusted                               (RAM)
    net,          \* where the network task is in handleClockSkew
    scan,         \* where the scan task is in stamping a punch
    captured,     \* the punch's capturedEpochMs, as an error
    overlapped,   \* history: a correction ran while the punch was stamped
    punch,        \* history: the last punch stamped
    suspect,      \* history: moved, refused or restored otherwise since the
                  \* gateway accepted it
    drifts, cuts  \* history

chipVars == <<rtcErr, rtcLost>>
netVars == <<nvsOffset, offset, torn, trusted, net>>
scanVars == <<scan, captured, punch>>
clockVars == <<rtcErr, rtcLost, nvsOffset, offset, torn, trusted, net, scan,
               captured, overlapped, punch, suspect, drifts, cuts>>

\* capturedEpochMs = 0: 1970, far outside any window.
NoTime == [kind |-> "none", err |-> 0]

\* A value put together from halves of two offsets.
Garbage == [kind |-> "garbage", err |-> 0]

Time(e) == [kind |-> "clock", err |-> e]

NoPunch == [time |-> NoTime, source |-> "uptime_only", overlapped |-> FALSE,
            suspect |-> TRUE]

Within(e, bound) == -bound <= e /\ e <= bound

ClockInit ==
    /\ rtcErr \in Errors /\ rtcLost \in BOOLEAN
    /\ nvsOffset = 0 /\ offset = 0 /\ torn = FALSE
    /\ trusted = ~rtcLost
    /\ net = "idle" /\ scan = "idle"
    /\ captured = NoTime /\ overlapped = FALSE /\ punch = NoPunch
    /\ suspect = TRUE
    /\ drifts = 0 /\ cuts = 0

(***************************************************************************)
(* The network task                                                        *)
(***************************************************************************)

\* A step of a correction taints the punch that is being stamped.
Taint == overlapped' = (overlapped \/ scan # "idle")

\* addAuthHeaders signs with nowEpochMs(), or with the time since boot while
\* the RTC is not trusted; auth.Verifier compares it with the gateway's clock.
SkewAccepted == trusted /\ Within(rtcErr + offset, Window)

\* A heartbeat or a batch is answered 200.  (sendHeartbeat would then also set
\* an untrusted RTC, but the request of an untrusted one is never accepted.)
Accepted ==
    /\ net = "idle"
    /\ SkewAccepted
    /\ suspect' = FALSE
    /\ UNCHANGED <<chipVars, netVars, scanVars, overlapped, drifts, cuts>>

\* A 401 with server_time_ms: handleClockSkew assigns the new offset.  (Without
\* a server time, or with no answer, nothing changes.)
SkewOffset ==
    /\ net = "idle"
    /\ ~SkewAccepted
    /\ offset' = -rtcErr
    /\ torn' = TRUE
    /\ net' = "trust"
    /\ suspect' = TRUE
    /\ Taint
    /\ UNCHANGED <<chipVars, nvsOffset, trusted, scanVars, drifts, cuts>>

SkewTrustForgotten ==
    /\ net = "trust"
    /\ torn' = FALSE
    /\ net' = "save"
    /\ Taint
    /\ UNCHANGED <<chipVars, nvsOffset, offset, trusted, scanVars, suspect,
                   drifts, cuts>>

SkewTrust ==
    /\ net = "trust"
    /\ torn' = FALSE
    /\ trusted' = TRUE
    /\ net' = "save"
    /\ Taint
    /\ UNCHANGED <<chipVars, nvsOffset, offset, scanVars, suspect, drifts, cuts>>

\* putLong64("rtc_offset"), whose result nobody reads: a put that fails leaves
\* the entry as it was.  "beyond a minute the RTC itself is wrong".
SkewSave ==
    /\ net = "save"
    /\ nvsOffset' \in {offset, nvsOffset}
    /\ IF Within(offset, 1)
       THEN net' = "idle" /\ suspect' = FALSE
       ELSE net' = "adjust" /\ UNCHANGED suspect
    /\ Taint
    /\ UNCHANGED <<chipVars, offset, torn, trusted, scanVars, drifts, cuts>>

\* g_rtc.adjust() sets the chip and clears its lost-power flag.
SkewAdjust ==
    /\ net = "adjust"
    /\ rtcErr' = 0 /\ rtcLost' = FALSE
    /\ net' = "zero"
    /\ Taint
    /\ UNCHANGED <<nvsOffset, offset, torn, trusted, scanVars, suspect, drifts,
                   cuts>>

SkewZeroForgotten ==
    /\ net = "zero"
    /\ net' = "saveZero"
    /\ Taint
    /\ UNCHANGED <<chipVars, nvsOffset, offset, torn, trusted, scanVars, suspect,
                   drifts, cuts>>

SkewZero ==
    /\ net = "zero"
    /\ offset' = 0
    /\ torn' = TRUE
    /\ net' = "saveZero"
    /\ Taint
    /\ UNCHANGED <<chipVars, nvsOffset, trusted, scanVars, suspect, drifts, cuts>>

\* putLong64("rtc_offset", 0), which may fail unnoticed as well.
SkewSaveZero ==
    /\ net = "saveZero"
    /\ nvsOffset' \in {0, nvsOffset}
    /\ torn' = FALSE
    /\ net' = "idle" /\ suspect' = FALSE
    /\ Taint
    /\ UNCHANGED <<chipVars, offset, trusted, scanVars, drifts, cuts>>

(***************************************************************************)
(* The scan task stamps a punch                                            *)
(***************************************************************************)

\* nowEpochMs(): the trust flag, then the RTC over I2C.
StampRtc ==
    /\ scan = "idle"
    /\ scan' = "read"
    /\ captured' = IF trusted THEN Time(rtcErr) ELSE NoTime
    /\ overlapped' = (net # "idle")
    /\ UNCHANGED <<chipVars, netVars, punch, suspect, drifts, cuts>>

\* nowEpochMs(): ... + g_rtcOffsetMs.
StampOffset ==
    /\ scan = "read"
    /\ scan' = "stamped"
    /\ captured' = IF captured = NoTime THEN NoTime
                   ELSE IF torn THEN Garbage ELSE Time(captured.err + offset)
    /\ UNCHANGED <<chipVars, netVars, overlapped, punch, suspect, drifts, cuts>>

\* timeSourceCode() reads the flag and the offset once more.
SourcesByOffset == {IF offset = 0 THEN "rtc_synced" ELSE "rtc_unsynced"}

Sources ==
    IF ~trusted THEN {"uptime_only"}
    ELSE (IF offset = 0 \/ torn THEN {"rtc_synced"} ELSE {})
         \cup (IF offset # 0 \/ torn THEN {"rtc_unsynced"} ELSE {})

StampSource ==
    /\ scan = "stamped"
    /\ scan' = "idle"
    /\ \E s \in Sources :
          punch' = [time |-> captured, source |-> s,
                    overlapped |-> overlapped, suspect |-> suspect]
    /\ captured' = NoTime /\ overlapped' = FALSE
    /\ UNCHANGED <<chipVars, netVars, suspect, drifts, cuts>>

(***************************************************************************)
(* The environment                                                         *)
(***************************************************************************)

\* The RTC drifts, over days; a correction or a stamp takes milliseconds.
Drift ==
    /\ drifts < MaxDrifts
    /\ net = "idle" /\ scan = "idle"
    /\ rtcErr' \in Errors
    /\ suspect' = TRUE
    /\ drifts' = drifts + 1
    /\ UNCHANGED <<rtcLost, netVars, scanVars, overlapped, cuts>>

\* Power is cut and setup() runs again.  The RTC's battery may be dead, and the
\* offset in NVS may not be the one that was in use.
ClockPowerCut ==
    /\ cuts < MaxCuts
    /\ cuts' = cuts + 1
    /\ \/ UNCHANGED chipVars /\ suspect' = (suspect \/ nvsOffset # offset)
       \/ rtcErr' \in Errors /\ rtcLost' = TRUE /\ suspect' = TRUE
    /\ trusted' = ~rtcLost'
    /\ offset' = nvsOffset
    /\ torn' = FALSE /\ net' = "idle"
    /\ scan' = "idle" /\ captured' = NoTime /\ overlapped' = FALSE
    /\ UNCHANGED <<nvsOffset, punch, drifts>>

Correct == SkewTrust \/ SkewSave \/ SkewAdjust \/ SkewZero \/ SkewSaveZero

ClockNext ==
    \/ Accepted
    \/ SkewOffset
    \/ Correct
    \/ StampRtc
    \/ StampOffset
    \/ StampSource
    \/ Drift
    \/ ClockPowerCut

ClockSpec == ClockInit /\ [][ClockNext]_clockVars

\* Both tasks keep running.  netTask sends a heartbeat every minute and of
\* infinitely many some are answered.
ClockFairness ==
    /\ SF_clockVars(Accepted) /\ SF_clockVars(SkewOffset)
    /\ WF_clockVars(Correct)
    /\ WF_clockVars(StampOffset) /\ WF_clockVars(StampSource)

FairClockSpec == ClockSpec /\ ClockFairness

(***************************************************************************)
(* Properties                                                              *)
(***************************************************************************)

Offsets == {-e : e \in Errors}
Times == [kind : {"clock", "none", "garbage"}, err : Int]

\* The type of every variable.
ClockTypeOK ==
    /\ rtcErr \in Errors /\ rtcLost \in BOOLEAN
    /\ nvsOffset \in Offsets /\ offset \in Offsets
    /\ torn \in BOOLEAN /\ trusted \in BOOLEAN
    /\ net \in {"idle", "trust", "save", "adjust", "zero", "saveZero"}
    /\ scan \in {"idle", "read", "stamped"}
    /\ captured \in Times
    /\ overlapped \in BOOLEAN /\ suspect \in BOOLEAN
    /\ punch \in [time : Times, overlapped : BOOLEAN, suspect : BOOLEAN,
                  source : {"rtc_synced", "rtc_unsynced", "uptime_only"}]
    /\ drifts \in Nat /\ cuts \in Nat

\* Once the gateway has seen or set the clock, every punch that claims a clock
\* carries a time the gateway's window would accept, and what may spoil it is
\* named: the RTC drifts or loses its battery; a boot restores another offset
\* than the one in use, because a putLong64 failed or a cut fell between the
\* writes of a correction (both until the gateway next accepts or corrects the
\* terminal); or the punch is stamped while handleClockSkew rewrites the RTC
\* and the offset one after the other on the other core.
StampRight ==
    (~punch.overlapped /\ ~punch.suspect /\ punch.source # "uptime_only")
        => punch.time.kind = "clock" /\ Within(punch.time.err, Window)

\* A punch is labelled uptime_only, which makes the gateway reconstruct its
\* time, exactly when it carries none, unless a correction ran meanwhile.
SourceTells ==
    ~punch.overlapped => (punch.source = "uptime_only" <=> punch.time = NoTime)

\* "turns a 401 into a correction instead of a lockout": when the RTC stops
\* drifting and power stays on, the terminal ends up signing inside the window,
\* even when a cut left an offset in NVS that belongs to an RTC since adjusted.
ClockHeals == <>[](SkewAccepted /\ ~suspect)
=============================================================================
