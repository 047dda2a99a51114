------------------------------- MODULE Setup -------------------------------
(***************************************************************************)
(* Putting a terminal on the network and giving it an identity: the setup  *)
(* portal and the fall-back to it (firmware/src/wifi_provision.h,          *)
(* wifi_softap.h), the exchange of the provisioning token (provision.h),   *)
(* and the code of main.cpp that drives them: the Wi-Fi half of setup(),   *)
(* netTask up to its first signed request, the BOOT button and the serial  *)
(* commands of loop().                                                     *)
(*                                                                         *)
(* The network task and the loop task run on different cores and share     *)
(* NVS.  Each NVS write is a step, so that the other task, or a power cut, *)
(* can come between any two.                                               *)
(***************************************************************************)
EXTENDS Naturals, FiniteSetsExt

CONSTANTS
    Networks,     \* networks an installer may type in
    Tokens,       \* well-formed provisioning tokens, and the identity each buys
    Issued,       \* the tokens the gateway knows
    None,         \* an absent NVS entry
    Window,       \* PRESENCE_WIFI_FALLBACK_MS, in steps of netSleep's second
    BackoffMin, BackoffMax,
    Hold,         \* kWifiResetHoldMs, in polls of the button
    MaxTrouble    \* how many faults the environment may inject

ASSUME SetupAssumption ==
    /\ Issued \subseteq Tokens
    /\ None \notin Networks \cup Tokens
    /\ Window \in Nat \ {0} /\ Hold \in Nat \ {0}
    /\ BackoffMin \in Nat \ {0} /\ BackoffMax \in Nat
    /\ BackoffMin <= BackoffMax
    /\ MaxTrouble \in Nat

VARIABLES
    build,     \* "release", or "bench" with its serial commands
    nvs,       \* wifi_creds, ap_key, prov_token, device_id, key_version, device_secret
    net,       \* the network task: where it is and the portal it runs
    fb,        \* g_wifiFallback
    backoff,   \* g_backoffMs
    prov,      \* g_terminal.provisioned()
    station,   \* the network the station is set to, None when the radio is off
    link,      \* WiFi.status() == WL_CONNECTED
    ident,     \* the identity the running writer is storing: net or loop task
    btn,       \* the BOOT button and g_wifiReset
    loop,      \* where the loop task is
    air,       \* the networks that can be joined now
    consumed,  \* tokens the gateway has exchanged
    promise,   \* history: the form the page last called saved
    resets,    \* history: credentials erased during the current press
    trouble    \* faults injected so far

setupVars == <<build, nvs, net, fb, backoff, prov, station, link, ident, btn,
               loop, air, consumed, promise, resets, trouble>>

\* Elapsed time past this makes no difference.
SinceCap == Window + BackoffMax * 2

Identity == Tokens \cup {None}
Form == [ssid : Networks, token : Identity]
NoForm == [ssid |-> None, token |-> None]

NetPcs == {"boot", "noKey", "opening", "portal", "saveToken", "saveCreds",
           "checkCreds", "parked", "loop", "post", "id", "kv", "secret", "forget", "refused"}
LoopPcs == {"idle", "restart", "drop", "id", "kv", "secret", "check", "undo"}

SetupTypeOK ==
    /\ build \in {"release", "bench"}
    /\ nvs \in [creds : Networks \cup {None}, key : BOOLEAN, token : Identity,
                id : Identity, kv : Identity, secret : Identity]
    /\ net \in [pc : NetPcs, via : {"setup", "fallback"},
                portal : {"Idle", "Open", "Saved", "Closed"},
                field : {"Hidden", "Required", "Optional"},
                form : Form \cup {NoForm}]
    /\ fb \in [joined : BOOLEAN, since : 0 .. SinceCap]
    /\ backoff \in BackoffMin .. BackoffMax + BackoffMax \div 4
    /\ prov \in BOOLEAN /\ link \in BOOLEAN
    /\ station \in Networks \cup {None}
    /\ ident \in [net : Identity, loop : Identity]
    /\ btn \in [pressed : BOOLEAN, armed : BOOLEAN, fired : BOOLEAN, held : 0 .. Hold]
    /\ loop \in LoopPcs
    /\ air \subseteq Networks /\ consumed \subseteq Issued
    /\ promise \in Form \cup {NoForm}
    /\ resets \in 0 .. 2 /\ trouble \in 0 .. MaxTrouble

(***************************************************************************)
(* NVS.  A put or remove that reports failure may or may not have taken    *)
(* effect; one that reports success has.                                   *)
(***************************************************************************)
Fault == trouble < MaxTrouble /\ trouble' = trouble + 1
Put(e, v) == nvs' = [nvs EXCEPT ![e] = v] /\ UNCHANGED trouble
PutFails(e, v) == Fault /\ nvs' \in {nvs, [nvs EXCEPT ![e] = v]}

\* A reboot leaves RAM to setup() and keeps NVS.
Restart ==
    /\ net' = [net EXCEPT !.pc = "boot", !.portal = "Idle", !.field = "Hidden", !.form = NoForm]
    /\ loop' = "idle"
    /\ station' = None /\ link' = FALSE
    /\ ident' = [net |-> None, loop |-> None]
    /\ btn' = [btn EXCEPT !.armed = FALSE, !.fired = FALSE, !.held = 0]

(***************************************************************************)
(* setup() and the start of netTask()                                      *)
(***************************************************************************)

\* Usable credentials start the station, else the net task runs the portal.
\* The secret decides "provisioned"; a token beside it is erased.
Boot ==
    /\ net.pc = "boot"
    /\ net' = [net EXCEPT !.pc = IF nvs.creds # None THEN "loop"
                                 ELSE IF nvs.key THEN "opening" ELSE "noKey",
                          !.via = IF nvs.creds # None THEN "fallback" ELSE "setup"]
    /\ station' = nvs.creds /\ link' = FALSE
    /\ fb' = [joined |-> FALSE, since |-> 0]
    /\ backoff' = BackoffMin
    /\ prov' = (nvs.secret # None)
    /\ IF nvs.secret # None /\ nvs.token # None
       THEN Put("token", None) \/ PutFails("token", None)
       ELSE UNCHANGED <<nvs, trouble>>
    /\ UNCHANGED <<build, ident, btn, loop, air, consumed, promise, resets>>

envVars == <<build, btn, loop, air, consumed, resets>>

\* runWifiSetup() waits for setup_label.py to store a setup key.
KeyArrived ==
    /\ net.pc = "noKey" /\ nvs.key
    /\ net' = [net EXCEPT !.pc = "opening"]
    /\ UNCHANGED <<envVars, nvs, fb, backoff, prov, station, link, ident, promise, trouble>>

(***************************************************************************)
(* The setup portal                                                        *)
(***************************************************************************)
TokenFieldMode ==
    IF nvs.secret # None THEN "Hidden"
    ELSE IF nvs.token # None THEN "Optional" ELSE "Required"

\* Where runSetupPortal()'s caller goes on when the window closed unused:
\* runWifiSetup parks; fallBackToPortal rejoins the saved network with a fresh
\* window, or restarts if the network is gone.
AfterPortalParks ==
    /\ net' = [net EXCEPT !.pc = IF net.via = "setup" THEN "parked" ELSE "loop",
                          !.portal = "Closed", !.field = "Hidden"]
    /\ station' = None /\ link' = FALSE
    /\ fb' = [fb EXCEPT !.since = 0] /\ backoff' = BackoffMin
    /\ UNCHANGED <<loop, ident, btn>>

AfterPortal ==
    IF net.via = "setup"
    THEN /\ net' = [net EXCEPT !.pc = "parked", !.portal = "Closed", !.field = "Hidden"]
         /\ station' = None /\ link' = FALSE
         /\ UNCHANGED <<fb, backoff, loop, ident, btn>>
    ELSE IF nvs.creds = None
    THEN Restart /\ UNCHANGED <<fb, backoff>>
    ELSE /\ net' = [net EXCEPT !.pc = "loop", !.portal = "Closed", !.field = "Hidden"]
         /\ station' = nvs.creds /\ link' = FALSE
         /\ fb' = [fb EXCEPT !.since = 0] /\ backoff' = BackoffMin
         /\ UNCHANGED <<loop, ident, btn>>

\* runSoftApPortal(): the station stops, the access point comes up or does not.
OpenPortal ==
    /\ net.pc = "opening"
    /\ net' = [net EXCEPT !.pc = "portal", !.portal = "Open",
                          !.field = TokenFieldMode, !.form = NoForm]
    /\ station' = None /\ link' = FALSE
    /\ UNCHANGED <<envVars, nvs, fb, backoff, prov, ident, promise, trouble>>

SoftApFails ==
    /\ net.pc = "opening"
    /\ Fault /\ AfterPortal
    /\ UNCHANGED <<build, nvs, prov, air, consumed, promise, resets>>

\* handle() routes POST /save to save().  A request that is malformed, goes
\* elsewhere, fails validation or comes after the save is answered without
\* a change of state.
SavesToken(f) == net.field # "Hidden" /\ f.token # None
PostSave(f) ==
    /\ net.pc = "portal" /\ net.portal = "Open"
    /\ net.field = "Required" => f.token # None
    /\ net' = [net EXCEPT !.pc = IF SavesToken(f) THEN "saveToken" ELSE "saveCreds",
                          !.form = f]
    /\ promise' = NoForm
    /\ UNCHANGED <<envVars, nvs, fb, backoff, prov, station, link, ident, trouble>>

\* save(): the token first, the credentials last, and "Saved" only after both
\* read back; a failure answers 500 and leaves the portal open.  Nobody else
\* writes the token meanwhile, so its write and read-back are one step.
SaveTokenIgnored ==
    /\ net.pc = "saveToken"
    /\ net' = [net EXCEPT !.pc = "saveCreds"]
    /\ Put("token", net.form.token) \/ PutFails("token", net.form.token)
    /\ UNCHANGED <<envVars, fb, backoff, prov, station, link, ident, promise>>

SaveToken ==
    /\ net.pc = "saveToken"
    /\ \/ Put("token", net.form.token) /\ net' = [net EXCEPT !.pc = "saveCreds"]
       \/ /\ PutFails("token", net.form.token)
          /\ net' = [net EXCEPT !.pc = "portal", !.form = NoForm]
    /\ UNCHANGED <<envVars, fb, backoff, prov, station, link, ident, promise>>

SaveCreds ==
    /\ net.pc = "saveCreds"
    /\ \/ Put("creds", net.form.ssid) /\ net' = [net EXCEPT !.pc = "checkCreds"]
       \/ /\ PutFails("creds", net.form.ssid)
          /\ net' = [net EXCEPT !.pc = "portal", !.form = NoForm]
    /\ UNCHANGED <<envVars, fb, backoff, prov, station, link, ident, promise>>

\* The read-back of the credentials, which a held BOOT button may have erased
\* since they were written.
CheckCredsSkipped == TRUE

CredsReadBack == nvs.creds = net.form.ssid

CheckCreds ==
    /\ net.pc = "checkCreds"
    /\ \/ /\ CredsReadBack
          /\ net' = [net EXCEPT !.pc = "portal", !.portal = "Saved", !.form = NoForm]
          /\ promise' = IF SavesToken(net.form) THEN net.form
                        ELSE [net.form EXCEPT !.token = None]
          /\ UNCHANGED trouble
       \/ /\ (~CredsReadBack /\ UNCHANGED trouble) \/ Fault
          /\ net' = [net EXCEPT !.pc = "portal", !.form = NoForm]
          /\ UNCHANGED promise
    /\ UNCHANGED <<envVars, nvs, fb, backoff, prov, station, link, ident>>

\* tick(): reboot after a save, close after the window.
PortalReboot ==
    /\ net.pc = "portal" /\ net.portal = "Saved"
    /\ Restart
    /\ UNCHANGED <<build, nvs, fb, backoff, prov, air, consumed, promise, resets, trouble>>

PortalClose ==
    /\ net.pc = "portal" /\ net.portal = "Open"
    /\ AfterPortal
    /\ UNCHANGED <<build, nvs, prov, air, consumed, promise, resets, trouble>>

(***************************************************************************)
(* netTask()'s loop, up to the first request that needs the device secret  *)
(***************************************************************************)
Jitter(b) == {b, b + b \div 4}
GrownUncapped == Jitter(backoff * 2)

Grown == LET b == Min({backoff * 2, BackoffMax}) IN Jitter(b)

\* StationFallback
PortalDueOnce ==
    ~fb.joined /\ ~link /\ fb.since >= Window /\ net.portal = "Idle"

PortalDue == ~fb.joined /\ ~link /\ fb.since >= Window
UntilDue == IF fb.since >= Window THEN 0 ELSE Window - fb.since
SleepBackoffOnly == backoff

Sleep == IF fb.joined THEN backoff ELSE Max({1, Min({backoff, UntilDue})})

\* fallBackToPortal(); without a setup key the station just gets a new window.
FallBack ==
    /\ net.pc = "loop" /\ PortalDue
    /\ IF nvs.key
       THEN net' = [net EXCEPT !.pc = "opening"] /\ UNCHANGED <<fb, backoff>>
       ELSE fb' = [fb EXCEPT !.since = 0] /\ backoff' = BackoffMin /\ UNCHANGED net
    /\ UNCHANGED <<envVars, nvs, prov, station, link, ident, promise, trouble>>

RetryStation ==
    /\ net.pc = "loop" /\ ~link /\ ~PortalDue
    /\ fb' = IF fb.joined THEN fb ELSE [fb EXCEPT !.since = Min({@ + Sleep, SinceCap})]
    /\ backoff' \in Grown
    /\ UNCHANGED <<envVars, nvs, net, prov, station, link, ident, promise, trouble>>

\* Joined and provisioned: heartbeats and uploads, which Terminal and Upload model.
Online ==
    /\ net.pc = "loop" /\ link /\ prov
    /\ fb' = [joined |-> TRUE, since |-> 0] /\ backoff' = BackoffMin
    /\ UNCHANGED <<envVars, nvs, net, prov, station, link, ident, promise, trouble>>

(***************************************************************************)
(* provisionDevice() and the gateway's /v1/device/provision.               *)
(*                                                                         *)
(* handleProvision answers 501 at this commit, which is retried: ReplyRetry*)
(* alone is the exchange as deployed.  Reply200 and ReplyRefused are the   *)
(* answers docs/openapi.yaml gives the endpoint and provisionDevice already*)
(* handles; no liveness property relies on them.                           *)
(***************************************************************************)
NoToken ==
    /\ net.pc = "loop" /\ link /\ ~prov /\ nvs.token = None
    /\ fb' = [joined |-> TRUE, since |-> 0] /\ backoff' \in Grown
    /\ UNCHANGED <<envVars, nvs, net, prov, station, link, ident, promise, trouble>>

PostToken ==
    /\ net.pc = "loop" /\ link /\ ~prov /\ nvs.token # None
    /\ fb' = [joined |-> TRUE, since |-> 0]
    /\ net' = [net EXCEPT !.pc = "post"]
    /\ UNCHANGED <<envVars, nvs, backoff, prov, station, link, ident, promise, trouble>>

\* A token buys one identity, once: 200 the first time, 409 after that, 401
\* when it was never issued.  A bench terminal only ever meets the 501.
Reply200 ==
    /\ net.pc = "post" /\ link /\ build = "release"
    /\ nvs.token \in Issued \ consumed
    /\ consumed' = consumed \cup {nvs.token}
    /\ ident' = [ident EXCEPT !.net = nvs.token]
    /\ net' = [net EXCEPT !.pc = "id"]
    /\ UNCHANGED <<build, btn, loop, air, resets, nvs, fb, backoff, prov, station, link, promise, trouble>>

ReplyRefused ==
    /\ net.pc = "post" /\ link /\ build = "release"
    /\ nvs.token \notin Issued \ consumed
    /\ net' = [net EXCEPT !.pc = "refused"]
    /\ UNCHANGED <<envVars, nvs, fb, backoff, prov, station, link, ident, promise, trouble>>

ReplyRetryGivesUp ==
    /\ net.pc = "post"
    /\ net' = [net EXCEPT !.pc = "parked"]
    /\ UNCHANGED <<envVars, nvs, fb, backoff, prov, station, link, ident, promise, trouble>>

\* The 501, a 5xx or a transport error; or a 200 lost or malformed on the way.
ReplyRetry ==
    /\ net.pc = "post"
    /\ \/ UNCHANGED <<consumed, trouble>>
       \/ Fault /\ consumed' = consumed \cup ({nvs.token} \cap Issued)
    /\ net' = [net EXCEPT !.pc = "loop"] /\ backoff' \in Grown
    /\ UNCHANGED <<build, btn, loop, air, resets, nvs, fb, prov, station, link, ident, promise>>

\* storeDeviceIdentity(), write by write; the secret is the commit.
StoreNextSecretEarly == [id |-> "secret", secret |-> "kv", kv |-> "forget"]

StoreNext == [id |-> "kv", kv |-> "secret", secret |-> "forget"]

StoreIdentity ==
    /\ net.pc \in DOMAIN StoreNext
    /\ \/ /\ Put(net.pc, ident.net)
          /\ net' = [net EXCEPT !.pc = StoreNext[net.pc]]
          /\ UNCHANGED <<backoff, ident>>
       \/ /\ PutFails(net.pc, ident.net)
          /\ net' = [net EXCEPT !.pc = "loop"]
          /\ backoff' \in Grown /\ ident' = [ident EXCEPT !.net = None]
    /\ UNCHANGED <<envVars, fb, prov, station, link, promise>>

\* After the secret is stored, and after a refusal, the token is erased; the
\* result of the erase is not looked at.
ForgetToken ==
    /\ net.pc \in {"forget", "refused"}
    /\ Put("token", None) \/ PutFails("token", None)
    /\ prov' = (prov \/ net.pc = "forget")
    /\ net' = [net EXCEPT !.pc = "loop"]
    /\ IF net.pc = "forget" THEN backoff' = BackoffMin ELSE backoff' \in Grown
    /\ ident' = [ident EXCEPT !.net = None]
    /\ UNCHANGED <<envVars, fb, station, link, promise>>

(***************************************************************************)
(* loop(): the BOOT button and the serial commands                         *)
(***************************************************************************)
loopFrame == <<build, net, fb, backoff, prov, station, link, air, consumed>>

\* HoldTrigger::update() with the button released.
Release ==
    /\ loop = "idle" /\ net.pc # "boot"
    /\ btn # [pressed |-> FALSE, armed |-> TRUE, fired |-> FALSE, held |-> 0]
    /\ btn' = [pressed |-> FALSE, armed |-> TRUE, fired |-> FALSE, held |-> 0]
    /\ resets' = 0
    /\ UNCHANGED <<loopFrame, nvs, ident, loop, promise, trouble>>

\* update() with the button down: it counts only once armed by a release.
CountsAlways == TRUE

Counts == btn.armed

Press ==
    /\ loop = "idle" /\ net.pc # "boot"
    /\ btn' = [btn EXCEPT !.pressed = TRUE,
                          !.held = IF Counts THEN Min({@ + 1, Hold}) ELSE 0]
    /\ btn' # btn
    /\ UNCHANGED <<loopFrame, nvs, ident, loop, promise, resets, trouble>>

\* pollWifiReset(): the network is forgotten and the terminal restarts; a
\* failed erase does neither.
ErasedAll == [nvs EXCEPT !.creds = None, !.token = None, !.id = None, !.kv = None, !.secret = None]

Erased == [nvs EXCEPT !.creds = None]

PollWifiReset ==
    /\ loop = "idle" /\ btn.pressed /\ btn.held = Hold /\ ~btn.fired
    /\ btn' = [btn EXCEPT !.fired = TRUE]
    /\ promise' = NoForm
    /\ resets' = resets + 1
    /\ \/ nvs' = Erased /\ loop' = "restart" /\ UNCHANGED trouble
       \/ Fault /\ nvs' \in {nvs, Erased} /\ UNCHANGED loop
    /\ UNCHANGED <<loopFrame, ident>>

LoopRestart ==
    /\ loop = "restart"
    /\ Restart
    /\ UNCHANGED <<build, nvs, fb, backoff, prov, air, consumed, promise, resets, trouble>>

\* handleSetupKey(): setup_label.py stores the key of the setup network.
HandleSetupKey ==
    /\ loop = "idle" /\ net.pc # "boot" /\ ~nvs.key
    /\ Put("key", TRUE)
    /\ UNCHANGED <<loopFrame, ident, btn, loop, promise, resets>>

\* benchSecretCommand(): the old secret goes first, then the three writes, a
\* read-back of all three, and the secret goes again if anything differs.
BenchSecret(i) ==
    /\ build = "bench" /\ loop = "idle" /\ net.pc # "boot"
    /\ ident' = [ident EXCEPT !.loop = i]
    /\ loop' = IF nvs.secret # None THEN "drop" ELSE "id"
    /\ UNCHANGED <<loopFrame, nvs, btn, promise, resets, trouble>>

BenchNext == [drop |-> "id", id |-> "kv", kv |-> "secret", secret |-> "check"]
BenchEntry == [drop |-> "secret", id |-> "id", kv |-> "kv", secret |-> "secret"]
BenchFailed == [drop |-> "idle", id |-> "undo", kv |-> "undo", secret |-> "undo"]
BenchWrite ==
    /\ loop \in DOMAIN BenchNext
    /\ LET v == IF loop = "drop" THEN None ELSE ident.loop
       IN  \/ Put(BenchEntry[loop], v) /\ loop' = BenchNext[loop]
           \/ PutFails(BenchEntry[loop], v) /\ loop' = BenchFailed[loop]
    /\ UNCHANGED <<loopFrame, ident, btn, promise, resets>>

BenchCheck ==
    /\ loop = "check"
    /\ loop' = IF ident.loop = nvs.id /\ ident.loop = nvs.kv /\ ident.loop = nvs.secret
               THEN "restart" ELSE "undo"
    /\ UNCHANGED <<loopFrame, nvs, ident, btn, promise, resets, trouble>>

BenchUndo ==
    /\ loop = "undo"
    /\ Put("secret", None) \/ PutFails("secret", None)
    /\ loop' = "idle" /\ ident' = [ident EXCEPT !.loop = None]
    /\ UNCHANGED <<loopFrame, btn, promise, resets>>

(***************************************************************************)
(* Environment (external): radio, routers and power                        *)
(***************************************************************************)
Join ==
    /\ station # None /\ station \in air /\ ~link
    /\ link' = TRUE
    /\ UNCHANGED <<envVars, nvs, net, fb, backoff, prov, station, ident, promise, trouble>>

RouterChanges ==
    /\ air' \in SUBSET Networks \ {air}
    /\ link' = (link /\ station \in air')
    /\ UNCHANGED <<build, nvs, net, fb, backoff, prov, station, ident, btn, loop,
                   consumed, promise, resets, trouble>>

PowerCut ==
    /\ net.pc # "boot" /\ Fault
    /\ Restart
    /\ UNCHANGED <<build, nvs, fb, backoff, prov, air, consumed, promise, resets>>

SetupInit ==
    /\ build \in {"release", "bench"}
    /\ nvs = [creds |-> None, key |-> FALSE, token |-> None, id |-> None,
              kv |-> None, secret |-> None]
    /\ net = [pc |-> "boot", via |-> "setup", portal |-> "Idle",
              field |-> "Hidden", form |-> NoForm]
    /\ fb = [joined |-> FALSE, since |-> 0]
    /\ backoff = BackoffMin
    /\ prov = FALSE /\ station = None /\ link = FALSE
    /\ ident = [net |-> None, loop |-> None]
    /\ btn = [pressed |-> FALSE, armed |-> FALSE, fired |-> FALSE, held |-> 0]
    /\ loop = "idle" /\ air = {} /\ consumed = {}
    /\ promise = NoForm /\ resets = 0 /\ trouble = 0

NetTask ==
    \/ Boot \/ KeyArrived \/ OpenPortal \/ SoftApFails
    \/ SaveToken \/ SaveCreds \/ CheckCreds \/ PortalReboot \/ PortalClose
    \/ FallBack \/ RetryStation \/ Online
    \/ NoToken \/ PostToken \/ Reply200 \/ ReplyRefused \/ ReplyRetry
    \/ StoreIdentity \/ ForgetToken

LoopTask == LoopRestart \/ BenchWrite \/ BenchCheck \/ BenchUndo

SetupNext ==
    \/ NetTask \/ LoopTask
    \/ \E f \in Form : PostSave(f)
    \/ Release \/ Press \/ PollWifiReset \/ HandleSetupKey
    \/ \E i \in Tokens : BenchSecret(i)
    \/ Join \/ RouterChanges \/ PowerCut

SetupSpec == SetupInit /\ [][SetupNext]_setupVars

\* Both tasks are endless loops with bounded waits, and the station keeps
\* trying its network for as long as it is set to one.
FairSetupSpec ==
    /\ SetupSpec
    /\ WF_setupVars(NetTask) /\ WF_setupVars(LoopTask)
    /\ SF_setupVars(Join)

(***************************************************************************)
(* Properties                                                              *)
(***************************************************************************)

\* What the page called saved is in NVS, whatever was cut or failed since:
\* the network until BOOT is held or another form is sent, the token until
\* the gateway has decided about it (WifiPortal::save, "say SAVED only after
\* the NVS writes read back").
SavedMeansStored ==
    promise # NoForm =>
        /\ nvs.creds = promise.ssid
        /\ promise.token # None /\ build = "release" =>
              nvs.token = promise.token \/ promise.token \notin Issued \ consumed

\* A stored secret never sits beside another identity's id or key version,
\* wherever power is cut or a write fails, and whatever was there before
\* (storeDeviceIdentity, benchSecretCommand).
IdentityWhole == nvs.secret # None => nvs.id = nvs.secret /\ nvs.kv = nvs.secret

\* One press of BOOT forgets the network at most once, across the restarts it
\* causes: a stuck button cannot erase every network typed in (HoldTrigger).
OneResetPerHold == resets <= 1

\* The net task never sleeps past the fall-back deadline, however long its
\* back-off has grown (msUntilDue, netTask).
NotOverslept == ~fb.joined => fb.since <= Window

\* No hold, restart or sleep runs past the limit the code sets for it.
WithinLimits == SetupTypeOK /\ OneResetPerHold /\ NotOverslept

\* Once stored, the identity of a deployed terminal is never lost or changed:
\* not by the BOOT reset, the portal, a retried exchange or a power cut.
StaysProvisioned ==
    [][build = "release" /\ nvs.secret # None =>
          nvs'.secret = nvs.secret /\ nvs'.id = nvs.id]_setupVars

\* A saved network that stays reachable is joined again and again: no portal,
\* fall-back or restart leaves the terminal off it (StationFallback).  Only a
\* first setup whose window closed unused waits for a power cycle, as runWifiSetup
\* says; it may hold credentials the page reported as not stored.
Rejoins ==
    <>[](nvs.creds # None /\ nvs.creds \in air /\ net.pc # "parked") => []<>link

\* A saved network that is never joined keeps reopening the labelled setup
\* network, so a replaced router can be fixed (fallBackToPortal).
PortalComesBack ==
    [](build = "release") =>
        []<>(fb.joined \/ net.portal = "Open" \/ net.pc = "parked"
              \/ nvs.creds = None \/ ~nvs.key)

\* Station and portal alternate for as long as they must: the terminal is parked
\* in neither while the other is needed (StationFallback, runWifiSetup).
NeverParked == Rejoins /\ PortalComesBack

\* On a working link a terminal without a secret that holds a token posts it
\* again and again, however often it is answered 501: no portal, restart, bench
\* command or half-stored identity leaves the token lying ("retried like any
\* other transient failure", provisionDevice).
TokenPursued ==
    <>[](link /\ nvs.token # None /\ ~prov) => []<>(net.pc = "post")
=============================================================================
