---------------------------- MODULE SetupProofs ----------------------------
(***************************************************************************)
(* The setup portal, the token exchange and the two tasks' writes to NVS,  *)
(* for any networks, tokens, windows and back-offs and any number of       *)
(* faults.                                                                 *)
(*                                                                         *)
(* What NVS holds after a cut depends on which task is in the middle of    *)
(* which write: Owners says that only one of them ever stores an identity, *)
(* Storing what it has written so far, Spent that a terminal with a secret *)
(* holds no token the gateway would still exchange.                        *)
(***************************************************************************)
EXTENDS Setup, TLAPS

\* The gateway would exchange the stored token for an identity.
Exchangeable == nvs.token \in Issued \ consumed

\* A deployed terminal has no serial commands and a bench terminal's gateway
\* never answers with an identity: only one task stores one.
Owners ==
    /\ build = "release" => loop \in {"idle", "restart"}
    /\ build = "bench" => net.pc \notin {"id", "kv", "secret", "forget", "refused"}

\* How far storeDeviceIdentity(), or benchSecretCommand(), has come.
NetStoring ==
    net.pc \in {"id", "kv", "secret"} =>
        /\ nvs.secret = None
        /\ net.pc \in {"kv", "secret"} => nvs.id = ident.net
        /\ net.pc = "secret" => nvs.kv = ident.net

LoopStoring ==
    loop \in {"id", "kv", "secret"} =>
        /\ nvs.secret = None
        /\ loop \in {"kv", "secret"} => nvs.id = ident.loop
        /\ loop = "secret" => nvs.kv = ident.loop

\* A deployed terminal that has, or is storing, an identity keeps no token
\* the gateway would still exchange, and its portal has no token field.
Spent ==
    build = "release" =>
        /\ nvs.secret # None => ~Exchangeable
        /\ net.pc \in {"id", "kv", "secret", "forget", "refused"} => ~Exchangeable
        /\ net.pc \in {"portal", "saveToken", "saveCreds", "checkCreds"} /\ net.field # "Hidden"
              => nvs.secret = None

IdentityInv == Owners /\ NetStoring /\ LoopStoring /\ Spent /\ IdentityWhole

\* While save() runs nothing is promised yet, and the token is stored first.
Saving ==
    /\ net.pc \in {"saveToken", "saveCreds", "checkCreds"} => promise = NoForm
    /\ net.pc = "saveToken" => SavesToken(net.form)
    /\ net.pc \in {"saveCreds", "checkCreds"} /\ SavesToken(net.form)
          => nvs.token = net.form.token

\* A press counts only after a release, and after a reset only after another.
Pressing ==
    /\ btn.held > 0 => btn.armed
    /\ resets > 0 => btn.fired \/ ~btn.armed

SetupInv ==
    /\ SetupTypeOK /\ IdentityInv
    /\ Saving /\ SavedMeansStored
    /\ Pressing /\ OneResetPerHold /\ NotOverslept

-----------------------------------------------------------------------------

\* The smaller and the larger of two numbers.
LEMMA MinOfTwo ==
    ASSUME NEW a \in Nat, NEW b \in Nat
    PROVE  Min({a, b}) \in {a, b} /\ Min({a, b}) <= a /\ Min({a, b}) <= b
<1>1. \E x \in {a, b} : \A y \in {a, b} : x <= y
  BY SMT
<1> QED BY <1>1 DEF Min

LEMMA MaxOfTwo ==
    ASSUME NEW a \in Nat, NEW b \in Nat
    PROVE  Max({a, b}) \in {a, b} /\ Max({a, b}) >= a /\ Max({a, b}) >= b
<1>1. \E x \in {a, b} : \A y \in {a, b} : x >= y
  BY SMT
<1> QED BY <1>1 DEF Max

\* A back-off within its limits grows to one within its limits.
LEMMA GrownBounded ==
    ASSUME SetupTypeOK
    PROVE  Grown \subseteq BackoffMin .. BackoffMax + BackoffMax \div 4
<1>1. backoff \in Nat /\ backoff * 2 \in Nat /\ backoff >= BackoffMin
  BY SetupAssumption DEF SetupTypeOK
<1>2. PICK b \in Nat : b = Min({backoff * 2, BackoffMax}) /\ BackoffMin <= b /\ b <= BackoffMax
  <2>1. BackoffMax \in Nat /\ BackoffMin \in Nat /\ BackoffMin <= BackoffMax
    BY SetupAssumption
  <2> QED BY <1>1, <2>1, MinOfTwo
<1>3. b \div 4 \in Nat /\ b \div 4 <= BackoffMax \div 4
  BY <1>2, SetupAssumption
<1>4. b + b \div 4 \in BackoffMin .. BackoffMax + BackoffMax \div 4
  BY <1>2, <1>3, SetupAssumption
<1>5. b \in BackoffMin .. BackoffMax + BackoffMax \div 4
  BY <1>2, SetupAssumption
<1> QED BY <1>2, <1>4, <1>5 DEF Grown, Jitter

\* The first back-off is within the limits.
LEMMA FirstBackoff == BackoffMin \in BackoffMin .. BackoffMax + BackoffMax \div 4
  BY SetupAssumption

\* A retry of the station that starts inside the fall-back window ends there.
LEMMA SleepBounded ==
    ASSUME SetupTypeOK, ~fb.joined, fb.since < Window
    PROVE  /\ Min({fb.since + Sleep, SinceCap}) \in 0 .. SinceCap
           /\ Min({fb.since + Sleep, SinceCap}) <= Window
<1>1. /\ backoff \in Nat /\ fb.since \in Nat /\ Window \in Nat /\ SinceCap \in Nat
      /\ Window <= SinceCap
  BY SetupAssumption DEF SetupTypeOK, SinceCap
<1>2. UntilDue = Window - fb.since /\ UntilDue \in Nat /\ UntilDue >= 1
  BY <1>1 DEF UntilDue
<1>3. PICK m \in Nat : m = Min({backoff, UntilDue}) /\ m <= UntilDue
  BY <1>1, <1>2, MinOfTwo
<1>4. Max({1, m}) \in {1, m}
  BY MaxOfTwo
<1>5. Sleep \in Nat /\ Sleep <= UntilDue
  BY <1>2, <1>3, <1>4 DEF Sleep
<1>6. fb.since + Sleep \in Nat /\ fb.since + Sleep <= Window
  BY <1>1, <1>2, <1>5
<1> QED BY <1>1, <1>6, MinOfTwo

-----------------------------------------------------------------------------

\* The entries of NVS and the state of the network task.
NvsType == [creds : Networks \cup {None}, key : BOOLEAN, token : Identity,
            id : Identity, kv : Identity, secret : Identity]
NetType == [pc : NetPcs, via : {"setup", "fallback"},
            portal : {"Idle", "Open", "Saved", "Closed"},
            field : {"Hidden", "Required", "Optional"},
            form : Form \cup {NoForm}]

\* A restart leaves every variable it sets a value of its type.
LEMMA RestartTypes ==
    ASSUME SetupTypeOK, Restart
    PROVE  /\ net' \in NetType /\ loop' \in LoopPcs
           /\ station' \in Networks \cup {None} /\ link' \in BOOLEAN
           /\ ident' \in [net : Identity, loop : Identity]
           /\ btn' \in [pressed : BOOLEAN, armed : BOOLEAN, fired : BOOLEAN, held : 0 .. Hold]
<1>1. net' \in NetType
  BY DEF SetupTypeOK, Restart, NetType, NetPcs
<1>2. ident' \in [net : Identity, loop : Identity]
  BY DEF Restart, Identity
<1>3. btn' \in [pressed : BOOLEAN, armed : BOOLEAN, fired : BOOLEAN, held : 0 .. Hold]
  <2>1. /\ 0 \in 0 .. Hold
        /\ btn \in [pressed : BOOLEAN, armed : BOOLEAN, fired : BOOLEAN, held : 0 .. Hold]
        /\ btn' = [btn EXCEPT !.armed = FALSE, !.fired = FALSE, !.held = 0]
    BY SetupAssumption DEF SetupTypeOK, Restart
  <2> QED BY ONLY <2>1
<1> QED BY <1>1, <1>2, <1>3 DEF Restart, LoopPcs

\* A counted fault is within its bound.
LEMMA FaultType ==
    ASSUME SetupTypeOK, Fault
    PROVE  trouble' \in 0 .. MaxTrouble
  BY SetupAssumption DEF SetupTypeOK, Fault

\* So is the outcome of a portal that closed unused.
LEMMA AfterPortalTypes ==
    ASSUME SetupTypeOK, AfterPortal
    PROVE  /\ net' \in NetType /\ loop' \in LoopPcs
           /\ station' \in Networks \cup {None} /\ link' \in BOOLEAN
           /\ ident' \in [net : Identity, loop : Identity]
           /\ btn' \in [pressed : BOOLEAN, armed : BOOLEAN, fired : BOOLEAN, held : 0 .. Hold]
           /\ fb' \in [joined : BOOLEAN, since : 0 .. SinceCap]
           /\ backoff' \in BackoffMin .. BackoffMax + BackoffMax \div 4
<1>1. CASE net.via = "setup"
  <2>1. net' \in NetType
    <3>1. /\ net \in NetType
          /\ net' = [net EXCEPT !.pc = "parked", !.portal = "Closed", !.field = "Hidden"]
      BY <1>1 DEF SetupTypeOK, AfterPortal, NetType
    <3> QED BY ONLY <3>1 DEF NetType, NetPcs
  <2> QED BY <1>1, <2>1 DEF SetupTypeOK, AfterPortal
<1>2. CASE net.via # "setup" /\ nvs.creds = None
  BY <1>2, RestartTypes DEF SetupTypeOK, AfterPortal
<1>3. CASE net.via # "setup" /\ nvs.creds # None
  <2>1. net' \in NetType
    <3>1. /\ net \in NetType
          /\ net' = [net EXCEPT !.pc = "loop", !.portal = "Closed", !.field = "Hidden"]
      BY <1>3 DEF SetupTypeOK, AfterPortal, NetType
    <3> QED BY ONLY <3>1 DEF NetType, NetPcs
  <2>2. fb' \in [joined : BOOLEAN, since : 0 .. SinceCap]
    BY <1>3, SetupAssumption DEF SetupTypeOK, AfterPortal, SinceCap
  <2> QED BY <1>3, <2>1, <2>2, FirstBackoff DEF SetupTypeOK, AfterPortal
<1> QED BY <1>1, <1>2, <1>3

\* Every step of the network task keeps the types.
LEMMA NetTypes ==
    ASSUME SetupTypeOK, NetTask
    PROVE  SetupTypeOK'
<1> USE DEF SetupTypeOK, NetPcs, envVars
<1>z. 0 \in 0 .. SinceCap
  BY SetupAssumption DEF SinceCap
<1>1. CASE Boot
  <2>1. nvs' \in NvsType /\ trouble' \in 0 .. MaxTrouble
    BY <1>1, FaultType DEF Boot, Put, PutFails, Identity, NvsType
  <2> QED BY <1>1, <2>1, <1>z, FirstBackoff DEF Boot, NvsType
<1>2. CASE KeyArrived
  BY <1>2 DEF KeyArrived
<1>3. CASE OpenPortal
  <2>1. /\ net \in NetType /\ TokenFieldMode \in {"Hidden", "Required", "Optional"}
        /\ net' = [net EXCEPT !.pc = "portal", !.portal = "Open",
                              !.field = TokenFieldMode, !.form = NoForm]
    BY <1>3 DEF OpenPortal, TokenFieldMode, NetType
  <2>2. net' \in NetType
    BY ONLY <2>1 DEF NetType, NetPcs
  <2> QED BY <1>3, <2>2 DEF OpenPortal, NetType
<1>4. CASE SoftApFails
  BY <1>4, FaultType, AfterPortalTypes DEF SoftApFails, NetType
<1>5. CASE SaveToken
  <2>1. net.form.token \in Identity
    BY DEF Form, NoForm, Identity
  <2>2. nvs' \in NvsType /\ trouble' \in 0 .. MaxTrouble
    BY <1>5, <2>1, FaultType DEF SaveToken, Put, PutFails, NvsType
  <2>3. net' \in NetType
    <3>1. net \in NetType /\ "portal" \in NetPcs /\ "saveCreds" \in NetPcs
      BY DEF NetType
    <3>2. CASE net' = [net EXCEPT !.pc = "saveCreds"]
      BY ONLY <3>1, <3>2 DEF NetType
    <3>3. CASE net' = [net EXCEPT !.pc = "portal", !.form = NoForm]
      BY ONLY <3>1, <3>3 DEF NetType
    <3> QED BY <1>5, <3>2, <3>3 DEF SaveToken
  <2> QED BY <1>5, <2>2, <2>3 DEF SaveToken, NvsType, NetType
<1>6. CASE SaveCreds
  <2>1. net.form.ssid \in Networks \cup {None}
    BY DEF Form, NoForm
  <2>2. nvs' \in NvsType /\ trouble' \in 0 .. MaxTrouble
    BY <1>6, <2>1, FaultType DEF SaveCreds, Put, PutFails, NvsType
  <2>3. net' \in NetType
    <3>1. net \in NetType /\ "portal" \in NetPcs /\ "checkCreds" \in NetPcs
      BY DEF NetType
    <3>2. CASE net' = [net EXCEPT !.pc = "checkCreds"]
      BY ONLY <3>1, <3>2 DEF NetType
    <3>3. CASE net' = [net EXCEPT !.pc = "portal", !.form = NoForm]
      BY ONLY <3>1, <3>3 DEF NetType
    <3> QED BY <1>6, <3>2, <3>3 DEF SaveCreds
  <2> QED BY <1>6, <2>2, <2>3 DEF SaveCreds, NvsType, NetType
<1>19. CASE CheckCreds
  <2>1. trouble' \in 0 .. MaxTrouble
    BY <1>19, FaultType DEF CheckCreds
  <2>2. promise' \in Form \cup {NoForm}
    BY <1>19 DEF CheckCreds, Form, NoForm, Identity
  <2>3. net' \in NetType
    <3>1. net \in NetType /\ "portal" \in NetPcs
      BY DEF NetType
    <3>2. CASE net' = [net EXCEPT !.pc = "portal", !.portal = "Saved", !.form = NoForm]
      BY ONLY <3>1, <3>2 DEF NetType
    <3>3. CASE net' = [net EXCEPT !.pc = "portal", !.form = NoForm]
      BY ONLY <3>1, <3>3 DEF NetType
    <3> QED BY <1>19, <3>2, <3>3 DEF CheckCreds
  <2> QED BY <1>19, <2>1, <2>2, <2>3 DEF CheckCreds, NetType
<1>7. CASE PortalReboot
  BY <1>7, RestartTypes DEF PortalReboot, NetType
<1>8. CASE PortalClose
  BY <1>8, AfterPortalTypes DEF PortalClose, NetType
<1>9. CASE FallBack
  BY <1>9, <1>z, FirstBackoff DEF FallBack
<1>10. CASE RetryStation
  <2>1. backoff' \in BackoffMin .. BackoffMax + BackoffMax \div 4
    BY <1>10, GrownBounded DEF RetryStation
  <2>2. fb' \in [joined : BOOLEAN, since : 0 .. SinceCap]
    <3>1. CASE fb.joined
      BY <1>10, <3>1 DEF RetryStation
    <3>2. CASE ~fb.joined
      <4>1. fb.since < Window
        BY <1>10, <3>2, SetupAssumption DEF RetryStation, PortalDue, SinceCap
      <4>2. Min({fb.since + Sleep, SinceCap}) \in 0 .. SinceCap
        BY <3>2, <4>1, SleepBounded
      <4> QED BY <1>10, <3>2, <4>2 DEF RetryStation
    <3> QED BY <3>1, <3>2
  <2> QED BY <1>10, <2>1, <2>2 DEF RetryStation
<1>11. CASE Online
  BY <1>11, <1>z, FirstBackoff DEF Online
<1>12. CASE NoToken
  BY <1>12, <1>z, GrownBounded DEF NoToken
<1>13. CASE PostToken
  BY <1>13, <1>z DEF PostToken
<1>14. CASE Reply200
  BY <1>14 DEF Reply200, Identity
<1>15. CASE ReplyRefused
  BY <1>15 DEF ReplyRefused
<1>16. CASE ReplyRetry
  <2>1. trouble' \in 0 .. MaxTrouble /\ consumed' \subseteq Issued
    BY <1>16, FaultType DEF ReplyRetry
  <2> QED BY <1>16, <2>1, GrownBounded DEF ReplyRetry
<1>17. CASE StoreIdentity
  <2>1. nvs' \in NvsType /\ trouble' \in 0 .. MaxTrouble
    <3>1. net.pc \in {"id", "kv", "secret"} /\ ident.net \in Identity
      BY <1>17 DEF StoreIdentity, StoreNext
    <3> QED BY <1>17, <3>1, FaultType DEF StoreIdentity, Put, PutFails, NvsType
  <2>2. net' \in NetType
    BY <1>17 DEF StoreIdentity, StoreNext, NetType
  <2> QED BY <1>17, <2>1, <2>2, GrownBounded DEF StoreIdentity, NvsType, NetType, Identity
<1>18. CASE ForgetToken
  <2>1. nvs' \in NvsType /\ trouble' \in 0 .. MaxTrouble
    BY <1>18, FaultType DEF ForgetToken, Put, PutFails, NvsType, Identity
  <2>2. prov' \in BOOLEAN
    BY <1>18 DEF ForgetToken
  <2> QED BY <1>18, <2>1, <2>2, GrownBounded, FirstBackoff DEF ForgetToken, NvsType, Identity
<1> QED BY <1>1, <1>2, <1>3, <1>4, <1>5, <1>6, <1>7, <1>8, <1>9, <1>10, <1>11,
           <1>12, <1>13, <1>14, <1>15, <1>16, <1>17, <1>18, <1>19 DEF NetTask

\* So does every step of the loop task, the installer and the environment.
LEMMA OtherTypes ==
    ASSUME SetupTypeOK, OneResetPerHold, SetupNext, ~NetTask
    PROVE  SetupTypeOK'
<1> USE DEF SetupTypeOK, LoopPcs
<1>1. CASE LoopRestart
  BY <1>1, RestartTypes DEF LoopRestart, NetType
<1>2. CASE BenchWrite
  <2>1. /\ BenchEntry[loop] \in {"id", "kv", "secret"}
        /\ BenchNext[loop] \in LoopPcs /\ BenchFailed[loop] \in LoopPcs
    BY <1>2 DEF BenchWrite, BenchEntry, BenchNext, BenchFailed
  <2>2. nvs' \in NvsType /\ trouble' \in 0 .. MaxTrouble
    BY <1>2, <2>1, FaultType DEF BenchWrite, Put, PutFails, NvsType, Identity
  <2> QED BY <1>2, <2>1, <2>2 DEF BenchWrite, NvsType, loopFrame
<1>3. CASE BenchCheck
  BY <1>3 DEF BenchCheck, loopFrame
<1>4. CASE BenchUndo
  <2>1. nvs' \in NvsType /\ trouble' \in 0 .. MaxTrouble
    BY <1>4, FaultType DEF BenchUndo, Put, PutFails, NvsType, Identity
  <2> QED BY <1>4, <2>1 DEF BenchUndo, NvsType, loopFrame, Identity
<1>5. ASSUME NEW f \in Form, PostSave(f) PROVE SetupTypeOK'
  <2>1. net \in NetType /\ {"saveToken", "saveCreds"} \subseteq NetPcs
    BY DEF NetType, NetPcs
  <2>2. net' = [net EXCEPT !.pc = IF SavesToken(f) THEN "saveToken" ELSE "saveCreds",
                           !.form = f]
    BY <1>5 DEF PostSave
  <2>3. net' \in NetType
    BY ONLY <1>5, <2>1, <2>2 DEF NetType
  <2> QED BY <1>5, <2>3 DEF PostSave, NetType, envVars
<1>6. CASE Release
  <2>1. 0 \in 0 .. Hold
    BY SetupAssumption
  <2> QED BY <1>6, <2>1 DEF Release, loopFrame
<1>7. CASE Press
  <2>1. btn.held \in Nat /\ btn.held + 1 \in Nat /\ Hold \in Nat /\ 0 \in 0 .. Hold
    BY SetupAssumption
  <2>2. Min({btn.held + 1, Hold}) \in 0 .. Hold
    BY <2>1, MinOfTwo
  <2>3. btn' \in [pressed : BOOLEAN, armed : BOOLEAN, fired : BOOLEAN, held : 0 .. Hold]
    <3>1. PICK h \in 0 .. Hold : btn' = [btn EXCEPT !.pressed = TRUE, !.held = h]
      BY <1>7, <2>1, <2>2 DEF Press
    <3> QED BY <3>1
  <2> QED BY <1>7, <2>3 DEF Press, loopFrame
<1>8. CASE PollWifiReset
  <2>1. nvs' \in NvsType /\ trouble' \in 0 .. MaxTrouble
    <3>1. nvs' \in {nvs, Erased} /\ nvs \in NvsType /\ (UNCHANGED trouble \/ Fault)
      BY <1>8 DEF PollWifiReset, NvsType
    <3>2. Erased \in NvsType
      BY DEF Erased, NvsType
    <3> QED BY <3>1, <3>2, FaultType
  <2>2. resets' \in 0 .. 2
    BY <1>8 DEF PollWifiReset, OneResetPerHold
  <2>3. btn' \in [pressed : BOOLEAN, armed : BOOLEAN, fired : BOOLEAN, held : 0 .. Hold]
    BY <1>8 DEF PollWifiReset
  <2>4. loop' \in LoopPcs /\ promise' \in Form \cup {NoForm}
    BY <1>8 DEF PollWifiReset
  <2>5. UNCHANGED <<loopFrame, ident>>
    BY <1>8 DEF PollWifiReset
  <2> QED BY <2>1, <2>2, <2>3, <2>4, <2>5 DEF NvsType, loopFrame
<1>9. CASE HandleSetupKey
  <2>1. nvs \in NvsType /\ nvs' = [nvs EXCEPT !.key = TRUE] /\ UNCHANGED trouble
    BY <1>9 DEF HandleSetupKey, Put, NvsType
  <2>2. nvs' \in NvsType
    BY ONLY <2>1 DEF NvsType
  <2> QED BY <1>9, <2>1, <2>2 DEF HandleSetupKey, NvsType, loopFrame
<1>10. ASSUME NEW i \in Tokens, BenchSecret(i) PROVE SetupTypeOK'
  BY <1>10 DEF BenchSecret, Identity, loopFrame
<1>11. CASE Join
  BY <1>11 DEF Join, envVars
<1>12. CASE RouterChanges
  <2>1. link' \in BOOLEAN
    BY <1>12 DEF RouterChanges
  <2> QED BY <1>12, <2>1 DEF RouterChanges
<1>13. CASE PowerCut
  BY <1>13, RestartTypes, FaultType DEF PowerCut, NetType
<1> QED BY <1>1, <1>2, <1>3, <1>4, <1>5, <1>6, <1>7, <1>8, <1>9, <1>10, <1>11,
           <1>12, <1>13 DEF SetupNext, LoopTask

-----------------------------------------------------------------------------

\* A step that writes no identity and leaves the token alone keeps IdentityInv,
\* provided the tasks end up outside their writes (a restart above all).
LEMMA QuietIdentity ==
    ASSUME SetupTypeOK, IdentityInv, build' = build,
           nvs'.secret = nvs.secret, nvs'.id = nvs.id, nvs'.kv = nvs.kv,
           nvs'.token \in {nvs.token, None}, consumed \subseteq consumed',
           net'.pc \notin {"id", "kv", "secret", "forget", "refused"},
           net'.pc \in {"portal", "saveToken", "saveCreds", "checkCreds"} /\ net'.field # "Hidden"
              => nvs.secret = None \/ build # "release",
           \/ loop' = loop /\ ident'.loop = ident.loop
           \/ loop' \in {"idle", "restart"}
    PROVE  IdentityInv'
<1>1. None \notin Issued
  BY SetupAssumption
<1>2. Owners'
  BY DEF IdentityInv, Owners
<1>3. NetStoring'
  BY DEF NetStoring
<1>4. LoopStoring'
  BY DEF IdentityInv, LoopStoring
<1>5. Spent'
  BY <1>1 DEF IdentityInv, Spent, Exchangeable
<1>6. IdentityWhole'
  BY DEF IdentityInv, IdentityWhole
<1> QED BY <1>2, <1>3, <1>4, <1>5, <1>6 DEF IdentityInv

\* A step outside the network task that touches neither its state, nor the
\* token, nor an identity.
LEMMA BesideIdentity ==
    ASSUME SetupTypeOK, IdentityInv, build' = build, net' = net,
           nvs'.secret = nvs.secret, nvs'.id = nvs.id, nvs'.kv = nvs.kv,
           nvs'.token = nvs.token, consumed' = consumed, ident'.net = ident.net,
           \/ loop' = loop /\ ident'.loop = ident.loop
           \/ loop' \in {"idle", "restart"}
    PROVE  IdentityInv'
<1>1. Owners'
  BY DEF IdentityInv, Owners
<1>2. NetStoring'
  BY DEF IdentityInv, NetStoring
<1>3. LoopStoring'
  BY DEF IdentityInv, LoopStoring
<1>4. Spent'
  BY DEF IdentityInv, Spent, Exchangeable
<1>5. IdentityWhole'
  BY DEF IdentityInv, IdentityWhole
<1> QED BY <1>1, <1>2, <1>3, <1>4, <1>5 DEF IdentityInv

\* The identity a terminal has, or is storing, is never mixed: the network task.
LEMMA NetIdentity ==
    ASSUME SetupTypeOK, IdentityInv, Saving, NetTask
    PROVE  IdentityInv'
<1> USE DEF envVars
<1>n. None \notin Issued
  BY SetupAssumption
<1>t. /\ nvs \in NvsType /\ net \in NetType
      /\ ident \in [net : Identity, loop : Identity]
  BY DEF SetupTypeOK, NvsType, NetType
<1>r. /\ Restart => net'.pc = "boot" /\ loop' = "idle"
      /\ AfterPortal => /\ net'.pc \in {"boot", "parked", "loop"}
                        /\ \/ loop' = loop /\ ident' = ident
                           \/ loop' = "idle"
  BY <1>t DEF Restart, AfterPortal, NetType
<1>1. CASE Boot
  <2>1. net'.pc \in {"loop", "opening", "noKey"}
    BY <1>1, <1>t DEF Boot, NetType
  <2>2. /\ nvs'.secret = nvs.secret /\ nvs'.id = nvs.id /\ nvs'.kv = nvs.kv
        /\ nvs'.token \in {nvs.token, None}
    BY <1>1, <1>t DEF Boot, Put, PutFails, NvsType
  <2> QED BY <1>1, <2>1, <2>2, QuietIdentity DEF Boot
<1>2. CASE KeyArrived
  <2>1. net'.pc = "opening"
    BY <1>2, <1>t DEF KeyArrived, NetType
  <2> QED BY <1>2, <2>1, QuietIdentity DEF KeyArrived
<1>3. CASE OpenPortal
  <2>1. net'.pc = "portal" /\ net'.field = TokenFieldMode
    BY <1>3, <1>t DEF OpenPortal, NetType
  <2> QED BY <1>3, <2>1, QuietIdentity DEF OpenPortal, TokenFieldMode
<1>4. CASE SoftApFails
  BY <1>4, <1>r, QuietIdentity DEF SoftApFails
<1>5. CASE SaveToken
  <2>1. net'.pc \in {"portal", "saveCreds"} /\ net'.field = net.field
    BY <1>5, <1>t DEF SaveToken, NetType
  <2>2. build = "release" => nvs.secret = None
    BY <1>5 DEF SaveToken, Saving, SavesToken, IdentityInv, Spent
  <2>3. nvs'.secret = nvs.secret /\ nvs'.id = nvs.id /\ nvs'.kv = nvs.kv
    BY <1>5, <1>t DEF SaveToken, Put, PutFails, NvsType
  <2>4. UNCHANGED <<build, consumed, loop, ident>>
    BY <1>5 DEF SaveToken
  <2>5. Owners' /\ NetStoring' /\ LoopStoring' /\ IdentityWhole'
    BY <2>1, <2>3, <2>4 DEF IdentityInv, Owners, NetStoring, LoopStoring, IdentityWhole
  <2>6. Spent'
    BY <2>1, <2>2, <2>3, <2>4 DEF Spent
  <2> QED BY <2>5, <2>6 DEF IdentityInv
<1>6. CASE SaveCreds
  <2>1. net'.pc \in {"portal", "checkCreds"} /\ net'.field = net.field
    BY <1>6, <1>t DEF SaveCreds, NetType
  <2>2. net.field # "Hidden" => nvs.secret = None \/ build # "release"
    BY <1>6 DEF SaveCreds, IdentityInv, Spent
  <2>3. /\ nvs'.secret = nvs.secret /\ nvs'.id = nvs.id /\ nvs'.kv = nvs.kv
        /\ nvs'.token = nvs.token
    BY <1>6, <1>t DEF SaveCreds, Put, PutFails, NvsType
  <2> QED BY <1>6, <2>1, <2>2, <2>3, QuietIdentity DEF SaveCreds
<1>19. CASE CheckCreds
  <2>1. net'.pc = "portal" /\ net'.field = net.field
    BY <1>19, <1>t DEF CheckCreds, NetType
  <2>2. net.field # "Hidden" => nvs.secret = None \/ build # "release"
    BY <1>19 DEF CheckCreds, IdentityInv, Spent
  <2> QED BY <1>19, <2>1, <2>2, QuietIdentity DEF CheckCreds
<1>7. CASE PortalReboot
  BY <1>7, <1>r, QuietIdentity DEF PortalReboot
<1>8. CASE PortalClose
  BY <1>8, <1>r, QuietIdentity DEF PortalClose
<1>9. CASE FallBack
  <2>1. net'.pc \in {"opening", "loop"}
    BY <1>9, <1>t DEF FallBack, NetType
  <2> QED BY <1>9, <2>1, QuietIdentity DEF FallBack
<1>10. CASE RetryStation
  BY <1>10, QuietIdentity DEF RetryStation
<1>11. CASE Online
  BY <1>11, QuietIdentity DEF Online
<1>12. CASE NoToken
  BY <1>12, QuietIdentity DEF NoToken
<1>13. CASE PostToken
  <2>1. net'.pc = "post"
    BY <1>13, <1>t DEF PostToken, NetType
  <2> QED BY <1>13, <2>1, QuietIdentity DEF PostToken
<1>14. CASE Reply200
  <2>1. net'.pc = "id" /\ ident'.loop = ident.loop
    BY <1>14, <1>t DEF Reply200, NetType
  <2>2. build = "release" /\ nvs.secret = None /\ nvs.token \in consumed'
    BY <1>14 DEF Reply200, IdentityInv, Spent, Exchangeable
  <2>3. UNCHANGED <<build, loop, nvs>>
    BY <1>14 DEF Reply200
  <2> QED BY <2>1, <2>2, <2>3 DEF IdentityInv, Owners, NetStoring, LoopStoring,
                                  Spent, Exchangeable, IdentityWhole
<1>15. CASE ReplyRefused
  <2>1. net'.pc = "refused"
    BY <1>15, <1>t DEF ReplyRefused, NetType
  <2>2. build = "release" /\ ~Exchangeable
    BY <1>15 DEF ReplyRefused, Exchangeable
  <2>3. UNCHANGED <<build, loop, nvs, ident, consumed>>
    BY <1>15 DEF ReplyRefused
  <2> QED BY <2>1, <2>2, <2>3 DEF IdentityInv, Owners, NetStoring, LoopStoring,
                                  Spent, Exchangeable, IdentityWhole
<1>16. CASE ReplyRetry
  <2>1. net'.pc = "loop"
    BY <1>16, <1>t DEF ReplyRetry, NetType
  <2>2. consumed \subseteq consumed'
    BY <1>16 DEF ReplyRetry
  <2> QED BY <1>16, <2>1, <2>2, QuietIdentity DEF ReplyRetry
<1>17. CASE StoreIdentity
  <2>1. /\ net.pc \in {"id", "kv", "secret"} /\ nvs.secret = None
        /\ net.pc \in {"kv", "secret"} => nvs.id = ident.net
        /\ net.pc = "secret" => nvs.kv = ident.net
    BY <1>17 DEF StoreIdentity, StoreNext, IdentityInv, NetStoring
  <2>2. build = "release" /\ ~Exchangeable
    <3>1. build = "release"
      BY <2>1 DEF IdentityInv, Owners, SetupTypeOK
    <3> QED BY <2>1, <3>1 DEF IdentityInv, Spent
  <2>3. UNCHANGED <<build, loop, consumed>> /\ ident'.loop = ident.loop
    BY <1>17, <1>t DEF StoreIdentity
  <2>4. LoopStoring' /\ Owners'
    BY <2>2, <2>3 DEF IdentityInv, LoopStoring, Owners
  <2>5. CASE Put(net.pc, ident.net) /\ net' = [net EXCEPT !.pc = StoreNext[net.pc]]
             /\ ident' = ident
    <3>1. /\ nvs'.token = nvs.token
          /\ net.pc = "id" => /\ nvs'.id = ident.net /\ nvs'.secret = None
                              /\ net'.pc = "kv"
          /\ net.pc = "kv" => /\ nvs'.kv = ident.net /\ nvs'.secret = None
                              /\ nvs'.id = nvs.id /\ net'.pc = "secret"
          /\ net.pc = "secret" => /\ nvs'.secret = ident.net /\ nvs'.id = nvs.id
                                  /\ nvs'.kv = nvs.kv /\ net'.pc = "forget"
      BY <2>1, <2>5, <1>t DEF Put, StoreNext, NvsType, NetType
    <3>2. NetStoring' /\ IdentityWhole'
      BY <2>1, <2>5, <3>1 DEF NetStoring, IdentityWhole
    <3>3. Spent'
      BY <2>1, <2>2, <2>3, <3>1 DEF Spent, Exchangeable
    <3> QED BY <2>4, <3>2, <3>3 DEF IdentityInv
  <2>6. CASE PutFails(net.pc, ident.net) /\ net' = [net EXCEPT !.pc = "loop"]
    <3>1. /\ nvs'.token = nvs.token /\ net'.pc = "loop"
          /\ nvs' = nvs \/ /\ net.pc = "id" => nvs'.secret = None
                           /\ net.pc = "kv" => nvs'.secret = None
                           /\ net.pc = "secret" => /\ nvs'.secret = ident.net
                                                   /\ nvs'.id = nvs.id
                                                   /\ nvs'.kv = nvs.kv
      BY <2>1, <2>6, <1>t DEF PutFails, NvsType, NetType
    <3>2. NetStoring' /\ IdentityWhole'
      BY <2>1, <3>1 DEF NetStoring, IdentityWhole
    <3>3. Spent'
      BY <2>1, <2>2, <2>3, <3>1 DEF Spent, Exchangeable
    <3> QED BY <2>4, <3>2, <3>3 DEF IdentityInv
  <2> QED BY <1>17, <2>5, <2>6 DEF StoreIdentity
<1>18. CASE ForgetToken
  <2>1. net'.pc = "loop" /\ ident'.loop = ident.loop
    BY <1>18, <1>t DEF ForgetToken, NetType
  <2>2. /\ nvs'.secret = nvs.secret /\ nvs'.id = nvs.id /\ nvs'.kv = nvs.kv
        /\ nvs'.token \in {nvs.token, None}
    BY <1>18, <1>t DEF ForgetToken, Put, PutFails, NvsType
  <2> QED BY <1>18, <2>1, <2>2, QuietIdentity DEF ForgetToken
<1> QED BY <1>1, <1>2, <1>3, <1>4, <1>5, <1>6, <1>7, <1>8, <1>9, <1>10, <1>11,
           <1>12, <1>13, <1>14, <1>15, <1>16, <1>17, <1>18, <1>19 DEF NetTask

\* The same for the loop task, the installer and the environment.
LEMMA OtherIdentity ==
    ASSUME SetupTypeOK, IdentityInv, SetupNext, ~NetTask
    PROVE  IdentityInv'
<1>t. /\ nvs \in NvsType /\ net \in NetType
      /\ ident \in [net : Identity, loop : Identity]
  BY DEF SetupTypeOK, NvsType, NetType
<1>r. Restart => net'.pc = "boot" /\ loop' = "idle"
  BY <1>t DEF Restart, NetType
<1>b. loop \notin {"idle", "restart"} => build = "bench"
  BY DEF IdentityInv, Owners, SetupTypeOK
<1>1. CASE LoopRestart
  BY <1>1, <1>r, QuietIdentity DEF LoopRestart
<1>2. CASE BenchWrite
  <2>1. /\ loop \in {"drop", "id", "kv", "secret"}
        /\ build = "bench"
        /\ UNCHANGED <<build, net, ident>>
    BY <1>2, <1>b DEF BenchWrite, BenchNext, loopFrame
  <2>2. Owners' /\ Spent' /\ NetStoring'
    BY <2>1 DEF IdentityInv, Owners, Spent, NetStoring
  <2>3. /\ loop \in {"id", "kv", "secret"} => nvs.secret = None
        /\ loop \in {"kv", "secret"} => nvs.id = ident.loop
        /\ loop = "secret" => nvs.kv = ident.loop
        /\ nvs.secret # None => nvs.id = nvs.secret /\ nvs.kv = nvs.secret
    BY DEF IdentityInv, LoopStoring, IdentityWhole
  <2>4. CASE loop = "drop"
    <3>1. nvs' = nvs \/ nvs'.secret = None
      BY <1>2, <2>4, <1>t DEF BenchWrite, BenchEntry, Put, PutFails, NvsType
    <3>2. \/ loop' = "id" /\ nvs'.secret = None
          \/ loop' = "idle"
      BY <1>2, <2>4, <1>t DEF BenchWrite, BenchEntry, BenchNext, BenchFailed, Put, NvsType
    <3>3. LoopStoring' /\ IdentityWhole'
      BY <2>1, <2>3, <3>1, <3>2 DEF LoopStoring, IdentityWhole
    <3> QED BY <2>2, <3>3 DEF IdentityInv
  <2>5. CASE loop = "id"
    <3>1. nvs'.secret = None
      BY <1>2, <2>3, <2>5, <1>t DEF BenchWrite, BenchEntry, Put, PutFails, NvsType
    <3>2. \/ loop' = "kv" /\ nvs'.id = ident.loop
          \/ loop' = "undo"
      BY <1>2, <2>5, <1>t DEF BenchWrite, BenchEntry, BenchNext, BenchFailed, Put, NvsType
    <3>3. LoopStoring' /\ IdentityWhole'
      BY <2>1, <3>1, <3>2 DEF LoopStoring, IdentityWhole
    <3> QED BY <2>2, <3>3 DEF IdentityInv
  <2>6. CASE loop = "kv"
    <3>1. nvs'.secret = None /\ nvs'.id = nvs.id
      BY <1>2, <2>3, <2>6, <1>t DEF BenchWrite, BenchEntry, Put, PutFails, NvsType
    <3>2. \/ loop' = "secret" /\ nvs'.kv = ident.loop
          \/ loop' = "undo"
      BY <1>2, <2>6, <1>t DEF BenchWrite, BenchEntry, BenchNext, BenchFailed, Put, NvsType
    <3>3. LoopStoring' /\ IdentityWhole'
      BY <2>1, <2>3, <2>6, <3>1, <3>2 DEF LoopStoring, IdentityWhole
    <3> QED BY <2>2, <3>3 DEF IdentityInv
  <2>7. CASE loop = "secret"
    <3>1. /\ nvs'.id = nvs.id /\ nvs'.kv = nvs.kv
          /\ nvs'.secret \in {nvs.secret, ident.loop}
      BY <1>2, <2>7, <1>t DEF BenchWrite, BenchEntry, Put, PutFails, NvsType
    <3>2. loop' \in {"check", "undo"}
      BY <1>2, <2>7 DEF BenchWrite, BenchNext, BenchFailed
    <3>3. LoopStoring' /\ IdentityWhole'
      BY <2>3, <2>7, <3>1, <3>2 DEF LoopStoring, IdentityWhole
    <3> QED BY <2>2, <3>3 DEF IdentityInv
  <2> QED BY <2>1, <2>4, <2>5, <2>6, <2>7
<1>3. CASE BenchCheck
  <2>1. build = "bench" /\ loop' \in {"restart", "undo"}
    BY <1>3, <1>b DEF BenchCheck
  <2>2. UNCHANGED <<build, net, nvs, ident, consumed>>
    BY <1>3 DEF BenchCheck, loopFrame
  <2> QED BY <2>1, <2>2 DEF IdentityInv, Owners, Spent, NetStoring, LoopStoring, IdentityWhole
<1>4. CASE BenchUndo
  <2>1. build = "bench" /\ loop' = "idle" /\ UNCHANGED <<build, net>>
    BY <1>4, <1>b DEF BenchUndo, loopFrame
  <2>2. nvs' = nvs \/ nvs'.secret = None
    BY <1>4, <1>t DEF BenchUndo, Put, PutFails, NvsType
  <2> QED BY <2>1, <2>2 DEF IdentityInv, Owners, Spent, NetStoring, LoopStoring, IdentityWhole
<1>5. ASSUME NEW f \in Form, PostSave(f) PROVE IdentityInv'
  <2>1. net'.pc \in {"saveToken", "saveCreds"} /\ net'.field = net.field /\ net.pc = "portal"
    BY <1>5, <1>t DEF PostSave, NetType
  <2>2. net.field # "Hidden" => nvs.secret = None \/ build # "release"
    BY <2>1 DEF IdentityInv, Spent
  <2> QED BY <1>5, <2>1, <2>2, QuietIdentity DEF PostSave, envVars
<1>6. CASE Release
  BY <1>6, BesideIdentity DEF Release, loopFrame
<1>7. CASE Press
  BY <1>7, BesideIdentity DEF Press, loopFrame
<1>8. CASE PollWifiReset
  <2>1. /\ nvs'.secret = nvs.secret /\ nvs'.id = nvs.id /\ nvs'.kv = nvs.kv
        /\ nvs'.token = nvs.token
    <3>1. nvs' \in {nvs, Erased}
      BY <1>8 DEF PollWifiReset
    <3> QED BY <3>1, <1>t DEF Erased, NvsType
  <2>2. loop' \in {"idle", "restart"} /\ UNCHANGED <<loopFrame, ident>>
    BY <1>8 DEF PollWifiReset
  <2> QED BY <2>1, <2>2, BesideIdentity DEF loopFrame
<1>9. CASE HandleSetupKey
  <2>1. /\ nvs'.secret = nvs.secret /\ nvs'.id = nvs.id /\ nvs'.kv = nvs.kv
        /\ nvs'.token = nvs.token
    BY <1>9, <1>t DEF HandleSetupKey, Put, NvsType
  <2> QED BY <1>9, <2>1, BesideIdentity DEF HandleSetupKey, loopFrame
<1>10. ASSUME NEW i \in Tokens, BenchSecret(i) PROVE IdentityInv'
  <2>1. /\ build = "bench" /\ UNCHANGED <<build, net, nvs>>
        /\ loop' = IF nvs.secret # None THEN "drop" ELSE "id"
    BY <1>10 DEF BenchSecret, loopFrame
  <2> QED BY <2>1 DEF IdentityInv, Owners, Spent, NetStoring, LoopStoring, IdentityWhole
<1>11. CASE Join
  BY <1>11, BesideIdentity DEF Join, envVars
<1>12. CASE RouterChanges
  BY <1>12, BesideIdentity DEF RouterChanges
<1>13. CASE PowerCut
  BY <1>13, <1>r, QuietIdentity DEF PowerCut
<1> QED BY <1>1, <1>2, <1>3, <1>4, <1>5, <1>6, <1>7, <1>8, <1>9, <1>10, <1>11,
           <1>12, <1>13 DEF SetupNext, LoopTask

-----------------------------------------------------------------------------

\* What the page promised survives a step that keeps the network, and erases
\* a token only once the gateway has decided about it.
LEMMA PromiseKept ==
    ASSUME SavedMeansStored, build' = build, consumed \subseteq consumed',
           \/ promise' = NoForm
           \/ /\ promise' = promise /\ nvs'.creds = nvs.creds
              /\ nvs'.token = nvs.token \/ (build = "release" => ~Exchangeable)
    PROVE  SavedMeansStored'
  BY DEF SavedMeansStored, Exchangeable

\* A step that leaves the network task outside save(), or in it with the token
\* as it was, keeps what save() has established.
LEMMA SavingKept ==
    ASSUME Saving,
           \/ net'.pc \notin {"saveToken", "saveCreds", "checkCreds"}
           \/ net' = net /\ nvs'.token = nvs.token /\ promise' \in {promise, NoForm}
    PROVE  Saving'
  BY DEF Saving, SavesToken

\* The page says Saved only after both writes, and nothing undoes them behind
\* its back: the network task.
LEMMA NetSaved ==
    ASSUME SetupTypeOK, IdentityInv, Saving, SavedMeansStored, NetTask
    PROVE  Saving' /\ SavedMeansStored'
<1> USE DEF envVars
<1>t. nvs \in NvsType /\ net \in NetType
  BY DEF SetupTypeOK, NvsType, NetType
<1>r. /\ Restart => net'.pc = "boot"
      /\ AfterPortal => net'.pc \in {"boot", "parked", "loop"}
  BY <1>t DEF Restart, AfterPortal, NetType
<1>1. CASE Boot
  <2>1. net'.pc \in {"loop", "opening", "noKey"}
    BY <1>1, <1>t DEF Boot, NetType
  <2>2. nvs'.creds = nvs.creds
    BY <1>1, <1>t DEF Boot, Put, PutFails, NvsType
  <2>3. nvs'.token = nvs.token \/ (build = "release" => ~Exchangeable)
    <3>1. CASE nvs.secret # None
      BY <3>1 DEF IdentityInv, Spent
    <3>2. CASE nvs.secret = None
      BY <1>1, <3>2 DEF Boot
    <3> QED BY <3>1, <3>2
  <2> QED BY <1>1, <2>1, <2>2, <2>3, PromiseKept, SavingKept DEF Boot
<1>2. CASE KeyArrived
  <2>1. net'.pc = "opening"
    BY <1>2, <1>t DEF KeyArrived, NetType
  <2> QED BY <1>2, <2>1, PromiseKept, SavingKept DEF KeyArrived
<1>3. CASE OpenPortal
  <2>1. net'.pc = "portal"
    BY <1>3, <1>t DEF OpenPortal, NetType
  <2> QED BY <1>3, <2>1, PromiseKept, SavingKept DEF OpenPortal
<1>4. CASE SoftApFails
  BY <1>4, <1>r, PromiseKept, SavingKept DEF SoftApFails
<1>5. CASE SaveToken
  <2>1. promise' = NoForm
    BY <1>5 DEF SaveToken, Saving
  <2>2. \/ net'.pc = "portal"
        \/ /\ net'.pc = "saveCreds" /\ net'.field = net.field /\ net'.form = net.form
           /\ nvs'.token = net.form.token
    BY <1>5, <1>t DEF SaveToken, Put, NvsType, NetType
  <2>3. Saving'
    BY <2>1, <2>2 DEF Saving, SavesToken
  <2> QED BY <1>5, <2>1, <2>3, PromiseKept DEF SaveToken
<1>6. CASE SaveCreds
  <2>1. promise' = NoForm /\ nvs'.token = nvs.token
    BY <1>6, <1>t DEF SaveCreds, Saving, Put, PutFails, NvsType
  <2>2. \/ net'.pc = "portal"
        \/ /\ net'.pc = "checkCreds" /\ net'.field = net.field
           /\ net'.form = net.form
    BY <1>6, <1>t DEF SaveCreds, NetType
  <2>3. Saving'
    BY <1>6, <2>1, <2>2 DEF SaveCreds, Saving, SavesToken
  <2> QED BY <1>6, <2>1, <2>3, PromiseKept DEF SaveCreds
<1>19. CASE CheckCreds
  <2>1. net'.pc = "portal" /\ UNCHANGED <<nvs, build, consumed>>
    BY <1>19, <1>t DEF CheckCreds, NetType
  <2>2. CASE /\ nvs.creds = net.form.ssid
             /\ promise' = IF SavesToken(net.form) THEN net.form
                           ELSE [net.form EXCEPT !.token = None]
    <3>1. /\ promise'.ssid = net.form.ssid
          /\ promise'.token # None => SavesToken(net.form) /\ promise'.token = net.form.token
      BY <2>2, <1>t DEF NetType, Form, NoForm
    <3>2. SavesToken(net.form) => nvs.token = net.form.token
      BY <1>19 DEF CheckCreds, Saving
    <3>3. SavedMeansStored'
      BY <2>1, <2>2, <3>1, <3>2 DEF SavedMeansStored
    <3> QED BY <2>1, <3>3, SavingKept
  <2>3. CASE promise' = promise
    BY <2>1, <2>3, PromiseKept, SavingKept
  <2> QED BY <1>19, <2>2, <2>3 DEF CheckCreds, CredsReadBack
<1>7. CASE PortalReboot
  BY <1>7, <1>r, PromiseKept, SavingKept DEF PortalReboot
<1>8. CASE PortalClose
  BY <1>8, <1>r, PromiseKept, SavingKept DEF PortalClose
<1>9. CASE FallBack
  <2>1. net'.pc \in {"opening", "loop"}
    BY <1>9, <1>t DEF FallBack, NetType
  <2> QED BY <1>9, <2>1, PromiseKept, SavingKept DEF FallBack
<1>10. CASE RetryStation
  BY <1>10, PromiseKept, SavingKept DEF RetryStation
<1>11. CASE Online
  BY <1>11, PromiseKept, SavingKept DEF Online
<1>12. CASE NoToken
  BY <1>12, PromiseKept, SavingKept DEF NoToken
<1>13. CASE PostToken
  <2>1. net'.pc = "post"
    BY <1>13, <1>t DEF PostToken, NetType
  <2> QED BY <1>13, <2>1, PromiseKept, SavingKept DEF PostToken
<1>14. CASE Reply200
  <2>1. net'.pc = "id"
    BY <1>14, <1>t DEF Reply200, NetType
  <2> QED BY <1>14, <2>1, PromiseKept, SavingKept DEF Reply200
<1>15. CASE ReplyRefused
  <2>1. net'.pc = "refused"
    BY <1>15, <1>t DEF ReplyRefused, NetType
  <2> QED BY <1>15, <2>1, PromiseKept, SavingKept DEF ReplyRefused
<1>16. CASE ReplyRetry
  <2>1. net'.pc = "loop"
    BY <1>16, <1>t DEF ReplyRetry, NetType
  <2>2. consumed \subseteq consumed'
    BY <1>16 DEF ReplyRetry
  <2> QED BY <1>16, <2>1, <2>2, PromiseKept, SavingKept DEF ReplyRetry
<1>17. CASE StoreIdentity
  <2>1. net.pc \in {"id", "kv", "secret"}
    BY <1>17 DEF StoreIdentity, StoreNext
  <2>2. net'.pc \notin {"saveToken", "saveCreds", "checkCreds"}
    BY <1>17, <2>1, <1>t DEF StoreIdentity, StoreNext, NetType
  <2>3. nvs'.creds = nvs.creds /\ nvs'.token = nvs.token
    BY <1>17, <2>1, <1>t DEF StoreIdentity, Put, PutFails, NvsType
  <2> QED BY <1>17, <2>2, <2>3, PromiseKept, SavingKept DEF StoreIdentity
<1>18. CASE ForgetToken
  <2>1. net'.pc = "loop"
    BY <1>18, <1>t DEF ForgetToken, NetType
  <2>2. nvs'.creds = nvs.creds
    BY <1>18, <1>t DEF ForgetToken, Put, PutFails, NvsType
  <2>3. build = "release" => ~Exchangeable
    BY <1>18 DEF ForgetToken, IdentityInv, Spent
  <2> QED BY <1>18, <2>1, <2>2, <2>3, PromiseKept, SavingKept DEF ForgetToken
<1> QED BY <1>1, <1>2, <1>3, <1>4, <1>5, <1>6, <1>7, <1>8, <1>9, <1>10, <1>11,
           <1>12, <1>13, <1>14, <1>15, <1>16, <1>17, <1>18, <1>19 DEF NetTask

\* The loop task, the installer and the environment.
LEMMA OtherSaved ==
    ASSUME SetupTypeOK, IdentityInv, Saving, SavedMeansStored, SetupNext, ~NetTask
    PROVE  Saving' /\ SavedMeansStored'
<1>t. nvs \in NvsType /\ net \in NetType
  BY DEF SetupTypeOK, NvsType, NetType
<1>r. Restart => net'.pc = "boot"
  BY <1>t DEF Restart, NetType
<1>1. CASE LoopRestart
  BY <1>1, <1>r, PromiseKept, SavingKept DEF LoopRestart
<1>2. CASE BenchWrite
  <2>1. BenchEntry[loop] \in {"id", "kv", "secret"}
    BY <1>2 DEF BenchWrite, BenchEntry, BenchNext
  <2>2. nvs'.creds = nvs.creds /\ nvs'.token = nvs.token
    BY <1>2, <2>1, <1>t DEF BenchWrite, Put, PutFails, NvsType
  <2> QED BY <1>2, <2>2, PromiseKept, SavingKept DEF BenchWrite, loopFrame
<1>3. CASE BenchCheck
  BY <1>3, PromiseKept, SavingKept DEF BenchCheck, loopFrame
<1>4. CASE BenchUndo
  <2>1. nvs'.creds = nvs.creds /\ nvs'.token = nvs.token
    BY <1>4, <1>t DEF BenchUndo, Put, PutFails, NvsType
  <2> QED BY <1>4, <2>1, PromiseKept, SavingKept DEF BenchUndo, loopFrame
<1>5. ASSUME NEW f \in Form, PostSave(f) PROVE Saving' /\ SavedMeansStored'
  <2>1. /\ net'.pc = IF SavesToken(f) THEN "saveToken" ELSE "saveCreds"
        /\ net'.form = f /\ net'.field = net.field /\ promise' = NoForm
    BY <1>5, <1>t DEF PostSave, NetType
  <2>2. Saving'
    BY <2>1 DEF Saving, SavesToken
  <2> QED BY <1>5, <2>1, <2>2, PromiseKept DEF PostSave, envVars
<1>6. CASE Release
  BY <1>6, PromiseKept, SavingKept DEF Release, loopFrame
<1>7. CASE Press
  BY <1>7, PromiseKept, SavingKept DEF Press, loopFrame
<1>8. CASE PollWifiReset
  <2>1. nvs'.token = nvs.token
    <3>1. nvs' \in {nvs, Erased}
      BY <1>8 DEF PollWifiReset
    <3> QED BY <3>1, <1>t DEF Erased, NvsType
  <2> QED BY <1>8, <2>1, PromiseKept, SavingKept DEF PollWifiReset, loopFrame
<1>9. CASE HandleSetupKey
  <2>1. nvs'.creds = nvs.creds /\ nvs'.token = nvs.token
    BY <1>9, <1>t DEF HandleSetupKey, Put, NvsType
  <2> QED BY <1>9, <2>1, PromiseKept, SavingKept DEF HandleSetupKey, loopFrame
<1>10. ASSUME NEW i \in Tokens, BenchSecret(i) PROVE Saving' /\ SavedMeansStored'
  BY <1>10, PromiseKept, SavingKept DEF BenchSecret, loopFrame
<1>11. CASE Join
  BY <1>11, PromiseKept, SavingKept DEF Join, envVars
<1>12. CASE RouterChanges
  BY <1>12, PromiseKept, SavingKept DEF RouterChanges
<1>13. CASE PowerCut
  BY <1>13, <1>r, PromiseKept, SavingKept DEF PowerCut
<1> QED BY <1>1, <1>2, <1>3, <1>4, <1>5, <1>6, <1>7, <1>8, <1>9, <1>10, <1>11,
           <1>12, <1>13 DEF SetupNext, LoopTask

-----------------------------------------------------------------------------

\* One press erases at most once: a restart disarms the button until it is
\* released, and a release starts a new press.
LEMMA PressingStep ==
    ASSUME SetupTypeOK, Pressing, OneResetPerHold, SetupNext
    PROVE  Pressing' /\ OneResetPerHold'
<1> USE DEF Pressing, OneResetPerHold
<1>t. /\ btn \in [pressed : BOOLEAN, armed : BOOLEAN, fired : BOOLEAN, held : 0 .. Hold]
      /\ resets \in Nat /\ Hold \in Nat /\ Hold > 0
  BY SetupAssumption DEF SetupTypeOK
<1>1. CASE btn' = btn /\ resets' = resets
  BY <1>1
<1>2. CASE btn' = [btn EXCEPT !.armed = FALSE, !.fired = FALSE, !.held = 0] /\ resets' = resets
  <2>1. ~btn'.armed /\ btn'.held = 0
    BY <1>2, <1>t
  <2> QED BY <1>2, <2>1
<1>3. CASE Release
  BY <1>3, <1>t DEF Release
<1>4. CASE Press
  <2>1. btn'.armed = btn.armed /\ btn'.fired = btn.fired
    BY <1>4, <1>t DEF Press
  <2>2. btn'.held > 0 => btn.armed
    BY <1>4, <1>t DEF Press, Counts
  <2> QED BY <1>4, <2>1, <2>2 DEF Press
<1>5. CASE PollWifiReset
  <2>1. btn.armed /\ resets = 0
    BY <1>5, <1>t DEF PollWifiReset
  <2>2. btn'.fired /\ btn'.armed = btn.armed
    BY <1>5, <1>t DEF PollWifiReset
  <2> QED BY <1>5, <2>1, <2>2 DEF PollWifiReset
<1>6. CASE NetTask
  BY <1>6, <1>1, <1>2
     DEF NetTask, Boot, KeyArrived, OpenPortal, SoftApFails, SaveToken, SaveCreds, CheckCreds,
         PortalReboot, PortalClose, FallBack, RetryStation, Online, NoToken,
         PostToken, Reply200, ReplyRefused, ReplyRetry, StoreIdentity, ForgetToken,
         AfterPortal, Restart, envVars
<1>7. CASE LoopTask
  BY <1>7, <1>1, <1>2
     DEF LoopTask, LoopRestart, BenchWrite, BenchCheck, BenchUndo, Restart
<1>8. ASSUME NEW f \in Form, PostSave(f) PROVE btn' = btn /\ resets' = resets
  BY <1>8 DEF PostSave, envVars
<1>9. ASSUME NEW i \in Tokens, BenchSecret(i) PROVE btn' = btn /\ resets' = resets
  BY <1>9 DEF BenchSecret
<1>10. CASE HandleSetupKey \/ Join \/ RouterChanges \/ PowerCut
  BY <1>10, <1>1, <1>2 DEF HandleSetupKey, Join, RouterChanges, PowerCut, Restart, envVars
<1> QED BY <1>1, <1>3, <1>4, <1>5, <1>6, <1>7, <1>8, <1>9, <1>10 DEF SetupNext

\* The net task wakes at the fall-back deadline at the latest.
LEMMA SleepStep ==
    ASSUME SetupTypeOK, NotOverslept, SetupNext
    PROVE  NotOverslept'
<1> USE DEF NotOverslept
<1>t. fb \in [joined : BOOLEAN, since : 0 .. SinceCap] /\ Window \in Nat
  BY SetupAssumption DEF SetupTypeOK
<1>1. CASE fb' = fb
  BY <1>1
<1>2. CASE fb' = [fb EXCEPT !.since = 0]
  <2>1. fb'.since = 0
    BY <1>2, <1>t
  <2> QED BY <2>1, <1>t
<1>3. CASE fb' = [joined |-> TRUE, since |-> 0] \/ fb' = [joined |-> FALSE, since |-> 0]
  <2>1. fb'.since = 0
    BY <1>3
  <2> QED BY <2>1, <1>t
<1>4. CASE RetryStation
  <2>1. CASE fb.joined
    BY <1>4, <2>1, <1>1 DEF RetryStation
  <2>2. CASE ~fb.joined
    <3>1. fb.since < Window
      BY <1>4, <2>2, <1>t DEF RetryStation, PortalDue
    <3>2. Min({fb.since + Sleep, SinceCap}) <= Window
      BY <2>2, <3>1, SleepBounded
    <3>3. fb'.since = Min({fb.since + Sleep, SinceCap})
      BY <1>4, <2>2, <1>t DEF RetryStation
    <3> QED BY <3>2, <3>3
  <2> QED BY <2>1, <2>2
<1>5. CASE NetTask
  BY <1>5, <1>1, <1>2, <1>3, <1>4
     DEF NetTask, Boot, KeyArrived, OpenPortal, SoftApFails, SaveToken, SaveCreds, CheckCreds,
         PortalReboot, PortalClose, FallBack, Online, NoToken,
         PostToken, Reply200, ReplyRefused, ReplyRetry, StoreIdentity, ForgetToken,
         AfterPortal
<1>6. CASE LoopTask
  BY <1>6, <1>1 DEF LoopTask, LoopRestart, BenchWrite, BenchCheck, BenchUndo, loopFrame
<1>7. ASSUME NEW f \in Form, PostSave(f) PROVE fb' = fb
  BY <1>7 DEF PostSave
<1>8. ASSUME NEW i \in Tokens, BenchSecret(i) PROVE fb' = fb
  BY <1>8 DEF BenchSecret, loopFrame
<1>9. CASE Release \/ Press \/ PollWifiReset \/ HandleSetupKey \/ Join \/ RouterChanges \/ PowerCut
  BY <1>9, <1>1 DEF Release, Press, PollWifiReset, HandleSetupKey, Join,
                    RouterChanges, PowerCut, loopFrame
<1> QED BY <1>1, <1>5, <1>6, <1>7, <1>8, <1>9 DEF SetupNext

-----------------------------------------------------------------------------

\* The invariant holds of a blank terminal, and every step keeps it.
LEMMA SetupInvInit == SetupInit => SetupInv
<1> SUFFICES ASSUME SetupInit PROVE SetupInv
  OBVIOUS
<1> USE DEF SetupInit
<1>1. SetupTypeOK
  <2>1. 0 \in 0 .. SinceCap /\ 0 \in 0 .. Hold /\ 0 \in 0 .. MaxTrouble
    BY SetupAssumption DEF SinceCap
  <2>2. nvs \in NvsType
    BY DEF NvsType, Identity
  <2>3. net \in NetType
    BY DEF NetType, NetPcs
  <2>4. /\ fb \in [joined : BOOLEAN, since : 0 .. SinceCap]
        /\ btn \in [pressed : BOOLEAN, armed : BOOLEAN, fired : BOOLEAN, held : 0 .. Hold]
        /\ ident \in [net : Identity, loop : Identity]
    BY <2>1 DEF Identity
  <2>5. /\ build \in {"release", "bench"} /\ prov \in BOOLEAN /\ link \in BOOLEAN
        /\ station \in Networks \cup {None} /\ promise \in Form \cup {NoForm}
    OBVIOUS
  <2>6. /\ backoff \in BackoffMin .. BackoffMax + BackoffMax \div 4
        /\ loop \in LoopPcs /\ air \subseteq Networks /\ consumed \subseteq Issued
        /\ resets \in 0 .. 2 /\ trouble \in 0 .. MaxTrouble
    BY <2>1, FirstBackoff DEF LoopPcs
  <2> QED BY ONLY <2>2, <2>3, <2>4, <2>5, <2>6 DEF SetupTypeOK, NvsType, NetType
<1>2. IdentityInv
  BY DEF IdentityInv, Owners, NetStoring, LoopStoring, Spent, IdentityWhole
<1>3. Saving /\ SavedMeansStored
  BY DEF Saving, SavedMeansStored
<1>4. Pressing /\ OneResetPerHold /\ NotOverslept
  BY SetupAssumption DEF Pressing, OneResetPerHold, NotOverslept
<1> QED BY <1>1, <1>2, <1>3, <1>4 DEF SetupInv

LEMMA SetupInvStep == SetupInv /\ [SetupNext]_setupVars => SetupInv'
<1> SUFFICES ASSUME SetupInv, [SetupNext]_setupVars PROVE SetupInv'
  OBVIOUS
<1> USE DEF SetupInv
<1>1. CASE SetupNext
  <2>1. SetupTypeOK'
    BY <1>1, NetTypes, OtherTypes
  <2>2. IdentityInv'
    BY <1>1, NetIdentity, OtherIdentity
  <2>3. Saving' /\ SavedMeansStored'
    BY <1>1, NetSaved, OtherSaved
  <2>4. Pressing' /\ OneResetPerHold' /\ NotOverslept'
    BY <1>1, PressingStep, SleepStep
  <2> QED BY <2>1, <2>2, <2>3, <2>4
<1>2. CASE UNCHANGED setupVars
  <2>1. SetupTypeOK'
    BY <1>2 DEF setupVars, SetupTypeOK
  <2>2. IdentityInv'
    BY <1>2 DEF setupVars, IdentityInv, Owners, NetStoring, LoopStoring, Spent,
                Exchangeable, IdentityWhole
  <2>3. Saving' /\ SavedMeansStored'
    BY <1>2 DEF setupVars, Saving, SavesToken, SavedMeansStored
  <2>4. Pressing' /\ OneResetPerHold' /\ NotOverslept'
    BY <1>2 DEF setupVars, Pressing, OneResetPerHold, NotOverslept
  <2> QED BY <2>1, <2>2, <2>3, <2>4
<1> QED BY <1>1, <1>2

\* The inductive invariant holds in every reachable state.
THEOREM SetupInvSafe == SetupSpec => []SetupInv
<1>1. SetupInit => SetupInv
  BY SetupInvInit
<1>2. SetupInv /\ [SetupNext]_setupVars => SetupInv'
  BY SetupInvStep
<1> QED BY <1>1, <1>2, PTL DEF SetupSpec

\* What the setup page called saved is in NVS, whatever was cut, failed or
\* written by the other task since (WifiPortal::save).
THEOREM SavedMeansStoredSafe == SetupSpec => []SavedMeansStored
<1>1. SetupInv => SavedMeansStored
  BY DEF SetupInv
<1> QED BY <1>1, SetupInvSafe, PTL

\* No power cut, failed write or serial command ever leaves a secret beside
\* another identity's id or key version (storeDeviceIdentity,
\* benchSecretCommand).
THEOREM IdentityWholeSafe == SetupSpec => []IdentityWhole
<1>1. SetupInv => IdentityWhole
  BY DEF SetupInv, IdentityInv
<1> QED BY <1>1, SetupInvSafe, PTL

\* The types, one reset for each press and no sleep past the fall-back deadline,
\* for every window, hold and back-off (HoldTrigger, StationFallback, netTask).
THEOREM WithinLimitsSafe == SetupSpec => []WithinLimits
<1>1. SetupInv => WithinLimits
  BY DEF SetupInv, WithinLimits
<1> QED BY <1>1, SetupInvSafe, PTL

-----------------------------------------------------------------------------

\* A deployed terminal with a secret takes no step that writes its identity.
LEMMA KeepsIdentity ==
    ASSUME SetupInv, SetupNext, build = "release", nvs.secret # None
    PROVE  nvs'.secret = nvs.secret /\ nvs'.id = nvs.id
<1>t. nvs \in NvsType
  BY DEF SetupInv, SetupTypeOK, NvsType
<1>l. /\ loop \in {"idle", "restart"}
      /\ net.pc \notin {"id", "kv", "secret"}
  BY DEF SetupInv, IdentityInv, Owners, NetStoring
<1>1. CASE NetTask
  <2>1. ~StoreIdentity
    BY <1>l DEF StoreIdentity, StoreNext
  <2>2. CASE nvs' = nvs
    BY <2>2
  <2>3. CASE Boot \/ SaveToken \/ ForgetToken
    <3>1. \/ nvs' = nvs
          \/ Put("token", None) \/ PutFails("token", None)
          \/ Put("token", net.form.token) \/ PutFails("token", net.form.token)
      BY <2>3 DEF Boot, SaveToken, ForgetToken
    <3> QED BY <3>1, <1>t DEF Put, PutFails, NvsType
  <2>4. CASE SaveCreds
    BY <2>4, <1>t DEF SaveCreds, Put, PutFails, NvsType
  <2> QED BY <1>1, <2>1, <2>2, <2>3, <2>4
          DEF NetTask, KeyArrived, OpenPortal, SoftApFails, PortalReboot, PortalClose,
              FallBack, RetryStation, Online, NoToken, PostToken, Reply200,
              ReplyRefused, ReplyRetry, CheckCreds
<1>2. CASE LoopTask
  <2>1. ~BenchWrite /\ ~BenchCheck /\ ~BenchUndo
    BY <1>l DEF BenchWrite, BenchNext, BenchCheck, BenchUndo
  <2> QED BY <1>2, <2>1 DEF LoopTask, LoopRestart
<1>3. ASSUME NEW f \in Form, PostSave(f) PROVE nvs' = nvs
  BY <1>3 DEF PostSave
<1>4. ASSUME NEW i \in Tokens, BenchSecret(i) PROVE FALSE
  BY <1>4 DEF BenchSecret
<1>5. CASE PollWifiReset
  <2>1. nvs' \in {nvs, Erased}
    BY <1>5 DEF PollWifiReset
  <2> QED BY <2>1, <1>t DEF Erased, NvsType
<1>6. CASE HandleSetupKey
  BY <1>6, <1>t DEF HandleSetupKey, Put, NvsType
<1>7. CASE Release \/ Press \/ Join \/ RouterChanges \/ PowerCut
  BY <1>7 DEF Release, Press, Join, RouterChanges, PowerCut
<1> QED BY <1>1, <1>2, <1>3, <1>4, <1>5, <1>6, <1>7 DEF SetupNext

\* Once stored, a deployed terminal's identity is never lost or changed: not by
\* the BOOT reset, the portal, a retried exchange or a power cut.
THEOREM StaysProvisionedSafe == SetupSpec => StaysProvisioned
<1>1. SetupInv /\ [SetupNext]_setupVars =>
        [build = "release" /\ nvs.secret # None =>
            nvs'.secret = nvs.secret /\ nvs'.id = nvs.id]_setupVars
  BY KeepsIdentity
<1> QED BY <1>1, SetupInvSafe, PTL DEF SetupSpec, StaysProvisioned
=============================================================================
