# TLA+ development of the presence platform

The repository is a fingerprint attendance system: ESP32 **terminals**
(`firmware/`) that must never lose a punch they showed a green light for, a Go
**gateway** (`gateway/`) that records punches, derives attendance and publishes
it, and a PostgreSQL **schema** (`db/`). This directory holds TLA+ modules of
its core, TLC configurations that check them on small instances, and proofs
that TLAPS checks for every instance.

## 1. The system

| Part | State | Operations | Talks to |
|---|---|---|---|
| punch ring buffer (`ring_buffer.h`, `littlefs_storage.h`) | ring file, cursor pair in NVS, `head_`/`tail_` in RAM | `begin`, `append`, `peek`, `ackThrough` | scan task (core 1) appends, network task (core 0) peeks and acks |
| scan task (`main.cpp scanTask`, `nextSeq`) | `g_seq`, NVS `seq` | number, persist, then confirm a punch | ring buffer, feedback queue |
| network task (`main.cpp netTask`) | back-off, heartbeat and flush timers | `sendHeartbeat`, `flushEvents`, `checkFirmware`, `provisionDevice` | gateway over HTTP |
| OTA (`ota_guard.h`, `applyOta`) | two app slots, otadata, NVS `ota_state`, confirm timer | `check`, `notePending`, `onHealthy`, `tick`, `onConfirmDeadline`, flash and commit | bootloader, gateway heartbeat |
| ingest (`store.go`, `api.go`) | `punch_event`, `device.last_ack_seq` | `LoadDevice`, `IngestBatch` | terminals |
| recompute (`engine.go`, `projector.go`, `rules.go`) | `attendance_span`, `attendance_day`, `outbox_event` | `Recompute`: read, pair, snapshot, delete, insert, diff, emit | punch log, outbox |
| delivery (`worker.go`) | `outbox_event.status`, `attempts` | `claimBatch`, `send`, `deliverOne` | consumer over HTTP |
| authentication (`hmac.go`) | nonce cache | `Verify`, `Claim` | every device call |
| set-up (`wifi_provision.h`, `wifi_softap.h`, `provision.h`, `bench_secret.h`) | network, setup key, token and identity in NVS; fall-back timer; BOOT hold | portal, save, fall-back, token exchange, identity storage, reset | network task, loop task, gateway |
| terminal state (`terminal_state.h`) | fault, provisioning and sensor flags | precedence of states, sensor re-probe | scan and feedback tasks |
| clock (`main.cpp`) | RTC chip, `g_rtcOffsetMs` and its NVS copy, `g_rtcTrusted` | correct on a skew rejection, stamp a punch | network task writes, scan task reads |
| texts (`events_json.h`, `wifi_provision.h`, `provision.h`, `ota_verify.h`) | none | encode a batch; read answers, forms, manifests; verify an image in chunks | all of the above |
| release tooling (`fwsign`, `catalog.go`), secrets (`cryptobox`), seed and bench tools | files | sign, list, seal | operators |

What is hard here: power may be cut between any two writes of the terminal;
requests are lost, retried and processed late next to their retry; scan, network
and loop task share the ring file, the clock and NVS without a lock; the confirm
timer runs in its own context; a recompute reads twice before it writes and may
overlap another; a delivery worker may stop between claiming a row and
recording its outcome. The `hazards` list of `PROJECT.json` names each at its
line, with the properties that guard it.

What makes each part correct:

* ring and upload: a green light means the punch is durable until the ledger
  holds it; a full ring gives up only its oldest; numbers are never reused; an
  ack covers only what is stored (all but the exception of `UploadCut`, section 3);
* OTA: every cut leaves something that boots, an unproven image has a proven
  one beside it, a fallback is always noticed, the floor never exceeds what
  worked, and a trial always ends;
* terminal: a green light stands for a persisted punch, no verdict is dropped, a
  sensor is given up only when it is silent and used again when it answers;
* set-up: what the page calls saved is stored, an identity is whole and stays,
  and the terminal is never parked off a network that works or off the portal;
* clock: a punch that claims a time has a right one, and a wrong clock heals;
* texts: what is read is what was written, whatever pieces it came in;
* recompute: the outbox tells every committed change, the tables catch up with
  the log, and a consumer converges in any delivery order (the first and the last
  fail in the code: `RecomputeTwo`, `EventKey`);
* delivery: one owner per row, attempts accounted for, every event settles.

## 2. Modules

| Module | Models |
|---|---|
| `RingBuffer` | the ring, its storage and the punch it persists, one step per storage call |
| `RingBufferProofs` | TLAPS proofs about `RingBuffer` |
| `Terminal` | `RingBuffer` composed with scan task, feedback task, sensor and `TerminalStatus` |
| `TerminalProofs` | TLAPS proofs about `Terminal` |
| `RingRace` | `RingBuffer` with `append()`, `peek()` and `ackThrough()` interleaved on two cores |
| `PunchLedger` | abstract: what terminal and gateway promise together |
| `Upload` | `RingBuffer` composed with `flushEvents`, the network, `LoadDevice` and `IngestBatch`; refines `PunchLedger` |
| `UploadProofs` | TLAPS proofs about `Upload` and of the refinement |
| `Clock`, `MCClock` | RTC, offset, skew correction and stamping; the drift errors TLC uses |
| `Setup` | portal, station fall-back, token exchange, identity storage, BOOT button, serial commands |
| `SetupProofs` | TLAPS proofs about `Setup` |
| `OtaGuard` | guard, installer, confirm window and A/B slots |
| `DeviceProofs` | TLAPS proofs about `Clock` and `OtaGuard` |
| `Json` | the readers of JSON answers, and the gateway's encoder (external) |
| `PortalCodec` | HTTP request, form, credential, token, key and identity parsing |
| `PunchCodec` | time stamps, integers and members of an uploaded punch |
| `ImageVerify` | versions, manifest, key screening, streaming SHA-512, image verifier |
| `RingFile` | sizing, creating, keeping and removing the ring file at boot |
| `Codec`, `MCCodec` | one job per text, image or file, over the five modules above; the texts and files TLC uses |
| `CodecProofs`, `ImageProofs` | TLAPS proofs about `Codec`: texts and the ring file; versions and images |
| `Recompute` | `Engine.Recompute` and `DiffSpans`, several runs at a time, statement by statement |
| `EventView` | `Recompute` with its events one by one, and the consumer `docs/events.md` describes |
| `Delivery` | outbox workers |
| `OutboxProofs` | TLAPS proofs about `Recompute` and `Delivery` |

**RingBuffer.** `flash`, `cursors` and `nvsSeq` survive a cut; `head`, `tail`,
`seq` and the scan task's program counter do not. A record is its sequence
number and its event uuid; `Torn` is a slot whose CRC fails. `append()` is two
steps, the record write (`AppendWrite`) and the cursor save (`AppendSave`), each
of which may fail; the failure latches FAULT, as `noteBufferWriteFailed()` does,
and no punch is taken until the next boot. `PowerCut` reboots from any state,
between the two storage calls of an append on a full ring too, `PowerCutTearsWrite`
leaves a half-written slot, `CorruptCursors` is the NVS
damage that `begin()`'s comment names. The `Faults` constant says which of these
the environment may do. Positions are unbounded naturals: the 64-bit cursors
cannot wrap within a device's life.

**Terminal.** `scanTask` is a loop with sleeps: a poll of the sensor, a refusal,
a debounced repeat, or a match, whose append is the two steps of `RingBuffer`
and whose verdict goes to the queue only afterwards. `Tick` is 200 ms, the
greatest step that tells the sleeps of the scan task and the lights of the
feedback task apart. The probe delays of `TerminalStatus` only lengthen; they
are abstracted to "later". `Ack` is the network task's effect on the ring.

**RingRace.** `readAt()` and `writeAt()` are a seek and a transfer at the position
of one open `File`, and `tail_` is moved by both tasks. The steps of the two
tasks interleave as two cores may.

**Upload.** A request goes through `sent`, `loaded` (`LoadDevice` has read
`last_ack_seq`, outside any transaction) and `replied` (`IngestBatch` committed).
The terminal waits for one request at a time; an abandoned request lives on and
may be ingested late, next to its retry. `Lose` covers lost requests, rolled-back
transactions, gateway restarts and lost answers. What a punch resolves to does
not matter to the ack (a rejected event still counts as stored), so resolution
is abstracted away. `exposed` is an observer: the green punches that some boot
reloaded behind a newer record.

**Clock.** A clock is its error in minutes against the gateway's. A correction is
the five writes of `handleClockSkew()`, a stamp the three reads of `nowEpochMs()`
and `timeSourceCode()`; none is atomic with another, and the 64-bit offset may
be read half written. Both `putLong64` calls may fail, and the code looks at
neither result. `suspect` is the observer: since the gateway last saw or set the
clock, the RTC moved, lost its battery or was refused, or a boot restored another
offset than the one in use.

**Setup.** The network task and the loop task share NVS; each NVS write or erase
is a step and may fail; the credentials' read-back is a step of its own, since
the BOOT button may erase between the two. Networks, tokens and identities are model values (an
identity is named by the token that buys it, or by the bench operator's choice);
the formats are `PortalCodec`'s. Time is counted in steps of `netSleep`. At
this commit the gateway answers every exchange with 501 (`api.go:138`), which is
`ReplyRetry`, any number of times; `Reply200` and `ReplyRefused` are the answers that
`docs/openapi.yaml` gives the endpoint and the firmware already handles, a token
buying one identity once. Safety is checked with both, and no liveness property
relies on them. `trouble` counts the faults a behaviour may contain.

**OtaGuard.** An image is a version and a build (what the sha256 tells apart).
Each write to a slot, to otadata or to NVS is a step, so a cut can fall between
any two. The bootloader's rules (a `new` image gets one `pending` boot, a pending
one falls back) are external and follow how the code relies on them. Time is
abstracted: the confirm window may pass whenever the image cannot, or in an
outage does not, reach the gateway. `Verify` takes the verdict that `ImageVerify`
computes as given. The bench serial loader and an unreadable `ota_state` entry
(treated by `begin()` as empty) are left out.

**Json, PortalCodec, PunchCodec, ImageVerify, RingFile, Codec.** A text is a
sequence of a few byte classes, chosen so that every branch of the parser is
reached: a letter, a digit, the separators, a control byte, and tokens for
words compared whole (a header's name, a JSON key). Caps and lengths are
constants, scaled down in `Codec.cfg` and enumerated on both sides; what clients
send, what is typed, the times and records of the clock and the ring, and the
file systems are constants too (`Requests`, `Forms`, `Logins`, `Tokens`, `Keys`,
`Times`, `Punches`, `Disks`), which `MCCodec` gives finite sets and the proofs leave
open. `Codec` has one job per text: a sender's meaning is encoded by an external definition (the
browser's form encoding, Go's `encoding/json` and `base64`, `time.Parse`), the
code's operator reads it, and the properties compare. A portal request arrives
in reads of any size up to `Chunk`; an image is hashed in chunks of any size;
`RingFile` is stepped through boots with cuts between any two calls that outlive
one; in each boot `existingSize()` may fail to open the file and `loadCursors()` to
read the pair, whatever the file holds (`blind`).
SHA-512's compression is ideal, a digest being the sequence of blocks it
compressed, and a signature verifies exactly on the message it was made for, so
`VerdictExact` is about padding, buffering, lengths, keys and the preamble.

**Recompute.** The punch log, amendments and rules appear as what `Pair()` derives
from them: a set of spans of one person, at most one per punch; a day row is its
date. A run is a transaction of statements, one step each: read the log, snapshot
the stored spans of the window, start the DELETE of spans, finish it and start the
DELETE of days, finish that and insert, commit. Each statement sees what is
committed when it starts (READ COMMITTED). A DELETE waits for a run that has
deleted one of its rows and then passes over that row; it takes no lock on rows
that are not there yet, so two runs over an empty window interleave freely. An
INSERT waits for an open run with its key and fails on a stored one (`Collide`), which
rolls everything back. Two runs that wait for each other are a deadlock, which
PostgreSQL resolves by an error: `Abort`, as are timeouts and kills. Collisions in the
primary key of `attendance_day` are modelled; the contents of a day and `DiffDays` are
not.

**EventView.** `emittedAt` is taken after the inserts and before the commit
(`engine.go:173`). The consumer (external) keys a span on `in_event_id ?? out_event_id`
and applies an event only if its `emitted_at` is newer.

**Delivery.** Rows are numbered by `created_at`, taken to agree with `emitted_at`.
`next_attempt_at` is abstracted to whether it has passed. A POST may arrive
although the worker sees an error.

## 3. Runs

| Run | Shows |
|---|---|
| `Terminal` | all six storage faults at once: depth() stays between 0 and the ring size; every green light is a persisted punch; no verdict is dropped; the sensor is given up only after silence, noticed, and recovered |
| `Upload` | a cut anywhere and failing cursor saves: only punches that a cut put behind a newer record can be lost; only the oldest is evicted, numbers are never reused, acks cover only what is stored, `Upload` implements `PunchLedger`, and every other punch shown green is eventually in the ledger or given up as oldest |
| `Clock` | stamps lie in the gateway's window, their label tells whether they carry a time, and a wrong clock heals, also when NVS puts fail |
| `Setup` | saved means stored; identities are whole and stay; one reset per hold; no deadline overslept; network and portal alternate; a token is pursued through any number of 501s |
| `Codec` | requests, forms, records, answers, secrets, identities, versions, manifests, images, times, punches and the ring file mean what they must |
| `Ota` | no cut bricks the terminal; fallbacks are noticed; the floor is proven; nothing below it is installed; every trial ends; one broken release cannot loop |
| `RecomputeLive` | overlapping, colliding and aborted runs: a run with a fresh snapshot tells what it changes, and the tables catch up |
| `DeliverySafe` | ownership, attempts, convergence; every event settles unless its worker is gone |
| `RingRace` | **violation**: two cores on one file overwrite a punch that was never acknowledged |
| `UploadCut` | **violation**: a power cut during an append on a full ring makes a later ack drop a punch that was never sent |
| `RecomputeTwo` | **violation**: overlapping runs commit a change with no outbox row |
| `EventKey` | **violation**: a consumer with the documented key loses a span when it is closed |

Each violation is a `findings` entry of `PROJECT.json` with the line of the
repository it contradicts.

**The exception in the punch path.** `append()` on a full ring overwrites the slot of
the oldest record (`ring_buffer.h:185`) and only then saves the cursors that say so
(`:189`). A cut in between, or a failed save followed by a reboot, brings back the old
window, whose first place now holds the newest record. `peek()` sends that record
first, the gateway acknowledges its number, and `ackThrough()` drops every older
punch of the window unsent. `UploadCut` is that trace, with a ring of two.
`LossExplained`, `AckCoversStored`, `EventuallyRecorded` and `PunchLedger` (`atRisk`) name
these punches, `exposed`, as the only ones concerned, and `NumbersOrdered` says what a
window can look like: ascending, but for the first place of a full one.

Several properties are conjunctions of named parts that share a question; each
part has its own comment in its module:

| Property | Parts |
|---|---|
| `LightsTrue` | `TerminalTypeOK`, `GreenIsPersisted`, `FeedbackKeepsUp` |
| `SensorFollowed` | `LostOnlyAfterSilence`, `SensorRecovers`, `SilenceNoticed` |
| `NumbersOrdered` | `UploadTypeOK`, `NeverReused`, `OnlyFirstOutOfPlace` |
| `WithinLimits` | `SetupTypeOK`, `OneResetPerHold`, `NotOverslept` |
| `NeverParked` | `Rejoins`, `PortalComesBack` |
| `RequestServed` | `RequestWhole`, `PortalBufferBounded` |
| `FormSaved` | `FormExact`, `SavedIsUsable` |
| `AnswersExact` | `JsonFaithful`, `Base64Canonical`, `IdentityExact`, `ManifestUsable` |
| `ImageAdmitted` | `VersionsExact`, `VerdictExact` |
| `PunchExact` | `TimeExact`, `PunchSurvives` |
| `RingFileSafe` | `RingRewritable`, `FileKeepsPunches` |
| `RowsAccounted` | `DelTypeOK`, `OneOwner`, `AttemptsAccounted` |

Each part has a mutant of the code that breaks it. `OtaTypeOK`, `ClockTypeOK` and
the `TypeOK` of `RingBuffer` are proved for every instance (section 4).

**Bounds.** In `Terminal` one slot makes the second punch evict the first, and two
errors are the least that tell a run of silence from a garbled reply. In `Upload`
two slots with three punches wrap and are full in the same behaviour, a batch of
one leaves an unsent remainder, and two requests are the least that race.
`UploadCut` needs one cut, one request and no fault.
`RingRace` never fills its three slots, so that nothing is given up for want of
room. `Clock` has errors inside the minute for which an offset is kept, inside
the gateway's window and outside it on either side, and two drifts with two cuts.
`Setup` has one network, one token the gateway knows and one it does not, a
back-off that doubles once and then overshoots the fall-back window from its
middle, and one fault, which may fall anywhere; the jitter, a quarter, rounds to
nothing at this scale and shows with `BackoffMax = 4`, which holds as well and
takes three times as long. `MCCodec` takes every day from 2000 to February 2106, the
range of the RTC's 32-bit seconds, and every drop or replacement of one byte of
a request. In `Ota` three versions are the least with which a terminal can update,
fall back and update again, and the fourth keeps a newer one on offer; the run holds
with two versions of two builds as well, which separate version from content, and
its safety is proved for any number of both. In `RecomputeLive` one clock-in on two
dates, with a window of one date and one of both, gives moved spans, collisions and
stale snapshots of two runs; `EventKey` adds the clock-out that closes a span.
Two workers, three rows and batches of two give a claimed remainder;
two attempts give both retry and dead letter. Every bound is a constant in a
`.cfg`.

**What the code does not promise.** Statements that are stronger than the checked
ones, and why they fail. Those about faults and windows can be seen by changing
the constants of the run; the others were found while modelling.

* `Upload` has power cuts and the fault `cursor`; its proofs add `write`. The others
  break its properties for good. `read`: `peek()` skips a record it cannot read
  (`ring_buffer.h:200`) and the batch's ack drops it. `flush`: `File::flush()` returns
  nothing (`littlefs_storage.h:103`), so a failed flush is confirmed. `seq`: `nextSeq()`
  ignores `putULong64`'s result (`main.cpp:296`), so an uncommitted number is reused
  after a cut. `corrupt`: `begin()` shows or skips records at random. `Terminal` has all
  of them.
* A boot that cannot open the ring file (`existingSize()` returns 0,
  `littlefs_storage.h:139`) creates a new one over it, and one that cannot read the
  cursors (`bufferEmpty()` is true, `:133`) may remove one it cannot rewrite, punches
  and all. `RingFileSafe` says that only such a boot loses punches.
* A recompute with a window smaller than the dates a span can move to collides with
  the row stored outside it (`engine.go:94`) and rolls back, again and again, until a
  window that covers both is run; `CatchesUp` assumes that cron has one.
* `SpanSnapshot.equal` (`projector.go:100`) ignores the business date: a span that moves
  inside the window is told by the events of its two days and by no span event.
  `FreshRunTells` is about what `equal` compares. `OutboxTellsAll` includes the date.
* Racing runs may store an orphan clock-out twice, since the unique index is on
  `in_event_id` only, or leave a day without its row until the next run.
  `FreshRunTells` excepts the former and `CatchesUp` has both heal.
* A delivery worker stopped between claim and outcome leaves its rows in
  `delivering`, which no query selects (`worker.go:138`, against
  `docs/events.md:55`). `SettlesOrStranded` is what does hold.
* The guard remembers a single bad image, so `ota_guard.h:38` ("never retried")
  holds only until a second release fails; `NoImmediateRetry` is what does hold.
* A punch stamped while a correction runs on the other core may mix an old clock
  with a new offset; `StampRight` and `SourceTells` except it. A boot after a failed
  `putLong64` or a cut inside a correction applies the wrong offset until the gateway
  next answers; `StampRight` excepts the punches until then and `ClockHeals` ends it. A label
  `rtc_synced` means only that the offset is 0 (`main.cpp:307`), not that the RTC
  was set within a day (`docs/SPEC.md:54`); `SourceTells` is about `uptime_only`,
  the label on which the gateway acts.
* The back-off the gateway asks for (`main.cpp:601`) is overwritten by
  `resetBackoff()` later in the same pass, and `growBackoff()` adds its jitter
  after the cap (`main.cpp:616`, `621`), so that it may exceed 300 s by a quarter.

**Deadlock** checking is off where the system may rest: all punches taken and
uploaded, all events delivered, a job done, a terminal that waits for a user.

**Fairness.** `Fairness` (Upload): both tasks run for ever, so an append that
started finishes and flushing is tried again and again; the network and gateway
may fail any number of times but not always, which is strong fairness of the
steps of the request the terminal is waiting for. `TerminalFairness`: the two
tasks run and time passes; nothing is assumed of the sensor or the user.
`ClockFairness`: the tasks run, and of the heartbeats sent every minute some are
answered, which is strong fairness because a drift may disable the answer.
`FairSetupSpec`: both tasks are endless loops with bounded waits, and the station
keeps trying the network it is set to, so it joins one that stays in reach.
`OtaFairness`: the network task and the timer keep running; nothing makes a
download start or succeed. `Decided` excepts the one trial nobody ends, a hung task
whose timer was not armed, and `Settles` assumes that power cuts, rotting slots and
outages that fail a working image's trial end some day. `RecFairness`: cron runs a
window that covers every date again and again, and a run that nothing ends from
outside goes on; the number of kills is bounded. `DelFairness`: `Run()` polls for ever and `send()`
has a timeout; nothing is assumed of a worker that stops.

## 4. Proofs

Every invariant of a passing run is proved for all values of the constants,
except `AnswersExact` of `Codec` and `RecTypeOK` of `Recompute`; so are the refinement
of `PunchLedger` and the action properties.
The assumptions are the named `ASSUME` of each model on its constants, which TLC
evaluates on every run, and the hypotheses stated below. Each inductive
invariant was checked by TLC before it was proved, except `VerifyInv` of
`ImageProofs`, which quantifies over hash contexts.

| Theorem | States | Hypothesis |
|---|---|---|
| `TypeCorrect`, `DepthSafe` | `Spec => []TypeOK`, `[]DepthBound` | |
| `RetainedSafe` | `Spec => []Retained` | no `flush`, no `corrupt` |
| `EvictsOnlyOldestSafe` | `Spec => []EvictsOnlyOldest` | `OrderedFaults` |
| `RingComposes` | `UploadSpec => Spec` | `ReportedFaults` |
| `NumbersOrderedSafe`, `AckCoversStoredSafe`, `LossExplainedSafe` | `UploadSpec => []...` | `ReportedFaults` |
| `LedgerImplemented` | `UploadSpec => ImplementsLedger` | `ReportedFaults` |
| `TerminalRing` | `TerminalSpec => Spec` | |
| `LightsTrueSafe`, `LostOnlyAfterSilenceSafe` | `TerminalSpec => []LightsTrue`, `LostOnlyAfterSilence` | |
| `OtaTypeCorrect`, `PowerCutAlwaysSafe`, `TrialAlwaysRecorded`, `FloorAlwaysProven`, `NeverDowngrades` | `OtaSpec => []OtaTypeOK`, `[]PowerCutSafe`, `[]TrialRecorded`, `[]FloorProven`, `NoDowngrade` | |
| `GoodNeverBlamedSafe`, `NoImmediateRetrySafe` | `OtaSpec => []...` | |
| `ClockTypes`, `ClockStampRight`, `ClockSourceTells` | `ClockSpec => []ClockTypeOK`, `[]StampRight`, `[]SourceTells` | |
| `SavedMeansStoredSafe`, `IdentityWholeSafe`, `WithinLimitsSafe` | `SetupSpec => []...` | |
| `StaysProvisionedSafe` | `SetupSpec => StaysProvisioned` | |
| `FreshRunTellsSafe` | `RecSpec => FreshRunTells` | |
| `RowsAccountedSafe`, `NewestShownSafe` | `DelSpec => []...` | |
| `RequestServedAlways`, `FormSavedAlways`, `PunchExactAlways`, `RingFileSafeAlways`, `ImageAdmittedAlways` | `CodecSpec => []...` | |

A theorem with no hypothesis holds under every fault its model knows. The
hypotheses exclude what breaks the property; section 3 gives the behaviours, and
a corrupted cursor pair makes `begin()` show or skip records at random:

* `OrderedFaults` excludes `seq`, `flush` and `corrupt`, each of which can put an old
  record behind a newer one or issue a number twice; failing writes, cursor saves and
  reads, torn slots and cuts anywhere are allowed.
* `ReportedFaults` allows a failing write or cursor save and any number of cuts
  anywhere; it also excludes `read`.

**Ring.** `DepthBound` is inductive with the types and one addition, that a numbered
or written append leaves room; the boot case is the lemma about `LoadedTail`.
`Retained` adds that the saved window lies at or behind the one in RAM
(`CursorInv`), that the slot of `head_` holds the record being accounted for
(`WrittenInv`), and that what lies between the saved tail and `tail_` was evicted or
acknowledged (`Gone`), which is why overwriting it is harmless. A cut on a full ring
does not break it: the punches stay readable; it is the later cumulative ack that
drops them. `EvictsOnlyOldest` needs more, because a cut may bring back
the saved window: numbers ascend over every position that either window can still
reach (`OrderInv`), and each record is at least as many numbers old as there are
records after it (`AgeInv`), except the one record that may be misplaced, in the first
place of a full saved window and never confirmed (`Misplaced`).

**Upload.** `UploadInv` adds to the ring's invariant that rows, requests and acks
carry only numbers of the past (`PastInv`), and that acks, wherever they are, cover
only punches that are recorded, given up or exposed, while a batch leaves out no
other punch older than one it holds (`CoverInv`). The latter is what makes a
cumulative ack of a late request harmless, and it rests on the window ascending: a
record in front of a green punch is older, or the punch is exposed (`ExposedInv`).
That a batch has a
highest number at all is the well-ordering of the naturals. In the refinement,
`IngestBatch` maps to the abstract `Record`, a boot to `Cut`, every other step of the ring
to `Buffer`, which may drop a punch only when it is recorded, given up or at risk,
and the steps of the network to stutters.

**Terminal.** Only time keeps the queue from overflowing: the scan task sleeps at
least as long after a verdict as its light lasts, so nothing is
queued or shown when it wakes (`Shown`).

**OTA.** `OtaInv` says which slot otadata names at each position of the installer
(`Where`), what holds while an image is on trial (`Trial`) and otherwise (`Worked`),
what `applyOta()` has established so far (`Install`), and that the floor in NVS lags
behind the guard's copy, both proven (`Floors`). Every reboot, whatever caused it,
goes through one lemma, `BootKeeps`. `Memory` is a second invariant on top of it, for
the bad record. Its central part is `Newer`: of the images that work, all but the
one to return to are at or below the floor in NVS, and that one too once a
successor is announced, because `notePending()` writes the whole record and so
carries the floor of the running image with it. `Retried` says that a failed save
of the bad record leaves the image named as pending, which bars it as well.

**Clock.** `StampRight` speaks of a finished punch and is not inductive. `ClockInv`
adds what the tasks have in hand: the offset is half written and the clock suspect
only during a correction (`Correcting`), of NVS nothing, since a put may fail; how far
each step of a correction has brought the clock (`Progress`); that a clock not under suspicion is
inside the window (`ClockRight`); and that a stamp no correction overlapped was
read from the clock as it is now (`StampCurrent`).

**Setup.** What NVS holds after a cut depends on which task is in the middle of
which write. `Owners`: only one of the two tasks ever stores an identity, by build.
`NetStoring` and `LoopStoring`: what it has written so far, the secret last. `Spent`: a
terminal with a secret keeps no token the gateway would still exchange, so its
identity is never replaced. `Saving` and `Pressing` do the same for a save in
progress and for the button.

**Recompute.** `FreshInv`: only a commit changes the table, and it marks the snapshots
of all other open runs stale. So a snapshot that is not stale is the window of the
table as it stands, and what the DELETE found is all of it; the commit then replaces
exactly that window, and the diff against the snapshot is the diff of the table. It
needs no assumption on windows, and row locks do not enter into it.

**Delivery.** A claimed row may have been sent once more than its attempts column
tells, and only while its worker stands between `send()` and the `UPDATE` (`InHand`);
the rest follows by cases on the row's status (`Tallied`).

**Texts and the ring file.** The prover cannot instantiate an induction rule over a
predicate, so `CodecProofs` states induction over sets: a non-empty set of
naturals has a least member (`LeastOf`), a set that holds 0 and is closed under
successor is all of `Nat` (`Induction`), and the functions that agree with a
recursive definition up to n form such a set (`Recursion`). `FoldExists` and
`FoldRuns` carry this over to `FoldLeft` on a sequence: the fold is the last value of
a history that starts at the base and takes one step per element, so an invariant
of that history is an invariant of the fold. On top of these, for every text and
every value of the caps:

* `HttpInv`: what has been read is a prefix of the request and, while the verdict
  is `Incomplete`, short. It rests on `ParseStable`, once a prefix of a request has a
  verdict every longer prefix has the same one, because the first blank line of a
  text does not move when bytes follow it; and on `UndecidedShort`, the caps on head
  and body decide a request before the buffer passes them.
* `FormInv`: for any list of fields, `parseWifiForm` of the browser's encoding returns
  the fields. Percent-decoding undoes both encodings byte by byte (`DecodeOneMore`,
  `EncodeSpells`), no encoded byte is a separator, so splitting at `&` and `=` gives
  the pieces back (`BodyPieces`, `PairParts`), and after k pieces the form holds what
  the first k fields say or the first error (`Progress`).
* `SavedInv`: a record that `make...()` accepts is read back as usable and the same,
  since it holds no NUL and ends with one (`CStringOf`).
* `PunchInv`: `CivilDays` and `CivilExact` show that days-to-date and date-to-days are
  inverse for every day from 1970 to 9999, with the leap rule counted over whole
  eras (`LeapsCounted`), years found by division (`YearOfEra`) and months by table;
  `DecimalsExact` that the digits of an integer, the least one included, read back
  as it.
* `FileInv`: the file in use at each step of `begin()`, how it relates to the punches
  it holds, and that a size chosen by it leaves room for a second copy. The latter
  needs `PointersMeaning` and `BlocksOfBounds`, which bound the blocks of a CTZ skip
  list of a given size, whatever the block size.
* `VersionInv`: what `otaVersionCode` made of the versions read. Splitting at the dots
  and joining again gives the text back (`DotSpelled`, `DottedSplits`), a part without a
  leading zero is the one spelling of its number (`OneSpelling`), and packing keeps
  the order of three parts below the base (`PackOrder`).
* `VerifyInv`: while the image is read back the hash context has absorbed the message
  (nonce, key, preamble, image) up to the last chunk; after `finish()` the first
  verdict is the right one and a second is never Ok. `UpdateReaches` shows that
  `crypto_sha512_update` absorbs a piece of any length at any position, whichever of
  its byte, word and block loops run and for any word size; `FinalOfPieces` that
  `crypto_sha512_final` then yields the blocks of the padded message, the extra block
  included; `PaddedInjective` that two messages with the same blocks are the same
  message; and `LayoutExact` that version, size and image can be read off it, the line
  feed after the version telling a shorter version from a longer one.

Only model-checked: all liveness, because fairness and ENABLED are beyond the
prover (`EventuallyRecorded`, `ClockHeals`, `NeverParked`, `TokenPursued`, `Decided`,
`Settles`, `CatchesUp`, `SettlesOrStranded`, and `SensorRecovers` and `SilenceNoticed`, the
other two parts of `SensorFollowed`); `RecTypeOK`, whose types are part of `FreshInv`
and whose one row per clock-in event is not proved; and `AnswersExact`, whose readers search a text
for a key and step over strings with escapes, and whose base64 works bit by bit.
Its documents, texts and identities are fixed finite sets, all of which TLC visits,
so a proof would add little to the run.
`ImageAdmittedAlways` holds for every word size, chunk size and largest part; the
keys, signatures, versions, sizes and images offered are those that `ImageInit` lists.

## 5. Plan

1. Done: ring buffer, its file and the race on it, terminal, upload, clock,
   set-up, the terminal's texts, image verification, OTA, recompute (spans),
   delivery, and the proofs above.
2. `Pair`, `Rollup` and `BusinessDate` as operators against reference definitions
   (every punch in exactly one span or folded as a duplicate; totals; lateness
   across midnight); the contents of `attendance_day` and `DiffDays` in `Recompute`.
3. `NonceCache`: replay window against clock skew and restarts.
4. Ingest details: `effectiveTime`, `resolve`, `deriveDirection` under
   concurrency, commands and roster deltas.
5. Proofs for the modules that 2 to 4 add.

## 6. Not modelled

Cryptography is taken as sound: the compression functions, the curve and field
arithmetic and the unused primitives of the vendored Monocypher, HMAC, and key
sealing. The HTML of the portal, the wording of answers and logs, the radio and
flash drivers, the database driver and configuration parsing hold no control
state worth a model. The heartbeat and flush periods of a connected terminal are
abstracted to "again and again". The attendance rules, ingest resolution and the
nonce cache are in the plan. The seeder, release tooling and bench scripts are
not part of the running system; the bench identity command is (`Setup`,
`PortalCodec`).

## 7. Running

    tlc -workers 2 -config Upload.cfg Upload
    tlc -workers 2 -config Clock.cfg MCClock
    tlc -workers 2 -config Codec.cfg MCCodec
    for m in *Proofs.tla; do tlapm $m; done    # CodecProofs and ImageProofs take about ten minutes each, the others seconds to minutes
