----------------------------- MODULE RingBuffer -----------------------------
(***************************************************************************)
(* The terminal's offline punch buffer (firmware/src/ring_buffer.h) over   *)
(* its LittleFS/NVS storage (littlefs_storage.h), driven by the scan task  *)
(* that appends (main.cpp scanTask, nextSeq) and by whoever acknowledges.  *)
(*                                                                         *)
(* head_ and tail_ are ever-growing positions; position p lives in slot    *)
(* p % slots_ of a preallocated file.  A punch is persisted in two storage *)
(* calls, the record and then the cursor pair, and power may be cut        *)
(* between any two calls.  Steps are storage calls; the finer races of the *)
(* two tasks on the unlocked object are not part of this module.           *)
(***************************************************************************)
EXTENDS Integers

CONSTANTS
    Slots,        \* slots_: records the ring file holds (begin() refused 0)
    Faults,       \* which storage faults the environment may inject
    MaxPunches,   \* bound: punches taken
    MaxCuts       \* bound: power cuts

\* "seq"     putULong64("seq") fails; nextSeq() ignores the result
\* "write"   writeAt() reports a failure
\* "flush"   File::flush() fails; it returns void, so writeAt() reports success
\* "cursor"  saveCursors() reports a failure
\* "read"    readAt() reports a failure
\* "corrupt" the NVS cursor entry is lost or replaced by another pair
FaultKinds == {"seq", "write", "flush", "cursor", "read", "corrupt"}

ASSUME RingAssumption ==
    /\ Slots \in Nat \ {0}
    /\ MaxPunches \in Nat
    /\ MaxCuts \in Nat
    /\ Faults \subseteq FaultKinds

VARIABLES
    flash,        \* the ring file, by slot                    (persistent)
    cursors,      \* the "ring_cursors" NVS entry              (persistent)
    nvsSeq,       \* the "seq" NVS entry                       (persistent)
    head, tail,   \* head_, tail_                              (RAM)
    seq,          \* g_seq                                     (RAM)
    pc, rec,      \* where scanTask is, and the record it holds (RAM)
    confirmed,    \* history: punches append() returned true for
    evicted,      \* history: records a full ring gave up
    acked,        \* history: highest value ackThrough() was called with
    punches, cuts \* history: punches taken, power cuts so far

persistent == <<flash, cursors, nvsSeq>>
ram == <<head, tail, seq, pc, rec>>
history == <<confirmed, evicted, acked, punches, cuts>>
ringVars == <<flash, cursors, nvsSeq, head, tail, seq, pc, rec, confirmed,
              evicted, acked, punches, cuts>>

(***************************************************************************)
(* Records                                                                 *)
(***************************************************************************)

\* A punch is told apart by its sequence number and its random event_uuid.
PunchRecord == [seq : Nat \ {0}, uuid : Nat \ {0}]

\* Bytes whose CRC does not match: a torn write, or the zeros of a new file.
Torn == [seq |-> 0, uuid |-> 0]

SlotRange == 0 .. (Slots - 1)
Slot(p) == p % Slots
At(p) == flash[Slot(p)]

(***************************************************************************)
(* Storage calls and cursor arithmetic                                     *)
(***************************************************************************)

\* full()
FullOneEarly == head - tail >= Slots - 1

Full == head - tail >= Slots

\* begin(): the clamps applied to the loaded pair <<h, t>>.
LoadedTailUnchecked(h, t) == t

LoadedTailAlwaysClamped(h, t) == h - Slots

LoadedTail(h, t) ==
    LET t1 == IF t > h THEN h ELSE t
    IN  IF h - t1 > Slots THEN h - Slots ELSE t1

\* append(): a full ring moves the tail past its oldest record.
Evict ==
    evicted' = IF Full /\ At(tail) # Torn THEN evicted \cup {At(tail)} ELSE evicted

MakeRoom ==
    /\ tail' = IF Full THEN tail + 1 ELSE tail
    /\ Evict

\* What a slot may hold after a call that was meant to write r into it.
WriteResults(r) == {r} \cup (IF "flush" \in Faults THEN {At(head)} ELSE {})

\* ackThrough(): may the loop step over position p?
DroppableBelow(p, ack) == At(p) = Torn \/ At(p).seq < ack

DroppableInclusiveNext(p, ack) == At(p) = Torn \/ At(p).seq <= ack + 1

Droppable(p, ack) == At(p) = Torn \/ At(p).seq <= ack

\* ackThrough(): the loop leaves the tail at t.  It stops at the first record
\* above ack, at head_, or at a record it fails to read.
StopsAt(t, ack) ==
    /\ \A p \in tail .. (t - 1) : Droppable(p, ack)
    /\ \/ t = head
       \/ ~Droppable(t, ack)
       \/ "read" \in Faults

(***************************************************************************)
(* Actions                                                                 *)
(***************************************************************************)

Init ==
    /\ flash = [s \in SlotRange |-> Torn]
    /\ cursors = [head |-> 0, tail |-> 0]
    /\ nvsSeq = 0
    /\ head = 0 /\ tail = 0 /\ seq = 0
    /\ pc = "idle" /\ rec = Torn
    /\ confirmed = {} /\ evicted = {} /\ acked = 0
    /\ punches = 0 /\ cuts = 0

\* scanTask takes a match, nextSeq() numbers it and commits the number before
\* anything uses it.
NextSeqUncommitted ==
    /\ pc = "idle"
    /\ punches < MaxPunches
    /\ seq' = seq + 1
    /\ rec' = [seq |-> seq + 1, uuid |-> punches + 1]
    /\ punches' = punches + 1
    /\ pc' = "numbered"
    /\ UNCHANGED <<flash, cursors, nvsSeq, head, tail, confirmed, evicted, acked,
                   cuts>>

NextSeq ==
    /\ pc = "idle"
    /\ punches < MaxPunches
    /\ seq' = seq + 1
    /\ nvsSeq' \in {seq + 1} \cup (IF "seq" \in Faults THEN {nvsSeq} ELSE {})
    /\ rec' = [seq |-> seq + 1, uuid |-> punches + 1]
    /\ punches' = punches + 1
    /\ pc' = "numbered"
    /\ UNCHANGED <<flash, cursors, head, tail, confirmed, evicted, acked,
                   cuts>>

\* append(), first storage call: the record reaches its slot.
AppendWrite ==
    /\ pc = "numbered"
    /\ MakeRoom
    /\ \E r \in WriteResults(rec) : flash' = [flash EXCEPT ![Slot(head)] = r]
    /\ pc' = "written"
    /\ UNCHANGED <<cursors, nvsSeq, head, seq, rec, confirmed, acked, punches,
                   cuts>>

\* append() returns false: the tail has already moved, no green light, and
\* noteBufferWriteFailed() latches FAULT: no punch is taken until a reboot.
AppendWriteFails ==
    /\ pc = "numbered"
    /\ "write" \in Faults
    /\ MakeRoom
    /\ \E r \in {At(head), Torn} : flash' = [flash EXCEPT ![Slot(head)] = r]
    /\ pc' = "fault"
    /\ UNCHANGED <<cursors, nvsSeq, head, seq, rec, confirmed, acked, punches,
                   cuts>>

\* append(), second storage call: the cursor pair; then the green light.
AppendSaveStaleHead ==
    /\ pc = "written"
    /\ head' = head + 1
    /\ cursors' = [head |-> head, tail |-> tail]
    /\ confirmed' = confirmed \cup {rec}
    /\ pc' = "idle"
    /\ UNCHANGED <<flash, nvsSeq, tail, seq, rec, evicted, acked, punches,
                   cuts>>

AppendSave ==
    /\ pc = "written"
    /\ head' = head + 1
    /\ cursors' = [head |-> head + 1, tail |-> tail]
    /\ confirmed' = confirmed \cup {rec}
    /\ pc' = "idle"
    /\ UNCHANGED <<flash, nvsSeq, tail, seq, rec, evicted, acked, punches,
                   cuts>>

AppendSaveFails ==
    /\ pc = "written"
    /\ "cursor" \in Faults
    /\ head' = head + 1
    /\ pc' = "fault"
    /\ UNCHANGED <<flash, cursors, nvsSeq, tail, seq, rec, confirmed, evicted,
                   acked, punches, cuts>>

\* ackThrough(): drop the acknowledged prefix, then save the pair and ignore
\* whether that worked.
AckThrough(ack) ==
    /\ \E t \in tail .. head :
          /\ StopsAt(t, ack)
          /\ tail' = t
          /\ cursors' \in {[head |-> head, tail |-> t]}
                          \cup (IF "cursor" \in Faults THEN {cursors} ELSE {})
    /\ acked' = IF ack > acked THEN ack ELSE acked
    /\ UNCHANGED <<flash, nvsSeq, head, seq, pc, rec, confirmed, evicted,
                   punches, cuts>>

\* Power is lost and the terminal boots: setup() reloads g_seq and begin()
\* reloads and clamps the cursors.
Boot ==
    /\ cuts < MaxCuts
    /\ cuts' = cuts + 1
    /\ seq' = nvsSeq
    /\ head' = cursors.head
    /\ tail' = LoadedTail(cursors.head, cursors.tail)
    /\ pc' = "idle"
    /\ UNCHANGED <<cursors, nvsSeq, rec, confirmed, acked, punches>>

\* A cut between append()'s two storage calls on a full ring, or after its
\* cursor save failed, leaves the newest record in the slot of the oldest: the
\* window that begin() reloads then starts with it.
PowerCut ==
    /\ Boot
    /\ UNCHANGED <<flash, evicted>>

\* The cut interrupts writeAt(): the slot is left with a bad CRC.
PowerCutTearsWrite ==
    /\ pc = "numbered"
    /\ Boot
    /\ flash' = [flash EXCEPT ![Slot(head)] = Torn]
    /\ Evict

\* The NVS entry is lost (loadCursors() false, so 0/0) or comes back as
\* another pair; begin()'s comment names both.
CorruptCursors ==
    /\ "corrupt" \in Faults
    /\ \E h, t \in 0 .. MaxPunches : cursors' = [head |-> h, tail |-> t]
    /\ UNCHANGED <<flash, nvsSeq, ram, history>>

RingStep ==
    \/ NextSeq
    \/ AppendWrite
    \/ AppendWriteFails
    \/ AppendSave
    \/ AppendSaveFails
    \/ PowerCut
    \/ PowerCutTearsWrite
    \/ CorruptCursors

\* The component on its own: any number it has issued may be acknowledged.
Next ==
    \/ RingStep
    \/ \E ack \in 1 .. seq : AckThrough(ack)

Spec == Init /\ [][Next]_ringVars

(***************************************************************************)
(* Properties                                                              *)
(***************************************************************************)

\* The type of every variable.
TypeOK ==
    /\ flash \in [SlotRange -> PunchRecord \cup {Torn}]
    /\ cursors \in [head : Nat, tail : Nat]
    /\ nvsSeq \in Nat /\ seq \in Nat
    /\ head \in Nat /\ tail \in Nat
    /\ pc \in {"idle", "numbered", "written", "fault"}
    /\ rec \in PunchRecord \cup {Torn}
    /\ confirmed \subseteq PunchRecord
    /\ evicted \subseteq PunchRecord
    /\ acked \in Nat /\ punches \in Nat /\ cuts \in Nat

\* depth() is an unsigned subtraction: whatever NVS returns at boot, the tail
\* never passes the head and the window never outgrows the ring.
DepthBound == tail <= head /\ head - tail <= Slots

\* Every punch the user saw green for would survive a power cut right now: it
\* is readable inside the window the saved cursors describe, unless a full ring
\* gave it up or ackThrough() was called with its number or a higher one.
Retained ==
    \A r \in confirmed :
        \/ r \in evicted
        \/ r.seq <= acked
        \/ \E p \in cursors.tail .. (cursors.head - 1) : At(p) = r

\* A full ring gives up only its oldest: when a confirmed punch is evicted at
\* least Slots later numbers have been issued, however often power was cut.
EvictsOnlyOldest ==
    \A r \in evicted \cap confirmed : r.seq + Slots <= seq

\* No two punches ever carry the same number, across reboots.
NeverReused ==
    LET known == confirmed \cup evicted \cup {flash[s] : s \in SlotRange}
    IN  \A r, s \in known : (r # Torn /\ s # Torn /\ r.seq = s.seq) => r = s
=============================================================================
