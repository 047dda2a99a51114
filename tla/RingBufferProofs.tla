-------------------------- MODULE RingBufferProofs --------------------------
EXTENDS RingBuffer, TLAPS

\* A position's slot is one of the ring file's slots (head_ % slots_).
LEMMA SlotType == \A p \in Nat : Slot(p) \in SlotRange
  BY RingAssumption DEF Slot, SlotRange

\* Positions less than a ring apart live in different slots.
LEMMA SlotInjective ==
    ASSUME NEW p \in Nat, NEW q \in Nat, p < q, Slot(p) = Slot(q)
    PROVE  q - p >= Slots
<1> DEFINE a == p \div Slots
           b == q \div Slots
<1>1. /\ a \in Int /\ b \in Int
      /\ p = Slots * a + (p % Slots)
      /\ q = Slots * b + (q % Slots)
  BY RingAssumption
<1>2. q - p = Slots * b - Slots * a
  BY <1>1, RingAssumption DEF Slot
<1> HIDE DEF a, b
<1>3. q - p = Slots * (b - a)
  BY <1>1, <1>2, RingAssumption
<1>4. b - a >= 1
  BY <1>1, <1>3, RingAssumption
<1>5. Slots * (b - a) >= Slots
  BY <1>1, <1>4, RingAssumption
<1> QED
  BY <1>3, <1>5

\* Positions exactly a ring apart share a slot.
LEMMA SlotPeriod ==
    ASSUME NEW p \in Nat
    PROVE  Slot(p + Slots) = Slot(p)
<1> DEFINE a == p \div Slots
           b == (p + Slots) \div Slots
           r == p % Slots
           t == (p + Slots) % Slots
<1>1. /\ a \in Int /\ b \in Int
      /\ r \in 0 .. (Slots - 1) /\ t \in 0 .. (Slots - 1)
      /\ p = Slots * a + r
      /\ p + Slots = Slots * b + t
  BY RingAssumption
<1> HIDE DEF a, b, r, t
<1>2. t - r = Slots * (a + 1 - b)
  <2>1. t - r = Slots * a + Slots - Slots * b
    BY <1>1, RingAssumption
  <2> QED
    BY <1>1, <2>1, RingAssumption
<1> DEFINE c == a + 1 - b
<1>3. c \in Int /\ t - r = Slots * c
  BY <1>1, <1>2
<1> HIDE DEF c
<1>4. c >= 1 => Slots * c >= Slots
  BY <1>3, RingAssumption
<1>5. c <= -1 => Slots * c <= -Slots
  BY <1>3, RingAssumption
<1>6. c = 0
  BY <1>1, <1>3, <1>4, <1>5, RingAssumption
<1>7. t = r
  BY <1>1, <1>3, <1>6, RingAssumption
<1> QED
  BY <1>7 DEF Slot, r, t

-----------------------------------------------------------------------------
(***************************************************************************)
(* Type correctness and the depth bound, under every fault.                *)
(***************************************************************************)

\* Between its steps append() holds a punch that has not been confirmed.
RecInv ==
    /\ pc # "idle" => rec \in PunchRecord /\ rec.uuid = punches
    /\ \A r \in confirmed :
          r.uuid <= punches /\ (pc # "idle" => r.uuid < punches)

\* After the record write there is room for head_ to advance.
RoomInv == pc = "written" => head - tail < Slots

DepthInv == TypeOK /\ RecInv /\ DepthBound /\ RoomInv

\* What readAt() finds at a position is a record or a bad CRC.
LEMMA AtType ==
    ASSUME TypeOK, NEW p \in Nat
    PROVE  At(p) \in PunchRecord \cup {Torn}
  BY SlotType DEF At, TypeOK

\* append() of a full ring: the tail moves only forward and leaves one slot free.
LEMMA MakeRoomEffect ==
    ASSUME TypeOK, DepthBound, MakeRoom
    PROVE  /\ \E t \in Nat : /\ tail' = t /\ tail <= t /\ t <= head
                            /\ head - t < Slots
           /\ evicted' \subseteq PunchRecord
           /\ evicted \subseteq evicted'
<1>1. At(tail) \in PunchRecord \cup {Torn}
  BY AtType DEF TypeOK
<1>2. CASE Full
  <2>1. tail' = tail + 1
    BY <1>2 DEF MakeRoom
  <2>2. tail + 1 \in Nat /\ tail <= tail + 1 /\ tail + 1 <= head
        /\ head - (tail + 1) < Slots
    BY <1>2, RingAssumption DEF Full, TypeOK, DepthBound
  <2> QED
    BY <1>1, <1>2, <2>1, <2>2 DEF MakeRoom, Evict, TypeOK
<1>3. CASE ~Full
  BY <1>3, RingAssumption DEF MakeRoom, Evict, Full, TypeOK, DepthBound
<1> QED
  BY <1>2, <1>3

\* begin()'s clamps give a window of at most Slots records, whatever NVS held.
LEMMA LoadedTailBound ==
    ASSUME NEW h \in Nat, NEW t \in Nat
    PROVE  /\ LoadedTail(h, t) \in Nat
           /\ LoadedTail(h, t) <= h
           /\ h - LoadedTail(h, t) <= Slots
  BY RingAssumption DEF LoadedTail

\* A boot leaves the window bounded and no punch in hand.
LEMMA BootEffect ==
    ASSUME DepthInv, Boot,
           flash' \in [SlotRange -> PunchRecord \cup {Torn}],
           evicted' \subseteq PunchRecord
    PROVE  DepthInv'
<1>1. cursors.head \in Nat /\ cursors.tail \in Nat
  BY DEF DepthInv, TypeOK
<1>2. /\ tail' \in Nat /\ tail' <= head' /\ head' - tail' <= Slots
      /\ head' \in Nat
  BY <1>1, LoadedTailBound DEF Boot
<1>3. TypeOK'
  BY <1>2 DEF Boot, DepthInv, TypeOK
<1>4. RecInv'
  BY DEF Boot, DepthInv, RecInv
<1> QED
  BY <1>2, <1>3, <1>4 DEF Boot, DepthInv, DepthBound, RoomInv

\* The type and depth invariant holds when the ring file is new.
LEMMA DepthInit == Init => DepthInv
  BY RingAssumption DEF Init, DepthInv, TypeOK, RecInv, DepthBound, RoomInv

\* Every storage call, fault and boot keeps the type and depth invariant.
LEMMA DepthStep == DepthInv /\ [Next]_ringVars => DepthInv'
<1> SUFFICES ASSUME DepthInv, [Next]_ringVars PROVE DepthInv'
  OBVIOUS
<1> USE DEF DepthInv
<1>a. At(tail) \in PunchRecord \cup {Torn} /\ At(head) \in PunchRecord \cup {Torn}
  BY AtType DEF TypeOK
<1>b. Slot(head) \in SlotRange
  BY SlotType DEF TypeOK
<1>1. CASE NextSeq
  BY <1>1 DEF NextSeq, TypeOK, RecInv, DepthBound, RoomInv, PunchRecord
<1>2. CASE AppendWrite
  <2>1. flash' \in [SlotRange -> PunchRecord \cup {Torn}]
    BY <1>2, <1>a, <1>b DEF AppendWrite, WriteResults, TypeOK, RecInv
  <2>2. PICK t \in Nat : tail' = t /\ t <= head /\ head - t < Slots
    BY <1>2, MakeRoomEffect DEF AppendWrite
  <2>6. evicted' \subseteq PunchRecord
    BY <1>2, MakeRoomEffect DEF AppendWrite
  <2>3. TypeOK'
    BY <1>2, <2>1, <2>2, <2>6 DEF AppendWrite, TypeOK
  <2>4. RecInv'
    BY <1>2 DEF AppendWrite, RecInv
  <2>5. DepthBound' /\ RoomInv'
    BY <1>2, <2>2, RingAssumption DEF AppendWrite, TypeOK, DepthBound, RoomInv
  <2> QED
    BY <2>3, <2>4, <2>5
<1>3. CASE AppendWriteFails
  <2>1. flash' \in [SlotRange -> PunchRecord \cup {Torn}]
    BY <1>3, <1>a, <1>b DEF AppendWriteFails, TypeOK
  <2>2. PICK t \in Nat : tail' = t /\ t <= head /\ head - t < Slots
    BY <1>3, MakeRoomEffect DEF AppendWriteFails
  <2>6. evicted' \subseteq PunchRecord
    BY <1>3, MakeRoomEffect DEF AppendWriteFails
  <2>3. TypeOK'
    BY <1>3, <2>1, <2>2, <2>6 DEF AppendWriteFails, TypeOK
  <2>4. RecInv'
    BY <1>3 DEF AppendWriteFails, RecInv
  <2>5. DepthBound' /\ RoomInv'
    BY <1>3, <2>2, RingAssumption DEF AppendWriteFails, TypeOK, DepthBound, RoomInv
  <2> QED
    BY <2>3, <2>4, <2>5
<1>4. CASE AppendSave
  BY <1>4, RingAssumption DEF AppendSave, TypeOK, RecInv, DepthBound, RoomInv
<1>5. CASE AppendSaveFails
  BY <1>5, RingAssumption DEF AppendSaveFails, TypeOK, RecInv, DepthBound, RoomInv
<1>6. CASE PowerCut
  <2>1. Boot /\ UNCHANGED <<flash, evicted>>
    BY <1>6 DEF PowerCut
  <2> QED
    BY <2>1, BootEffect DEF TypeOK
<1>7. CASE PowerCutTearsWrite
  <2>1. Boot
    BY <1>7 DEF PowerCutTearsWrite
  <2>2. flash' \in [SlotRange -> PunchRecord \cup {Torn}]
    BY <1>7, <1>b DEF PowerCutTearsWrite, TypeOK
  <2>3. evicted' \subseteq PunchRecord
    BY <1>7, <1>a DEF PowerCutTearsWrite, Evict, TypeOK
  <2> QED
    BY <2>1, <2>2, <2>3, BootEffect
<1>8. CASE CorruptCursors
  BY <1>8, RingAssumption
     DEF CorruptCursors, ram, history, TypeOK, RecInv, DepthBound, RoomInv
<1>9. CASE \E ack \in 1 .. seq : AckThrough(ack)
  BY <1>9, RingAssumption DEF AckThrough, TypeOK, RecInv, DepthBound, RoomInv
<1>10. CASE UNCHANGED ringVars
  BY <1>10 DEF ringVars, TypeOK, RecInv, DepthBound, RoomInv
<1> QED
  BY <1>1, <1>2, <1>3, <1>4, <1>5, <1>6, <1>7, <1>8, <1>9, <1>10 DEF Next, RingStep

\* Every variable keeps its type whatever the storage does.
THEOREM TypeCorrect == Spec => []TypeOK
  BY DepthInit, DepthStep, PTL DEF Spec, DepthInv

\* depth() never underflows and the window never outgrows the ring, even when
\* NVS hands begin() an arbitrary cursor pair.
THEOREM DepthSafe == Spec => []DepthBound
  BY DepthInit, DepthStep, PTL DEF Spec, DepthInv

-----------------------------------------------------------------------------
(***************************************************************************)
(* Retention.  Retained alone is not inductive: an append overwrites the   *)
(* slot of position head_ - Slots, and that position may still lie in the  *)
(* saved window when an ack or a cursor save did not reach NVS.  What      *)
(* makes the overwrite harmless is Gone: between the saved tail and the    *)
(* tail in RAM every confirmed record was evicted or acknowledged.         *)
(***************************************************************************)

\* The saved pair lags the pair in RAM and is itself a legal window.
CursorInv ==
    /\ cursors.tail <= tail
    /\ cursors.head <= head
    /\ cursors.tail <= cursors.head
    /\ cursors.head - cursors.tail <= Slots

\* The slot of head_ holds the record append() is about to account for.
WrittenInv == pc = "written" => At(head) = rec

\* A confirmed punch that was evicted or acknowledged.
Settled(r) == r \in evicted \/ r.seq <= acked

Gone ==
    \A p \in cursors.tail .. (tail - 1) :
        At(p) \in confirmed => Settled(At(p))

\* The inductive invariant of retention.
RetainInv == DepthInv /\ CursorInv /\ WrittenInv /\ Gone /\ Retained

\* The retention invariant holds when the ring file is new.
LEMMA RetainInit == Init => RetainInv
  BY DepthInit, RingAssumption
     DEF Init, RetainInv, CursorInv, WrittenInv, Gone, Retained

\* Giving up the oldest record only adds to what was given up.
LEMMA EvictGrows == Evict => evicted \subseteq evicted'
  BY DEF Evict

\* Writing the slot of head_ changes no other position of the window.
LEMMA Overwritten ==
    ASSUME TypeOK, NEW r, flash' = [flash EXCEPT ![Slot(head)] = r], NEW p \in Nat
    PROVE  At(p)' = IF Slot(p) = Slot(head) THEN r ELSE At(p)
  BY SlotType DEF At, TypeOK

\* Overwriting the slot of head_ destroys no confirmed punch but the one the
\* full ring gave up: any other in that slot was dropped from RAM before.
LEMMA OverwriteRetains ==
    ASSUME RetainInv, Evict, NEW r,
           flash' = [flash EXCEPT ![Slot(head)] = r],
           UNCHANGED <<cursors, confirmed, acked>>
    PROVE  Retained'
<1> USE DEF RetainInv, DepthInv
<1> SUFFICES ASSUME NEW x \in confirmed, x \notin evicted', ~(x.seq <= acked)
             PROVE  \E p \in cursors.tail .. (cursors.head - 1) : At(p)' = x
  BY DEF Retained
<1>1. PICK p \in cursors.tail .. (cursors.head - 1) : At(p) = x
  BY EvictGrows DEF Retained
<1>2. /\ head \in Nat /\ tail \in Nat /\ p \in Nat /\ p < head
      /\ cursors.tail \in Nat /\ cursors.tail <= p
  BY DEF CursorInv, TypeOK
<1>3. Slot(p) # Slot(head)
  <2> SUFFICES ASSUME Slot(p) = Slot(head) PROVE FALSE
    OBVIOUS
  <2>1. head - p >= Slots
    BY <1>2, SlotInjective
  <2>2. CASE p < tail
    <3>1. p \in cursors.tail .. (tail - 1)
      BY <1>2, <2>2
    <3> QED
      BY <1>1, <3>1, EvictGrows DEF Gone, Settled
  <2>3. CASE p >= tail
    <3>1. p = tail /\ Full
      BY <1>2, <2>1, <2>3, RingAssumption DEF DepthBound, Full
    <3> QED
      BY <1>1, <3>1 DEF Evict, TypeOK, PunchRecord, Torn
  <2> QED
    BY <1>2, <2>2, <2>3
<1> QED
  BY <1>1, <1>2, <1>3, Overwritten

\* append()'s record write keeps the saved window and Gone, provided it stores
\* an unconfirmed record or leaves the slot as it was.
LEMMA OverwriteSettles ==
    ASSUME RetainInv, MakeRoom, NEW r, r \notin confirmed \/ r = At(head),
           flash' = [flash EXCEPT ![Slot(head)] = r],
           UNCHANGED <<cursors, head, confirmed, acked>>
    PROVE  CursorInv' /\ Gone'
<1> USE DEF RetainInv, DepthInv
<1>1. PICK t \in Nat : tail' = t /\ tail <= t /\ t <= head /\ head - t < Slots
  BY MakeRoomEffect
<1>2. CursorInv'
  BY <1>1 DEF CursorInv, TypeOK
<1>3. ASSUME NEW p \in cursors.tail .. (t - 1), At(p) \in confirmed
      PROVE  At(p) \in evicted' \/ At(p).seq <= acked
  <2>1. CASE p < tail
    BY EvictGrows, <1>1, <1>3, <2>1 DEF Gone, Settled, TypeOK, MakeRoom
  <2>2. CASE p >= tail
    <3>1. p = tail /\ Full
      BY <1>1, <2>2 DEF MakeRoom, TypeOK
    <3> QED
      BY <1>3, <3>1 DEF MakeRoom, Evict, TypeOK, PunchRecord, Torn
  <2> QED
    BY <2>1, <2>2 DEF TypeOK
<1>4. Gone'
  <2> SUFFICES ASSUME NEW p \in cursors.tail .. (t - 1), At(p)' \in confirmed
               PROVE  At(p)' \in evicted' \/ At(p)'.seq <= acked
    BY <1>1 DEF Gone, Settled
  <2>1. p \in Nat
    BY <1>1 DEF TypeOK
  <2>2. At(p)' = At(p)
    BY <2>1, Overwritten DEF At
  <2> QED
    BY <1>3, <2>2
<1> QED
  BY <1>2, <1>4

\* A boot takes the saved window over as it is.
LEMMA BootTakesWindow ==
    ASSUME RetainInv, Boot
    PROVE  CursorInv' /\ WrittenInv' /\ Gone'
<1>1. /\ cursors.head \in Nat /\ cursors.tail \in Nat
      /\ cursors.tail <= cursors.head /\ cursors.head - cursors.tail <= Slots
  BY DEF RetainInv, DepthInv, TypeOK, CursorInv
<1>2. LoadedTail(cursors.head, cursors.tail) = cursors.tail
  BY <1>1, RingAssumption DEF LoadedTail
<1>3. head' = cursors.head /\ tail' = cursors.tail /\ cursors' = cursors /\ pc' = "idle"
  BY <1>2 DEF Boot
<1> QED
  BY <1>1, <1>3 DEF CursorInv, WrittenInv, Gone

\* The two faults that break retention: a flush that fails silently, and cursor
\* entries that come back changed.
LEMMA RetainStep ==
    ASSUME "flush" \notin Faults, "corrupt" \notin Faults
    PROVE  RetainInv /\ [Next]_ringVars => RetainInv'
<1> SUFFICES ASSUME RetainInv, [Next]_ringVars PROVE RetainInv'
  OBVIOUS
<1>a. DepthInv'
  BY DepthStep DEF RetainInv
<1>b. /\ head \in Nat /\ tail \in Nat /\ acked \in Nat
      /\ cursors.head \in Nat /\ cursors.tail \in Nat
      /\ tail <= head /\ head - tail <= Slots
  BY DEF RetainInv, DepthInv, TypeOK, DepthBound
<1>c. Torn \notin confirmed
  BY DEF RetainInv, DepthInv, TypeOK, PunchRecord, Torn
<1>1. CASE NextSeq
  BY <1>1, <1>a DEF NextSeq, RetainInv, CursorInv, WrittenInv, Gone, Settled, Retained, At
<1>2. CASE AppendWrite
  <2>1. flash' = [flash EXCEPT ![Slot(head)] = rec]
    BY <1>2 DEF AppendWrite, WriteResults
  <2>2. rec \notin confirmed
    BY <1>2 DEF AppendWrite, RetainInv, DepthInv, TypeOK, RecInv
  <2>3. CursorInv' /\ Gone'
    BY <1>2, <2>1, <2>2, OverwriteSettles DEF AppendWrite
  <2>4. Retained'
    BY <1>2, <2>1, OverwriteRetains DEF AppendWrite, MakeRoom
  <2>5. At(head)' = rec /\ head' = head /\ rec' = rec
    BY <1>2, <1>b, <2>1, Overwritten DEF AppendWrite, RetainInv, DepthInv
  <2>6. WrittenInv'
    BY <2>5 DEF WrittenInv, At
  <2> QED
    BY <1>a, <2>3, <2>4, <2>6 DEF RetainInv
<1>3. CASE AppendWriteFails
  <2>1. PICK r \in {At(head), Torn} : flash' = [flash EXCEPT ![Slot(head)] = r]
    BY <1>3 DEF AppendWriteFails
  <2>2. CursorInv' /\ Gone'
    BY <1>3, <1>c, <2>1, OverwriteSettles DEF AppendWriteFails
  <2>3. Retained'
    BY <1>3, <2>1, OverwriteRetains DEF AppendWriteFails, MakeRoom
  <2> QED
    BY <1>3, <1>a, <2>2, <2>3 DEF AppendWriteFails, RetainInv, WrittenInv
<1>4. CASE AppendSave
  <2> DEFINE saved == tail .. head
  <2>1. /\ head' = head + 1 /\ tail' = tail /\ pc' = "idle"
        /\ cursors' = [head |-> head + 1, tail |-> tail]
        /\ UNCHANGED <<flash, evicted, acked>>
        /\ confirmed' = confirmed \cup {rec}
    BY <1>4 DEF AppendSave
  <2>2. At(head) = rec /\ head - tail < Slots
    BY <1>4 DEF AppendSave, RetainInv, WrittenInv, DepthInv, RoomInv
  <2>3. \A x \in confirmed :
           Settled(x) \/ \E p \in saved : At(p) = x
    <3> SUFFICES ASSUME NEW x \in confirmed, ~Settled(x)
                 PROVE  \E p \in saved : At(p) = x
      OBVIOUS
    <3>1. PICK p \in cursors.tail .. (cursors.head - 1) : At(p) = x
      BY DEF RetainInv, Retained, Settled
    <3>2. p \in Int /\ cursors.tail <= p /\ p <= head
      BY <1>b DEF RetainInv, CursorInv
    <3>3. ~(p < tail)
      BY <1>b, <3>1, <3>2 DEF RetainInv, Gone
    <3> QED
      BY <1>b, <3>1, <3>2, <3>3
  <2>4. \E p \in saved : At(p) = rec
    BY <1>b, <2>2
  <2>5. Retained'
    <3>1. cursors'.tail = tail /\ cursors'.head - 1 = head
      BY <1>b, <2>1
    <3>2. \A p : At(p)' = At(p)
      BY <2>1 DEF At
    <3> QED
      BY <2>1, <2>3, <2>4, <3>1, <3>2 DEF Retained, Settled
  <2>6. CursorInv'
    BY <1>b, <2>1, <2>2, RingAssumption DEF CursorInv
  <2>7. Gone' /\ WrittenInv'
    BY <1>b, <2>1 DEF Gone, WrittenInv
  <2> QED
    BY <1>a, <2>5, <2>6, <2>7 DEF RetainInv
<1>5. CASE AppendSaveFails
  BY <1>5, <1>a, <1>b
     DEF AppendSaveFails, RetainInv, CursorInv, WrittenInv, Gone, Settled, Retained, At
<1>6. CASE PowerCut
  BY <1>6, <1>a, BootTakesWindow DEF PowerCut, Boot, RetainInv, Retained, At
<1>7. CASE PowerCutTearsWrite
  <2>1. Retained'
    BY <1>7, OverwriteRetains DEF PowerCutTearsWrite, Boot
  <2> QED
    BY <1>7, <1>a, <2>1, BootTakesWindow DEF PowerCutTearsWrite, RetainInv
<1>8. CASE CorruptCursors
  BY <1>8 DEF CorruptCursors
<1>9. CASE \E ack \in 1 .. seq : AckThrough(ack)
  <2>1. PICK ack \in 1 .. seq, t \in tail .. head :
           /\ StopsAt(t, ack)
           /\ tail' = t
           /\ cursors' = [head |-> head, tail |-> t] \/ cursors' = cursors
           /\ acked' = IF ack > acked THEN ack ELSE acked
           /\ UNCHANGED <<flash, head, pc, rec, confirmed, evicted>>
    BY <1>9 DEF AckThrough
  <2>2. t \in Nat /\ tail <= t /\ t <= head /\ ack \in Nat
    BY <1>b, <2>1 DEF RetainInv, DepthInv, TypeOK
  <2>3. acked' \in Nat /\ acked <= acked' /\ ack <= acked'
    BY <1>b, <2>1, <2>2
  <2> DEFINE SettledNow(x) == x \in evicted' \/ x.seq <= acked'
  <2>4. \A x \in confirmed : Settled(x) => SettledNow(x)
    BY <1>b, <2>1, <2>3 DEF Settled, RetainInv, DepthInv, TypeOK, PunchRecord
  <2>5. ASSUME NEW p \in cursors.tail .. (t - 1), At(p) \in confirmed
        PROVE  SettledNow(At(p))
    <3>1. CASE p < tail
      <4>1. p \in cursors.tail .. (tail - 1)
        BY <1>b, <2>2, <3>1
      <4>2. Settled(At(p))
        BY <2>5, <4>1 DEF RetainInv, Gone
      <4> QED
        BY <2>4, <2>5, <4>2
    <3>2. CASE p >= tail
      <4>1. At(p).seq <= ack
        BY <1>b, <1>c, <2>1, <2>2, <2>5, <3>2 DEF StopsAt, Droppable
      <4>2. At(p).seq \in Nat
        BY <2>5 DEF RetainInv, DepthInv, TypeOK, PunchRecord
      <4> QED
        BY <2>2, <2>3, <4>1, <4>2
    <3> QED
      BY <1>b, <2>2, <3>1, <3>2
  <2>6. Gone' /\ Retained'
    <3>1. \A p : At(p)' = At(p)
      BY <2>1 DEF At
    <3>2. CASE cursors' = cursors
      <4>1. Gone'
        BY <2>1, <2>5, <3>1, <3>2 DEF Gone, Settled
      <4>2. Retained'
        BY <2>1, <2>4, <3>1, <3>2 DEF RetainInv, Retained, Settled
      <4> QED
        BY <4>1, <4>2
    <3>3. CASE cursors' = [head |-> head, tail |-> t]
      <4>1. Gone'
        BY <2>1, <2>2, <3>3 DEF Gone
      <4>2. ASSUME NEW x \in confirmed, ~SettledNow(x)
            PROVE  \E p \in t .. (head - 1) : At(p) = x
        <5>1. PICK p \in cursors.tail .. (cursors.head - 1) : At(p) = x
          BY <2>4, <4>2 DEF RetainInv, Retained, Settled
        <5>2. p \in Int /\ cursors.tail <= p /\ p <= head - 1
          BY <1>b DEF RetainInv, CursorInv
        <5>3. ~(p < t)
          <6> SUFFICES ASSUME p < t PROVE FALSE
            OBVIOUS
          <6>1. p \in cursors.tail .. (t - 1)
            BY <1>b, <2>2, <5>2
          <6> QED
            BY <2>5, <4>2, <5>1, <6>1
        <5> QED
          BY <1>b, <2>2, <5>1, <5>2, <5>3
      <4>3. Retained'
        BY <2>1, <3>1, <3>3, <4>2 DEF Retained
      <4> QED
        BY <4>1, <4>3
    <3> QED
      BY <2>1, <3>2, <3>3
  <2>7. CursorInv'
    <3>1. CASE cursors' = cursors
      BY <1>b, <2>1, <2>2, <3>1 DEF RetainInv, CursorInv
    <3>2. CASE cursors' = [head |-> head, tail |-> t]
      <4>1. head - t <= Slots
        BY <1>b, <2>2, RingAssumption
      <4> QED
        BY <1>b, <2>1, <2>2, <3>2, <4>1 DEF CursorInv
    <3> QED
      BY <2>1, <3>1, <3>2
  <2>8. WrittenInv'
    BY <2>1 DEF RetainInv, WrittenInv, At
  <2> QED
    BY <1>a, <2>6, <2>7, <2>8 DEF RetainInv
<1>10. CASE UNCHANGED ringVars
  BY <1>10, <1>a
     DEF ringVars, RetainInv, CursorInv, WrittenInv, Gone, Settled, Retained, At
<1> QED
  BY <1>1, <1>2, <1>3, <1>4, <1>5, <1>6, <1>7, <1>8, <1>9, <1>10 DEF Next, RingStep

\* A punch shown green survives any sequence of power cuts, failed record
\* writes, failed cursor saves and failed reads, for a ring of any size, until
\* it is acknowledged or is the oldest record of a full ring.
THEOREM RetainedSafe ==
    ASSUME "flush" \notin Faults, "corrupt" \notin Faults
    PROVE  Spec => []Retained
<1>1. Init => RetainInv
  BY RetainInit
<1>2. RetainInv /\ [Next]_ringVars => RetainInv'
  BY RetainStep
<1>3. RetainInv => Retained
  BY DEF RetainInv
<1> QED
  BY <1>1, <1>2, <1>3, PTL DEF Spec

-----------------------------------------------------------------------------
(***************************************************************************)
(* Numbers.  What is said of the window in RAM must survive a boot, which  *)
(* replaces it by the saved one, so the invariant speaks of every position *)
(* either can reach: from the saved tail to the position the next write    *)
(* goes to, as far as the ring still holds them.  AgeInv is the            *)
(* strengthening that makes eviction safe: each record carries at least as *)
(* many later numbers as there are records after it.  One record may break *)
(* both: a cut after append()'s record write and before its cursor save,   *)
(* on a full ring, reloads a window whose first place holds the newest     *)
(* record.  Misplaced says what is known of it.                            *)
(***************************************************************************)

\* The faults under which numbers stay ordered.  Each of the others can put an
\* old record behind a newer one, or issue a number twice.
OrderedFaults == Faults \cap {"seq", "flush", "corrupt"} = {}

Frontier == IF pc = "written" THEN head + 1 ELSE head

\* Positions the window in RAM or, after a cut, the saved window may show.
Live == {p \in cursors.tail .. (Frontier - 1) : p >= Frontier - Slots}

\* Is the record one that nextSeq() has numbered?
Numbered(r) == r.uuid = r.seq /\ r.seq <= seq

\* nextSeq() commits each number before use, so numbers count punches.
NumberInv ==
    /\ nvsSeq = seq /\ punches = seq /\ seq <= MaxPunches
    /\ pc \in {"numbered", "written"} => rec.seq = seq
    /\ \A r \in confirmed \cup evicted : Numbered(r)
    /\ \A s \in SlotRange : Numbered(flash[s])
    /\ pc = "numbered" => \A s \in SlotRange : flash[s].seq < seq

\* The first place of a full saved window, holding a record whose cursor save a
\* cut or a fault kept from finishing: never confirmed, newer than what follows.
Misplaced(p) ==
    p = cursors.head - Slots /\ Frontier = cursors.head /\ At(p) \notin confirmed

OrderInv ==
    \A p, q \in Live :
        (p < q /\ At(p) # Torn /\ At(q) # Torn) =>
            At(p).seq < At(q).seq \/ Misplaced(p)

\* The number nextSeq() has issued and append() has not yet written.
Pending == IF pc = "numbered" THEN 1 ELSE 0

AgeInv ==
    \A p \in Live :
        At(p) # Torn =>
            At(p).seq + (Frontier - 1 - p) + Pending <= seq \/ Misplaced(p)

\* What a full ring gave up is old, if it was ever shown green, and is never the
\* record in hand.
GivenUpInv ==
    \A r \in evicted :
        /\ r \in confirmed => r.seq + Slots <= seq
        /\ pc \in {"numbered", "written"} => r.seq < seq

\* The saved head lags by at most the record whose cursor save just failed.
HeadInv ==
    \/ cursors.head = head
    \/ pc = "fault" /\ head = cursors.head + 1 /\ At(cursors.head) \notin confirmed

WindowInv ==
    RetainInv /\ NumberInv /\ OrderInv /\ AgeInv /\ GivenUpInv /\ HeadInv

\* Numbers before the first punch.
LEMMA WindowInit == Init => WindowInv
<1> SUFFICES ASSUME Init PROVE WindowInv
  OBVIOUS
<1>1. RetainInv
  BY RetainInit
<1>2. Live = {}
  BY RingAssumption DEF Init, Live, Frontier
<1>3. NumberInv /\ GivenUpInv /\ HeadInv
  BY RingAssumption DEF Init, NumberInv, GivenUpInv, HeadInv, Numbered, Torn
<1> QED
  BY <1>1, <1>2, <1>3 DEF WindowInv, OrderInv, AgeInv

\* Whatever is read at a position has been numbered.
LEMMA AtNumbered ==
    ASSUME NumberInv, NEW p \in Nat
    PROVE  Numbered(At(p)) /\ (pc = "numbered" => At(p).seq < seq)
  BY SlotType DEF NumberInv, At

\* The number in NVS, in RAM and on the latest record agree after every step.
LEMMA NumberStep ==
    ASSUME OrderedFaults, RetainInv, NumberInv, GivenUpInv, [Next]_ringVars
    PROVE  NumberInv'
<1>a. /\ seq \in Nat /\ head \in Nat /\ tail \in Nat /\ Torn.seq = 0 /\ Torn.uuid = 0
      /\ flash \in [SlotRange -> PunchRecord \cup {Torn}]
      /\ pc # "idle" => rec.uuid = punches
      /\ \A p \in Nat : Slot(p) \in SlotRange
      /\ "seq" \notin Faults /\ "flush" \notin Faults /\ "corrupt" \notin Faults
  BY SlotType DEF RetainInv, DepthInv, TypeOK, RecInv, Torn, OrderedFaults
<1>b. \A s \in SlotRange : flash[s].seq \in Nat
  BY <1>a DEF PunchRecord
<1>c. \A r \in confirmed \cup evicted : r.seq \in Nat
  BY DEF RetainInv, DepthInv, TypeOK, PunchRecord
<1>d. Numbered(At(head)) /\ Numbered(At(tail)) /\ Numbered(Torn)
  BY <1>a, AtNumbered DEF Numbered
<1>e. ASSUME UNCHANGED <<seq, nvsSeq, punches>>, confirmed' \subseteq confirmed \cup {rec},
             rec \in confirmed' => rec \in confirmed \/ pc = "written",
             pc' \in {"numbered", "written"} => rec' = rec /\ pc \in {"numbered", "written"},
             evicted' \subseteq evicted \cup {At(tail)},
             flash' = flash \/ \E r : /\ Numbered(r)
                                    /\ flash' = [flash EXCEPT ![Slot(head)] = r],
             pc' = "numbered" => pc = "numbered" /\ flash' = flash
      PROVE  NumberInv'
  <2>1. \A s \in SlotRange : Numbered(flash'[s])
    BY <1>a, <1>e DEF NumberInv
  <2>2. \A r \in confirmed' \cup evicted' : Numbered(r)
    <3>1. pc = "written" => Numbered(rec)
      BY <1>a DEF NumberInv, Numbered
    <3> QED
      BY <1>d, <1>e, <3>1 DEF NumberInv
  <2>3. \A r : Numbered(r)' <=> Numbered(r)
    BY <1>e DEF Numbered
  <2>4. \A s \in SlotRange : Numbered(flash[s])'
    BY <1>e, <2>1 DEF Numbered
  <2> QED
    BY <1>e, <2>1, <2>2, <2>3, <2>4 DEF NumberInv, Numbered
<1>1. CASE NextSeq
  <2>1. /\ seq' = seq + 1 /\ nvsSeq' = seq + 1 /\ punches' = punches + 1
        /\ punches < MaxPunches /\ rec'.seq = seq + 1
        /\ UNCHANGED <<flash, confirmed, evicted>>
    BY <1>1, <1>a DEF NextSeq
  <2>2. \A s \in SlotRange : flash[s].uuid = flash[s].seq /\ flash[s].seq <= seq
    BY DEF NumberInv, Numbered
  <2>3. \A r \in confirmed \cup evicted : r.uuid = r.seq /\ r.seq <= seq
    BY DEF NumberInv, Numbered
  <2> QED
    BY <1>a, <1>b, <1>c, <2>1, <2>2, <2>3, RingAssumption DEF NumberInv, Numbered
<1>2. CASE AppendWrite
  <2>1. flash' = [flash EXCEPT ![Slot(head)] = rec]
    BY <1>2, <1>a DEF AppendWrite, WriteResults
  <2>2. Numbered(rec)
    BY <1>2, <1>a DEF AppendWrite, NumberInv, Numbered
  <2> QED
    BY <1>2, <1>e, <2>1, <2>2 DEF AppendWrite, MakeRoom, Evict
<1>3. CASE AppendWriteFails
  BY <1>3, <1>d, <1>e DEF AppendWriteFails, MakeRoom, Evict
<1>4. CASE AppendSave
  BY <1>4, <1>e DEF AppendSave
<1>5. CASE AppendSaveFails
  BY <1>5, <1>e DEF AppendSaveFails, RetainInv, DepthInv, RecInv
<1>6. CASE PowerCut \/ PowerCutTearsWrite
  <2>1. /\ UNCHANGED <<nvsSeq, punches, confirmed, rec>>
        /\ seq' = seq /\ pc' = "idle"
        /\ evicted' \subseteq evicted \cup {At(tail)}
        /\ flash' = flash \/ flash' = [flash EXCEPT ![Slot(head)] = Torn]
    BY <1>6 DEF PowerCut, PowerCutTearsWrite, Boot, Evict, NumberInv
  <2> QED
    BY <1>d, <1>e, <2>1
<1>7. CASE CorruptCursors
  BY <1>7, <1>a DEF CorruptCursors
<1>8. CASE \E ack \in 1 .. seq : AckThrough(ack)
  BY <1>8, <1>e DEF AckThrough
<1>9. CASE UNCHANGED ringVars
  BY <1>9, <1>e DEF ringVars
<1> QED
  BY <1>1, <1>2, <1>3, <1>4, <1>5, <1>6, <1>7, <1>8, <1>9 DEF Next, RingStep

\* The saved head catches up with every save.
LEMMA HeadStep ==
    ASSUME OrderedFaults, RetainInv, HeadInv, [Next]_ringVars
    PROVE  HeadInv'
<1>a. /\ head \in Nat /\ cursors.head \in Nat
      /\ "corrupt" \notin Faults
      /\ cursors \in [head : Nat, tail : Nat]
  BY DEF OrderedFaults, RetainInv, DepthInv, TypeOK
<1>1. CASE NextSeq
  BY <1>1 DEF NextSeq, HeadInv
<1>2. CASE AppendWrite \/ AppendWriteFails
  BY <1>2 DEF AppendWrite, AppendWriteFails, HeadInv
<1>3. CASE AppendSave
  BY <1>3 DEF AppendSave, HeadInv
<1>4. CASE AppendSaveFails
  <2>1. /\ cursors.head = head /\ cursors' = cursors /\ head' = head + 1 /\ pc' = "fault"
        /\ confirmed' = confirmed
    BY <1>4 DEF AppendSaveFails, HeadInv
  <2>2. rec \notin confirmed
    BY <1>4 DEF AppendSaveFails, RetainInv, DepthInv, RecInv, TypeOK
  <2>3. At(cursors.head)' = rec
    BY <1>4, <2>1 DEF AppendSaveFails, At, RetainInv, WrittenInv
  <2> QED
    BY <2>1, <2>2, <2>3 DEF HeadInv
<1>5. CASE PowerCut \/ PowerCutTearsWrite
  BY <1>5 DEF PowerCut, PowerCutTearsWrite, Boot, HeadInv
<1>6. CASE CorruptCursors
  BY <1>6, <1>a DEF CorruptCursors
<1>7. CASE \E ack \in 1 .. seq : AckThrough(ack)
  <2>1. PICK t \in tail .. head :
           /\ cursors' = [head |-> head, tail |-> t] \/ cursors' = cursors
           /\ UNCHANGED <<flash, head, pc, confirmed>>
    BY <1>7 DEF AckThrough
  <2> QED
    BY <2>1 DEF HeadInv, At
<1>8. CASE UNCHANGED ringVars
  BY <1>8 DEF ringVars, HeadInv, At
<1> QED
  BY <1>1, <1>2, <1>3, <1>4, <1>5, <1>6, <1>7, <1>8 DEF Next, RingStep

\* Positions and counts are natural numbers, before and after a step.
LEMMA FrontierType ==
    ASSUME TypeOK, TypeOK'
    PROVE  /\ Frontier \in Nat /\ Frontier' \in Nat /\ Pending \in Nat /\ Pending' \in Nat
           /\ Live \subseteq Nat
<1>1. head \in Nat /\ head' \in Nat /\ cursors.tail \in Nat
  BY DEF TypeOK
<1>2. Frontier \in Nat /\ Frontier' \in Nat
  <2>1. PICK h \in Nat : head' = h
    BY <1>1
  <2> QED
    BY <1>1, <2>1 DEF Frontier
<1>3. Pending \in Nat /\ Pending' \in Nat
  BY DEF Pending
<1>4. Live \subseteq Nat
  BY <1>1, <1>2 DEF Live
<1> QED
  BY <1>2, <1>3, <1>4

\* What a step shows at a position it showed before, or had already: the same
\* record or a torn one, misplaced if it was misplaced, or else a record that
\* the step misplaces.
ShowsSame(p) ==
    \/ /\ p \in Live
       /\ At(p)' = At(p) \/ At(p)' = Torn
       /\ Misplaced(p) => Misplaced(p)' \/ At(p)' = Torn
    \/ Misplaced(p)'

\* Steps that show no new record, but a misplaced one, keep the order and the
\* age of what they show.
LEMMA LiveKept ==
    ASSUME TypeOK, TypeOK', OrderInv, AgeInv,
           \A p \in Live' : ShowsSame(p),
           Frontier' + Pending' - seq' <= Frontier + Pending - seq
    PROVE  OrderInv' /\ AgeInv'
<1>0. PICK f \in Nat, h \in Nat : Frontier' = f /\ cursors'.head = h
  BY FrontierType DEF TypeOK
<1>1. OrderInv'
  <2> SUFFICES ASSUME NEW p \in Live', NEW q \in Live', p < q, At(p)' # Torn, At(q)' # Torn,
                      ~Misplaced(p)'
               PROVE  At(p)'.seq < At(q)'.seq
    BY DEF OrderInv
  <2>1. ~Misplaced(q)'
    <3> SUFFICES ASSUME Misplaced(q)' PROVE FALSE
      OBVIOUS
    <3>1. q = h - Slots /\ f = h
      BY <1>0 DEF Misplaced
    <3>2. p \in Int /\ p >= f - Slots
      BY <1>0, RingAssumption DEF Live, TypeOK
    <3> QED
      BY <1>0, <3>1, <3>2, RingAssumption
  <2>2. p \in Live /\ q \in Live /\ At(p)' = At(p) /\ At(q)' = At(q) /\ ~Misplaced(p)
    BY <2>1 DEF ShowsSame
  <2> QED
    BY <2>2 DEF OrderInv
<1>2. AgeInv'
  <2> SUFFICES ASSUME NEW p \in Live', At(p)' # Torn, ~Misplaced(p)'
               PROVE  At(p)'.seq + (Frontier' - 1 - p) + Pending' <= seq'
    BY DEF AgeInv
  <2>0. p \in Live /\ At(p)' = At(p) /\ ~Misplaced(p)
    BY DEF ShowsSame
  <2>1. At(p).seq + (Frontier - 1 - p) + Pending <= seq
    BY <2>0 DEF AgeInv
  <2>2. /\ p \in Nat /\ seq \in Nat /\ seq' \in Nat
        /\ Frontier \in Nat /\ Frontier' \in Nat /\ Pending \in Nat /\ Pending' \in Nat
    BY <2>0, FrontierType DEF TypeOK
  <2>3. At(p).seq \in Nat
    BY <2>2, AtType DEF PunchRecord, Torn
  <2>4. ASSUME NEW a \in Nat, NEW x \in Nat, NEW y \in Nat, NEW s \in Nat, NEW t \in Nat,
               NEW b \in Nat, NEW c \in Nat,
               a + (x - 1 - p) + b <= s, y + c - t <= x + b - s
        PROVE  a + (y - 1 - p) + c <= t
    BY <2>2, <2>4
  <2>5. At(p)'.seq + (Frontier' - 1 - p) + Pending' <= seq'
    BY <2>0, <2>1, <2>2, <2>3, <2>4
  <2> QED
    BY <2>5
<1> QED
  BY <1>1, <1>2

\* What a full ring gives up, if it was shown green, is older than Slots - 1
\* records of the window and the number being written.
LEMMA EvictOldest ==
    ASSUME WindowInv, pc = "numbered", Evict, seq' = seq, confirmed' = confirmed
    PROVE  GivenUpInv'
<1> SUFFICES ASSUME NEW r \in evicted'
             PROVE  (r \in confirmed => r.seq + Slots <= seq) /\ r.seq < seq
  BY DEF GivenUpInv
<1>1. CASE r \in evicted
  BY <1>1 DEF WindowInv, GivenUpInv
<1>2. CASE Full /\ At(tail) # Torn /\ r = At(tail)
  <2>1. /\ head \in Nat /\ tail \in Nat /\ seq \in Nat /\ cursors.tail \in Nat
        /\ cursors.tail <= tail /\ head - tail = Slots
    BY <1>2, RingAssumption
       DEF WindowInv, RetainInv, DepthInv, TypeOK, CursorInv, DepthBound, Full
  <2>2. tail \in Live /\ Frontier = head /\ Pending = 1
    BY <2>1, RingAssumption DEF Live, Frontier, Pending
  <2>3. r \in confirmed => r.seq + (head - 1 - tail) + 1 <= seq
    BY <1>2, <2>2 DEF WindowInv, AgeInv, Misplaced
  <2>4. r.seq \in Nat /\ r.seq < seq
    BY <1>2, <2>1, AtType, AtNumbered DEF WindowInv, RetainInv, DepthInv, PunchRecord, Torn
  <2> QED
    BY <2>1, <2>3, <2>4, RingAssumption
<1> QED
  BY <1>1, <1>2 DEF Evict

\* The record append() writes is newer than all it may be shown with.
LEMMA WriteOrdered ==
    ASSUME OrderedFaults, WindowInv, TypeOK', AppendWrite
    PROVE  OrderInv' /\ AgeInv'
<1>a. /\ head \in Nat /\ tail \in Nat /\ seq \in Nat /\ cursors.tail \in Nat
      /\ TypeOK /\ rec.seq = seq /\ rec \in PunchRecord
      /\ "flush" \notin Faults
  BY DEF AppendWrite, WindowInv, RetainInv, DepthInv, TypeOK, NumberInv, RecInv, OrderedFaults
<1>1. /\ flash' = [flash EXCEPT ![Slot(head)] = rec]
      /\ pc = "numbered" /\ pc' = "written"
      /\ UNCHANGED <<cursors, head, seq>>
  BY <1>a DEF AppendWrite, WriteResults
<1>2. Frontier = head /\ Frontier' = head + 1 /\ Pending = 1 /\ Pending' = 0
  BY <1>1 DEF Frontier, Pending
<1>3. \A p \in Live' : p \in Nat /\ p <= head /\ p >= head + 1 - Slots
  BY <1>a, <1>1, <1>2, RingAssumption DEF Live
<1>4. At(head)' = rec
  BY <1>a, <1>1, Overwritten
<1>5. ASSUME NEW p \in Live', p # head
      PROVE  p \in Live /\ At(p)' = At(p) /\ At(p).seq \in Nat
  <2>1. p \in Nat /\ p < head /\ head - p < Slots
    BY <1>a, <1>3, <1>5, RingAssumption
  <2>2. p \in Live
    BY <1>1, <1>2, <1>a, <2>1, RingAssumption DEF Live
  <2>3. Slot(p) # Slot(head)
    BY <1>a, <2>1, SlotInjective, RingAssumption
  <2>4. At(p)' = At(p)
    BY <1>a, <1>1, <2>1, <2>3, Overwritten
  <2>5. At(p).seq \in Nat
    BY <1>a, <2>1, AtType DEF PunchRecord, Torn
  <2> QED
    BY <2>2, <2>4, <2>5
<1>6. \A p \in Nat : At(p).seq < seq
  BY <1>1, AtNumbered DEF WindowInv
<1>9. \A p \in Live' : ~Misplaced(p) \/ p = head
  <2>1. cursors.head = head
    BY <1>1 DEF WindowInv, HeadInv
  <2> QED
    BY <1>3, <1>a, <2>1, RingAssumption DEF Misplaced
<1>7. OrderInv'
  <2> SUFFICES ASSUME NEW p \in Live', NEW q \in Live', p < q, At(p)' # Torn, At(q)' # Torn
               PROVE  At(p)'.seq < At(q)'.seq
    BY DEF OrderInv
  <2>1. p # head
    BY <1>3, <1>a
  <2>2. CASE q = head
    <3>1. At(q)' = rec
      BY <1>1, <1>4, <2>2 DEF At
    <3>2. At(p)' = At(p) /\ At(p).seq < seq
      BY <1>3, <1>5, <1>6, <2>1
    <3> QED
      BY <1>a, <3>1, <3>2
  <2>3. CASE q # head
    BY <1>5, <1>9, <2>1, <2>3 DEF WindowInv, OrderInv
  <2> QED
    BY <2>2, <2>3
<1>8. AgeInv'
  <2> SUFFICES ASSUME NEW p \in Live', At(p)' # Torn
               PROVE  At(p)'.seq + (Frontier' - 1 - p) + Pending' <= seq'
    BY DEF AgeInv
  <2>1. CASE p = head
    BY <1>1, <1>2, <1>4, <1>a, <2>1
  <2>2. CASE p # head
    <3>1. At(p).seq + (Frontier - 1 - p) + Pending <= seq
      BY <1>5, <1>9, <2>2 DEF WindowInv, AgeInv
    <3> QED
      BY <1>1, <1>2, <1>3, <1>5, <1>a, <2>2, <3>1
  <2> QED
    BY <2>1, <2>2
<1> QED
  BY <1>7, <1>8

\* After a cut the saved window is shown; at most its first place has been
\* reused, by the record that append() had written and not yet accounted for.
LEMMA CutOrdered ==
    ASSUME OrderedFaults, WindowInv, TypeOK', PowerCut \/ PowerCutTearsWrite
    PROVE  OrderInv' /\ AgeInv'
<1>a. /\ head \in Nat /\ tail \in Nat /\ seq \in Nat
      /\ cursors.head \in Nat /\ cursors.tail \in Nat
      /\ TypeOK /\ CursorInv /\ nvsSeq = seq /\ HeadInv
  BY DEF WindowInv, RetainInv, DepthInv, TypeOK, NumberInv
<1>1. /\ seq' = seq /\ head' = cursors.head /\ cursors' = cursors
      /\ pc' = "idle" /\ confirmed' = confirmed
      /\ \/ flash' = flash
         \/ pc = "numbered" /\ flash' = [flash EXCEPT ![Slot(head)] = Torn]
  BY <1>a DEF PowerCut, PowerCutTearsWrite, Boot
<1>2. /\ Frontier' = cursors.head /\ Pending' = 0 /\ Pending \in {0, 1}
      /\ Frontier = cursors.head \/ Frontier = cursors.head + 1
  BY <1>1, <1>a DEF Frontier, Pending, HeadInv
<1>3. Frontier = cursors.head + 1 => flash' = flash /\ At(cursors.head) \notin confirmed
  <2> SUFFICES ASSUME Frontier = cursors.head + 1
               PROVE  flash' = flash /\ At(cursors.head) \notin confirmed
    OBVIOUS
  <2>1. CASE pc = "written"
    <3>1. cursors.head = head /\ At(head) = rec
      BY <1>a, <2>1 DEF HeadInv, WindowInv, RetainInv, WrittenInv
    <3>2. rec \notin confirmed
      BY <2>1 DEF WindowInv, RetainInv, DepthInv, RecInv, TypeOK
    <3> QED
      BY <1>1, <2>1, <3>1, <3>2
  <2>2. CASE pc # "written"
    BY <1>1, <1>a, <2>2 DEF Frontier, HeadInv
  <2> QED
    BY <2>1, <2>2
<1>4. \A p \in Nat : At(p)' = At(p) \/ At(p)' = Torn
  <2>1. CASE flash' = flash
    BY <2>1 DEF At
  <2>2. CASE flash' = [flash EXCEPT ![Slot(head)] = Torn]
    BY <2>2, <1>a, Overwritten
  <2> QED
    BY <1>1, <2>1, <2>2
<1>5. ASSUME NEW p \in Live' PROVE ShowsSame(p)
  <2>1. p \in Nat /\ cursors.tail <= p /\ p < cursors.head /\ p >= cursors.head - Slots
    BY <1>1, <1>2, <1>a, RingAssumption DEF Live
  <2>2. Misplaced(p)' <=> p = cursors.head - Slots /\ At(p)' \notin confirmed
    BY <1>1, <1>2 DEF Misplaced
  <2>3. CASE p \in Live
    BY <1>4, <2>1, <2>2, <2>3 DEF ShowsSame, Misplaced
  <2>4. CASE p \notin Live
    <3>1. p = cursors.head - Slots /\ Frontier = cursors.head + 1
      BY <1>2, <1>a, <2>1, <2>4, RingAssumption DEF Live
    <3>2. p + Slots = cursors.head
      BY <1>a, <2>1, <3>1, RingAssumption
    <3>3. At(p) = At(cursors.head)
      BY <2>1, <3>2, SlotPeriod DEF At
    <3>4. At(p)' = At(p)
      BY <1>3, <3>1 DEF At
    <3> QED
      BY <1>3, <2>2, <3>1, <3>3, <3>4 DEF ShowsSame
  <2> QED
    BY <2>3, <2>4
<1>6. Frontier' + Pending' - seq' <= Frontier + Pending - seq
  BY <1>1, <1>2, <1>a
<1> QED
  BY <1>5, <1>6, <1>a, LiveKept DEF WindowInv

\* Every step keeps the numbering, the order and the age of the records.
LEMMA WindowStep ==
    ASSUME OrderedFaults
    PROVE  WindowInv /\ [Next]_ringVars => WindowInv'
<1> SUFFICES ASSUME WindowInv, [Next]_ringVars PROVE WindowInv'
  OBVIOUS
<1>a. RetainInv' /\ TypeOK' /\ NumberInv' /\ HeadInv'
  <2>1. "flush" \notin Faults /\ "corrupt" \notin Faults
    BY DEF OrderedFaults
  <2>2. RetainInv'
    BY <2>1, RetainStep DEF WindowInv
  <2> QED
    BY <2>2, NumberStep, HeadStep DEF WindowInv, RetainInv, DepthInv
<1>b. /\ TypeOK /\ CursorInv /\ "corrupt" \notin Faults /\ nvsSeq = seq
      /\ head \in Nat /\ tail \in Nat /\ seq \in Nat /\ cursors.tail \in Nat
  BY DEF WindowInv, RetainInv, DepthInv, TypeOK, NumberInv, OrderedFaults
<1>c. ASSUME Live' \subseteq Live, flash' = flash, UNCHANGED seq,
             Frontier' + Pending' <= Frontier + Pending, GivenUpInv',
             \A p \in Live' : Misplaced(p) => Misplaced(p)'
      PROVE  WindowInv'
  <2>1. \A p : At(p)' = At(p)
    BY <1>c DEF At
  <2>2. Frontier \in Nat /\ Frontier' \in Nat /\ Pending \in Nat /\ Pending' \in Nat
    BY <1>a, <1>b, FrontierType
  <2>3. PICK x \in Nat, y \in Nat : Frontier' = x /\ Pending' = y
    BY <2>2
  <2>4. Frontier' + Pending' - seq' <= Frontier + Pending - seq
    BY <1>b, <1>c, <2>2, <2>3
  <2>6. \A p \in Live' : ShowsSame(p)
    BY <1>c, <2>1 DEF ShowsSame
  <2>5. OrderInv' /\ AgeInv'
    BY <1>a, <1>b, <2>4, <2>6, LiveKept DEF WindowInv
  <2> QED
    BY <1>a, <1>c, <2>5 DEF WindowInv
<1>1. CASE NextSeq
  <2>1. /\ seq' = seq + 1 /\ Pending' = 1 /\ Pending = 0 /\ Frontier' = Frontier
        /\ UNCHANGED <<flash, cursors, head, evicted, confirmed>>
    BY <1>1 DEF NextSeq, Pending, Frontier
  <2>2. Live' = Live /\ \A p : At(p)' = At(p)
    BY <2>1 DEF Live, At
  <2>3. Frontier \in Nat
    BY <1>b DEF Frontier
  <2>7. \A p \in Live' : ShowsSame(p)
    BY <2>1, <2>2 DEF ShowsSame, Misplaced
  <2>4. OrderInv' /\ AgeInv'
    BY <1>a, <1>b, <2>1, <2>3, <2>7, LiveKept DEF WindowInv
  <2>5. \A r \in evicted : r.seq \in Nat /\ r.seq <= seq
    BY <1>b DEF TypeOK, PunchRecord, WindowInv, NumberInv, Numbered
  <2>6. GivenUpInv'
    BY <1>b, <2>1, <2>5, RingAssumption DEF WindowInv, GivenUpInv
  <2> QED
    BY <1>a, <2>4, <2>6 DEF WindowInv
<1>2. CASE AppendWrite
  <2>1. GivenUpInv'
    BY <1>2, EvictOldest DEF AppendWrite, MakeRoom
  <2> QED
    BY <1>2, <1>a, <2>1, WriteOrdered DEF WindowInv
<1>3. CASE AppendWriteFails
  <2>1. GivenUpInv'
    BY <1>3, EvictOldest DEF AppendWriteFails, MakeRoom
  <2>2. PICK r \in {At(head), Torn} : flash' = [flash EXCEPT ![Slot(head)] = r]
    BY <1>3 DEF AppendWriteFails
  <2>3. \A p \in Nat : At(p)' = At(p) \/ At(p)' = Torn
    BY <1>b, <2>2, Overwritten DEF At
  <2>4. /\ Frontier' = Frontier /\ Frontier = head /\ Pending = 1 /\ Pending' = 0
        /\ seq' = seq /\ cursors' = cursors
    BY <1>3 DEF AppendWriteFails, Frontier, Pending
  <2>5. Live' = Live /\ Live \subseteq Nat
    BY <1>b, <2>4 DEF Live
  <2>7. \A p \in Live' : ShowsSame(p)
    BY <1>3, <2>3, <2>4, <2>5 DEF ShowsSame, Misplaced, AppendWriteFails
  <2>6. OrderInv' /\ AgeInv'
    BY <1>a, <1>b, <2>4, <2>7, LiveKept DEF WindowInv
  <2> QED
    BY <1>a, <2>1, <2>6 DEF WindowInv
<1>4. CASE AppendSave
  <2>1. Frontier' = Frontier /\ Pending' = Pending
    BY <1>4 DEF AppendSave, Frontier, Pending
  <2>2. Live' \subseteq Live
    BY <1>4, <1>b, <2>1 DEF AppendSave, Live, CursorInv, Frontier
  <2>3. \A p : ~Misplaced(p)
    BY <1>4, <1>b DEF AppendSave, Misplaced, Frontier, WindowInv, HeadInv
  <2>4. GivenUpInv'
    BY <1>4, <1>b DEF AppendSave, WindowInv, GivenUpInv, NumberInv
  <2> QED
    BY <1>4, <1>b, <1>c, <2>1, <2>2, <2>3, <2>4 DEF AppendSave, Frontier, Pending
<1>5. CASE AppendSaveFails
  <2>1. Frontier' = Frontier /\ Pending' = Pending
    BY <1>5 DEF AppendSaveFails, Frontier, Pending
  <2>2. Live' \subseteq Live
    BY <1>5, <2>1 DEF AppendSaveFails, Live
  <2>3. \A p : ~Misplaced(p)
    BY <1>5, <1>b DEF AppendSaveFails, Misplaced, Frontier, WindowInv, HeadInv
  <2>4. GivenUpInv'
    BY <1>5 DEF AppendSaveFails, WindowInv, GivenUpInv
  <2> QED
    BY <1>5, <1>b, <1>c, <2>1, <2>2, <2>3, <2>4 DEF AppendSaveFails, Frontier, Pending
<1>6. CASE PowerCut \/ PowerCutTearsWrite
  <2>1. GivenUpInv'
    <3>1. CASE PowerCut
      BY <1>b, <3>1 DEF PowerCut, Boot, WindowInv, GivenUpInv
    <3>2. CASE PowerCutTearsWrite
      BY <1>b, <3>2, EvictOldest DEF PowerCutTearsWrite, Boot
    <3> QED
      BY <1>6, <3>1, <3>2
  <2> QED
    BY <1>6, <1>a, <2>1, CutOrdered DEF WindowInv
<1>7. CASE CorruptCursors
  BY <1>7, <1>b DEF CorruptCursors
<1>8. CASE \E ack \in 1 .. seq : AckThrough(ack)
  <2>1. PICK t \in tail .. head :
           /\ cursors' = [head |-> head, tail |-> t] \/ cursors' = cursors
           /\ UNCHANGED <<flash, head, seq, pc, evicted, confirmed>>
    BY <1>8 DEF AckThrough
  <2>2. Frontier' = Frontier /\ Pending' = Pending
    BY <2>1 DEF Frontier, Pending
  <2>3. Live' \subseteq Live
    BY <1>b, <2>1, <2>2 DEF Live, CursorInv, Frontier
  <2>4. \A p : Misplaced(p) => Misplaced(p)'
    <3> SUFFICES ASSUME NEW p, Misplaced(p) PROVE Misplaced(p)'
      OBVIOUS
    <3>1. cursors'.head = cursors.head
      BY <1>b, <2>1 DEF Misplaced, Frontier, WindowInv, HeadInv
    <3> QED
      BY <2>1, <2>2, <3>1 DEF Misplaced, At
  <2>5. GivenUpInv'
    BY <2>1 DEF WindowInv, GivenUpInv
  <2> QED
    BY <1>b, <1>c, <2>1, <2>2, <2>3, <2>4, <2>5 DEF Frontier, Pending
<1>9. CASE UNCHANGED ringVars
  <2>1. Frontier' = Frontier /\ Pending' = Pending /\ Live' = Live
    BY <1>9 DEF ringVars, Frontier, Pending, Live
  <2>2. GivenUpInv' /\ \A p : Misplaced(p) => Misplaced(p)'
    BY <1>9, <2>1 DEF ringVars, WindowInv, GivenUpInv, Misplaced, At
  <2> QED
    BY <1>9, <1>b, <1>c, <2>1, <2>2 DEF ringVars, Frontier, Pending
<1> QED
  BY <1>1, <1>2, <1>3, <1>4, <1>5, <1>6, <1>7, <1>8, <1>9 DEF Next, RingStep

\* The window in RAM lies among the live positions.
LEMMA WindowIsLive ==
    ASSUME WindowInv
    PROVE  tail .. (head - 1) \subseteq Live
  BY RingAssumption
     DEF WindowInv, RetainInv, DepthInv, TypeOK, CursorInv, DepthBound, RoomInv,
         Live, Frontier

\* For a ring of any size and any number of cuts, a full ring gives up only a
\* punch after which at least Slots later numbers were issued.
THEOREM EvictsOnlyOldestSafe ==
    ASSUME OrderedFaults
    PROVE  Spec => []EvictsOnlyOldest
<1>1. WindowInv => EvictsOnlyOldest
  BY DEF WindowInv, GivenUpInv, EvictsOnlyOldest
<1>2. WindowInv /\ [Next]_ringVars => WindowInv'
  BY WindowStep
<1> QED
  BY <1>1, <1>2, WindowInit, PTL DEF Spec

\* No number is ever issued twice, across cuts, failed writes, failed saves and
\* failed reads.
LEMMA NumbersUnique == WindowInv => NeverReused
<1> SUFFICES ASSUME WindowInv PROVE NeverReused
  OBVIOUS
<1> DEFINE known == confirmed \cup evicted \cup {flash[s] : s \in SlotRange}
<1>1. \A r \in known : r.uuid = r.seq /\ r \in PunchRecord \cup {Torn}
  BY DEF WindowInv, NumberInv, Numbered, RetainInv, DepthInv, TypeOK
<1>2. ASSUME NEW r \in known, NEW s \in known, r.seq = s.seq PROVE r = s
  BY <1>1, <1>2 DEF PunchRecord, Torn
<1> QED
  BY <1>2 DEF NeverReused

\* The window ascends, but for a record misplaced in the first place of a full
\* one.
LEMMA WindowAscends ==
    ASSUME WindowInv, NEW p \in tail .. (head - 1), NEW q \in tail .. (head - 1), p < q,
           At(p) # Torn, At(q) # Torn
    PROVE  \/ At(p).seq < At(q).seq
           \/ p = tail /\ head - tail = Slots /\ At(p) \notin confirmed
<1>a. head \in Nat /\ tail \in Nat /\ cursors.head \in Nat /\ head - tail <= Slots
  BY DEF WindowInv, RetainInv, DepthInv, TypeOK, DepthBound
<1>1. At(p).seq < At(q).seq \/ Misplaced(p)
  BY WindowIsLive DEF WindowInv, OrderInv
<1>2. ASSUME Misplaced(p) PROVE p = tail /\ head - tail = Slots /\ At(p) \notin confirmed
  <2>1. cursors.head = head
    BY <1>2, <1>a DEF Misplaced, Frontier, WindowInv, HeadInv
  <2>2. p = head - Slots /\ At(p) \notin confirmed
    BY <1>2, <2>1 DEF Misplaced
  <2> QED
    BY <1>a, <2>2, RingAssumption
<1> QED
  BY <1>1, <1>2

=============================================================================
