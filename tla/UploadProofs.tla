---------------------------- MODULE UploadProofs ----------------------------
(***************************************************************************)
(* The punch path end to end, for a ring, batches and requests of any      *)
(* number: the only punches shown green that can be lost are those a boot  *)
(* reloaded behind a newer one, and the path implements PunchLedger.       *)
(***************************************************************************)
EXTENDS Upload, RingBufferProofs, FiniteSetTheorems

\* The storage faults allowed below: a write or a cursor save that fails and says
\* so.  Power may be cut between any two steps and inside a write.  Left out are
\* the faults that break the properties for good: "read" makes peek() skip a record
\* that the cumulative ack then covers, "seq" issues a number twice, "flush"
\* confirms a punch that is not in flash, "corrupt" shows or skips any records.
ReportedFaults == Faults \subseteq {"write", "cursor"}

\* A number that no record append() may still confirm carries.
Past(n) == n <= seq /\ (pc \in {"numbered", "written"} => n < seq)

\* Requests, rows and acks carry only numbers of the past.
PastInv ==
    /\ Past(lastAck) /\ Past(acked)
    /\ \A r \in stored : Numbered(r) /\ Past(r.seq)
    /\ \A q \in Req :
          /\ Past(request[q].ack)
          /\ \A r \in request[q].batch : Numbered(r) /\ Past(r.seq)
          /\ request[q].phase # "free" => request[q].batch # {}
          /\ request[q].phase = "replied" => request[q].ack > 0

\* Every punch shown green up to n is in the ledger, was given up, or had been
\* put behind a newer one by a boot.
Covered(n) == \A r \in confirmed : r.seq <= n => r \in stored \cup evicted \cup exposed

\* Acks, sent or saved, cover only such punches; and a batch leaves out no
\* unrecorded punch older than one it holds.
CoverInv ==
    /\ Covered(lastAck) /\ Covered(acked)
    /\ \A q \in Req :
          /\ Covered(request[q].ack)
          /\ \A b \in request[q].batch, r \in confirmed :
                r.seq <= b.seq => r \in stored \cup evicted \cup exposed \cup request[q].batch

\* A record shown before a green punch is older, unless a boot put it there.
ExposedInv ==
    \A p, q \in Live :
        (p < q /\ At(p) # Torn /\ At(q) \in confirmed) =>
            At(p).seq < At(q).seq \/ At(q) \in exposed

UploadInv == UploadTypeOK /\ WindowInv /\ PastInv /\ CoverInv /\ ExposedInv

-----------------------------------------------------------------------------
(***************************************************************************)
(* What IngestBatch acknowledges.  That a batch has a highest number is    *)
(* the well-ordering of the naturals, taken from the library.              *)
(***************************************************************************)

\* A nonempty set of naturals has a least element.
LEMMA LeastOf ==
    ASSUME NEW T \in SUBSET Nat, T # {}
    PROVE  \E x \in T : \A y \in T : x <= y
<1>1. PICK x \in T : \A y \in T : ~(<<y, x>> \in OpToRel(<, Nat))
  BY WFMin, NatLessThanWellFounded, Zenon
<1>2. \A y \in T : ~(y < x)
  BY <1>1 DEF OpToRel
<1> QED
  BY <1>2

\* A nonempty bounded set of naturals has a greatest element.
LEMMA GreatestOf ==
    ASSUME NEW S \in SUBSET Nat, S # {}, NEW n \in Nat, \A x \in S : x <= n
    PROVE  \E x \in S : \A y \in S : y <= x
<1> DEFINE T == {n - x : x \in S}
<1>1. T \in SUBSET Nat /\ T # {}
  <2>1. \A x \in S : n - x \in Nat
    OBVIOUS
  <2> QED
    BY <2>1
<1>2. PICK t \in T : \A y \in T : t <= y
  BY <1>1, LeastOf
<1>3. PICK x \in S : t = n - x
  OBVIOUS
<1>4. \A y \in S : y <= x
  <2> SUFFICES ASSUME NEW y \in S PROVE y <= x
    OBVIOUS
  <2>1. n - y \in T
    OBVIOUS
  <2>2. n - x <= n - y
    BY <1>2, <1>3, <2>1
  <2> QED
    BY <2>2
<1> QED
  BY <1>4

\* IngestBatch answers the device's last ack or the highest number of the
\* batch, whichever is greater.
LEMMA AckValueIs ==
    ASSUME NEW base \in Nat, NEW batch \in SUBSET PunchRecord, NEW n \in Nat,
           base <= n, \A r \in batch : r.seq <= n
    PROVE  /\ AckValue(base, batch) \in Nat
           /\ AckValue(base, batch) <= n
           /\ AckValue(base, batch) >= base
           /\ \A r \in batch : AckValue(base, batch) >= r.seq
           /\ \/ AckValue(base, batch) = base
              \/ \E b \in batch : AckValue(base, batch) = b.seq
<1> DEFINE S == {base} \cup {r.seq : r \in batch}
           Top(x) == x >= base /\ \A r \in batch : x >= r.seq
<1>1. S \in SUBSET Nat /\ S # {} /\ \A x \in S : x <= n
  BY DEF PunchRecord
<1>2. PICK x \in S : \A y \in S : y <= x
  <2> HIDE DEF S
  <2> QED
    BY <1>1, GreatestOf
<1>3. Top(x)
  <2>1. x \in Nat /\ base \in S /\ \A r \in batch : r.seq \in S /\ r.seq \in Nat
    BY <1>1
  <2> QED
    BY <1>2, <2>1
<1>4. AckValue(base, batch) \in S /\ Top(AckValue(base, batch))
  <2>1. AckValue(base, batch) = CHOOSE y \in S : Top(y)
    BY DEF AckValue
  <2> HIDE DEF S, Top
  <2> QED
    BY <1>3, <2>1
<1>5. AckValue(base, batch) <= n /\ AckValue(base, batch) \in Nat
  BY <1>1, <1>4
<1> QED
  BY <1>4, <1>5

\* peek() leaves out no punch of the window shown green that is older than one
\* it returns, unless a boot put it behind a newer one.
LEMMA PeekIsPrefix ==
    ASSUME WindowInv, ExposedInv, NEW b \in Peek({}), NEW x \in tail .. (head - 1),
           At(x) \in confirmed, At(x) \notin exposed, At(x).seq <= b.seq
    PROVE  At(x) \in Peek({})
<1>0. At(x) # Torn
  BY DEF WindowInv, RetainInv, DepthInv, TypeOK, PunchRecord, Torn
<1> DEFINE good == {p \in tail .. (head - 1) : p \notin {} /\ At(p) # Torn}
           Before(p) == {y \in good : y < p}
<1>1. PICK p \in good : Cardinality(Before(p)) < Batch /\ b = At(p)
  BY DEF Peek
<1>2. /\ tail \in Nat /\ head \in Nat /\ p \in Nat /\ x \in Nat /\ x \in good
      /\ At(p).seq \in Nat /\ At(x).seq \in Nat
  <2>1. TypeOK /\ tail \in Nat /\ head \in Nat
    BY DEF WindowInv, RetainInv, DepthInv, TypeOK
  <2>2. p \in Nat /\ x \in Nat /\ x \in good
    BY <1>0, <1>1, <2>1
  <2> QED
    BY <2>1, <2>2, AtType DEF PunchRecord, Torn
<1>3. x <= p
  <2>2. p < x => At(p).seq < At(x).seq
    BY <1>1, WindowIsLive DEF ExposedInv
  <2> QED
    BY <1>1, <1>2, <2>2
<1>4. IsFiniteSet(Before(p)) /\ Before(x) \in SUBSET Before(p)
  <2>1. IsFiniteSet(tail .. (head - 1))
    BY <1>2, FS_Interval
  <2>2. Before(p) \in SUBSET (tail .. (head - 1))
    OBVIOUS
  <2>3. IsFiniteSet(Before(p))
    BY <2>1, <2>2, FS_Subset
  <2>4. \A y \in good : y \in Nat
    BY <1>2
  <2> QED
    BY <1>2, <1>3, <2>3, <2>4
<1>5. Cardinality(Before(x)) < Batch
  <2>1. /\ Cardinality(Before(x)) <= Cardinality(Before(p))
        /\ IsFiniteSet(Before(x))
    BY <1>4, FS_Subset
  <2>2. Cardinality(Before(x)) \in Nat /\ Cardinality(Before(p)) \in Nat
    BY <1>4, <2>1, FS_CardinalityType
  <2> QED
    BY <1>1, <2>1, <2>2, UploadAssumption
<1> QED
  BY <1>2, <1>5 DEF Peek

-----------------------------------------------------------------------------
(***************************************************************************)
(* The inductive step, by who takes it: the ring, the terminal's network   *)
(* task, the gateway.                                                      *)
(***************************************************************************)

\* The empty ring and ledger satisfy the invariant.
LEMMA UploadInvInit == UploadInit => UploadInv
<1> SUFFICES ASSUME UploadInit PROVE UploadInv
  OBVIOUS
<1>1. WindowInv
  BY WindowInit DEF UploadInit
<1>2. TypeOK
  BY <1>1 DEF WindowInv, RetainInv, DepthInv
<1>3. UploadTypeOK
  BY <1>2 DEF UploadInit, Init, UploadTypeOK, Free
<1>4. PastInv /\ CoverInv /\ ExposedInv
  BY DEF UploadInit, Init, PastInv, Past, CoverInv, Covered, ExposedInv, Free
<1> QED
  BY <1>1, <1>3, <1>4 DEF UploadInv

\* Seen from the ring every step is one of its own: the numbers the gateway
\* acknowledges are numbers the terminal has issued.
LEMMA UploadIsRing ==
    ASSUME UploadInv, [UploadNext]_vars
    PROVE  [Next]_ringVars
<1>1. CASE Ring
  BY <1>1 DEF Ring, Next
<1>2. ASSUME NEW q \in Req, HandleReply(q) PROVE [Next]_ringVars
  <2>1. /\ request[q].ack \in Nat /\ request[q].ack > 0 /\ request[q].ack <= seq
        /\ seq \in Nat
    BY <1>2 DEF HandleReply, UploadInv, UploadTypeOK, TypeOK, PastInv, Past
  <2>2. request[q].ack \in 1 .. seq
    BY <2>1
  <2> QED
    BY <1>2, <2>2 DEF HandleReply, Next
<1>3. CASE UNCHANGED vars
  BY <1>3 DEF vars, ringVars
<1>4. ASSUME NEW q \in Req, FlushEvents(q) \/ LoadDevice(q) \/ IngestBatch(q) \/ Lose(q)
      PROVE  [Next]_ringVars
  BY <1>4 DEF FlushEvents, LoadDevice, IngestBatch, Lose
<1>5. CASE FlushFails
  BY <1>5 DEF FlushFails
<1> QED
  BY <1>1, <1>2, <1>3, <1>4, <1>5 DEF UploadNext

\* What the ring's own steps do to numbers, confirmations and evictions.
LEMMA RingEffect ==
    ASSUME WindowInv, WindowInv', RingStep
    PROVE  /\ seq' \in Nat /\ seq' >= seq /\ acked' = acked
           /\ pc' \in {"numbered", "written"} =>
                 seq' = seq + 1 \/ (seq' = seq /\ pc \in {"numbered", "written"})
           /\ evicted \subseteq evicted'
           /\ confirmed' # confirmed => /\ confirmed' = confirmed \cup {rec}
                                        /\ pc = "written" /\ rec.seq = seq
<1>a. seq \in Nat /\ nvsSeq = seq
  BY DEF WindowInv, RetainInv, DepthInv, TypeOK, NumberInv
<1>1. CASE NextSeq
  BY <1>1, <1>a DEF NextSeq
<1>2. CASE AppendWrite
  BY <1>2, <1>a, EvictGrows DEF AppendWrite, MakeRoom
<1>3. CASE AppendWriteFails
  BY <1>3, <1>a, EvictGrows DEF AppendWriteFails, MakeRoom
<1>4. CASE AppendSave
  BY <1>4, <1>a DEF AppendSave, WindowInv, NumberInv
<1>5. CASE AppendSaveFails
  BY <1>5, <1>a DEF AppendSaveFails
<1>6. CASE PowerCut
  BY <1>6, <1>a DEF PowerCut, Boot
<1>7. CASE PowerCutTearsWrite
  BY <1>7, <1>a, EvictGrows DEF PowerCutTearsWrite, Boot
<1>8. CASE CorruptCursors
  BY <1>8, <1>a DEF CorruptCursors, ram, history
<1> QED
  BY <1>1, <1>2, <1>3, <1>4, <1>5, <1>6, <1>7, <1>8 DEF RingStep

\* A boot shows the saved window as it is.
LEMMA BootWindow ==
    ASSUME WindowInv, PowerCut \/ PowerCutTearsWrite
    PROVE  /\ tail' = cursors.tail /\ head' = cursors.head /\ cursors' = cursors
           /\ confirmed' = confirmed /\ cuts' # cuts
<1>1. /\ cursors.head \in Nat /\ cursors.tail \in Nat /\ cuts \in Nat
      /\ cursors.tail <= cursors.head /\ cursors.head - cursors.tail <= Slots
  BY DEF WindowInv, RetainInv, DepthInv, TypeOK, CursorInv
<1>2. LoadedTail(cursors.head, cursors.tail) = cursors.tail
  BY <1>1, RingAssumption DEF LoadedTail
<1> QED
  BY <1>1, <1>2 DEF PowerCut, PowerCutTearsWrite, Boot

\* A step that shows no other records keeps what was behind and was exposed.
ShownKept ==
    /\ Live' \subseteq Live /\ exposed \subseteq exposed' /\ confirmed' = confirmed
    /\ \A p \in Live : At(p)' = At(p) \/ At(p)' = Torn

\* The steps of the ring put a newer record in front of a green punch only by
\* a boot, and then the punch counts as exposed.
LEMMA ExposedStep ==
    ASSUME ReportedFaults, UploadInv, WindowInv', [UploadNext]_vars
    PROVE  ExposedInv'
<1>a. /\ WindowInv /\ ExposedInv /\ TypeOK /\ TypeOK' /\ CursorInv /\ HeadInv
      /\ head \in Nat /\ tail \in Nat /\ cursors.head \in Nat /\ cursors.tail \in Nat
      /\ Live \subseteq Nat /\ Torn \notin confirmed
      /\ "flush" \notin Faults /\ "corrupt" \notin Faults
  <2>1. WindowInv /\ ExposedInv /\ TypeOK /\ TypeOK' /\ CursorInv /\ HeadInv
    BY DEF UploadInv, WindowInv, RetainInv, DepthInv
  <2> QED
    BY <2>1, FrontierType DEF TypeOK, ReportedFaults, PunchRecord, Torn
<1>b. ASSUME ShownKept PROVE ExposedInv'
  BY <1>a, <1>b DEF ShownKept, ExposedInv
<1>1. CASE Ring /\ (NextSeq \/ AppendSaveFails)
  <2>1. /\ Live' = Live /\ flash' = flash
    BY <1>1 DEF NextSeq, AppendSaveFails, Live, Frontier
  <2> QED
    BY <1>1, <1>b, <2>1 DEF Ring, NextSeq, AppendSaveFails, ShownKept, At
<1>2. CASE Ring /\ AppendWrite
  <2>1. cursors.head = head /\ cursors' = cursors /\ Frontier' = head + 1
    BY <1>2, <1>a DEF AppendWrite, HeadInv, Frontier
  <2>2. \A p : ~Misplaced(p)'
    BY <1>a, <2>1 DEF Misplaced
  <2>3. OrderInv' /\ Torn \notin confirmed'
    BY <1>2, <1>a DEF WindowInv, AppendWrite
  <2> QED
    BY <2>2, <2>3 DEF OrderInv, ExposedInv
<1>3. CASE Ring /\ AppendWriteFails
  <2>1. PICK r \in {At(head), Torn} : flash' = [flash EXCEPT ![Slot(head)] = r]
    BY <1>3 DEF AppendWriteFails
  <2>2. \A p \in Nat : At(p)' = At(p) \/ At(p)' = Torn
    BY <1>a, <2>1, Overwritten DEF At
  <2>3. Live' = Live
    BY <1>3 DEF AppendWriteFails, Live, Frontier
  <2> QED
    BY <1>3, <1>a, <1>b, <2>2, <2>3 DEF Ring, AppendWriteFails, ShownKept
<1>4. CASE Ring /\ AppendSave
  <2>1. cursors.head = head /\ Frontier = head + 1 /\ Frontier' = Frontier
    BY <1>4, <1>a DEF AppendSave, HeadInv, Frontier
  <2>2. Live' \subseteq Live
    BY <1>4, <1>a, <2>1 DEF AppendSave, Live, CursorInv
  <2>3. \A p : ~Misplaced(p)
    BY <1>a, <2>1 DEF Misplaced
  <2>4. \A p : At(p)' = At(p)
    BY <1>4 DEF AppendSave, At
  <2>5. Torn \notin confirmed' /\ OrderInv
    BY <1>a DEF TypeOK, PunchRecord, Torn, WindowInv
  <2> QED
    BY <2>2, <2>3, <2>4, <2>5 DEF OrderInv, ExposedInv
<1>5. CASE Ring /\ (PowerCut \/ PowerCutTearsWrite)
  <2>1. /\ tail' = cursors.tail /\ head' = cursors.head /\ cursors' = cursors
        /\ confirmed' = confirmed /\ exposed' = exposed \cup Behind'
    BY <1>5, <1>a, BootWindow DEF Ring
  <2>2. Frontier' = cursors.head
    BY <1>5, <2>1 DEF PowerCut, PowerCutTearsWrite, Boot, Frontier
  <2> SUFFICES ASSUME NEW p \in Live', NEW q \in Live', p < q, At(p)' # Torn,
                      At(q)' \in confirmed', ~(At(p)'.seq < At(q)'.seq)
               PROVE  At(q)' \in exposed'
    BY DEF ExposedInv
  <2>3. p \in Nat /\ q \in Nat /\ p \in tail' .. (head' - 1) /\ q \in tail' .. (head' - 1)
    BY <1>a, <2>1, <2>2 DEF Live
  <2>4. At(q)' # Torn
    BY <1>a, <2>1
  <2>5. At(p)' \in PunchRecord /\ At(q)' \in PunchRecord
    <3>1. flash' \in [SlotRange -> PunchRecord \cup {Torn}]
      BY <1>a DEF TypeOK
    <3>2. At(p)' = flash'[Slot(p)] /\ At(q)' = flash'[Slot(q)]
      BY DEF At
    <3> QED
      BY <2>3, <2>4, <3>1, <3>2, SlotType
  <2>6. At(p)' \notin confirmed'
    BY <2>4 DEF WindowInv, OrderInv, Misplaced
  <2>7. At(p)'.seq # At(q)'.seq
    <3>1. Numbered(At(p))' /\ Numbered(At(q))'
      BY <2>3, SlotType DEF WindowInv, NumberInv, At
    <3> QED
      BY <2>5, <2>6, <3>1 DEF Numbered, PunchRecord
  <2>8. At(p)'.seq > At(q)'.seq
    BY <2>5, <2>7 DEF PunchRecord
  <2>9. At(q)' \in Behind'
    BY <2>3, <2>8 DEF Behind
  <2> QED
    BY <2>1, <2>9
<1>6. CASE CorruptCursors
  BY <1>6, <1>a DEF CorruptCursors
<1>7. ASSUME NEW q \in Req, HandleReply(q) PROVE ExposedInv'
  <2>1. PICK t \in tail .. head :
           /\ cursors' = [head |-> head, tail |-> t] \/ cursors' = cursors
           /\ UNCHANGED <<flash, head, pc, confirmed, exposed>>
    BY <1>7 DEF HandleReply, AckThrough
  <2>2. Frontier' = Frontier
    BY <2>1 DEF Frontier
  <2>3. Live' \subseteq Live
    BY <1>a, <2>1, <2>2 DEF Live, CursorInv, Frontier
  <2> QED
    BY <1>b, <2>1, <2>3 DEF ShownKept, At
<1>8. ASSUME UNCHANGED <<flash, cursors, head, pc, confirmed, exposed>> PROVE ExposedInv'
  <2>1. Live' = Live /\ \A p : At(p)' = At(p)
    BY <1>8 DEF Live, Frontier, At
  <2> QED
    BY <1>8, <1>b, <2>1 DEF ShownKept
<1>9. ASSUME NEW q \in Req, FlushEvents(q) \/ LoadDevice(q) \/ IngestBatch(q) \/ Lose(q)
      PROVE  ExposedInv'
  BY <1>8, <1>9 DEF FlushEvents, LoadDevice, IngestBatch, Lose, ringVars
<1>10. CASE FlushFails \/ UNCHANGED vars
  BY <1>8, <1>10 DEF FlushFails, vars, ringVars
<1>11. CASE Ring
  BY <1>1, <1>2, <1>3, <1>4, <1>5, <1>6, <1>11 DEF Ring, RingStep
<1> QED
  BY <1>7, <1>9, <1>10, <1>11 DEF UploadNext

\* Scanning, storage faults and cuts leave acks and batches covered: the one
\* punch they may confirm is newer than any of them.
LEMMA RingKeeps ==
    ASSUME UploadInv, WindowInv', Ring
    PROVE  UploadTypeOK' /\ PastInv' /\ CoverInv'
<1>a. UploadTypeOK /\ WindowInv /\ PastInv /\ CoverInv /\ TypeOK'
  BY DEF UploadInv, WindowInv, RetainInv, DepthInv
<1>1. RingStep /\ UNCHANGED <<request, stored, lastAck>> /\ exposed \subseteq exposed'
  BY DEF Ring
<1>3. PICK s \in Nat : seq' = s /\ s >= seq
  BY <1>a, <1>1, RingEffect
<1>4. /\ acked' = acked /\ evicted \subseteq evicted'
      /\ pc' \in {"numbered", "written"} =>
            s = seq + 1 \/ (s = seq /\ pc \in {"numbered", "written"})
      /\ confirmed' # confirmed => confirmed' = confirmed \cup {rec}
      /\ confirmed' # confirmed => pc = "written" /\ rec.seq = seq
  BY <1>a, <1>1, <1>3, RingEffect
<1>2. UploadTypeOK'
  <2>1. exposed' \subseteq confirmed'
    BY <1>4, <1>a DEF Ring, UploadTypeOK, Behind
  <2> QED
    BY <1>a, <1>1, <2>1 DEF Ring, UploadTypeOK
<1>5. /\ lastAck \in Nat /\ acked \in Nat /\ seq \in Nat
      /\ \A r \in stored : r.seq \in Nat
      /\ \A q \in Req : request[q].ack \in Nat
      /\ \A q \in Req : \A r \in request[q].batch : r.seq \in Nat
  BY <1>a DEF UploadTypeOK, TypeOK, PunchRecord
<1>6. ASSUME NEW n \in Nat, Past(n)
      PROVE  n <= s /\ (pc' \in {"numbered", "written"} => n < s)
  BY <1>3, <1>4, <1>5, <1>6 DEF Past
<1>7. PastInv'
  <2>1. \A r : r.seq \in Nat /\ Numbered(r) => r.uuid = r.seq /\ r.seq <= s
    BY <1>3, <1>5 DEF Numbered
  <2> QED
    BY <1>1, <1>3, <1>4, <1>5, <1>6, <1>a, <2>1 DEF PastInv, Past, Numbered
<1>8. ASSUME NEW n \in Nat, Past(n), NEW r \in confirmed', r.seq <= n
      PROVE  r \in confirmed
  <2> SUFFICES ASSUME r \notin confirmed PROVE FALSE
    OBVIOUS
  <2>1. r = rec /\ pc = "written" /\ rec.seq = seq
    BY <1>4, <1>8
  <2> QED
    BY <1>5, <1>8, <2>1 DEF Past
<1>9. CoverInv'
  BY <1>1, <1>4, <1>5, <1>8, <1>a DEF CoverInv, Covered, PastInv
<1> QED
  BY <1>2, <1>7, <1>9

\* A punch shown green is recorded, given up, exposed, or readable in the
\* window that flushEvents() peeks at.
LEMMA RecoverableOrSettled ==
    ASSUME UploadInv, NEW r \in confirmed
    PROVE  \/ r \in stored \cup evicted \cup exposed
           \/ \E x \in tail .. (head - 1) : At(x) = r
<1> SUFFICES ASSUME r \notin stored \cup evicted \cup exposed
             PROVE  \E x \in tail .. (head - 1) : At(x) = r
  OBVIOUS
<1>1. ~Settled(r)
  BY DEF UploadInv, CoverInv, Covered, Settled
<1>2. PICK x \in cursors.tail .. (cursors.head - 1) : At(x) = r
  BY <1>1 DEF UploadInv, WindowInv, RetainInv, Retained, Settled
<1>3. /\ head \in Nat /\ tail \in Nat /\ cursors.head \in Nat /\ cursors.tail \in Nat
      /\ cursors.head <= head
  BY DEF UploadInv, WindowInv, RetainInv, DepthInv, TypeOK, CursorInv
<1>4. ~(x < tail)
  <2> SUFFICES ASSUME x < tail PROVE FALSE
    OBVIOUS
  <2>1. x \in cursors.tail .. (tail - 1)
    BY <1>3
  <2> QED
    BY <1>1, <1>2, <2>1 DEF UploadInv, WindowInv, RetainInv, Gone
<1>5. x \in tail .. (head - 1)
  BY <1>2, <1>3, <1>4
<1> QED
  BY <1>2, <1>5

\* flushEvents() sends the oldest readable records of the window.
LEMMA FlushKeeps ==
    ASSUME ReportedFaults, UploadInv, NEW q \in Req, FlushEvents(q)
    PROVE  UploadTypeOK' /\ PastInv' /\ CoverInv'
<1>a. UploadTypeOK /\ WindowInv /\ PastInv /\ CoverInv /\ TypeOK
  BY DEF UploadInv, UploadTypeOK
<1> DEFINE sent == [phase |-> "sent", batch |-> Peek({}), ack |-> 0]
<1>1. /\ Peek({}) # {} /\ request' = [request EXCEPT ![q] = sent] /\ waiting' = q
      /\ UNCHANGED <<flash, cursors, nvsSeq, head, tail, seq, pc, rec, confirmed, evicted,
                     acked, punches, cuts, stored, lastAck, exposed>>
  <2>1. UnreadChoices = {{}}
    BY DEF ReportedFaults, UnreadChoices
  <2> QED
    BY <2>1 DEF FlushEvents, ringVars
<1>2. ASSUME NEW r \in Peek({})
      PROVE  r \in PunchRecord /\ Numbered(r) /\ Past(r.seq)
  <2>1. PICK p \in tail .. (head - 1) : At(p) # Torn /\ r = At(p)
    BY <1>2 DEF Peek
  <2>2. /\ tail \in Nat /\ head \in Nat /\ seq \in Nat /\ p \in Nat /\ p < head
        /\ r \in PunchRecord /\ r.seq \in Nat
    <3>1. tail \in Nat /\ head \in Nat /\ seq \in Nat
      BY <1>a DEF TypeOK
    <3>2. p \in Nat /\ p < head
      BY <2>1, <3>1
    <3> QED
      BY <1>a, <2>1, <3>1, <3>2, AtType DEF PunchRecord
  <2>3. Numbered(r)
    BY <1>a, <2>1, <2>2, AtNumbered DEF WindowInv
  <2>4. pc = "numbered" => r.seq < seq
    BY <1>a, <2>1, <2>2, AtNumbered DEF WindowInv
  <2>6. ASSUME pc = "written" PROVE r.seq < seq
    <3>1. Frontier = head + 1 /\ cursors.head = head
      BY <1>a, <2>6 DEF Frontier, WindowInv, HeadInv
    <3>2. ~Misplaced(p)
      BY <2>2, <3>1 DEF Misplaced
    <3>3. r.seq + (Frontier - 1 - p) + Pending <= seq
      BY <1>a, <2>1, <3>2, WindowIsLive DEF WindowInv, AgeInv
    <3> QED
      BY <2>2, <2>6, <3>1, <3>3 DEF Pending
  <2>5. Past(r.seq)
    BY <2>3, <2>4, <2>6 DEF Past, Numbered
  <2> QED
    BY <2>2, <2>3, <2>5
<1> HIDE DEF sent
<1>3. /\ request'[q] = sent
      /\ \A u \in Req \ {q} : request'[u] = request[u]
      /\ request' \in [Req -> [phase : {"free", "sent", "loaded", "replied"},
                               batch : SUBSET PunchRecord, ack : Nat]]
  <2>1. sent \in [phase : {"free", "sent", "loaded", "replied"},
                  batch : SUBSET PunchRecord, ack : Nat]
    BY <1>2 DEF sent
  <2> QED
    BY <1>1, <1>a, <2>1 DEF UploadTypeOK
<1>4. sent.phase = "sent" /\ sent.batch = Peek({}) /\ sent.ack = 0
  BY DEF sent
<1>5. UploadTypeOK'
  BY <1>1, <1>3, <1>a DEF UploadTypeOK, TypeOK
<1>6. /\ \A n : Past(n)' <=> Past(n)
      /\ \A r : Numbered(r)' <=> Numbered(r)
      /\ \A n : Covered(n)' <=> Covered(n)
  BY <1>1 DEF Past, Numbered, Covered
<1>7. PastInv'
  <2>1. Past(0)
    BY <1>a DEF PastInv, Past, UploadTypeOK, TypeOK
  <2> QED
    BY <1>1, <1>2, <1>3, <1>4, <1>a, <2>1 DEF PastInv, Past, Numbered
<1>8. CoverInv'
  <2>1. Covered(0)
    BY <1>a DEF Covered, UploadTypeOK, TypeOK, PunchRecord
  <2>2. ASSUME NEW b \in Peek({}), NEW r \in confirmed, r.seq <= b.seq
        PROVE  r \in stored \cup evicted \cup exposed \cup Peek({})
    <3>1. CASE r \in stored \cup evicted \cup exposed
      BY <3>1
    <3>2. ASSUME NEW x \in tail .. (head - 1), At(x) = r
          PROVE  r \in exposed \cup Peek({})
      BY <1>a, <2>2, <3>2, PeekIsPrefix DEF UploadInv
    <3> QED
      BY <3>1, <3>2, RecoverableOrSettled
  <2> QED
    BY <1>1, <1>3, <1>4, <1>a, <2>1, <2>2 DEF CoverInv, Covered
<1> QED
  BY <1>5, <1>7, <1>8

Request == [phase : {"free", "sent", "loaded", "replied"},
            batch : SUBSET PunchRecord, ack : Nat]

\* Request q, and no other, is given a phase, a batch and an ack.
Changed(q, phase, batch, n) ==
    /\ request' \in [Req -> Request]
    /\ request'[q].phase = phase /\ request'[q].batch = batch /\ request'[q].ack = n
    /\ \A u \in Req \ {q} : request'[u] = request[u]

\* Giving a request another phase and ack, or freeing it, keeps the types and
\* what is known of the others.
LEMMA RequestKeeps ==
    ASSUME UploadInv, NEW q \in Req, NEW n \in Nat,
           NEW batch \in {{}, request[q].batch},
           NEW phase \in {"free", "sent", "loaded", "replied"},
           Changed(q, phase, batch, n),
           UNCHANGED <<seq, pc, confirmed, evicted, exposed>>,
           stored' \in SUBSET PunchRecord, stored \subseteq stored',
           \A r \in stored' : Numbered(r) /\ Past(r.seq),
           lastAck' \in Nat, acked' \in Nat, Past(lastAck'), Past(acked'), Past(n),
           \A m \in {n, lastAck', acked'} : \A r \in confirmed :
               r.seq <= m => r \in stored' \cup evicted \cup exposed,
           phase # "free" => batch # {},
           phase = "replied" => n > 0,
           TypeOK', waiting' \in Req \cup {None}
    PROVE  UploadTypeOK' /\ PastInv' /\ CoverInv'
<1>a. UploadTypeOK /\ PastInv /\ CoverInv
  BY DEF UploadInv
<1>1. /\ request'[q].phase = phase /\ request'[q].batch = batch /\ request'[q].ack = n
      /\ \A u \in Req \ {q} : request'[u] = request[u]
  BY DEF Changed
<1>2. UploadTypeOK'
  BY <1>a DEF UploadTypeOK, Changed, Request
<1>3. PastInv'
  BY <1>1, <1>a DEF PastInv, Past, Numbered
<1>4. CoverInv'
  BY <1>1, <1>a DEF CoverInv, Covered
<1> QED
  BY <1>2, <1>3, <1>4

\* An answer moves the tail and raises acked to a covered number.
LEMMA ReplyKeeps ==
    ASSUME UploadInv, TypeOK', NEW q \in Req, HandleReply(q)
    PROVE  UploadTypeOK' /\ PastInv' /\ CoverInv'
<1>a. UploadTypeOK /\ PastInv /\ CoverInv
  BY DEF UploadInv
<1> DEFINE ack == request[q].ack
<1>0. request' = [request EXCEPT ![q] = Free]
  BY DEF HandleReply
<1>1. /\ Changed(q, "free", {}, 0)
      /\ waiting' = None
      /\ acked' = IF ack > acked THEN ack ELSE acked
      /\ UNCHANGED <<seq, pc, confirmed, evicted, stored, lastAck, exposed>>
  BY <1>0, <1>a DEF HandleReply, AckThrough, Free, Changed, Request, UploadTypeOK
<1>2. acked' \in {ack, acked} /\ ack \in Nat /\ acked \in Nat
  BY <1>1, <1>a DEF UploadTypeOK, TypeOK
<1>3. /\ Past(acked') /\ Past(0) /\ acked' \in Nat
      /\ \A r \in confirmed : r.seq <= acked' => r \in stored \cup evicted \cup exposed
      /\ \A r \in confirmed : r.seq <= lastAck => r \in stored \cup evicted \cup exposed
      /\ \A r \in confirmed : ~(r.seq <= 0)
  <2>1. /\ Past(ack) /\ Past(acked) /\ Covered(ack) /\ Covered(acked) /\ Covered(lastAck)
    BY <1>a DEF PastInv, CoverInv
  <2>2. Past(0)
    BY <1>2, <2>1, <1>a DEF Past, UploadTypeOK, TypeOK
  <2>3. \A r \in confirmed : ~(r.seq <= 0)
    BY <1>a DEF UploadTypeOK, TypeOK, PunchRecord
  <2> QED
    BY <1>2, <2>1, <2>2, <2>3 DEF Covered
<1>4. /\ stored' \in SUBSET PunchRecord /\ lastAck' \in Nat /\ Past(lastAck')
      /\ \A r \in stored' : Numbered(r) /\ Past(r.seq)
  BY <1>1, <1>a DEF UploadTypeOK, PastInv
<1>5. \A m \in {0, lastAck', acked'} : \A r \in confirmed :
               r.seq <= m => r \in stored' \cup evicted \cup exposed
  BY <1>1, <1>3
<1> QED
  BY <1>1, <1>3, <1>4, <1>5, RequestKeeps

\* LoadDevice hands a request the device's last ack.
LEMMA LoadKeeps ==
    ASSUME UploadInv, TypeOK', NEW q \in Req, LoadDevice(q)
    PROVE  UploadTypeOK' /\ PastInv' /\ CoverInv'
<1>a. UploadTypeOK /\ PastInv /\ CoverInv
  BY DEF UploadInv
<1>1. /\ request[q] \in [phase : {"free", "sent", "loaded", "replied"},
                         batch : SUBSET PunchRecord, ack : Nat]
      /\ request[q].phase = "sent" /\ request[q].batch # {}
  BY <1>a DEF LoadDevice, UploadTypeOK, PastInv
<1>2. /\ Changed(q, "loaded", request[q].batch, lastAck)
      /\ UNCHANGED <<seq, pc, confirmed, evicted, acked, waiting, stored, lastAck, exposed>>
  BY <1>1, <1>a DEF LoadDevice, ringVars, Changed, Request, UploadTypeOK
<1>3. /\ stored' \in SUBSET PunchRecord /\ lastAck' \in Nat /\ acked' \in Nat
      /\ Past(lastAck') /\ Past(acked') /\ Past(lastAck) /\ lastAck \in Nat
      /\ waiting' \in Req \cup {None}
      /\ \A r \in stored' : Numbered(r) /\ Past(r.seq)
  BY <1>2, <1>a DEF UploadTypeOK, TypeOK, PastInv
<1>4. \A m \in {lastAck, lastAck', acked'} : \A r \in confirmed :
               r.seq <= m => r \in stored' \cup evicted \cup exposed
  BY <1>2, <1>a DEF CoverInv, Covered
<1> QED
  BY <1>1, <1>2, <1>3, <1>4, RequestKeeps

\* A lost request is forgotten.
LEMMA LoseKeeps ==
    ASSUME UploadInv, TypeOK', NEW q \in Req, Lose(q)
    PROVE  UploadTypeOK' /\ PastInv' /\ CoverInv'
<1>a. UploadTypeOK /\ PastInv /\ CoverInv
  BY DEF UploadInv
<1>1. /\ Changed(q, "free", {}, 0)
      /\ waiting' \in {None, waiting}
      /\ UNCHANGED <<seq, pc, confirmed, evicted, acked, stored, lastAck, exposed>>
  BY <1>a DEF Lose, ringVars, Free, Changed, Request, UploadTypeOK
<1>2. /\ stored' \in SUBSET PunchRecord /\ lastAck' \in Nat /\ acked' \in Nat
      /\ Past(lastAck') /\ Past(acked') /\ Past(0)
      /\ waiting' \in Req \cup {None}
      /\ \A r \in stored' : Numbered(r) /\ Past(r.seq)
  BY <1>1, <1>a DEF UploadTypeOK, TypeOK, PastInv, Past
<1>3. \A m \in {0, lastAck', acked'} : \A r \in confirmed :
               r.seq <= m => r \in stored' \cup evicted \cup exposed
  BY <1>1, <1>a DEF CoverInv, Covered, UploadTypeOK, TypeOK, PunchRecord
<1> QED
  BY <1>1, <1>2, <1>3, RequestKeeps

\* IngestBatch stores the whole batch, for equal numbers are equal punches, and
\* answers a number that nothing unrecorded lies below.
LEMMA IngestKeeps ==
    ASSUME UploadInv, TypeOK', NEW q \in Req, IngestBatch(q)
    PROVE  UploadTypeOK' /\ PastInv' /\ CoverInv'
<1>a. UploadTypeOK /\ PastInv /\ CoverInv
  BY DEF UploadInv
<1> DEFINE batch == request[q].batch
           base == request[q].ack
           ack == AckValue(base, batch)
<1>1. /\ request[q] \in [phase : {"free", "sent", "loaded", "replied"},
                         batch : SUBSET PunchRecord, ack : Nat]
      /\ request[q].phase = "loaded" /\ batch # {}
      /\ batch \in SUBSET PunchRecord /\ base \in Nat
  BY <1>a DEF IngestBatch, UploadTypeOK, PastInv
<1>2. PICK new \in SUBSET batch : Inserts(batch, new) /\ stored' = stored \cup new
  BY DEF IngestBatch
<1>3. /\ lastAck' = SavedAck(ack)
      /\ request' = [request EXCEPT ![q].phase = "replied", ![q].ack = ack]
      /\ UNCHANGED <<seq, pc, confirmed, evicted, acked, waiting, exposed>>
  BY <1>1 DEF IngestBatch, ringVars
<1> DEFINE top == IF pc \in {"numbered", "written"} THEN seq - 1 ELSE seq
<1>4. /\ Past(base) /\ \A r \in batch : Past(r.seq) /\ Numbered(r)
      /\ base <= top /\ \A r \in batch : r.seq <= top /\ r.seq \in Nat
      /\ top \in Nat
  <2>1. Past(base) /\ \A r \in batch : Past(r.seq) /\ Numbered(r) /\ r.seq \in Nat
    BY <1>1, <1>a DEF PastInv, PunchRecord
  <2>2. seq \in Nat
    BY <1>a DEF UploadTypeOK, TypeOK
  <2> QED
    BY <1>1, <2>1, <2>2 DEF Past
<1> HIDE DEF batch, base, top
<1>5. /\ ack \in Nat /\ ack <= top
      /\ \A r \in batch : ack >= r.seq
      /\ ack = base \/ \E b \in batch : ack = b.seq
  BY <1>1, <1>4, AckValueIs
<1> HIDE DEF ack
<1>6. Past(ack) /\ ack > 0
  <2>1. Past(ack)
    BY <1>4, <1>5
  <2>2. PICK r \in batch : TRUE
    BY <1>1
  <2>3. r.seq > 0 /\ r.seq \in Nat
    BY <1>1 DEF PunchRecord
  <2> QED
    BY <1>5, <2>1, <2>3
<1>7. batch \subseteq stored'
  <2> SUFFICES ASSUME NEW r \in batch PROVE r \in stored'
    OBVIOUS
  <2>1. PICK s \in stored \cup new : s.seq = r.seq
    BY <1>2 DEF Inserts
  <2>2. s \in PunchRecord /\ r \in PunchRecord /\ Numbered(s) /\ Numbered(r)
    BY <1>1, <1>2, <1>4, <1>a DEF UploadTypeOK, PastInv
  <2>3. s = r
    BY <2>1, <2>2 DEF PunchRecord, Numbered
  <2> QED
    BY <1>2, <2>3
<1>8. ASSUME NEW r \in confirmed, r.seq <= ack
      PROVE  r \in stored' \cup evicted \cup exposed
  <2>1. CASE ack = base
    BY <1>2, <1>8, <1>a, <2>1 DEF CoverInv, Covered, base
  <2>2. ASSUME NEW b \in batch, ack = b.seq
        PROVE  r \in stored' \cup evicted \cup exposed
    BY <1>2, <1>7, <1>8, <1>a, <2>2 DEF CoverInv, batch
  <2> QED
    BY <1>5, <2>1, <2>2
<1>9. lastAck' \in {ack, lastAck} /\ Changed(q, "replied", batch, ack)
  BY <1>1, <1>3, <1>5, <1>a DEF SavedAck, Changed, Request, UploadTypeOK, batch
<1>10. /\ stored' \in SUBSET PunchRecord /\ lastAck' \in Nat /\ acked' \in Nat
       /\ Past(lastAck') /\ Past(acked') /\ waiting' \in Req \cup {None}
       /\ \A r \in stored' : Numbered(r) /\ Past(r.seq)
  BY <1>1, <1>2, <1>3, <1>4, <1>5, <1>6, <1>9, <1>a DEF UploadTypeOK, TypeOK, PastInv
<1>11. \A m \in {ack, lastAck', acked'} : \A r \in confirmed :
               r.seq <= m => r \in stored' \cup evicted \cup exposed
  BY <1>2, <1>3, <1>8, <1>9, <1>a DEF CoverInv, Covered
<1> QED
  BY <1>1, <1>2, <1>3, <1>5, <1>6, <1>9, <1>10, <1>11, RequestKeeps DEF batch

\* The invariant is inductive.
LEMMA UploadInvStep ==
    ASSUME ReportedFaults
    PROVE  UploadInv /\ [UploadNext]_vars => UploadInv'
<1> SUFFICES ASSUME UploadInv, [UploadNext]_vars PROVE UploadInv'
  OBVIOUS
<1>a. WindowInv' /\ ExposedInv' /\ TypeOK'
  <2>1. [Next]_ringVars
    BY UploadIsRing
  <2>2. OrderedFaults
    BY DEF ReportedFaults, OrderedFaults
  <2>3. WindowInv'
    BY <2>1, <2>2, WindowStep DEF UploadInv
  <2> QED
    BY <2>3, ExposedStep DEF UploadInv, WindowInv, RetainInv, DepthInv
<1> SUFFICES UploadTypeOK' /\ PastInv' /\ CoverInv'
  BY <1>a DEF UploadInv
<1>1. CASE Ring
  BY <1>1, <1>a, RingKeeps
<1>2. CASE FlushFails \/ UNCHANGED vars
  <2>1. /\ UNCHANGED <<seq, pc, confirmed, evicted, acked, request, stored, lastAck, exposed>>
        /\ waiting' \in {None, waiting}
    BY <1>2 DEF FlushFails, vars, ringVars
  <2> QED
    BY <1>a, <2>1 DEF UploadInv, UploadTypeOK, PastInv, Past, Numbered, CoverInv, Covered
<1>3. ASSUME NEW q \in Req, FlushEvents(q) PROVE UploadTypeOK' /\ PastInv' /\ CoverInv'
  BY <1>3, FlushKeeps
<1>4. ASSUME NEW q \in Req, HandleReply(q) PROVE UploadTypeOK' /\ PastInv' /\ CoverInv'
  BY <1>4, <1>a, ReplyKeeps
<1>5. ASSUME NEW q \in Req, LoadDevice(q) PROVE UploadTypeOK' /\ PastInv' /\ CoverInv'
  BY <1>5, <1>a, LoadKeeps
<1>6. ASSUME NEW q \in Req, IngestBatch(q) PROVE UploadTypeOK' /\ PastInv' /\ CoverInv'
  BY <1>6, <1>a, IngestKeeps
<1>7. ASSUME NEW q \in Req, Lose(q) PROVE UploadTypeOK' /\ PastInv' /\ CoverInv'
  BY <1>7, <1>a, LoseKeeps
<1> QED
  BY <1>1, <1>2, <1>3, <1>4, <1>5, <1>6, <1>7 DEF UploadNext

-----------------------------------------------------------------------------
(***************************************************************************)
(* Results.                                                                *)
(***************************************************************************)

\* The ring inside the punch path is the ring on its own: whatever is proved of
\* it holds while flushEvents() and the gateway decide what to acknowledge.
THEOREM RingComposes ==
    ASSUME ReportedFaults
    PROVE  UploadSpec => Spec
<1>1. UploadInit => Init
  BY DEF UploadInit
<1>2. UploadInv /\ [UploadNext]_vars => UploadInv' /\ [Next]_ringVars
  BY UploadIsRing, UploadInvStep
<1> QED
  BY <1>1, <1>2, UploadInvInit, PTL DEF UploadSpec, Spec

\* Numbers are never reused and the window ascends, in the composed system, for
\* any ring, batch size and number of requests under way, wherever power is cut:
\* only the first place of a full window can hold a newer record, one never shown
\* green, and every green punch behind it counts as exposed.
THEOREM NumbersOrderedSafe ==
    ASSUME ReportedFaults
    PROVE  UploadSpec => []NumbersOrdered
<1>1. UploadInv => NumbersOrdered
  <2> SUFFICES ASSUME UploadInv PROVE NumbersOrdered
    OBVIOUS
  <2>1. OnlyFirstOutOfPlace
    <3> SUFFICES ASSUME NEW p \in tail .. (head - 1), NEW q \in tail .. (head - 1), p < q,
                        At(p) # Torn, At(q) # Torn, At(p).seq >= At(q).seq
                 PROVE  /\ p = tail /\ head - tail = Slots /\ At(p) \notin confirmed
                        /\ At(q) \in confirmed => At(q) \in exposed
      BY DEF OnlyFirstOutOfPlace
    <3>1. ~(At(p).seq < At(q).seq)
      <4>1. TypeOK /\ p \in Nat /\ q \in Nat
        BY DEF UploadInv, UploadTypeOK, TypeOK
      <4>2. At(p).seq \in Nat /\ At(q).seq \in Nat
        BY <4>1, AtType DEF PunchRecord, Torn
      <4> QED
        BY <4>2
    <3>2. p = tail /\ head - tail = Slots /\ At(p) \notin confirmed
      BY <3>1, WindowAscends DEF UploadInv
    <3>3. At(q) \in confirmed => At(q) \in exposed
      BY <3>1, WindowIsLive DEF UploadInv, ExposedInv
    <3> QED
      BY <3>2, <3>3
  <2> QED
    BY <2>1, NumbersUnique DEF UploadInv, NumbersOrdered
<1>2. UploadInv /\ [UploadNext]_vars => UploadInv'
  BY UploadInvStep
<1> QED
  BY <1>1, <1>2, UploadInvInit, PTL DEF UploadSpec

\* Whatever a late, retried or concurrent request is answered, ack_through
\* covers no punch shown green that is missing from the ledger, unless a boot had
\* put that punch behind a newer one.
THEOREM AckCoversStoredSafe ==
    ASSUME ReportedFaults
    PROVE  UploadSpec => []AckCoversStored
<1>1. UploadInv => AckCoversStored
  BY DEF UploadInv, CoverInv, Covered, AckCoversStored
<1>2. UploadInv /\ [UploadNext]_vars => UploadInv'
  BY UploadInvStep
<1> QED
  BY <1>1, <1>2, UploadInvInit, PTL DEF UploadSpec

\* What the invariant says of each confirmed punch.
LEMMA NothingLost == UploadInv => LossExplained
<1> SUFFICES ASSUME UploadInv, NEW r \in confirmed \ exposed, r \notin stored, r \notin evicted
             PROVE  \E p \in cursors.tail .. (cursors.head - 1) : At(p) = r
  BY DEF LossExplained
<1>1. ~(r.seq <= acked)
  BY DEF UploadInv, CoverInv, Covered
<1> QED
  BY <1>1 DEF UploadInv, WindowInv, RetainInv, Retained

\* The one way a punch shown green is lost between the terminal and the ledger is
\* a boot that reloads it behind a newer record.  Otherwise, through cuts, failed
\* writes and saves, lost, late and concurrent requests, it is recorded,
\* recoverable from flash, or given up as oldest of a full ring.
THEOREM LossExplainedSafe ==
    ASSUME ReportedFaults
    PROVE  UploadSpec => []LossExplained
<1>1. UploadInv /\ [UploadNext]_vars => UploadInv'
  BY UploadInvStep
<1> QED
  BY <1>1, NothingLost, UploadInvInit, PTL DEF UploadSpec

-----------------------------------------------------------------------------
(***************************************************************************)
(* The refinement of PunchLedger.                                          *)
(***************************************************************************)

LedgerPunch == [seq : 1 .. MaxPunches, uuid : 1 .. MaxPunches]

\* Every record read from the ring, confirmed, sent or stored is a punch of the
\* abstract ledger.
LEMMA NumberedIsPunch ==
    ASSUME UploadInv, NEW r \in PunchRecord, Numbered(r)
    PROVE  r \in LedgerPunch
<1>1. seq \in Nat /\ seq <= MaxPunches /\ MaxPunches \in Nat
  BY RingAssumption DEF UploadInv, WindowInv, NumberInv, UploadTypeOK, TypeOK
<1>2. r.seq \in 1 .. MaxPunches /\ r.uuid \in 1 .. MaxPunches
  BY <1>1 DEF Numbered, PunchRecord
<1> QED
  BY <1>2 DEF LedgerPunch, PunchRecord

\* A step of the ring makes at most the punch being confirmed recoverable, and a
\* boot none.
LEMMA RecoverableGrows ==
    ASSUME ReportedFaults, UploadInv, Next
    PROVE  \/ Recoverable' \subseteq Recoverable
           \/ /\ Recoverable' \subseteq Recoverable \cup {rec} /\ cuts' = cuts
              /\ rec \in LedgerPunch \ (stored \cup evicted)
<1>a. /\ head \in Nat /\ tail \in Nat /\ cursors.head \in Nat /\ cursors.tail \in Nat
      /\ TypeOK /\ CursorInv /\ Torn \notin confirmed
      /\ "flush" \notin Faults /\ "corrupt" \notin Faults
  BY DEF UploadInv, WindowInv, RetainInv, DepthInv, TypeOK, ReportedFaults, PunchRecord, Torn
<1>b. ASSUME NEW r, r \notin confirmed \/ r = At(head), confirmed' = confirmed, cursors' = cursors,
             flash' = [flash EXCEPT ![Slot(head)] = r]
      PROVE  Recoverable' \subseteq Recoverable
  <2> SUFFICES ASSUME NEW x \in Recoverable' PROVE x \in Recoverable
    OBVIOUS
  <2>1. PICK p \in cursors.tail .. (cursors.head - 1) : flash'[Slot(p)] = x /\ x \in confirmed
    BY <1>b DEF Recoverable, At
  <2>2. p \in Nat /\ Slot(p) \in SlotRange
    BY <1>a, SlotType
  <2>3. flash[Slot(p)] = x
    BY <1>a, <1>b, <2>1, <2>2 DEF At, TypeOK
  <2> QED
    BY <2>1, <2>3 DEF Recoverable, At
<1>1. CASE NextSeq \/ AppendSaveFails
  BY <1>1 DEF NextSeq, AppendSaveFails, Recoverable, At
<1>2. CASE AppendWrite
  <2>1. flash' = [flash EXCEPT ![Slot(head)] = rec]
    BY <1>2, <1>a DEF AppendWrite, WriteResults
  <2>2. rec \notin confirmed
    BY <1>2 DEF AppendWrite, UploadInv, WindowInv, RetainInv, DepthInv, RecInv, TypeOK
  <2> QED
    BY <1>2, <1>b, <2>1, <2>2 DEF AppendWrite
<1>3. CASE AppendWriteFails
  BY <1>3, <1>a, <1>b DEF AppendWriteFails
<1>4. CASE AppendSave
  <2>1. cursors.head = head /\ At(head) = rec
    BY <1>4 DEF AppendSave, UploadInv, WindowInv, HeadInv, RetainInv, WrittenInv
  <2>2. /\ cursors'.tail = tail /\ cursors'.head = head + 1 /\ flash' = flash
        /\ confirmed' = confirmed \cup {rec} /\ cuts' = cuts
    BY <1>4 DEF AppendSave
  <2>3. ASSUME NEW x \in Recoverable', x # rec PROVE x \in Recoverable
    <3>1. PICK p \in tail .. head : At(p) = x /\ x \in confirmed
      BY <1>a, <2>2, <2>3 DEF Recoverable, At
    <3>2. p # head
      BY <2>1, <2>3, <3>1
    <3>3. p \in cursors.tail .. (cursors.head - 1)
      BY <1>a, <2>1, <3>2 DEF CursorInv
    <3> QED
      BY <3>1, <3>3 DEF Recoverable
  <2>4. rec \in LedgerPunch
    BY <1>4, NumberedIsPunch
       DEF AppendSave, UploadInv, WindowInv, RetainInv, DepthInv, RecInv, NumberInv, Numbered,
           TypeOK
  <2>5. rec \notin stored
    BY <1>4 DEF AppendSave, UploadInv, PastInv, Past, WindowInv, NumberInv, UploadTypeOK, TypeOK
  <2>6. rec \notin evicted
    BY <1>4, RingAssumption
       DEF AppendSave, UploadInv, WindowInv, NumberInv, GivenUpInv, UploadTypeOK, TypeOK
  <2> QED
    BY <2>2, <2>3, <2>4, <2>5, <2>6
<1>5. CASE PowerCut
  BY <1>5 DEF PowerCut, Boot, Recoverable, At
<1>6. CASE PowerCutTearsWrite
  BY <1>6, <1>a, <1>b DEF PowerCutTearsWrite, Boot
<1>7. CASE CorruptCursors
  BY <1>7, <1>a DEF CorruptCursors
<1>8. CASE \E ack \in 1 .. seq : AckThrough(ack)
  <2>1. PICK t \in tail .. head :
           /\ cursors' = [head |-> head, tail |-> t] \/ cursors' = cursors
           /\ UNCHANGED <<flash, confirmed>>
    BY <1>8 DEF AckThrough
  <2>2. CASE cursors' = cursors
    BY <2>1, <2>2 DEF Recoverable, At
  <2>3. CASE cursors' = [head |-> head, tail |-> t]
    <3> SUFFICES ASSUME NEW x \in Recoverable' PROVE x \in Recoverable
      OBVIOUS
    <3>1. PICK p \in t .. (head - 1) : At(p) = x /\ x \in confirmed
      BY <1>a, <2>1, <2>3 DEF Recoverable, At
    <3>2. p < cursors.head
      BY <1>a, <3>1 DEF UploadInv, WindowInv, HeadInv
    <3>3. p \in cursors.tail .. (cursors.head - 1)
      BY <1>a, <3>2 DEF CursorInv
    <3> QED
      BY <3>1, <3>3 DEF Recoverable
  <2> QED
    BY <2>1, <2>2, <2>3
<1> QED
  BY <1>1, <1>2, <1>3, <1>4, <1>5, <1>6, <1>7, <1>8 DEF Next, RingStep

\* A step of the ring gives up at most one punch.
LEMMA GivesUpOne ==
    ASSUME UploadInv, Next
    PROVE  \/ evicted' = evicted
           \/ \E p \in LedgerPunch : evicted' = evicted \cup {p}
<1>1. Evict \/ evicted' = evicted
  BY DEF Next, RingStep, NextSeq, AppendWrite, AppendWriteFails, MakeRoom, AppendSave,
         AppendSaveFails, PowerCut, PowerCutTearsWrite, CorruptCursors, history, AckThrough
<1>2. ASSUME At(tail) # Torn PROVE At(tail) \in LedgerPunch
  <2>1. tail \in Nat /\ TypeOK /\ NumberInv
    BY DEF UploadInv, UploadTypeOK, TypeOK, WindowInv
  <2>2. At(tail) \in PunchRecord /\ Numbered(At(tail))
    BY <1>2, <2>1, AtType, AtNumbered
  <2> QED
    BY <2>2, NumberedIsPunch
<1> QED
  BY <1>1, <1>2 DEF Evict

\* Every step of the punch path is a step of the ledger or leaves it alone.
LEMMA LedgerStep ==
    ASSUME ReportedFaults, UploadInv, UploadInv', [UploadNext]_vars
    PROVE  [Ledger!LedgerNext]_(Ledger!ledgerVars)
<1>1. ASSUME Next, stored' = stored
      PROVE  /\ \/ Recoverable' \subseteq Recoverable
                \/ /\ cuts' = cuts
                   /\ \E p \in LedgerPunch \ (stored \cup evicted) :
                         Recoverable' \subseteq Recoverable \cup {p}
             /\ Ledger!GivesUpAtMostOne
             /\ \A r \in Recoverable \ Recoverable' : r \in stored \cup evicted' \cup exposed'
  <2>1. \/ Recoverable' \subseteq Recoverable
        \/ /\ cuts' = cuts
           /\ \E p \in LedgerPunch \ (stored \cup evicted) :
                 Recoverable' \subseteq Recoverable \cup {p}
    BY <1>1, RecoverableGrows
  <2>2. Ledger!GivesUpAtMostOne
    BY <1>1, GivesUpOne DEF Ledger!GivesUpAtMostOne, LedgerPunch
  <2>3. ASSUME NEW r \in Recoverable, r \notin Recoverable'
        PROVE  r \in stored \cup evicted' \cup exposed'
    <3>1. r \in confirmed'
      BY <1>1, <2>3 DEF Recoverable, Next, RingStep, NextSeq, AppendWrite, AppendWriteFails,
             AppendSave, AppendSaveFails, PowerCut, PowerCutTearsWrite, Boot,
             CorruptCursors, history, AckThrough
    <3>2. LossExplained'
      <4>1. UploadInv' => LossExplained'
        BY NothingLost, PTL
      <4> QED
        BY <4>1
    <3> QED
      BY <1>1, <2>3, <3>1, <3>2 DEF LossExplained, Recoverable
  <2> QED
    BY <2>1, <2>2, <2>3
<1>8. ASSUME Next, stored' = stored, exposed' = exposed PROVE Ledger!Buffer
  BY <1>1, <1>8 DEF Ledger!Buffer, LedgerPunch
<1>2. CASE Ring
  <2>1. Next /\ stored' = stored
    BY <1>2 DEF Ring, Next
  <2>2. CASE cuts' = cuts
    BY <1>2, <1>8, <2>1, <2>2 DEF Ring, Ledger!LedgerNext
  <2>3. CASE cuts' # cuts
    <3>1. PowerCut \/ PowerCutTearsWrite
      BY <1>2, <2>3 DEF Ring, RingStep, NextSeq, AppendWrite, AppendWriteFails, AppendSave,
             AppendSaveFails, CorruptCursors, history
    <3>2. /\ tail' = cursors'.tail /\ head' = cursors'.head /\ cursors' = cursors
          /\ exposed' = exposed \cup Behind'
      BY <1>2, <2>3, <3>1, BootWindow DEF Ring, UploadInv
    <3>3. Behind' \subseteq Recoverable'
      BY <3>2 DEF Behind, Recoverable
    <3>4. Recoverable' \subseteq Recoverable
      BY <1>1, <2>1, <2>3
    <3>5. Recoverable \ Recoverable' \subseteq stored \cup evicted' \cup exposed
      BY <1>1, <2>1, <3>2, <3>3
    <3>6. Ledger!GivesUpAtMostOne
      BY <1>1, <2>1
    <3>7. \E x \in SUBSET Recoverable' : exposed' = exposed \cup x
      BY <3>2, <3>3
    <3>8. Ledger!Cut
      BY <2>1, <3>4, <3>5, <3>6, <3>7 DEF Ledger!Cut
    <3> QED
      BY <3>8 DEF Ledger!LedgerNext
  <2> QED
    BY <2>2, <2>3
<1>3. ASSUME NEW q \in Req, HandleReply(q) PROVE Ledger!LedgerNext
  <2>1. request[q].ack \in 1 .. seq
    BY <1>3 DEF HandleReply, UploadInv, UploadTypeOK, TypeOK, PastInv, Past
  <2>2. Next /\ stored' = stored /\ exposed' = exposed
    BY <1>3, <2>1 DEF HandleReply, Next
  <2> QED
    BY <1>8, <2>2 DEF Ledger!LedgerNext
<1>4. ASSUME NEW q \in Req, IngestBatch(q) PROVE Ledger!LedgerNext
  <2>1. PICK new \in SUBSET request[q].batch : stored' = stored \cup new
    BY <1>4 DEF IngestBatch
  <2>2. new \in SUBSET LedgerPunch
    BY NumberedIsPunch DEF UploadInv, UploadTypeOK, PastInv
  <2>3. Recoverable' = Recoverable /\ evicted' = evicted /\ exposed' = exposed
    BY <1>4 DEF IngestBatch, ringVars, Recoverable, At
  <2> QED
    BY <2>1, <2>2, <2>3 DEF Ledger!LedgerNext, Ledger!Record, LedgerPunch
<1>5. ASSUME UNCHANGED <<ringVars, stored, exposed>> PROVE UNCHANGED Ledger!ledgerVars
  BY <1>5 DEF ringVars, Recoverable, At, Ledger!ledgerVars
<1>6. CASE FlushFails \/ \E q \in Req : FlushEvents(q) \/ LoadDevice(q) \/ Lose(q)
  BY <1>5, <1>6 DEF FlushFails, FlushEvents, LoadDevice, Lose
<1>7. CASE UNCHANGED vars
  BY <1>5, <1>7 DEF vars, ringVars
<1> QED
  BY <1>2, <1>3, <1>4, <1>6, <1>7 DEF UploadNext

\* The punch path, from the finger on the terminal to the gateway's ledger,
\* implements PunchLedger: what was shown green stays recoverable until it is
\* recorded, and leaves unrecorded only as the oldest of a full ring or after a
\* cut has put it at risk.
THEOREM LedgerImplemented ==
    ASSUME ReportedFaults
    PROVE  UploadSpec => ImplementsLedger
<1>1. UploadInit => Ledger!LedgerInit
  BY DEF UploadInit, Init, Ledger!LedgerInit, Recoverable
<1>2. UploadInv /\ [UploadNext]_vars => UploadInv'
  BY UploadInvStep
<1>3. UploadInv /\ UploadInv' /\ [UploadNext]_vars
         => [Ledger!LedgerNext]_(Ledger!ledgerVars)
  BY LedgerStep
<1> QED
  BY <1>1, <1>2, <1>3, UploadInvInit, PTL
     DEF UploadSpec, ImplementsLedger, Ledger!LedgerSpec

=============================================================================
