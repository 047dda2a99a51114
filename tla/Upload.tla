------------------------------- MODULE Upload -------------------------------
(***************************************************************************)
(* The punch path end to end: the terminal's ring buffer, the network      *)
(* task's flushEvents() (firmware/src/main.cpp), an unreliable network,    *)
(* and the gateway's IngestBatch (gateway/internal/store/store.go).        *)
(*                                                                         *)
(* flushEvents() is a synchronous HTTP call: the terminal handles only the *)
(* answer to the request it is waiting for.  A request whose answer it     *)
(* stopped waiting for may still be processed, late and concurrently with  *)
(* its retry.  The gateway reads device.last_ack_seq when the request is   *)
(* authenticated (LoadDevice) and uses that value in a later transaction.  *)
(***************************************************************************)
EXTENDS RingBuffer, FiniteSets

CONSTANTS
    Batch,        \* kMaxBatch
    Req           \* requests that can be under way at one time

ASSUME UploadAssumption == Batch \in Nat \ {0} /\ Req # {} /\ "none" \notin Req

None == "none"

VARIABLES
    waiting,      \* the request flushEvents() is blocked on, or None
    request,      \* every request under way
    stored,       \* punch_event rows of this device
    lastAck,      \* device.last_ack_seq
    exposed       \* history: green punches a boot reloaded behind a newer one

netVars == <<waiting, request, stored, lastAck, exposed>>
vars == <<flash, cursors, nvsSeq, head, tail, seq, pc, rec, confirmed, evicted,
          acked, punches, cuts, waiting, request, stored, lastAck, exposed>>

Free == [phase |-> "free", batch |-> {}, ack |-> 0]

UploadInit ==
    /\ Init
    /\ waiting = None
    /\ request = [q \in Req |-> Free]
    /\ stored = {}
    /\ lastAck = 0
    /\ exposed = {}

(***************************************************************************)
(* Terminal                                                                *)
(***************************************************************************)

\* peek(): the first Batch readable records from the tail.  Positions in
\* unread could not be read and are skipped, like a bad CRC.
PeekFromHead(unread) ==
    LET good == {p \in tail .. (head - 1) : p \notin unread /\ At(p) # Torn}
    IN  {At(p) : p \in {x \in good : Cardinality({y \in good : y > x}) < Batch}}

Peek(unread) ==
    LET good == {p \in tail .. (head - 1) : p \notin unread /\ At(p) # Torn}
    IN  {At(p) : p \in {x \in good : Cardinality({y \in good : y < x}) < Batch}}

UnreadChoices ==
    IF "read" \in Faults THEN SUBSET (tail .. (head - 1)) ELSE {{}}

\* flushEvents() up to signedPost(): an empty batch posts nothing.
FlushEvents(q) ==
    /\ waiting = None
    /\ request[q].phase = "free"
    /\ \E unread \in UnreadChoices :
          /\ Peek(unread) # {}
          /\ request' = [request EXCEPT ![q] =
                [phase |-> "sent", batch |-> Peek(unread), ack |-> 0]]
    /\ waiting' = q
    /\ UNCHANGED <<ringVars, stored, lastAck, exposed>>

\* flushEvents() with a 200 in hand: drop what ack_through covers.
HandleReply(q) ==
    /\ waiting = q
    /\ request[q].phase = "replied"
    /\ AckThrough(request[q].ack)
    /\ waiting' = None
    /\ request' = [request EXCEPT ![q] = Free]
    /\ UNCHANGED <<stored, lastAck, exposed>>

\* flushEvents() returns false: a timeout, a lost answer, a 401 or a 500.  The
\* terminal will peek again; the old request lives on.
FlushFails ==
    /\ waiting # None
    /\ waiting' = None
    /\ UNCHANGED <<ringVars, request, stored, lastAck, exposed>>

\* Green punches of the window that peek() would send after a newer one.
Behind ==
    {r \in confirmed : \E p, q \in tail .. (head - 1) :
        p < q /\ At(q) = r /\ At(p).seq > r.seq}

\* Scanning, storage faults and power cuts.  A boot forgets the call under way.
Ring ==
    /\ RingStep
    /\ waiting' = IF cuts' # cuts THEN None ELSE waiting
    /\ exposed' = IF cuts' # cuts THEN exposed \cup Behind' ELSE exposed
    /\ UNCHANGED <<request, stored, lastAck>>

(***************************************************************************)
(* Network and gateway                                                     *)
(***************************************************************************)

\* Authentication: LoadDevice reads last_ack_seq outside any transaction.
LoadDevice(q) ==
    /\ request[q].phase = "sent"
    /\ request' = [request EXCEPT ![q].phase = "loaded", ![q].ack = lastAck]
    /\ UNCHANGED <<ringVars, waiting, stored, lastAck, exposed>>

\* insertEvent() for each event: ON CONFLICT (device_id, device_seq) DO NOTHING
\* leaves rows new, in whatever order equal numbers were sorted.
Inserts(batch, new) ==
    /\ \A r \in new, s \in stored : r.seq # s.seq
    /\ \A r, s \in new : r.seq = s.seq => r = s
    /\ \A r \in batch : \E s \in stored \cup new : s.seq = r.seq

\* The highest number of a batch, and what IngestBatch acknowledges.
AckValue(base, batch) ==
    CHOOSE n \in {base} \cup {r.seq : r \in batch} :
        n >= base /\ \A r \in batch : n >= r.seq

\* UPDATE device SET last_ack_seq = GREATEST(last_ack_seq, $2)
SavedAck(ack) == IF ack > lastAck THEN ack ELSE lastAck

\* IngestBatch commits: rows, last_ack_seq and the answer in one transaction.
IngestBatch(q) ==
    /\ request[q].phase = "loaded"
    /\ \E new \in SUBSET request[q].batch :
          /\ Inserts(request[q].batch, new)
          /\ stored' = stored \cup new
    /\ LET ack == AckValue(request[q].ack, request[q].batch)
       IN  /\ lastAck' = SavedAck(ack)
           /\ request' = [request EXCEPT ![q].phase = "replied", ![q].ack = ack]
    /\ UNCHANGED <<ringVars, waiting, exposed>>

\* The request never arrives, its transaction rolls back (a database error, a
\* gateway restart), or its answer is lost.
Lose(q) ==
    /\ request[q].phase # "free"
    /\ request' = [request EXCEPT ![q] = Free]
    /\ waiting' = IF waiting = q THEN None ELSE waiting
    /\ UNCHANGED <<ringVars, stored, lastAck, exposed>>

UploadNext ==
    \/ Ring
    \/ FlushFails
    \/ \E q \in Req : \/ FlushEvents(q)
                      \/ HandleReply(q)
                      \/ LoadDevice(q)
                      \/ IngestBatch(q)
                      \/ Lose(q)

UploadSpec == UploadInit /\ [][UploadNext]_vars

(***************************************************************************)
(* Fairness.  Both tasks run for ever.  The network and the gateway may    *)
(* fail any number of times but not every time: of infinitely many         *)
(* attempts some are loaded, committed and answered while the terminal is  *)
(* still waiting.  Nothing is assumed of abandoned requests except that    *)
(* they end.                                                               *)
(***************************************************************************)
Fairness ==
    /\ WF_vars(AppendWrite /\ UNCHANGED netVars)
    /\ WF_vars(AppendSave /\ UNCHANGED netVars)
    /\ SF_vars(\E q \in Req : FlushEvents(q))
    /\ \A q \in Req : /\ SF_vars(waiting = q /\ LoadDevice(q))
                      /\ SF_vars(waiting = q /\ IngestBatch(q))
                      /\ SF_vars(HandleReply(q))
                      /\ WF_vars(waiting # q /\ Lose(q))

FairUploadSpec == UploadSpec /\ Fairness

(***************************************************************************)
(* Properties                                                              *)
(***************************************************************************)

\* The types of the network and gateway state.
UploadTypeOK ==
    /\ TypeOK
    /\ waiting \in Req \cup {None}
    /\ request \in [Req -> [phase : {"free", "sent", "loaded", "replied"},
                            batch : SUBSET PunchRecord, ack : Nat]]
    /\ stored \subseteq PunchRecord
    /\ lastAck \in Nat
    /\ exposed \subseteq confirmed

\* "Records are only dropped after the server acknowledges them": a punch shown
\* green is in the ledger, or still recoverable from flash after a power cut, or
\* was given up by a full ring.
NoPunchLost ==
    \A r \in confirmed :
        \/ r \in stored
        \/ r \in evicted
        \/ \E p \in cursors.tail .. (cursors.head - 1) : At(p) = r

\* What is left of it when power may be cut anywhere: the only green punches
\* that can vanish are those a boot reloaded behind a newer record, one whose
\* cursor save a full ring did not finish, and which ackThrough() drops when
\* that record is acknowledged.  Failed saves, lost answers, retries and
\* concurrent requests lose nothing by themselves.
LossExplained ==
    \A r \in confirmed \ exposed :
        \/ r \in stored
        \/ r \in evicted
        \/ \E p \in cursors.tail .. (cursors.head - 1) : At(p) = r

\* Whatever a late, retried or concurrent request is answered, its ack_through
\* covers no punch shown green that is missing from the ledger, unless a boot
\* had put that punch behind a newer one.
AckCoversStored ==
    \A q \in Req : request[q].phase = "replied" =>
        \A r \in confirmed :
            r.seq <= request[q].ack => r \in stored \cup evicted \cup exposed

\* The terminal's numbers are unique across cuts, failed saves and acks, and the
\* window ascends, which is what IngestBatch's cumulative ack relies on ("The
\* device sends from its buffer head in ascending order"), except for one
\* record: the oldest place of a full ring may hold a newer record, one never
\* shown green, and every green punch it was put in front of counts as exposed.
OnlyFirstOutOfPlace ==
    \A p, q \in tail .. (head - 1) :
        (p < q /\ At(p) # Torn /\ At(q) # Torn /\ At(p).seq >= At(q).seq) =>
            /\ p = tail /\ head - tail = Slots
            /\ At(p) \notin confirmed
            /\ At(q) \in confirmed => At(q) \in exposed

NumbersOrdered == UploadTypeOK /\ NeverReused /\ OnlyFirstOutOfPlace

\* Every punch shown green is eventually in the ledger or given up as oldest,
\* unless a boot put it behind a newer one.
EventuallyRecorded ==
    \A u \in 1 .. MaxPunches :
        (\E r \in confirmed : r.uuid = u)
            ~> (\E r \in stored \cup evicted \cup exposed : r.uuid = u)

\* The implementation's view of the abstract ledger.
Recoverable ==
    {r \in confirmed :
        \E p \in cursors.tail .. (cursors.head - 1) : At(p) = r}

Ledger == INSTANCE PunchLedger WITH
    Punch <- [seq : 1 .. MaxPunches, uuid : 1 .. MaxPunches],
    kept <- Recoverable, ledger <- stored, overflowed <- evicted,
    atRisk <- exposed

\* The punch path implements PunchLedger.
ImplementsLedger == Ledger!LedgerSpec
=============================================================================
