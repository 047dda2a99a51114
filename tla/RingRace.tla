------------------------------ MODULE RingRace ------------------------------
(***************************************************************************)
(* The two tasks that share one RingBuffer without a lock: scanTask        *)
(* (core 1) in append() and netTask (core 0) in peek() and ackThrough().   *)
(* RingBuffer takes a storage call as one step; here readAt() and          *)
(* writeAt() of LittleFsStorage are the two calls they are, a seek and a   *)
(* transfer at the position of the one open File.                          *)
(***************************************************************************)
EXTENDS RingBuffer

VARIABLES
    pos,          \* the position of file_, as a slot
    net,          \* where netTask is: idle, or in peek() or ackThrough()
    at,           \* the ring position peek() has come to
    sent          \* the records of the batch it uploads

raceVars == <<pos, net, at, sent>>
allVars == <<flash, cursors, nvsSeq, head, tail, seq, pc, rec, confirmed,
             evicted, acked, punches, cuts, pos, net, at, sent>>

RaceInit ==
    /\ Init
    /\ pos = 0 /\ net = "idle" /\ at = 0 /\ sent = {}

\* nextSeq()
Take == NextSeq /\ UNCHANGED raceVars

\* append(): make room; writeAt() seeks to the head's slot.
SeekHead ==
    /\ pc = "numbered"
    /\ MakeRoom
    /\ pos' = Slot(head)
    /\ pc' = "seeked"
    /\ UNCHANGED <<flash, cursors, nvsSeq, head, seq, rec, confirmed, acked,
                   punches, cuts, net, at, sent>>

\* writeAt() writes where the file is now.
WriteHere ==
    /\ pc = "seeked"
    /\ flash' = [flash EXCEPT ![pos] = rec]
    /\ pos' = (pos + 1) % Slots
    /\ pc' = "written"
    /\ UNCHANGED <<cursors, nvsSeq, head, tail, seq, rec, confirmed, evicted,
                   acked, punches, cuts, net, at, sent>>

Save == AppendSave /\ UNCHANGED raceVars

\* flushEvents(): peek() walks from tail_ to head_ (fewer than kMaxBatch here).
Peek ==
    /\ net = "idle" /\ tail < head
    /\ net' = "peek" /\ at' = tail /\ sent' = {}
    /\ UNCHANGED <<ringVars, pos>>

\* readAt() seeks, in peek() or in ackThrough() ...
SeekAt ==
    /\ \/ net = "peek" /\ at < head /\ net' = "peekRead" /\ pos' = Slot(at)
       \/ net = "ack" /\ tail < head /\ net' = "ackRead" /\ pos' = Slot(tail)
    /\ UNCHANGED <<ringVars, at, sent>>

\* ... and reads where the file is now.
ReadPeek ==
    /\ net = "peekRead"
    /\ sent' = IF flash[pos] = Torn THEN sent ELSE sent \cup {flash[pos]}
    /\ pos' = (pos + 1) % Slots
    /\ net' = "peek" /\ at' = at + 1
    /\ UNCHANGED ringVars

\* The gateway stores the batch and acknowledges its highest number; an empty
\* batch is not posted.
Answer ==
    /\ net = "peek" /\ at >= head
    /\ IF sent = {} THEN net' = "idle" /\ UNCHANGED acked
       ELSE /\ net' = "ack"
            /\ acked' = CHOOSE n \in {r.seq : r \in sent} : \A r \in sent : n >= r.seq
    /\ UNCHANGED <<persistent, ram, confirmed, evicted, punches, cuts, pos, at,
                   sent>>

\* ackThrough(): one turn of the loop, the tail past a record it may drop.
ReadAck ==
    /\ net = "ackRead"
    /\ pos' = (pos + 1) % Slots
    /\ IF flash[pos] = Torn \/ flash[pos].seq <= acked
       THEN tail' = tail + 1 /\ net' = "ack"
       ELSE tail' = tail /\ net' = "break"
    /\ UNCHANGED <<persistent, head, seq, pc, rec, history, at, sent>>

\* ackThrough() ends and saves the pair.
SaveAck ==
    /\ net = "break" \/ (net = "ack" /\ tail >= head)
    /\ cursors' = [head |-> head, tail |-> tail]
    /\ net' = "idle"
    /\ UNCHANGED <<flash, nvsSeq, ram, history, pos, at, sent>>

RaceNext ==
    \/ Take
    \/ SeekHead
    \/ WriteHere
    \/ Save
    \/ Peek
    \/ SeekAt
    \/ ReadPeek
    \/ Answer
    \/ ReadAck
    \/ SaveAck

RaceSpec == RaceInit /\ [][RaceNext]_allVars

(***************************************************************************)
(* Property                                                                *)
(***************************************************************************)

\* ring_buffer.h: "Records are only dropped after the server acknowledges
\* them."  A punch shown green is in the window, was given up by a full ring,
\* or has been acknowledged.
DroppedOnlyAcked ==
    \A r \in confirmed :
        \/ r \in evicted
        \/ r.seq <= acked
        \/ \E p \in tail .. (head - 1) : At(p) = r
=============================================================================
