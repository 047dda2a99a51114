------------------------------ MODULE Delivery ------------------------------
(***************************************************************************)
(* The outbox worker (gateway/internal/delivery/worker.go, backoff.go):    *)
(* it claims due rows of outbox_event, POSTs each to the consumer and      *)
(* records the outcome.  Several worker processes may run at once, a       *)
(* worker may be stopped between any two of its calls, and a POST may      *)
(* reach the consumer although the worker sees it fail.                    *)
(*                                                                         *)
(* Rows are numbered in order of created_at, which is also the order of    *)
(* their emitted_at.  Time is abstracted to whether next_attempt_at has    *)
(* passed.                                                                 *)
(***************************************************************************)
EXTENDS Naturals, FiniteSets

CONSTANTS
    Workers,      \* deliver processes
    Subjects,     \* what events are about
    BatchSize,    \* batchSize
    MaxAttempts,  \* MaxAttempts
    MaxEvents,    \* bound: rows written to the outbox
    MaxStops,     \* bound: workers stopped or killed
    Faults        \* "db": recording an outcome fails

ASSUME DeliveryAssumption ==
    /\ BatchSize \in Nat \ {0} /\ MaxAttempts \in Nat \ {0}
    /\ MaxEvents \in Nat /\ MaxStops \in Nat
    /\ Faults \subseteq {"db"}

VARIABLES
    rows,         \* outbox_event, by creation order
    subject,      \* the subject of each row
    job,          \* rows each worker has claimed and not finished
    outcome,      \* what send() returned for the row a worker is at
    received,     \* rows whose POST reached the consumer      (external)
    view,         \* newest emitted_at the consumer applied    (external)
    posts,        \* history: POSTs of each row
    stops         \* history: workers stopped

delVars == <<rows, subject, job, outcome, received, view, posts, stops>>

Ids == 1 .. MaxEvents
NoRow == [status |-> "none", attempts |-> 0, due |-> FALSE]

DelInit ==
    /\ rows = [e \in Ids |-> NoRow]
    /\ subject \in [Ids -> Subjects]
    /\ job = [w \in Workers |-> {}]
    /\ outcome = [w \in Workers |-> "none"]
    /\ received = {}
    /\ view = [s \in Subjects |-> 0]
    /\ posts = [e \in Ids |-> 0]
    /\ stops = 0

\* Engine.Recompute commits the next outbox row.
Emit(e) ==
    /\ rows[e] = NoRow
    /\ \A d \in 1 .. (e - 1) : rows[d] # NoRow
    /\ rows' = [rows EXCEPT ![e] =
                  [status |-> "pending", attempts |-> 0, due |-> TRUE]]
    /\ UNCHANGED <<subject, job, outcome, received, view, posts, stops>>

\* next_attempt_at passes.
BackoffElapses(e) ==
    /\ rows[e].status = "pending" /\ ~rows[e].due
    /\ rows' = [rows EXCEPT ![e].due = TRUE]
    /\ UNCHANGED <<subject, job, outcome, received, view, posts, stops>>

\* claimBatch: the oldest due rows, in one transaction.  SKIP LOCKED keeps two
\* workers off the same row.
DueTakesClaimed == {e \in Ids : rows[e].status \in {"pending", "delivering"} /\ rows[e].due}

DueForgetsRetries == {e \in Ids : rows[e].status = "pending" /\ rows[e].attempts = 0}

Due == {e \in Ids : rows[e].status = "pending" /\ rows[e].due}

ClaimBatch(w) ==
    LET batch == {e \in Due : Cardinality({d \in Due : d < e}) < BatchSize}
    IN  /\ job[w] = {}
        /\ batch # {}
        /\ job' = [job EXCEPT ![w] =
                     {[id |-> e, attempts |-> rows[e].attempts] : e \in batch}]
        /\ rows' = [e \in Ids |-> IF e \in batch
                                  THEN [rows[e] EXCEPT !.status = "delivering"]
                                  ELSE rows[e]]
        /\ UNCHANGED <<subject, outcome, received, view, posts, stops>>

\* tick(): the claimed rows are delivered in order.
IsNext(w, r) == r \in job[w] /\ \A q \in job[w] : r.id <= q.id

\* send(): the POST may arrive whether or not a 2xx comes back.
Send(w, r) ==
    /\ IsNext(w, r)
    /\ outcome[w] = "none"
    /\ \E arrives \in BOOLEAN, ok \in BOOLEAN :
          /\ ok => arrives
          /\ outcome' = [outcome EXCEPT ![w] = IF ok THEN "ok" ELSE "err"]
          /\ received' = IF arrives THEN received \cup {r.id} ELSE received
          /\ view' = IF arrives /\ r.id > view[subject[r.id]]
                     THEN [view EXCEPT ![subject[r.id]] = r.id]
                     ELSE view
    /\ posts' = [posts EXCEPT ![r.id] = @ + 1]
    /\ UNCHANGED <<rows, subject, job, stops>>

\* deliverOne: what the row becomes once send() has returned.
NextRowNeverDead(r, result) ==
    IF result = "ok"
    THEN [status |-> "delivered", attempts |-> r.attempts, due |-> TRUE]
    ELSE [status |-> "pending", attempts |-> r.attempts + 1, due |-> FALSE]

NextRowKeepsAttempts(r, result) ==
    IF result = "ok"
    THEN [status |-> "delivered", attempts |-> r.attempts, due |-> TRUE]
    ELSE [status |-> "pending", attempts |-> r.attempts, due |-> FALSE]

NextRowDeliversErrors(r, result) ==
    IF result = "ok" \/ r.attempts + 1 >= MaxAttempts
    THEN [status |-> "delivered", attempts |-> r.attempts, due |-> TRUE]
    ELSE [status |-> "pending", attempts |-> r.attempts + 1, due |-> FALSE]

NextRow(r, result) ==
    IF result = "ok"
    THEN [status |-> "delivered", attempts |-> r.attempts, due |-> TRUE]
    ELSE IF r.attempts + 1 >= MaxAttempts
    THEN [status |-> "dead", attempts |-> r.attempts + 1, due |-> TRUE]
    ELSE [status |-> "pending", attempts |-> r.attempts + 1, due |-> FALSE]

\* deliverOne: the UPDATE.  A database error is logged and nothing else.
DeliverOne(w, r) ==
    /\ IsNext(w, r)
    /\ outcome[w] # "none"
    /\ \/ rows' = [rows EXCEPT ![r.id] = NextRow(r, outcome[w])]
       \/ "db" \in Faults /\ UNCHANGED rows
    /\ job' = [job EXCEPT ![w] = @ \ {r}]
    /\ outcome' = [outcome EXCEPT ![w] = "none"]
    /\ UNCHANGED <<subject, received, view, posts, stops>>

\* The process is killed, or SIGTERM cancels the context that send() and every
\* UPDATE of the rest of the batch run under.  A fresh process takes its place.
Stop(w) ==
    /\ stops < MaxStops
    /\ job[w] # {}
    /\ stops' = stops + 1
    /\ job' = [job EXCEPT ![w] = {}]
    /\ outcome' = [outcome EXCEPT ![w] = "none"]
    /\ UNCHANGED <<rows, subject, received, view, posts>>

DelNext ==
    \/ \E e \in Ids : Emit(e) \/ BackoffElapses(e)
    \/ \E w \in Workers :
          \/ ClaimBatch(w)
          \/ \E r \in job[w] : Send(w, r) \/ DeliverOne(w, r)
          \/ Stop(w)

DelSpec == DelInit /\ [][DelNext]_delVars

\* Run() polls for ever and send() has a timeout.
DelFairness ==
    /\ \A e \in Ids : WF_delVars(BackoffElapses(e))
    /\ \A w \in Workers :
          /\ WF_delVars(ClaimBatch(w))
          /\ WF_delVars(\E r \in job[w] : Send(w, r) \/ DeliverOne(w, r))

FairDelSpec == DelSpec /\ DelFairness

(***************************************************************************)
(* Properties                                                              *)
(***************************************************************************)

Statuses == {"none", "pending", "delivering", "delivered", "dead"}

\* The type of every variable.
DelTypeOK ==
    /\ rows \in [Ids -> [status : Statuses, attempts : 0 .. MaxAttempts, due : BOOLEAN]]
    /\ subject \in [Ids -> Subjects]
    /\ \A w \in Workers : job[w] \subseteq [id : Ids, attempts : 0 .. MaxAttempts]
    /\ outcome \in [Workers -> {"none", "ok", "err"}]
    /\ received \subseteq Ids
    /\ view \in [Subjects -> 0 .. MaxEvents]

\* claimBatch: "a second worker process ... never double-claims a row", and a
\* claimed row is 'delivering' with the attempt count the worker read.
OneOwner ==
    \A v, w \in Workers : \A q \in job[v], r \in job[w] :
        /\ q.id = r.id => v = w /\ q = r
        /\ rows[r.id].status = "delivering" /\ rows[r.id].attempts = r.attempts

\* A row marked delivered was received; a row given up was tried MaxAttempts
\* times, and no row is ever tried more often than that.
AttemptsAccounted ==
    \A e \in Ids :
        /\ rows[e].status = "delivered" => e \in received
        /\ rows[e].status = "dead" => posts[e] = MaxAttempts
        /\ posts[e] <= MaxAttempts

\* Every row's owner, status and attempts agree, whichever workers stop and
\* whichever UPDATEs fail (claimBatch, deliverOne).
RowsAccounted == DelTypeOK /\ OneOwner /\ AttemptsAccounted

\* docs/events.md section 3: however deliveries are repeated or reordered, once
\* a subject's newest event is delivered the consumer shows that event.
NewestShown ==
    \A e \in Ids :
        (/\ rows[e].status = "delivered"
         /\ \A d \in Ids : (d > e /\ rows[d] # NoRow) => subject[d] # subject[e])
            => view[subject[e]] = e

\* Claimed by a worker that stopped, or whose UPDATE failed.
Stranded(e) ==
    rows[e].status = "delivering" /\ \A w \in Workers : \A r \in job[w] : r.id # e

\* What the worker does achieve: every event ends delivered or dead, or in the
\* hands of a worker that is gone.  No retry is forgotten and no queue stalls
\* behind a failing event.
SettlesOrStranded ==
    \A e \in Ids :
        rows[e].status = "pending" ~>
            (rows[e].status \in {"delivered", "dead"} \/ Stranded(e))
=============================================================================
