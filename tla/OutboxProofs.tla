---------------------------- MODULE OutboxProofs ----------------------------
(***************************************************************************)
(* The two ends of the outbox.  Its writer, recompute: what a run that     *)
(* commits on a fresh snapshot tells, for any punches, dates, windows and  *)
(* number of runs at a time.  Its reader, the delivery worker: the         *)
(* accounting of attempts, for any number of workers, events, attempts and *)
(* stops, with and without failing UPDATEs.                                *)
(***************************************************************************)
EXTENDS Recompute, Delivery, TLAPS

(***************************************************************************)
(* The recompute engine                                                    *)
(***************************************************************************)
Phases == {"idle", "loaded", "snapped", "clearing", "cleared", "written"}

Running ==
    [pc : Phases, window : SUBSET Dates, after : SUBSET Span,
     before : SUBSET Span, rows : SUBSET Row, dates : SUBSET Dates,
     stale : BOOLEAN]

RunTypes ==
    /\ derived \subseteq Span
    /\ table \subseteq Row
    /\ days \subseteq Dates
    /\ run \in [Runners -> Running]

\* Only a commit changes the table, and it makes every other snapshot stale: a
\* fresh one is the table's window, and the DELETE's rows are all of it.
FreshRun(r) ==
    /\ run[r].pc \in {"snapped", "clearing", "cleared", "written"} /\ ~run[r].stale =>
          run[r].before \in Mapped(Spans(RowsIn(run[r].window)))
    /\ run[r].pc \in {"clearing", "cleared", "written"} /\ ~run[r].stale =>
          run[r].rows = RowsIn(run[r].window)

FreshInv == RunTypes /\ \A r \in Runners : FreshRun(r)

\* No run is in progress at the start.
LEMMA FreshInvInit == RecInit => FreshInv
<1> SUFFICES ASSUME RecInit PROVE FreshInv
    OBVIOUS
<1>1. derived \subseteq Span
    BY DEF RecInit, Derivations
<1>2. table \subseteq Row /\ days \subseteq Dates
    BY <1>1 DEF RecInit, Row, Span
<1>3. IdleRun \in Running
    BY DEF IdleRun, Running, Phases
<1>4. run \in [Runners -> Running] /\ \A r \in Runners : run[r].pc = "idle"
    BY <1>3 DEF RecInit, IdleRun
<1> QED
    BY <1>1, <1>2, <1>4 DEF FreshInv, RunTypes, FreshRun

\* A step that leaves the table alone and, of the runs, changes only r's.
OnlyRun(r) ==
    /\ UNCHANGED <<table, days, derived>>
    /\ run' \in [Runners -> Running]
    /\ \A q \in Runners \ {r} : run'[q] = run[q]
    /\ FreshRun(r)'

\* Such a step keeps the invariant.
LEMMA OnlyRunStep ==
    ASSUME FreshInv, NEW r \in Runners, OnlyRun(r)
    PROVE  FreshInv'
<1>1. ASSUME NEW q \in Runners PROVE FreshRun(q)'
    BY DEF FreshInv, OnlyRun, FreshRun, Mapped, RowsIn, Spans, Key
<1> QED
    BY <1>1 DEF FreshInv, RunTypes, OnlyRun

\* Every step of a run but its commit.
LEMMA QuietStep ==
    ASSUME RecomputeAssumption, FreshInv, NEW r \in Runners,
           \/ LoadPunches(r) \/ LoadSpanSnapshots(r) \/ ClearSpans(r)
           \/ ClearDays(r) \/ InsertRows(r) \/ Collide(r) \/ Abort(r)
    PROVE  FreshInv'
<1>a. run \in [Runners -> Running] /\ run[r] \in Running
    BY DEF FreshInv, RunTypes
<1>b. FreshRun(r) /\ table \subseteq Row /\ days \subseteq Dates /\ derived \subseteq Span
    BY DEF FreshInv, RunTypes
<1>c. IdleRun \in Running
    BY DEF IdleRun, Running, Phases
<1>1. CASE LoadPunches(r)
    <2>1. PICK w \in Windows :
              run' = [run EXCEPT ![r] = [IdleRun EXCEPT !.pc = "loaded",
                                                        !.window = w,
                                                        !.after = derived]]
        BY <1>1 DEF LoadPunches
    <2>2. w \in SUBSET Dates
        BY RecomputeAssumption DEF RecomputeAssumption
    <2>3. [IdleRun EXCEPT !.pc = "loaded", !.window = w, !.after = derived]
              \in Running
        BY <2>2, <1>b, <1>c DEF Running, Phases, IdleRun
    <2>4. run' \in [Runners -> Running] /\ run'[r].pc = "loaded"
        BY <2>1, <2>3, <1>a DEF IdleRun
    <2>5. \A q \in Runners \ {r} : run'[q] = run[q]
        BY <2>1, <1>a
    <2>6. FreshRun(r)'
        BY <2>4 DEF FreshRun
    <2> QED
        BY <2>4, <2>5, <2>6, <1>1, OnlyRunStep DEF OnlyRun, LoadPunches, storeVars
<1>2. CASE LoadSpanSnapshots(r)
    <2>1. PICK b \in Mapped(Spans(RowsIn(run[r].window))) :
              run' = [run EXCEPT ![r].pc = "snapped", ![r].before = b]
        BY <1>2 DEF LoadSpanSnapshots
    <2>2. b \subseteq Span
        BY <1>b DEF Mapped, Spans, RowsIn, Row
    <2>3. run' \in [Runners -> Running]
        BY <2>1, <2>2, <1>a DEF Running, Phases
    <2>4. /\ run'[r].pc = "snapped" /\ run'[r].before = b
          /\ run'[r].window = run[r].window
        BY <2>1, <1>a DEF Running
    <2>5. \A q \in Runners \ {r} : run'[q] = run[q]
        BY <2>1, <1>a
    <2>6. table' = table
        BY <1>2 DEF LoadSpanSnapshots, storeVars
    <2>7. Mapped(Spans(RowsIn(run[r].window)))' = Mapped(Spans(RowsIn(run[r].window)))
        BY <2>4, <2>6 DEF Mapped, Spans, RowsIn, Key
    <2>8. FreshRun(r)'
        BY <2>4, <2>7 DEF FreshRun
    <2> QED
        BY <2>3, <2>5, <2>8, <1>2, OnlyRunStep DEF OnlyRun, LoadSpanSnapshots, storeVars
<1>3. CASE ClearSpans(r)
    <2>1. run' = [run EXCEPT ![r].pc = "clearing",
                             ![r].rows = RowsIn(run[r].window)]
        BY <1>3 DEF ClearSpans
    <2>2. RowsIn(run[r].window) \in SUBSET Row
        BY <1>b DEF RowsIn
    <2>3. run' \in [Runners -> Running]
        BY <2>1, <2>2, <1>a DEF Running, Phases
    <2>4. /\ run'[r].pc = "clearing" /\ run'[r].before = run[r].before
          /\ run'[r].window = run[r].window /\ run'[r].stale = run[r].stale
          /\ run'[r].rows = RowsIn(run[r].window)
        BY <2>1, <1>a DEF Running
    <2>5. \A q \in Runners \ {r} : run'[q] = run[q]
        BY <2>1, <1>a
    <2>6. table' = table /\ run[r].pc = "snapped"
        BY <1>3 DEF ClearSpans, storeVars
    <2>7. /\ RowsIn(run[r].window)' = RowsIn(run[r].window)
          /\ Mapped(Spans(RowsIn(run[r].window)))' = Mapped(Spans(RowsIn(run[r].window)))
        BY <2>4, <2>6 DEF Mapped, Spans, RowsIn, Key
    <2>8. FreshRun(r)'
        BY <2>4, <2>6, <2>7, <1>b DEF FreshRun
    <2> QED
        BY <2>3, <2>5, <2>8, <1>3, OnlyRunStep DEF OnlyRun, ClearSpans, storeVars
<1>4. CASE ClearDays(r) \/ InsertRows(r)
    <2>1. /\ run[r].pc \in {"clearing", "cleared"}
          /\ \/ run' = [run EXCEPT ![r].pc = "cleared",
                                   ![r].dates = days \cap run[r].window]
             \/ run' = [run EXCEPT ![r].pc = "written"]
          /\ UNCHANGED <<table, days, derived>>
        BY <1>4 DEF ClearDays, InsertRows, storeVars
    <2>2. run' \in [Runners -> Running]
        BY <2>1, <1>a, <1>b DEF Running, Phases
    <2>3. /\ run'[r].before = run[r].before /\ run'[r].rows = run[r].rows
          /\ run'[r].window = run[r].window /\ run'[r].stale = run[r].stale
        BY <2>1, <1>a DEF Running
    <2>4. \A q \in Runners \ {r} : run'[q] = run[q]
        BY <2>1, <1>a
    <2>5. /\ RowsIn(run[r].window)' = RowsIn(run[r].window)
          /\ Mapped(Spans(RowsIn(run[r].window)))' = Mapped(Spans(RowsIn(run[r].window)))
        BY <2>3, <2>1 DEF Mapped, Spans, RowsIn, Key
    <2>6. FreshRun(r)'
        BY <2>1, <2>3, <2>5, <1>b DEF FreshRun
    <2> QED
        BY <2>1, <2>2, <2>4, <2>6, OnlyRunStep DEF OnlyRun
<1>5. CASE Collide(r) \/ Abort(r)
    <2>1. run' = [run EXCEPT ![r] = IdleRun] /\ UNCHANGED <<table, days, derived>>
        BY <1>5 DEF Collide, Abort, storeVars
    <2>2. run' \in [Runners -> Running] /\ run'[r].pc = "idle"
        BY <2>1, <1>a, <1>c DEF IdleRun
    <2>3. \A q \in Runners \ {r} : run'[q] = run[q]
        BY <2>1, <1>a
    <2>4. FreshRun(r)'
        BY <2>2 DEF FreshRun
    <2> QED
        BY <2>1, <2>2, <2>3, <2>4, OnlyRunStep DEF OnlyRun
<1> QED
    BY <1>1, <1>2, <1>3, <1>4, <1>5

\* The commit: no other run past its snapshot stays fresh.
LEMMA CommitStep ==
    ASSUME FreshInv, NEW r \in Runners, Commit(r)
    PROVE  FreshInv'
<1>a. run \in [Runners -> Running] /\ table \subseteq Row /\ days \subseteq Dates
    BY DEF FreshInv, RunTypes
<1>b. run[r].after \subseteq Span
    BY <1>a DEF Running
<1>1. table' \subseteq Row
    BY <1>a, <1>b DEF Commit, New, InWindow, Row
<1>2. days' \subseteq Dates
    BY <1>a, <1>b DEF Commit, New, InWindow, DatesOf, Span
<1>3. derived' \subseteq Span
    BY DEF Commit, FreshInv, RunTypes
<1>4. ASSUME NEW q \in Runners
      PROVE  run'[q] \in Running /\ FreshRun(q)'
    <2>1. CASE q = r
        <3>1. run'[q] = IdleRun
            BY <2>1 DEF Commit, AfterCommit
        <3> QED
            BY <3>1 DEF IdleRun, Running, Phases, FreshRun
    <2>2. CASE q # r
        <3>1. run'[q] = [run[q] EXCEPT !.rows = @ \ run[r].rows,
                                       !.dates = @ \ run[r].dates,
                                       !.stale = run[q].pc \notin {"idle", "loaded"}]
            BY <2>2 DEF Commit, AfterCommit
        <3>2. run[q] \in Running
            BY <1>a
        <3>3. run'[q] \in Running
            BY <3>1, <3>2 DEF Running
        <3>4. run'[q].pc = run[q].pc /\ (run'[q].stale <=> run[q].pc \notin {"idle", "loaded"})
            BY <3>1, <3>2 DEF Running
        <3>5. FreshRun(q)'
            BY <3>4 DEF FreshRun
        <3> QED
            BY <3>3, <3>5
    <2> QED
        BY <2>1, <2>2
<1>5. run' \in [Runners -> Running]
    BY <1>4 DEF Commit, AfterCommit
<1> QED
    BY <1>1, <1>2, <1>3, <1>4, <1>5 DEF FreshInv, RunTypes

\* Every step keeps the invariant.
LEMMA FreshInvStep ==
    ASSUME RecomputeAssumption, FreshInv, [RecNext]_recVars
    PROVE  FreshInv'
<1>1. CASE \E d \in Derivations : Change(d)
    <2>1. PICK d \in Derivations : Change(d)
        BY <1>1
    <2>2. derived' \subseteq Span /\ UNCHANGED <<table, days, run>>
        BY <2>1 DEF Change, Derivations, storeVars
    <2> QED
        BY <2>2 DEF FreshInv, RunTypes, FreshRun, Mapped, Spans, RowsIn, Key
<1>2. ASSUME NEW r \in Runners,
             \/ LoadPunches(r) \/ LoadSpanSnapshots(r) \/ ClearSpans(r)
             \/ ClearDays(r) \/ InsertRows(r) \/ Collide(r) \/ Abort(r)
      PROVE  FreshInv'
    BY <1>2, QuietStep
<1>3. ASSUME NEW r \in Runners, Commit(r) PROVE FreshInv'
    BY <1>3, CommitStep
<1>4. CASE UNCHANGED recVars
    BY <1>4 DEF recVars, FreshInv, RunTypes, FreshRun, Mapped, Spans, RowsIn, Key
<1> QED
    BY <1>1, <1>2, <1>3, <1>4 DEF RecNext

\* A map of spans whose keys are all different holds all of them.
LEMMA MappedAll ==
    ASSUME NEW S, S \in Mapped(S), NEW m \in Mapped(S)
    PROVE  m = S
BY DEF Mapped

\* A fresh commit tells what it changes.
LEMMA CommitTells ==
    ASSUME FreshInv, NEW r \in Runners, Commit(r), ~run[r].stale,
           Spans(RowsIn(run[r].window)) \in Mapped(Spans(RowsIn(run[r].window)))
    PROVE  TellsChange(r)
<1> DEFINE old == Spans(RowsIn(run[r].window))
<1> DEFINE new == Spans(New(r))
<1>1. run[r].before \in Mapped(old) /\ run[r].rows = RowsIn(run[r].window)
    BY DEF FreshInv, FreshRun, Commit
<1>2. run[r].before = old
    <2>1. old \in Mapped(old)
        OBVIOUS
    <2> HIDE DEF old
    <2> QED
        BY <1>1, <2>1, MappedAll
<1>3. Upserted(r) = {s \in new : ~\E b \in old : Key(b) = Key(s) /\ b.val = s.val}
    BY <1>2 DEF Upserted
<1>4. Removed(r) = {b \in old : ~\E s \in new : Key(s) = Key(b)}
    BY <1>2 DEF Removed
<1>5. Contents(Upserted(r)) = Contents(new) \ Contents(old)
    <2> HIDE DEF old, new
    <2>1. ASSUME NEW c PROVE c \in Contents(Upserted(r)) <=> c \in Contents(new) \ Contents(old)
        <3>1. c \in Contents(Upserted(r)) <=> \E s \in Upserted(r) : c = <<Key(s), s.val>>
            BY DEF Contents
        <3>2. c \in Contents(new) <=> \E s \in new : c = <<Key(s), s.val>>
            BY DEF Contents
        <3>3. c \in Contents(old) <=> \E s \in old : c = <<Key(s), s.val>>
            BY DEF Contents
        <3> QED
            BY <3>1, <3>2, <3>3, <1>3
    <2> QED
        BY <2>1 DEF Contents
<1>6. {Key(s) : s \in Removed(r)} = {Key(s) : s \in old} \ {Key(s) : s \in new}
    <2> HIDE DEF old, new
    <2> QED
        BY <1>4
<1>7. {x \in table' : x.span.date \in run[r].window} = New(r)
    <2>1. table' = (table \ RowsIn(run[r].window)) \cup New(r)
        BY <1>1 DEF Commit
    <2>2. \A x \in New(r) : x.span.date \in run[r].window
        BY DEF New, InWindow
    <2> QED
        BY <2>1, <2>2 DEF RowsIn
<1> QED
    BY <1>5, <1>6, <1>7 DEF TellsChange

\* For any punches, dates, windows and number of runs at a time: a run that commits
\* on a snapshot no other run has overtaken stores its window's spans and writes an
\* event for each span whose times or anomalies changed, and for no other.
THEOREM FreshRunTellsSafe == RecSpec => FreshRunTells
<1>1. RecInit => FreshInv
    BY FreshInvInit
<1>2. FreshInv /\ [RecNext]_recVars => FreshInv'
    BY FreshInvStep, RecomputeAssumption
<1>3. FreshInv /\ [RecNext]_recVars =>
          [\A r \in Runners :
              LET old == Spans(RowsIn(run[r].window))
              IN  Commit(r) /\ ~run[r].stale /\ old \in Mapped(old) => TellsChange(r)]_recVars
    BY CommitTells
<1> QED
    BY <1>1, <1>2, <1>3, PTL DEF RecSpec, FreshRunTells

(***************************************************************************)
(* The delivery worker                                                     *)
(***************************************************************************)
Claim == [id : Ids, attempts : 0 .. MaxAttempts]

DelTypes ==
    /\ DelTypeOK
    /\ job \in [Workers -> SUBSET Claim]
    /\ posts \in [Ids -> Nat]

\* What a row's status says of the POSTs made for it.  A row that was claimed
\* may have been sent once more than its attempts column tells.
Tallied ==
    \A e \in Ids :
        /\ rows[e].status = "none" => rows[e] = NoRow /\ posts[e] = 0
        /\ rows[e].status = "pending" =>
              rows[e].attempts < MaxAttempts /\ posts[e] = rows[e].attempts
        /\ rows[e].status = "delivering" =>
              rows[e].attempts < MaxAttempts /\ posts[e] <= rows[e].attempts + 1
        /\ rows[e].status = "delivered" => e \in received /\ posts[e] <= MaxAttempts
        /\ rows[e].status = "dead" => posts[e] = MaxAttempts

\* A claimed row has been sent once more than its attempts only while its
\* worker stands between send() and the UPDATE, and "ok" means it arrived.
InHand ==
    \A w \in Workers :
        /\ outcome[w] # "none" => job[w] # {}
        /\ \A r \in job[w] :
              /\ ~(IsNext(w, r) /\ outcome[w] # "none") => posts[r.id] = r.attempts
              /\ IsNext(w, r) /\ outcome[w] # "none" => posts[r.id] = r.attempts + 1
              /\ IsNext(w, r) /\ outcome[w] = "ok" => r.id \in received

\* The consumer shows an event it received about that subject, and none older
\* than any it received.
Shown ==
    /\ \A e \in received : rows[e].status # "none" /\ view[subject[e]] >= e
    /\ \A s \in Subjects :
          view[s] # 0 => view[s] \in received /\ subject[view[s]] = s

DelInv == DelTypes /\ OneOwner /\ Tallied /\ InHand /\ Shown

\* The empty outbox satisfies the invariant.
LEMMA DelInvInit == DelInit => DelInv
<1> SUFFICES ASSUME DelInit PROVE DelInv
  OBVIOUS
<1> USE DeliveryAssumption
<1>1. DelTypes
  BY DEF DelInit, DelTypes, DelTypeOK, Ids, NoRow, Statuses, Claim
<1>2. OneOwner /\ Tallied /\ InHand /\ Shown
  BY DEF DelInit, OneOwner, Tallied, InHand, Shown, NoRow, IsNext
<1> QED
  BY <1>1, <1>2 DEF DelInv

\* A commit of the engine's and a passing next_attempt_at touch one row that
\* no worker has claimed.
LEMMA QuietRowStep ==
    ASSUME DelInv, NEW e \in Ids, Emit(e) \/ BackoffElapses(e)
    PROVE  DelInv'
<1> USE DeliveryAssumption
<1>a. DelTypes /\ OneOwner /\ Tallied /\ InHand /\ Shown
  BY DEF DelInv
<1>1. UNCHANGED <<subject, job, outcome, received, view, posts, stops>>
  BY DEF Emit, BackoffElapses
<1>2. PICK row \in [status : Statuses, attempts : 0 .. MaxAttempts, due : BOOLEAN] :
         /\ rows' = [rows EXCEPT ![e] = row]
         /\ row.status = "pending" /\ row.attempts = rows[e].attempts
  <2>1. CASE Emit(e)
    <3> DEFINE row == [status |-> "pending", attempts |-> 0, due |-> TRUE]
    <3>1. row \in [status : Statuses, attempts : 0 .. MaxAttempts, due : BOOLEAN]
      BY DEF Statuses
    <3>2. row.status = "pending" /\ row.attempts = rows[e].attempts
      BY <2>1 DEF Emit, NoRow
    <3>3. rows' = [rows EXCEPT ![e] = row]
      BY <2>1 DEF Emit
    <3> HIDE DEF row
    <3> QED
      BY <3>1, <3>2, <3>3
  <2>2. CASE BackoffElapses(e)
    <3> DEFINE row == [rows[e] EXCEPT !.due = TRUE]
    <3>0. rows[e] \in [status : Statuses, attempts : 0 .. MaxAttempts, due : BOOLEAN]
      BY <1>a DEF DelTypes, DelTypeOK
    <3>1. row \in [status : Statuses, attempts : 0 .. MaxAttempts, due : BOOLEAN]
      BY <3>0
    <3>2. row.status = "pending" /\ row.attempts = rows[e].attempts
      BY <2>2, <3>0 DEF BackoffElapses
    <3>3. rows' = [rows EXCEPT ![e] = row]
      BY <2>2 DEF BackoffElapses
    <3> HIDE DEF row
    <3> QED
      BY <3>1, <3>2, <3>3
  <2> QED
    BY <2>1, <2>2
<1>3. rows[e].status \in {"none", "pending"}
  BY DEF Emit, BackoffElapses, NoRow
<1>4. \A d \in Ids : rows'[d] = IF d = e THEN row ELSE rows[d]
  BY <1>a, <1>2 DEF DelTypes, DelTypeOK
<1>5. DelTypes'
  <2>1. rows' \in [Ids -> [status : Statuses, attempts : 0 .. MaxAttempts, due : BOOLEAN]]
    BY <1>a, <1>2 DEF DelTypes, DelTypeOK, Statuses
  <2> QED
    BY <1>a, <1>1, <2>1 DEF DelTypes, DelTypeOK
<1>6. OneOwner'
  BY <1>a, <1>1, <1>3, <1>4 DEF OneOwner, DelTypes, Claim
<1>7. Tallied'
  <2>1. rows[e].attempts < MaxAttempts /\ posts[e] = rows[e].attempts
    BY <1>a, <1>3 DEF Tallied, NoRow
  <2>2. ASSUME NEW d \in Ids, d # e PROVE rows'[d] = rows[d]
    BY <1>4, <2>2
  <2>3. rows'[e].status = "pending" /\ rows'[e].attempts = rows[e].attempts
    BY <1>2, <1>4
  <2> QED
    BY <1>a, <1>1, <2>1, <2>2, <2>3 DEF Tallied
<1>8. InHand'
  BY <1>a, <1>1 DEF InHand, IsNext
<1>9. Shown'
  BY <1>a, <1>1, <1>2, <1>4 DEF Shown, DelTypes, DelTypeOK
<1> QED
  BY <1>5, <1>6, <1>7, <1>8, <1>9 DEF DelInv

\* claimBatch takes rows no worker has, with the attempts they carry.
LEMMA ClaimStep ==
    ASSUME DelInv, NEW w \in Workers, ClaimBatch(w)
    PROVE  DelInv'
<1> USE DeliveryAssumption
<1>a. DelTypes /\ OneOwner /\ Tallied /\ InHand /\ Shown
  BY DEF DelInv
<1>1. PICK batch \in SUBSET Due :
         /\ job[w] = {}
         /\ job' = [job EXCEPT ![w] =
                     {[id |-> e, attempts |-> rows[e].attempts] : e \in batch}]
         /\ rows' = [e \in Ids |-> IF e \in batch
                                  THEN [rows[e] EXCEPT !.status = "delivering"]
                                  ELSE rows[e]]
         /\ UNCHANGED <<subject, outcome, received, view, posts, stops>>
  BY DEF ClaimBatch
<1>2. \A e \in batch : e \in Ids /\ rows[e].status = "pending"
  BY <1>1 DEF Due
<1>3. \A e \in Ids :
         /\ rows'[e].status = IF e \in batch THEN "delivering" ELSE rows[e].status
         /\ rows'[e].attempts = rows[e].attempts
         /\ e \notin batch => rows'[e] = rows[e]
         /\ rows'[e] \in [status : Statuses, attempts : 0 .. MaxAttempts, due : BOOLEAN]
  BY <1>a, <1>1 DEF DelTypes, DelTypeOK, Statuses
<1>4. /\ \A r \in job'[w] : r.id \in batch /\ r.attempts = rows[r.id].attempts
                            /\ r = [id |-> r.id, attempts |-> r.attempts]
                            /\ r \in Claim
      /\ \A v \in Workers \ {w} : job'[v] = job[v]
      /\ job' \in [Workers -> SUBSET Claim]
  <2>1. {[id |-> e, attempts |-> rows[e].attempts] : e \in batch} \subseteq Claim
    BY <1>a, <1>2 DEF Claim, DelTypes, DelTypeOK
  <2> QED
    BY <1>a, <1>1, <2>1 DEF DelTypes
<1>5. DelTypes'
  <2>1. rows' \in [Ids -> [status : Statuses, attempts : 0 .. MaxAttempts, due : BOOLEAN]]
    BY <1>1, <1>3
  <2>2. \A v \in Workers : job'[v] \subseteq [id : Ids, attempts : 0 .. MaxAttempts]
    BY <1>4 DEF Claim
  <2> QED
    BY <1>a, <1>1, <1>4, <2>1, <2>2 DEF DelTypes, DelTypeOK
<1>6. OneOwner'
  <2> SUFFICES ASSUME NEW u \in Workers, NEW v \in Workers, NEW q \in job'[u], NEW r \in job'[v]
               PROVE  /\ q.id = r.id => u = v /\ q = r
                      /\ rows'[r.id].status = "delivering" /\ rows'[r.id].attempts = r.attempts
    BY DEF OneOwner
  <2>0. q \in Claim /\ r \in Claim
    BY <1>4
  <2>1. rows'[r.id].status = "delivering" /\ rows'[r.id].attempts = r.attempts
    <3>1. CASE v = w
      BY <1>2, <1>3, <1>4, <3>1
    <3>2. CASE v # w
      BY <1>a, <1>2, <1>3, <1>4, <2>0, <3>2 DEF OneOwner, Claim
    <3> QED
      BY <3>1, <3>2
  <2>2. ASSUME q.id = r.id PROVE u = v /\ q = r
    <3>1. CASE u = w /\ v = w
      BY <1>4, <2>2, <3>1
    <3>2. CASE u # w /\ v # w
      BY <1>a, <1>4, <2>2, <3>2 DEF OneOwner
    <3>3. CASE u = w /\ v # w
      BY <1>a, <1>2, <1>4, <2>2, <3>3 DEF OneOwner
    <3>4. CASE u # w /\ v = w
      BY <1>a, <1>2, <1>4, <2>2, <3>4 DEF OneOwner
    <3> QED
      BY <3>1, <3>2, <3>3, <3>4
  <2> QED
    BY <2>1, <2>2
<1>7. Tallied'
  BY <1>a, <1>1, <1>2, <1>3 DEF Tallied, DelTypes, DelTypeOK, NoRow
<1>8. InHand'
  <2>1. outcome[w] = "none"
    BY <1>a, <1>1 DEF InHand
  <2>2. \A r \in job'[w] : posts[r.id] = r.attempts
    BY <1>a, <1>2, <1>4 DEF Tallied
  <2>3. \A v \in Workers \ {w} : job'[v] = job[v]
    BY <1>4
  <2>4. ASSUME NEW v \in Workers
        PROVE  /\ outcome'[v] # "none" => job'[v] # {}
               /\ \A r \in job'[v] :
                   /\ ~(IsNext(v, r)' /\ outcome'[v] # "none") => posts'[r.id] = r.attempts
                   /\ IsNext(v, r)' /\ outcome'[v] # "none" => posts'[r.id] = r.attempts + 1
                   /\ IsNext(v, r)' /\ outcome'[v] = "ok" => r.id \in received'
    <3>1. CASE v = w
      BY <1>1, <2>1, <2>2, <3>1
    <3>2. CASE v # w
      BY <1>a, <1>1, <2>3, <3>2 DEF InHand, IsNext
    <3> QED
      BY <3>1, <3>2
  <2> QED
    BY <2>4 DEF InHand
<1>9. Shown'
  BY <1>a, <1>1, <1>3 DEF Shown, DelTypes, DelTypeOK
<1> QED
  BY <1>5, <1>6, <1>7, <1>8, <1>9 DEF DelInv

\* send() changes nothing of the rows; it adds one POST to the row in hand.
LEMMA SendStep ==
    ASSUME DelInv, NEW w \in Workers, NEW r \in job[w], Send(w, r)
    PROVE  DelInv'
<1> USE DeliveryAssumption
<1>a. DelTypes /\ OneOwner /\ Tallied /\ InHand /\ Shown
  BY DEF DelInv
<1>0. r \in Claim /\ r.id \in Ids /\ subject[r.id] \in Subjects
  BY <1>a DEF DelTypes, DelTypeOK, Claim
<1>1. PICK arrives \in BOOLEAN, ok \in BOOLEAN :
          /\ ok => arrives
          /\ outcome' = [outcome EXCEPT ![w] = IF ok THEN "ok" ELSE "err"]
          /\ received' = IF arrives THEN received \cup {r.id} ELSE received
          /\ view' = IF arrives /\ r.id > view[subject[r.id]]
                     THEN [view EXCEPT ![subject[r.id]] = r.id]
                     ELSE view
  BY DEF Send
<1>2. /\ IsNext(w, r) /\ outcome[w] = "none"
      /\ posts' = [posts EXCEPT ![r.id] = @ + 1]
      /\ UNCHANGED <<rows, subject, job, stops>>
  BY DEF Send
<1>3. /\ posts[r.id] = r.attempts
      /\ rows[r.id].status = "delivering" /\ rows[r.id].attempts = r.attempts
      /\ r.attempts \in Nat /\ r.attempts < MaxAttempts
  BY <1>a, <1>0, <1>2 DEF InHand, OneOwner, Tallied, Claim
<1>4. /\ posts'[r.id] = r.attempts + 1
      /\ \A e \in Ids \ {r.id} : posts'[e] = posts[e]
      /\ posts' \in [Ids -> Nat]
  BY <1>a, <1>0, <1>2, <1>3 DEF DelTypes
<1>5. /\ outcome'[w] \in {"ok", "err"}
      /\ outcome'[w] = "ok" => r.id \in received'
      /\ \A v \in Workers \ {w} : outcome'[v] = outcome[v]
      /\ outcome' \in [Workers -> {"none", "ok", "err"}]
      /\ received \subseteq received' /\ received' \subseteq received \cup {r.id}
  BY <1>a, <1>1 DEF DelTypes, DelTypeOK
<1>6. view' \in [Subjects -> 0 .. MaxEvents]
  BY <1>a, <1>0, <1>1 DEF DelTypes, DelTypeOK, Ids
<1>7. DelTypes'
  BY <1>a, <1>0, <1>2, <1>4, <1>5, <1>6 DEF DelTypes, DelTypeOK
<1>8. OneOwner'
  BY <1>a, <1>2 DEF OneOwner
<1>9. Tallied'
  BY <1>a, <1>2, <1>3, <1>4, <1>5 DEF Tallied
<1>10. InHand'
  <2>1. \A q \in job[w] : IsNext(w, q) => q = r
    BY <1>a, <1>0, <1>2 DEF IsNext, OneOwner, DelTypes, Claim, Ids
  <2>2. \A v \in Workers : \A q \in job[v] :
          /\ q \in Claim /\ q.id \in Ids
          /\ q # r \/ v # w => q.id # r.id
    BY <1>a DEF OneOwner, DelTypes, Claim
  <2>3. \A v \in Workers : \A q \in job[v] : IsNext(v, q)' <=> IsNext(v, q)
    BY <1>2 DEF IsNext
  <2>4. ASSUME NEW v \in Workers
        PROVE  /\ outcome'[v] # "none" => job'[v] # {}
               /\ \A q \in job'[v] :
                   /\ ~(IsNext(v, q)' /\ outcome'[v] # "none") => posts'[q.id] = q.attempts
                   /\ IsNext(v, q)' /\ outcome'[v] # "none" => posts'[q.id] = q.attempts + 1
                   /\ IsNext(v, q)' /\ outcome'[v] = "ok" => q.id \in received'
    <3>1. CASE v = w
      BY <1>a, <1>2, <1>4, <1>5, <2>1, <2>2, <2>3, <3>1 DEF InHand
    <3>2. CASE v # w
      BY <1>a, <1>2, <1>4, <1>5, <2>2, <2>3, <3>2 DEF InHand
    <3> QED
      BY <3>1, <3>2
  <2> QED
    BY <2>4, <1>2 DEF InHand, IsNext
<1>11. Shown'
  <2>1. CASE arrives /\ r.id > view[subject[r.id]]
    <3>1. /\ view'[subject[r.id]] = r.id
          /\ \A s \in Subjects \ {subject[r.id]} : view'[s] = view[s]
          /\ received' = received \cup {r.id}
      BY <1>a, <1>0, <1>1, <2>1 DEF DelTypes, DelTypeOK
    <3>2. \A e \in received' : rows'[e].status # "none" /\ view'[subject'[e]] >= e
      <4> SUFFICES ASSUME NEW e \in received'
                   PROVE  rows[e].status # "none" /\ view'[subject[e]] >= e
        BY <1>2
      <4>1. e \in Ids /\ e \in Nat /\ subject[e] \in Subjects /\ view[subject[e]] \in Nat
        BY <1>a, <1>0, <3>1 DEF DelTypes, DelTypeOK, Ids
      <4>2. CASE e = r.id
        BY <1>3, <3>1, <4>1, <4>2
      <4>3. CASE e # r.id
        <5>1. rows[e].status # "none" /\ view[subject[e]] >= e
          BY <1>a, <3>1, <4>3 DEF Shown
        <5>2. r.id \in Nat
          BY <1>0 DEF Ids
        <5> QED
          BY <2>1, <3>1, <4>1, <5>1, <5>2
      <4> QED
        BY <4>2, <4>3
    <3>3. \A s \in Subjects : view'[s] # 0 => view'[s] \in received' /\ subject'[view'[s]] = s
      BY <1>a, <1>0, <1>2, <3>1 DEF Shown
    <3> QED
      BY <3>2, <3>3 DEF Shown
  <2>2. CASE ~(arrives /\ r.id > view[subject[r.id]])
    <3>1. view' = view
      BY <1>1, <2>2
    <3>2. ASSUME r.id \in received' PROVE view[subject[r.id]] >= r.id
      <4>1. CASE r.id \in received
        BY <1>a, <4>1 DEF Shown
      <4>2. CASE r.id \notin received
        <5>1. arrives
          BY <1>1, <3>2, <4>2
        <5>2. view[subject[r.id]] \in Nat /\ r.id \in Nat
          BY <1>a, <1>0 DEF DelTypes, DelTypeOK, Ids
        <5> QED
          BY <2>2, <5>1, <5>2
      <4> QED
        BY <4>1, <4>2
    <3> QED
      BY <1>a, <1>2, <1>3, <1>5, <3>1, <3>2 DEF Shown
  <2> QED
    BY <2>1, <2>2
<1> QED
  BY <1>7, <1>8, <1>9, <1>10, <1>11 DEF DelInv

\* deliverOne's UPDATE settles the row in hand; when it fails the row stays as
\* it was claimed.
LEMMA DeliverStep ==
    ASSUME DelInv, NEW w \in Workers, NEW r \in job[w], DeliverOne(w, r)
    PROVE  DelInv'
<1> USE DeliveryAssumption
<1>a. DelTypes /\ OneOwner /\ Tallied /\ InHand /\ Shown
  BY DEF DelInv
<1>0. r \in Claim /\ r.id \in Ids /\ r.attempts \in Nat
  BY <1>a DEF DelTypes, Claim
<1>1. /\ IsNext(w, r) /\ outcome[w] # "none"
      /\ job' = [job EXCEPT ![w] = @ \ {r}]
      /\ outcome' = [outcome EXCEPT ![w] = "none"]
      /\ UNCHANGED <<subject, received, view, posts, stops>>
  BY DEF DeliverOne
<1>2. /\ posts[r.id] = r.attempts + 1
      /\ outcome[w] = "ok" => r.id \in received
      /\ rows[r.id].status = "delivering" /\ rows[r.id].attempts = r.attempts
      /\ r.attempts < MaxAttempts
  BY <1>a, <1>0, <1>1 DEF InHand, OneOwner, Tallied
<1>3. /\ job'[w] = job[w] \ {r}
      /\ \A v \in Workers \ {w} : job'[v] = job[v]
      /\ job' \in [Workers -> SUBSET Claim]
      /\ outcome'[w] = "none"
      /\ \A v \in Workers \ {w} : outcome'[v] = outcome[v]
      /\ outcome' \in [Workers -> {"none", "ok", "err"}]
  BY <1>a, <1>1 DEF DelTypes, DelTypeOK
<1> DEFINE row == NextRow(r, outcome[w])
<1>4. /\ row \in [status : Statuses, attempts : 0 .. MaxAttempts, due : BOOLEAN]
      /\ row.status \in {"delivered", "dead", "pending"}
      /\ row.status = "delivered" => r.id \in received
      /\ row.status = "dead" => r.attempts + 1 = MaxAttempts
      /\ row.status = "pending" => row.attempts = r.attempts + 1 /\ row.attempts < MaxAttempts
  BY <1>0, <1>2 DEF NextRow, Statuses
<1> HIDE DEF row
<1>5. rows' = [rows EXCEPT ![r.id] = row] \/ rows' = rows
  BY DEF DeliverOne, row
<1>6. /\ \A e \in Ids \ {r.id} : rows'[e] = rows[e]
      /\ rows'[r.id] \in {row, rows[r.id]}
      /\ rows' \in [Ids -> [status : Statuses, attempts : 0 .. MaxAttempts, due : BOOLEAN]]
  BY <1>a, <1>0, <1>4, <1>5 DEF DelTypes, DelTypeOK
<1>7. \A v \in Workers : \A q \in job'[v] : q \in job[v] /\ q \in Claim /\ q.id \in Ids \ {r.id}
  BY <1>a, <1>3 DEF OneOwner, DelTypes, Claim
<1>8. DelTypes'
  <2>1. \A v \in Workers : job'[v] \subseteq [id : Ids, attempts : 0 .. MaxAttempts]
    BY <1>3 DEF Claim
  <2> QED
    BY <1>a, <1>1, <1>3, <1>6, <2>1 DEF DelTypes, DelTypeOK
<1>9. OneOwner'
  BY <1>a, <1>6, <1>7 DEF OneOwner
<1>10. Tallied'
  <2>1. ASSUME NEW e \in Ids, e # r.id PROVE rows'[e] = rows[e]
    BY <1>6, <2>1
  <2>2. CASE rows'[r.id] = rows[r.id]
    BY <1>a, <1>1, <2>1, <2>2 DEF Tallied
  <2>3. CASE rows'[r.id] = row
    BY <1>a, <1>0, <1>1, <1>2, <1>4, <2>1, <2>3 DEF Tallied
  <2> QED
    BY <1>6, <2>2, <2>3
<1>11. InHand'
  <2>1. \A v \in Workers \ {w} : \A q : IsNext(v, q)' <=> IsNext(v, q)
    BY <1>3 DEF IsNext
  <2>2. \A q \in job'[w] : ~IsNext(w, q)
    BY <1>0, <1>1, <1>7 DEF IsNext, Claim, Ids
  <2>3. ASSUME NEW v \in Workers
        PROVE  /\ outcome'[v] # "none" => job'[v] # {}
               /\ \A q \in job'[v] :
                   /\ ~(IsNext(v, q)' /\ outcome'[v] # "none") => posts'[q.id] = q.attempts
                   /\ IsNext(v, q)' /\ outcome'[v] # "none" => posts'[q.id] = q.attempts + 1
                   /\ IsNext(v, q)' /\ outcome'[v] = "ok" => q.id \in received'
    <3>1. CASE v = w
      BY <1>a, <1>1, <1>3, <1>7, <2>2, <3>1 DEF InHand
    <3>2. CASE v # w
      BY <1>a, <1>1, <1>3, <2>1, <3>2 DEF InHand
    <3> QED
      BY <3>1, <3>2
  <2> QED
    BY <2>3 DEF InHand
<1>12. Shown'
  <2>1. \A e \in Ids : rows'[e].status = "none" => rows[e].status = "none"
    BY <1>4, <1>6
  <2> QED
    BY <1>a, <1>1, <2>1 DEF Shown, DelTypes, DelTypeOK
<1> QED
  BY <1>8, <1>9, <1>10, <1>11, <1>12 DEF DelInv

\* The invariant is inductive.
LEMMA DelInvStep == DelInv /\ [DelNext]_delVars => DelInv'
<1> SUFFICES ASSUME DelInv, [DelNext]_delVars PROVE DelInv'
  OBVIOUS
<1>1. ASSUME NEW e \in Ids, Emit(e) \/ BackoffElapses(e) PROVE DelInv'
  BY <1>1, QuietRowStep
<1>2. ASSUME NEW w \in Workers, ClaimBatch(w) PROVE DelInv'
  BY <1>2, ClaimStep
<1>3. ASSUME NEW w \in Workers, NEW r \in job[w], Send(w, r) PROVE DelInv'
  BY <1>3, SendStep
<1>4. ASSUME NEW w \in Workers, NEW r \in job[w], DeliverOne(w, r) PROVE DelInv'
  BY <1>4, DeliverStep
<1>5. ASSUME NEW w \in Workers, Stop(w) PROVE DelInv'
  <2>a. DelTypes /\ OneOwner /\ Tallied /\ InHand /\ Shown
    BY DEF DelInv
  <2>1. /\ job' = [job EXCEPT ![w] = {}]
        /\ outcome' = [outcome EXCEPT ![w] = "none"]
        /\ UNCHANGED <<rows, subject, received, view, posts>>
    BY <1>5 DEF Stop
  <2>2. /\ job'[w] = {} /\ outcome'[w] = "none"
        /\ \A v \in Workers \ {w} : job'[v] = job[v] /\ outcome'[v] = outcome[v]
        /\ job' \in [Workers -> SUBSET Claim]
        /\ outcome' \in [Workers -> {"none", "ok", "err"}]
    BY <2>a, <2>1 DEF DelTypes, DelTypeOK
  <2>3. DelTypes'
    <3>1. \A v \in Workers : job'[v] \subseteq [id : Ids, attempts : 0 .. MaxAttempts]
      BY <2>2 DEF Claim
    <3> QED
      BY <2>a, <2>1, <2>2, <3>1 DEF DelTypes, DelTypeOK
  <2>4. OneOwner'
    BY <2>a, <2>1, <2>2 DEF OneOwner
  <2>5. InHand'
    BY <2>a, <2>1, <2>2 DEF InHand, IsNext
  <2>6. Tallied' /\ Shown'
    BY <2>a, <2>1 DEF Tallied, Shown
  <2> QED
    BY <2>3, <2>4, <2>5, <2>6 DEF DelInv
<1>6. CASE UNCHANGED delVars
  BY <1>6 DEF delVars, DelInv, DelTypes, DelTypeOK, OneOwner, Tallied, InHand, IsNext, Shown
<1> QED
  BY <1>1, <1>2, <1>3, <1>4, <1>5, <1>6 DEF DelNext

\* However many workers share the outbox, whichever of them stop and whichever
\* UPDATEs fail: a row has one owner at most, a delivered row was received, a
\* row given up was tried exactly MaxAttempts times, and none more often.
THEOREM RowsAccountedSafe == DelSpec => []RowsAccounted
<1>1. DelInv => RowsAccounted
  <2> SUFFICES ASSUME DelInv PROVE AttemptsAccounted
    BY DEF DelInv, DelTypes, RowsAccounted
  <2> SUFFICES ASSUME NEW e \in Ids
               PROVE  /\ rows[e].status = "delivered" => e \in received
                      /\ rows[e].status = "dead" => posts[e] = MaxAttempts
                      /\ posts[e] <= MaxAttempts
    BY DEF AttemptsAccounted
  <2>1. rows[e].status \in Statuses /\ rows[e].attempts \in Nat /\ posts[e] \in Nat
    BY DEF DelInv, DelTypes, DelTypeOK
  <2> QED
    BY <2>1, DeliveryAssumption DEF DelInv, Tallied, Statuses
<1> QED
  BY <1>1, DelInvInit, DelInvStep, PTL DEF DelSpec

\* docs/events.md section 3, for any number of events and workers: deliveries
\* may be repeated and reordered, and still the consumer shows a subject's
\* newest event once that event is marked delivered.
THEOREM NewestShownSafe == DelSpec => []NewestShown
<1>1. DelInv => NewestShown
  <2> SUFFICES ASSUME DelInv, NEW e \in Ids, rows[e].status = "delivered",
                      \A d \in Ids : (d > e /\ rows[d] # NoRow) => subject[d] # subject[e]
               PROVE  view[subject[e]] = e
    BY DEF NewestShown
  <2> DEFINE d == view[subject[e]]
  <2>1. e \in received /\ d >= e /\ subject[e] \in Subjects /\ e \in Nat /\ e # 0
    BY DEF DelInv, Tallied, Shown, DelTypes, DelTypeOK, Ids
  <2>2. d \in Nat /\ d # 0
    BY <2>1 DEF DelInv, DelTypes, DelTypeOK
  <2>3. d \in received /\ d \in Ids /\ subject[d] = subject[e] /\ rows[d] # NoRow
    BY <2>1, <2>2 DEF DelInv, Shown, DelTypes, DelTypeOK, NoRow
  <2> QED
    BY <2>1, <2>2, <2>3
<1> QED
  BY <1>1, DelInvInit, DelInvStep, PTL DEF DelSpec
=============================================================================
