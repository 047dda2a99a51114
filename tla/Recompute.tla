----------------------------- MODULE Recompute ------------------------------
(***************************************************************************)
(* The attendance engine and its projector: Engine.Recompute               *)
(* (gateway/internal/attendance/engine.go) rebuilds the attendance_span    *)
(* and attendance_day rows of a window from the punch log and, in the same *)
(* transaction, writes an outbox_event for every span that DiffSpans       *)
(* (projector.go) finds changed.  Here the outbox is what its events, in   *)
(* commit order, add up to; EventView.tla has the events one by one and a  *)
(* consumer of them.                                                       *)
(*                                                                         *)
(* Punches, amendments and rules are abstracted to what Pair() derives     *)
(* from them: the set of spans of one person.  A day row is its date.      *)
(* Cron and an operator may run two at a time, and each statement of a     *)
(* READ COMMITTED transaction sees what is committed when it starts: a     *)
(* DELETE waits for rows another run is deleting and passes over those     *)
(* that are gone, an INSERT waits for a row with its key that another run  *)
(* is writing or deleting and fails on one that stays.                     *)
(***************************************************************************)
EXTENDS Naturals

CONSTANTS
    Ins, Outs,    \* punch_event ids of clock-ins and of clock-outs
    Dates,        \* business dates
    Vals,         \* what equal() compares: times and anomalies
    Windows,      \* windows recompute is run for: sets of dates
    Runners,      \* recompute processes
    MaxChanges,   \* bound: punches, amendments and rule changes
    MaxAborts     \* bound: runs that an error, a timeout or a kill ends

ASSUME RecomputeAssumption ==
    /\ Ins \subseteq Nat \ {0} /\ Outs \subseteq Nat \ {0}
    /\ Ins \cap Outs = {}
    /\ Windows \subseteq SUBSET Dates
    /\ MaxChanges \in Nat /\ MaxAborts \in Nat

\* 0 is the absent event id, as in SpanKey.
Span == [in : Ins \cup {0}, out : Outs \cup {0}, date : Dates, val : Vals]

\* A stored span; the run that wrote it stands for its bigserial id.
Row == [span : Span, by : Runners]

\* Pair() attaches every punch to at most one span, and no span to none.
Derivations ==
    {d \in SUBSET {s \in Span : s.in # 0 \/ s.out # 0} :
        \A s, t \in d : s # t => /\ s.in = t.in => s.in = 0
                                 /\ s.out = t.out => s.out = 0}

VARIABLES
    derived,      \* the spans the punch log stands for now
    table,        \* attendance_span, as committed
    days,         \* attendance_day, as committed
    run,          \* each recompute process
    announced,    \* what the outbox_event rows, in commit order, add up to
    changes,      \* history: changes of the punch log
    aborts        \* history: runs that did not end by themselves

recVars == <<derived, table, days, run, announced, changes, aborts>>
storeVars == <<table, days, announced>>

\* rows and dates are what the DELETEs found; stale is history: another run has
\* committed since the snapshot was read.
IdleRun == [pc |-> "idle", window |-> {}, after |-> {}, before |-> {},
            rows |-> {}, dates |-> {}, stale |-> FALSE]

\* SpanSnapshot.Key()
Key(s) == <<s.in, s.out>>

\* Any punch log, with the rows and the events an earlier run left for it.
RecInit ==
    /\ derived \in Derivations
    /\ \E r \in Runners : table = {[span |-> s, by |-> r] : s \in derived}
    /\ days = {s.date : s \in derived}
    /\ run = [r \in Runners |-> IdleRun]
    /\ announced = derived
    /\ changes = 0 /\ aborts = 0

\* A punch arrives, an amendment is filed or the organisation's rules change.
Change(d) ==
    /\ changes < MaxChanges
    /\ d # derived
    /\ derived' = d
    /\ changes' = changes + 1
    /\ UNCHANGED <<run, storeVars, aborts>>

(***************************************************************************)
(* Recompute                                                               *)
(***************************************************************************)

\* orgRules, loadPunches and Pair(), before the transaction begins.
LoadPunches(r) ==
    /\ run[r].pc = "idle"
    /\ \E w \in Windows :
          run' = [run EXCEPT ![r] = [IdleRun EXCEPT !.pc = "loaded",
                                                    !.window = w,
                                                    !.after = derived]]
    /\ UNCHANGED <<derived, storeVars, changes, aborts>>

InWindow(spans, w) == {s \in spans : s.date \in w}

RowsIn(w) == {x \in table : x.span.date \in w}

Spans(rows) == {x.span : x \in rows}

\* A map by SpanKey keeps one span of those with the same key.
Mapped(spans) ==
    {m \in SUBSET spans :
        /\ \A s, t \in m : Key(s) = Key(t) => s = t
        /\ \A s \in spans : \E t \in m : Key(s) = Key(t)}

\* loadSpanSnapshots, the transaction's first SELECT.
LoadSpanSnapshots(r) ==
    /\ run[r].pc = "loaded"
    /\ \E b \in Mapped(Spans(RowsIn(run[r].window))) :
          run' = [run EXCEPT ![r].pc = "snapped", ![r].before = b]
    /\ UNCHANGED <<derived, storeVars, changes, aborts>>

\* DELETE FROM attendance_span starts: the rows it will delete.
ClearSpansSkipped(r) ==
    /\ run[r].pc = "snapped"
    /\ run' = [run EXCEPT ![r].pc = "clearing"]
    /\ UNCHANGED <<derived, storeVars, changes, aborts>>

ClearSpans(r) ==
    /\ run[r].pc = "snapped"
    /\ run' = [run EXCEPT ![r].pc = "clearing",
                          ![r].rows = RowsIn(run[r].window)]
    /\ UNCHANGED <<derived, storeVars, changes, aborts>>

\* What a run that has not committed has deleted: others wait for it.
Locked(q) == IF run[q].pc \in {"cleared", "written"} THEN run[q].rows ELSE {}

LockedDates(q) == IF run[q].pc = "written" THEN run[q].dates ELSE {}

\* The rows the run inserts: the spans of its window, and their days.
New(r) == {[span |-> s, by |-> r] : s \in InWindow(run[r].after, run[r].window)}

DatesOf(rows) == {x.span.date : x \in rows}

\* attendance_span_in_event_idx: at most one row per in_event_id; and the
\* primary key of attendance_day.
SameKey(x, y) == x.span.in = y.span.in /\ x.span.in # 0

\* The runs whose end r's next statement waits for.
Blockers(r) ==
    {q \in Runners \ {r} :
        \/ /\ run[r].pc = "clearing"
           /\ run[r].rows \cap Locked(q) # {}
        \/ /\ run[r].pc = "cleared"
           /\ \/ run[r].dates \cap LockedDates(q) # {}
              \/ DatesOf(New(r)) \cap LockedDates(q) # {}
              \/ \E x \in New(r), y \in Locked(q) : SameKey(x, y)
              \/ /\ run[q].pc = "written"
                 /\ \/ DatesOf(New(r)) \cap DatesOf(New(q)) # {}
                    \/ \E x \in New(r), y \in New(q) : SameKey(x, y)}

\* The first DELETE is done and that of attendance_day starts.
ClearDays(r) ==
    /\ run[r].pc = "clearing"
    /\ Blockers(r) = {}
    /\ run' = [run EXCEPT ![r].pc = "cleared",
                          ![r].dates = days \cap run[r].window]
    /\ UNCHANGED <<derived, storeVars, changes, aborts>>

\* A stored row with the key of a new one that the run has not deleted.
CollidesUnindexed(r) == DatesOf(New(r)) \cap (days \ run[r].dates) # {}

Collides(r) ==
    \/ \E x \in New(r), y \in table \ run[r].rows : SameKey(x, y)
    \/ DatesOf(New(r)) \cap (days \ run[r].dates) # {}

\* DiffSpans: upserted for what is new or not equal(), removed for what is gone.
UpsertedOnlyNew(r) ==
    {s \in Spans(New(r)) : ~\E b \in run[r].before : Key(b) = Key(s)}

Upserted(r) ==
    {s \in Spans(New(r)) :
        ~\E b \in run[r].before : Key(b) = Key(s) /\ b.val = s.val}

Removed(r) ==
    {b \in run[r].before : ~\E s \in Spans(New(r)) : Key(s) = Key(b)}

\* The second DELETE is done and every INSERT succeeds.
InsertRows(r) ==
    /\ run[r].pc = "cleared"
    /\ Blockers(r) = {}
    /\ ~Collides(r)
    /\ run' = [run EXCEPT ![r].pc = "written"]
    /\ UNCHANGED <<derived, storeVars, changes, aborts>>

\* The others pass over the rows this run has deleted.
AfterCommit(r) ==
    [q \in Runners |->
        IF q = r THEN IdleRun
        ELSE [run[q] EXCEPT !.rows = @ \ run[r].rows,
                            !.dates = @ \ run[r].dates,
                            !.stale = run[q].pc \notin {"idle", "loaded"}]]

\* The outbox rows and the commit.
Commit(r) ==
    /\ run[r].pc = "written"
    /\ table' = (table \ run[r].rows) \cup New(r)
    /\ days' = (days \ run[r].dates) \cup DatesOf(New(r))
    /\ announced' = Upserted(r) \cup
          {s \in announced : \A t \in Upserted(r) \cup Removed(r) : Key(t) # Key(s)}
    /\ run' = AfterCommit(r)
    /\ UNCHANGED <<derived, changes, aborts>>

\* "insert span" or "insert day" fails on its index and all is rolled back.
Collide(r) ==
    /\ run[r].pc = "cleared"
    /\ Blockers(r) = {}
    /\ Collides(r)
    /\ run' = [run EXCEPT ![r] = IdleRun]
    /\ UNCHANGED <<derived, storeVars, changes, aborts>>

\* Any other database error, a deadlock of runs that wait for each other, the
\* ten-minute timeout, or the process being killed.
Abort(r) ==
    /\ run[r].pc # "idle"
    /\ aborts < MaxAborts
    /\ aborts' = aborts + 1
    /\ run' = [run EXCEPT ![r] = IdleRun]
    /\ UNCHANGED <<derived, storeVars, changes>>

RecNext ==
    \/ \E d \in Derivations : Change(d)
    \/ \E r \in Runners : \/ LoadPunches(r)
                          \/ LoadSpanSnapshots(r)
                          \/ ClearSpans(r)
                          \/ ClearDays(r)
                          \/ InsertRows(r)
                          \/ Commit(r)
                          \/ Collide(r)
                          \/ Abort(r)

RecSpec == RecInit /\ [][RecNext]_recVars

\* Everything a run does once it has read the punches.
Proceed(r) ==
    \/ LoadSpanSnapshots(r) \/ ClearSpans(r) \/ ClearDays(r) \/ InsertRows(r)
    \/ Commit(r) \/ Collide(r)

\* Cron runs a window that covers every date again and again, and a run that
\* nothing ends from outside goes on.
RecFairness ==
    /\ SF_recVars(\E r \in Runners : LoadPunches(r) /\ run'[r].window = Dates)
    /\ \A r \in Runners : WF_recVars(Proceed(r))

FairRecSpec == RecSpec /\ RecFairness

(***************************************************************************)
(* Properties                                                              *)
(***************************************************************************)

\* The type of every variable.  The stored spans are one per clock-in event,
\* however windows overlap, and the rows an open run will delete are still stored:
\* no row is deleted by two commits.
RecTypeOK ==
    /\ derived \in Derivations
    /\ table \subseteq Row /\ days \subseteq Dates
    /\ \A x, y \in table : SameKey(x, y) => x = y
    /\ \A r \in Runners :
          /\ run[r].pc \in {"idle", "loaded", "snapped", "clearing", "cleared", "written"}
          /\ run[r].window \in Windows \cup {{}}
          /\ run[r].after \in Derivations /\ run[r].before \subseteq Span
          /\ run[r].rows \subseteq table /\ run[r].dates \subseteq days

\* docs/events.md: "an attendance change is never committed without its
\* corresponding outbox row": the events, taken in commit order, add up to the
\* stored spans.
OutboxTellsAll == announced = Spans(table)

Contents(spans) == {<<Key(s), s.val>> : s \in spans}

\* What the commit of r writes to the outbox, against what it stores.
TellsChange(r) ==
    LET old == Spans(RowsIn(run[r].window))
        new == Spans({x \in table' : x.span.date \in run[r].window})
    IN  /\ Contents(Upserted(r)) = Contents(new) \ Contents(old)
        /\ {Key(s) : s \in Removed(r)} = {Key(s) : s \in old} \ {Key(s) : s \in new}

\* A run whose snapshot is not stale when it commits has an event for every span
\* of its window whose stored times or anomalies it changes, and no other: what
\* equal() compares, and no more (a new business date is not told).  Racing runs
\* may store an orphan clock-out twice, and such rows share one key.
FreshRunTells ==
    [][\A r \in Runners :
          LET old == Spans(RowsIn(run[r].window))
          IN  Commit(r) /\ ~run[r].stale /\ old \in Mapped(old) => TellsChange(r)]_recVars

\* When the punch log stops changing, the stored rows catch up with it: one row
\* per span and one per day, whatever runs raced, collided or died before.
CatchesUp ==
    <>[](/\ Spans(table) = derived
         /\ days = {s.date : s \in derived}
         /\ \A x, y \in table : x.span = y.span => x = y)
=============================================================================
