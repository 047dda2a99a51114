----------------------------- MODULE EventView ------------------------------
(***************************************************************************)
(* The attendance_span events of Recompute one by one, and a consumer      *)
(* (external) that follows docs/events.md: it keys a span on in_event_id,  *)
(* or on out_event_id when there is none, and applies an event only if its *)
(* emitted_at is newer than that of the last one it applied for the key.   *)
(* The delivery worker sends every event at least once and in any order.   *)
(***************************************************************************)
EXTENDS Recompute, FiniteSetsExt

VARIABLES
    stamp,        \* emittedAt of each run that has events to write
    emitted,      \* every outbox_event row
    delivered,    \* events the consumer has received
    view          \* the consumer's state, by key

eventVars == <<stamp, emitted>>
viewVars == <<delivered, view>>
allVars == <<derived, table, days, run, announced, changes, aborts,
             stamp, emitted, delivered, view>>

\* in_event_id ?? out_event_id
SubjectKey(s) == IF s.in # 0 THEN s.in ELSE s.out

\* The events of the rows that are there at the start have arrived.
ViewInit ==
    /\ RecInit
    /\ stamp = [r \in Runners |-> 0]
    /\ emitted = {[type |-> "upserted", span |-> s, at |-> 1] : s \in derived}
    /\ delivered = emitted
    /\ view = [k \in Ins \cup Outs |->
                  [at |-> 1, spans |-> {s \in derived : SubjectKey(s) = k}]]

\* emittedAt := e.now(), taken once the rows are inserted, for all events of the
\* run.  Of the time only the order of the stamps is kept.
EmittedAt ==
    1 + Max({1} \cup {e.at : e \in emitted} \cup {stamp[r] : r \in Runners})

InsertAndStamp(r) ==
    /\ InsertRows(r)
    /\ stamp' = [stamp EXCEPT ![r] = EmittedAt]
    /\ UNCHANGED <<emitted, viewVars>>

\* spanRow and INSERT INTO outbox_event.
CommitEvents(r) ==
    /\ Commit(r)
    /\ emitted' = emitted
          \cup {[type |-> "upserted", span |-> s, at |-> stamp[r]] : s \in Upserted(r)}
          \cup {[type |-> "removed", span |-> s, at |-> stamp[r]] : s \in Removed(r)}
    /\ stamp' = [stamp EXCEPT ![r] = 0]
    /\ UNCHANGED viewVars

AbortStamped(r) ==
    /\ Abort(r)
    /\ stamp' = [stamp EXCEPT ![r] = 0]
    /\ UNCHANGED <<emitted, viewVars>>

\* Apply an event only if its emitted_at is newer than the last one applied.
Applied(v, e) ==
    IF e.at > v.at
    THEN [at |-> e.at, spans |-> IF e.type = "removed" THEN {} ELSE {e.span}]
    ELSE v

Deliver(e) ==
    /\ delivered' = delivered \cup {e}
    /\ view' = [view EXCEPT ![SubjectKey(e.span)] = Applied(@, e)]
    /\ UNCHANGED <<recVars, eventVars>>

ViewNext ==
    \/ \E d \in Derivations : Change(d) /\ UNCHANGED <<eventVars, viewVars>>
    \/ \E r \in Runners :
          \/ /\ \/ LoadPunches(r) \/ LoadSpanSnapshots(r) \/ ClearSpans(r)
                \/ ClearDays(r) \/ Collide(r)
             /\ UNCHANGED <<eventVars, viewVars>>
          \/ InsertAndStamp(r) \/ CommitEvents(r) \/ AbortStamped(r)
    \/ \E e \in emitted : Deliver(e)

ViewSpec == ViewInit /\ [][ViewNext]_allVars

(***************************************************************************)
(* Properties                                                              *)
(***************************************************************************)

\* docs/events.md: with the documented key and consumer rule "duplicate delivery,
\* retry reordering, and even a permanently dead-lettered event are all harmless":
\* once every event has arrived the consumer holds the spans they announce.
SubjectViewConverges ==
    delivered = emitted =>
        UNION {view[k].spans : k \in Ins \cup Outs} = announced
=============================================================================
