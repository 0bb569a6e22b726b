------------------------------- MODULE EventLog -------------------------------
(***************************************************************************)
(* What apps/api/store.py computes from the events table.  The table is a  *)
(* sequence of rows; a row's AUTOINCREMENT sequence number is its position.*)
(* A SYSTEM_RESET row starts a new scope: rows at or before it are kept    *)
(* and no longer looked at.  The code tells the active rows in two ways:   *)
(* by the reset_scope column (duplicate keys and ids) and by their         *)
(* sequence number (states and projections).                               *)
(***************************************************************************)
EXTENDS CaseStates, Naturals, Sequences, FiniteSetsExt

SystemCase == "__system__"

\* _current_scope: the sequence number of the last reset, or 0.
CurrentScope(rows) ==
    Max({0} \cup {i \in DOMAIN rows : rows[i].event_type = "SYSTEM_RESET"})

\* events_for_case, case_id_exists: the rows of c after the last reset.
ActiveRows(rows, c) ==
    LET scope == CurrentScope(rows)
    IN  {i \in DOMAIN rows : i > scope /\ rows[i].case_id = c}

\* _current_state: the state of the case's last active row.
CurrentState(rows, c) ==
    LET active == ActiveRows(rows, c)
    IN  IF active = {} THEN None ELSE rows[Max(active)].state

\* The rows the two unique indexes compare a new row with.
InScope(rows) ==
    LET scope == CurrentScope(rows)
    IN  {i \in DOMAIN rows : rows[i].reset_scope = scope}
HoldersOfId(rows, e)  == {i \in InScope(rows) : rows[i].event_id = e}
HoldersOfKey(rows, d) == {i \in InScope(rows) : rows[i].dedup_key = d}

\* find_case_for_dedup.
CaseForDedup(rows, d) ==
    IF HoldersOfKey(rows, d) = {}
    THEN None
    ELSE rows[CHOOSE i \in HoldersOfKey(rows, d) : TRUE].case_id

\* Mutant of SamePayload: every field counts, the server's clock too.
MutSameBytes(p, q) == p = q

\* _same_event_payload: the server-made observed_at of a detection is dropped,
\* and so are letter case of the urn and field order; what is left is content.
SamePayload(p, q) == p = q \/ p.content = q.content

\* _stored_event_matches.
Matches(row, call) ==
    /\ row.case_id = call.case_id
    /\ row.event_type = call.event_type
    /\ row.state = call.state
    /\ row.dedup_key = call.dedup_key
    /\ SamePayload(row.payload, call.payload)

\* The arguments of append(): a detection carries the drift's dedup key and may
\* carry the sender's event id; every later event carries neither.
DetectionCall(c, p, d, e) ==
    [case_id |-> c, event_type |-> "SCHEMA_CHANGE_DETECTED",
     state |-> "DETECTED", payload |-> p, dedup_key |-> d, event_id |-> e]
ProgressCall(c, type, detail) ==
    [case_id |-> c, event_type |-> type, state |-> EventState[type],
     payload |-> detail, dedup_key |-> None, event_id |-> None]

\* Mutant of KeyTaken: only the case's own rows are searched.
MutKeyTakenByCase(rows, call) ==
    /\ call.dedup_key # None
    /\ \E i \in HoldersOfKey(rows, call.dedup_key) : rows[i].case_id = call.case_id

\* Mutant of SecondDetection: a case still in DETECTED takes another detection.
MutSecondDetectionLate(rows, call) ==
    /\ call.event_type = "SCHEMA_CHANGE_DETECTED"
    /\ CurrentState(rows, call.case_id) \notin {None, "DETECTED"}

\* What append() finds, inside its one BEGIN IMMEDIATE transaction.
IdTaken(rows, call) ==
    call.event_id # None /\ HoldersOfId(rows, call.event_id) # {}
KeyTaken(rows, call) ==
    call.dedup_key # None /\ HoldersOfKey(rows, call.dedup_key) # {}
SecondDetection(rows, call) ==
    /\ call.event_type = "SCHEMA_CHANGE_DETECTED"
    /\ CurrentState(rows, call.case_id) # None

\* Mutant of Conflict: an event id alone makes a duplicate.
MutNoConflict(rows, call) == FALSE

\* Its outcomes: EventConflictError, DuplicateEventError,
\* InvalidStateTransition, or a new row.
Conflict(rows, call) ==
    /\ IdTaken(rows, call)
    /\ \E i \in HoldersOfId(rows, call.event_id) : ~Matches(rows[i], call)
Duplicate(rows, call) ==
    ~Conflict(rows, call) /\ (IdTaken(rows, call) \/ KeyTaken(rows, call))
Accepted(rows, call) ==
    /\ ~IdTaken(rows, call)
    /\ ~KeyTaken(rows, call)
    /\ ~SecondDetection(rows, call)
    /\ ValidTransition(CurrentState(rows, call.case_id), call.state)

\* The case a DuplicateEventError names.
DuplicateOf(rows, call) ==
    IF IdTaken(rows, call)
    THEN rows[CHOOSE i \in HoldersOfId(rows, call.event_id) : TRUE].case_id
    ELSE CaseForDedup(rows, call.dedup_key)

\* Mutant of NewRow: no id is made up for an event that came without one.
MutNewRowNoId(rows, call) ==
    [event_id |-> call.event_id, case_id |-> call.case_id,
     event_type |-> call.event_type, state |-> call.state, payload |-> call.payload,
     dedup_key |-> call.dedup_key, reset_scope |-> CurrentScope(rows)]

\* The row inserted.  A uuid4 never repeats: its model is the row's number.
NewRow(rows, call) ==
    [event_id    |-> IF call.event_id = None THEN Len(rows) + 1 ELSE call.event_id,
     case_id     |-> call.case_id,
     event_type  |-> call.event_type,
     state       |-> call.state,
     payload     |-> call.payload,
     dedup_key   |-> call.dedup_key,
     reset_scope |-> CurrentScope(rows)]

\* Mutant of ResetRow: the row carries the scope it opens.
MutResetRowOpens(rows) ==
    [event_id |-> Len(rows) + 1, case_id |-> SystemCase,
     event_type |-> "SYSTEM_RESET", state |-> None, payload |-> None,
     dedup_key |-> None, reset_scope |-> Len(rows) + 1]

\* reset(): the row carries the scope it closes.
ResetRow(rows) ==
    [event_id    |-> Len(rows) + 1,
     case_id     |-> SystemCase,
     event_type  |-> "SYSTEM_RESET",
     state       |-> None,
     payload     |-> None,
     dedup_key   |-> None,
     reset_scope |-> CurrentScope(rows)]
===============================================================================
