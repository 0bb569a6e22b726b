------------------------------ MODULE EventStore ------------------------------
(***************************************************************************)
(* The append-only event store of apps/api/store.py, called by any number  *)
(* of threads and processes.  Each call is one BEGIN IMMEDIATE transaction *)
(* and so one step; a call that raises (duplicate, conflict, invalid       *)
(* transition) writes nothing and is a stutter.  The callers here are      *)
(* unconstrained: any event the workflow ever appends, on any case, in any *)
(* order.  RecoveryWorkflow says in which order they really come.          *)
(***************************************************************************)
EXTENDS EventLog

CONSTANTS
    CaseIds,      \* display ids of cases
    DedupKeys,    \* digests of a normalized schema change
    EventIds,     \* event ids chosen by the sender of a schema change
    Contents,     \* what a schema change says, after normalization
    KeyOf,        \* the digest of each content
    Times,        \* values of observed_at, made by the server when left out
    Details,      \* payloads of each kind of event that follows a detection
    MaxLog        \* bound: rows appended in one behaviour

ASSUME CaseIdsAssumption   == SystemCase \notin CaseIds /\ None \notin CaseIds
ASSUME DedupKeysAssumption == None \notin DedupKeys
ASSUME EventIdsAssumption  == None \notin EventIds /\ EventIds \cap Nat = {}
ASSUME KeyOfAssumption     == KeyOf \in [Contents -> DedupKeys]

VARIABLE log

DetectionPayloads == [content : Contents, observed_at : Times]

ProgressEvents   == CaseEvents \ {"SCHEMA_CHANGE_DETECTED"}
ProgressPayloads == UNION {Details[type] : type \in ProgressEvents}

Row == [event_id    : Nat \cup EventIds,
        case_id     : CaseIds \cup {SystemCase},
        event_type  : EventType,
        state       : CaseState \cup {None},
        payload     : DetectionPayloads \cup ProgressPayloads \cup {None},
        dedup_key   : DedupKeys \cup {None},
        reset_scope : Nat]

(***************************************************************************)
(* The two operations that write.                                          *)
(***************************************************************************)
Init == log = <<>>

AppendEvent(call) ==
    /\ Len(log) < MaxLog
    /\ Accepted(log, call)
    /\ log' = Append(log, NewRow(log, call))

Reset ==
    /\ Len(log) < MaxLog
    /\ log' = Append(log, ResetRow(log))

Detect   == \E c \in CaseIds, p \in DetectionPayloads, e \in EventIds \cup {None} :
                AppendEvent(DetectionCall(c, p, KeyOf[p.content], e))
Progress == \E c \in CaseIds, type \in ProgressEvents :
                \E d \in Details[type] : AppendEvent(ProgressCall(c, type, d))

Next == Detect \/ Progress \/ Reset

Spec == Init /\ [][Next]_log

(***************************************************************************)
(* Properties.                                                             *)
(***************************************************************************)

\* The rows of the events table have the columns of store.py's schema.
TypeOK == log \in Seq(Row)

\* The two ways the store tells the active rows apart agree: the rows whose
\* reset_scope column is the current scope (duplicate keys and ids) are the
\* rows whose sequence is past the last reset (states and projections).
ScopesAgree ==
    InScope(log) = {i \in DOMAIN log : i > CurrentScope(log)}

\* What the two unique indexes promise, for every scope there ever was: the
\* check inside append() is enough, so the IntegrityError branch is never taken.
UniqueInScope ==
    \A i, j \in DOMAIN log :
        i # j /\ log[i].reset_scope = log[j].reset_scope =>
            /\ log[i].event_id # log[j].event_id
            /\ log[i].dedup_key = None \/ log[i].dedup_key # log[j].dedup_key

\* Rows i < j are consecutive rows of one case in one scope.
Consecutive(i, j) ==
    /\ i < j
    /\ log[i].case_id = log[j].case_id
    /\ log[i].reset_scope = log[j].reset_scope
    /\ \A k \in DOMAIN log :
            i < k /\ k < j => log[k].case_id # log[i].case_id

\* A case's stream is a walk of the state machine: it starts in DETECTED, each
\* row follows legally from the one before, and no second detection (another
\* drift racing for the same short id) is appended to it.
StreamsLegal ==
    /\ \A i, j \in DOMAIN log :
        /\ Consecutive(i, j)
        /\ log[i].event_type # "SYSTEM_RESET"
        => /\ ValidTransition(log[i].state, log[j].state)
           /\ log[j].event_type # "SCHEMA_CHANGE_DETECTED"
    /\ \A j \in DOMAIN log :
        /\ log[j].event_type # "SYSTEM_RESET"
        /\ \A i \in DOMAIN log : ~Consecutive(i, j)
        => log[j].state = "DETECTED"

\* A detection delivered again in the same scope, with or without the event id
\* it came with and whatever observed_at the server gives it this time, is
\* answered as a duplicate of the case it created: never a conflict, never a
\* second case.
RetryIsDuplicate ==
    \A i \in InScope(log) : log[i].event_type = "SCHEMA_CHANGE_DETECTED" =>
        \A t \in Times, e \in ({log[i].event_id} \cap EventIds) \cup {None} :
            LET again == DetectionCall(log[i].case_id,
                                       [log[i].payload EXCEPT !.observed_at = t],
                                       log[i].dedup_key, e)
            IN  Duplicate(log, again) /\ DuplicateOf(log, again) = log[i].case_id

\* Only a reset takes back an answer: the case a dedup key maps to, and a
\* terminal verdict, stay as they are until the next SYSTEM_RESET row.
OnlyResetRevokes ==
    [][CurrentScope(log') = CurrentScope(log) =>
        /\ \A d \in DedupKeys : CaseForDedup(log, d) # None =>
               CaseForDedup(log', d) = CaseForDedup(log, d)
        /\ \A c \in CaseIds : CurrentState(log, c) \in TerminalStates =>
               CurrentState(log', c) = CurrentState(log, c)]_log
===============================================================================
