------------------------ MODULE RecoveryWorkflowProofs ------------------------
(***************************************************************************)
(* What RecoveryWorkflow promises for every value of its constants.        *)
(***************************************************************************)
EXTENDS RecoveryWorkflow, TLAPS, WellFoundedInduction

-------------------------------------------------------------------------------
(***************************************************************************)
(* Numbers and sequences.                                                  *)
(***************************************************************************)

\* Max of a bounded set of numbers is its greatest element: the ORDER BY
\* sequence DESC of the store's queries.
LEMMA MaxIsGreatest ==
    ASSUME NEW n \in Nat, NEW S \in SUBSET (0 .. n), S # {}
    PROVE  Max(S) \in S /\ \A x \in S : x <= Max(S)
<1> DEFINE T == {n - x : x \in S}
<1>1. T \subseteq Nat /\ T # {}
  <2>1. \A x \in S : x \in Nat /\ x <= n /\ n - x \in Nat
    OBVIOUS
  <2>2. PICK x \in S : TRUE
    OBVIOUS
  <2>3. n - x \in T
    OBVIOUS
  <2> QED
    BY <2>1, <2>3
<1>2. PICK m \in T : \A y \in T : ~(<<y, m>> \in OpToRel(<, Nat))
  BY <1>1, NatLessThanWellFounded, WFMin
<1>3. \A y \in T : ~(y < m)
  BY <1>1, <1>2 DEF OpToRel
<1>4. PICK x \in S : m = n - x
  BY <1>2
<1>5. ASSUME NEW y \in S PROVE x >= y
  <2>1. n - y \in T
    OBVIOUS
  <2>2. ~(n - y < n - x)
    BY <2>1, <1>3, <1>4
  <2> QED
    BY <2>2
<1>6. Max(S) \in S /\ \A y \in S : Max(S) >= y
  BY <1>5 DEF Max
<1> QED
  BY <1>6

\* Min of a set of numbers is its least element: the first row of a case, the
\* shortest display id that is free.
LEMMA MinIsLeast ==
    ASSUME NEW S \in SUBSET Nat, S # {}
    PROVE  Min(S) \in S /\ \A x \in S : Min(S) <= x
<1>1. PICK m \in S : \A y \in S : ~(<<y, m>> \in OpToRel(<, Nat))
  BY NatLessThanWellFounded, WFMin
<1>2. ASSUME NEW y \in S PROVE m <= y
  <2>1. ~(y < m) /\ y \in Nat /\ m \in Nat
    BY <1>1 DEF OpToRel
  <2> QED
    BY <2>1
<1> QED
  BY <1>2 DEF Min

\* Sequences of anything.
IsSeq(s) == \E S : s \in Seq(S)

\* A sequence with one element more.
LEMMA Appended ==
    ASSUME NEW s, IsSeq(s), NEW x
    PROVE  LET new == Append(s, x)
           IN  /\ IsSeq(new) /\ Len(s) \in Nat
               /\ DOMAIN s = 1 .. Len(s) /\ DOMAIN new = 1 .. Len(s) + 1
               /\ new[Len(s) + 1] = x
               /\ \A k \in DOMAIN s : new[k] = s[k]
<1>0. PICK S : s \in Seq(S)
  BY DEF IsSeq
<1> DEFINE T == S \cup {x}
           new == Append(s, x)
<1>1. s \in Seq(T) /\ x \in T
  BY <1>0
<1> HIDE DEF T
<1>2. new \in Seq(T) /\ Len(new) = Len(s) + 1 /\ new[Len(s) + 1] = x
      /\ \A k \in 1 .. Len(s) : new[k] = s[k]
  BY <1>1
<1> QED
  BY <1>1, <1>2 DEF IsSeq

\* A sequence without its first element.
LEMMA Tailed ==
    ASSUME NEW s, IsSeq(s), s # <<>>
    PROVE  /\ IsSeq(Tail(s)) /\ Len(s) \in Nat /\ Len(s) > 0
           /\ DOMAIN s = 1 .. Len(s) /\ DOMAIN Tail(s) = 1 .. Len(s) - 1
           /\ Head(s) = s[1] /\ Len(Tail(s)) = Len(s) - 1
           /\ \A k \in 1 .. Len(s) - 1 : Tail(s)[k] = s[k + 1]
<1>1. PICK T : s \in Seq(T)
  BY DEF IsSeq
<1>2. Tail(s) \in Seq(T) /\ Len(Tail(s)) = Len(s) - 1 /\ Len(s) \in Nat /\ Len(s) > 0
      /\ Head(s) = s[1] /\ DOMAIN s = 1 .. Len(s)
      /\ \A k \in 1 .. Len(s) - 1 : Tail(s)[k] = s[k + 1]
  BY <1>1
<1> QED
  BY <1>2 DEF IsSeq

\* The events a step queues are none, one or two.
LEMMA ShortSeqs ==
    /\ IsSeq(<<>>) /\ DOMAIN <<>> = {}
    /\ \A x : IsSeq(<<x>>) /\ DOMAIN <<x>> = {1} /\ <<x>>[1] = x /\ <<x>> # <<>>
    /\ \A x, y : /\ IsSeq(<<x, y>>) /\ DOMAIN <<x, y>> = {1, 2}
                 /\ <<x, y>>[1] = x /\ <<x, y>>[2] = y /\ <<x, y>> # <<>>
<1>1. IsSeq(<<>>) /\ DOMAIN <<>> = {}
  <2>1. <<>> \in Seq({}) /\ DOMAIN <<>> = {}
    OBVIOUS
  <2> QED BY <2>1 DEF IsSeq
<1>2. ASSUME NEW x PROVE IsSeq(<<x>>) /\ DOMAIN <<x>> = {1} /\ <<x>> # <<>>
  <2>1. <<x>> \in Seq({x}) /\ Len(<<x>>) = 1
    OBVIOUS
  <2>2. DOMAIN <<x>> = {1} /\ <<x>> # <<>>
    OBVIOUS
  <2> QED BY <2>1, <2>2 DEF IsSeq
<1>3. ASSUME NEW x, NEW y PROVE IsSeq(<<x, y>>) /\ DOMAIN <<x, y>> = {1, 2} /\ <<x, y>> # <<>>
  <2>1. <<x, y>> \in Seq({x, y})
    OBVIOUS
  <2>2. DOMAIN <<x, y>> = {1, 2} /\ <<x, y>> # <<>>
    OBVIOUS
  <2> QED BY <2>1, <2>2 DEF IsSeq
<1> QED
  BY <1>1, <1>2, <1>3

-------------------------------------------------------------------------------
(***************************************************************************)
(* Types.                                                                  *)
(***************************************************************************)
\* Places of a thread: inside ingest or verify_deployment with a case in hand,
\* with the case's rows known to be there, and with the worker lock.
Middle  == {"incident", "context", "candidates", "validate", "load", "assess", "select",
            "evidence", "pull_request", "handler", "contain", "finish",
            "final_evidence", "resolve"}
Working == Middle \cup {"append", "begin"}
Locked  == Working \cup {"recheck", "allocate", "detect", "verify"}
Asking  == {"lookup", "duplicate", "owned", "recheck", "allocate", "detect", "begin"}
Places  == Locked \cup Asking \cup {"idle", "lock"}
Empty   == Asking \cup {"idle", "lock", "verify"}

Incidents == [status : Status, urn : Nat]
IncidentOK(p) == p \in Incidents /\ (p.urn # 0 => p.status = "SUCCEEDED")

PayloadOK(type, p) ==
    /\ type = "INCIDENT_RAISED" => IncidentOK(p)
    /\ type = "CANDIDATES_READY" => p \in [proposals : SUBSET Proposals]
    /\ type = "CANDIDATE_ASSESSED" => p \in [id : Proposals, outcome : Outcomes]

CallOK(call) ==
    /\ call.case_id \in CaseIds
    /\ call.event_type \in CaseEvents \ {"SCHEMA_CHANGE_DETECTED"}
    /\ call.state = EventState[call.event_type]
    /\ call.dedup_key = None /\ call.event_id = None
    /\ PayloadOK(call.event_type, call.payload)

RowOK(row) ==
    /\ row.event_type \in EventType
    /\ PayloadOK(row.event_type, row.payload)
    /\ row.event_type # "SYSTEM_RESET" =>
          row.case_id \in CaseIds /\ row.state = EventState[row.event_type]
    /\ row.event_type = "SYSTEM_RESET" => row.case_id = SystemCase
    /\ row.event_type # "SCHEMA_CHANGE_DETECTED" => row.dedup_key = None

IsThread(r) ==
    r = [pc |-> r.pc, op |-> r.op, event |-> r.event, case_id |-> r.case_id,
         attempt |-> r.attempt, incident |-> r.incident, proposals |-> r.proposals,
         assessed |-> r.assessed, pending |-> r.pending, next |-> r.next]

ThreadOK(r) ==
    /\ IsThread(r)
    /\ r.pc \in Places
    /\ r.op \in {None, "ingest", "advance", "handler", "verify"}
    /\ r.case_id \in CaseIds \cup {None}
    /\ r.incident = None \/ IncidentOK(r.incident)
    /\ r.proposals \subseteq Proposals
    /\ r.assessed \in [Proposals -> Outcomes]
    /\ IsSeq(r.pending) /\ \A i \in DOMAIN r.pending : CallOK(r.pending[i])
    /\ \A i \in DOMAIN r.pending : r.pending[i].case_id = r.case_id
    /\ r.pc \in Working \cup {"duplicate", "owned", "detect", "verify"} => r.case_id \in CaseIds
    /\ r.op = "verify" => r.case_id \in CaseIds
    /\ r.pc \in Asking \/ (r.pc = "lock" /\ r.op # "verify") => r.event \in Events
    /\ r.op \in {"advance", "handler"} => r.pc \in Working
    /\ r.pc \in Empty => r.pending = <<>>
    /\ r.pc = "append" => r.pending # <<>> /\ r.next \in Middle

ThreadsOK == /\ thread = [t \in Threads |-> thread[t]]
             /\ \A t \in Threads : ThreadOK(thread[t])
LogOK     == IsSeq(log) /\ \A i \in DOMAIN log : RowOK(log[i])
RemoteIncident == [case_id : CaseIds, status : {"ACTIVE", "RESOLVED"}]
RemoteOK  ==
    /\ IsSeq(incidents) /\ \A n \in DOMAIN incidents : incidents[n] \in RemoteIncident
    /\ documents \in [CaseIds -> SUBSET {"SAFE_REPAIR_VALIDATED", "AUTO_REPAIR_REFUSED",
                                         "RECOVERED"}]
    /\ drafts \subseteq CaseIds
ProcessOK ==
    /\ lock \in [Processes -> Threads \cup {None}]
    /\ active \in [Processes -> SUBSET CaseIds]
    /\ settled \in [Processes -> SUBSET CaseIds]
    /\ unacked \subseteq Events

Typed == ThreadsOK /\ LogOK /\ RemoteOK /\ ProcessOK

\* A thread without a request is typed.
LEMMA IdleOK == ThreadOK(IdleThread) /\ IdleThread.pc = "idle"
<1>1. Unassessed \in [Proposals -> Outcomes]
  BY DEF Unassessed, Outcomes
<1>2. IsSeq(IdleThread.pending) /\ DOMAIN IdleThread.pending = {}
  BY ShortSeqs DEF IdleThread
<1> QED
  BY <1>1, <1>2, NoneIsNothingElse
     DEF IdleThread, ThreadOK, IsThread, Places, Working, Middle, Locked, Asking, Empty

\* The initial states are typed.
LEMMA TypedInit == Init => Typed
<1> SUFFICES ASSUME Init PROVE Typed
  OBVIOUS
<1>1. ThreadsOK
  BY IdleOK DEF Init, ThreadsOK
<1>2. LogOK /\ RemoteOK
  <2>1. log = <<>> /\ incidents = <<>> /\ drafts = {} /\ documents = [c \in CaseIds |-> {}]
    BY DEF Init
  <2>2. IsSeq(log) /\ IsSeq(incidents) /\ DOMAIN log = {} /\ DOMAIN incidents = {}
    BY <2>1, ShortSeqs
  <2> QED
    BY <2>1, <2>2 DEF LogOK, RemoteOK
<1>3. ProcessOK
  BY DEF Init, ProcessOK
<1> QED
  BY <1>1, <1>2, <1>3 DEF Typed

\* The types imply the type invariant of the workflow.
LEMMA TypedIsTyped == Typed => TypeOK
<1> SUFFICES ASSUME Typed PROVE TypeOK
  OBVIOUS
<1>1. ASSUME NEW t \in Threads
      PROVE  /\ thread[t].pc \in BusyPcs \cup {"idle", "lookup", "owned", "lock", "begin", "finish"}
             /\ thread[t].op \in {None, "ingest", "advance", "handler", "verify"}
             /\ thread[t].case_id \in CaseIds \cup {None}
             /\ thread[t].proposals \subseteq Proposals
             /\ thread[t].assessed \in [Proposals -> Outcomes]
             /\ \A i \in DOMAIN thread[t].pending :
                   thread[t].pending[i].event_type \in CaseEvents
  <2>1. ThreadOK(thread[t])
    BY DEF Typed, ThreadsOK
  <2>2. Places \subseteq BusyPcs \cup {"idle", "lookup", "owned", "lock", "begin", "finish"}
    BY DEF Places, Locked, Asking, Working, Middle, BusyPcs, ReadingPcs
  <2> QED
    BY <2>1, <2>2 DEF ThreadOK, CallOK
<1>2. \A i \in DOMAIN log : log[i].event_type \in EventType
  BY DEF Typed, LogOK, RowOK
<1> QED
  BY <1>1, <1>2 DEF Typed, RemoteOK, RemoteIncident, ProcessOK, TypeOK

-------------------------------------------------------------------------------
(***************************************************************************)
(* What the store's queries return.                                        *)
(***************************************************************************)

\* _current_scope: 0 or the number of a reset row that no reset row follows.
LEMMA ScopeIsLastReset ==
    ASSUME NEW rows, IsSeq(rows)
    PROVE  /\ CurrentScope(rows) \in 0 .. Len(rows) /\ Len(rows) \in Nat
           /\ DOMAIN rows = 1 .. Len(rows)
           /\ CurrentScope(rows) # 0 => rows[CurrentScope(rows)].event_type = "SYSTEM_RESET"
           /\ \A i \in DOMAIN rows :
                 rows[i].event_type = "SYSTEM_RESET" => i <= CurrentScope(rows)
<1> DEFINE S == {0} \cup {i \in DOMAIN rows : rows[i].event_type = "SYSTEM_RESET"}
<1>1. Len(rows) \in Nat /\ DOMAIN rows = 1 .. Len(rows)
  BY Appended
<1>2. S \in SUBSET (0 .. Len(rows)) /\ S # {}
  BY <1>1
<1>3. Max(S) \in S /\ \A x \in S : x <= Max(S)
  BY <1>1, <1>2, MaxIsGreatest
<1>4. CurrentScope(rows) = Max(S)
  BY DEF CurrentScope
<1> QED
  BY <1>1, <1>2, <1>3, <1>4

\* The payload read back of a case is that of one of its rows.
LEMMA LastIsARow ==
    ASSUME IsSeq(log), NEW c, NEW type, RowsOf(c, type) # {}
    PROVE  \E i \in RowsOf(c, type) : LastOf(c, type) = log[i].payload
<1>1. Len(log) \in Nat /\ RowsOf(c, type) \in SUBSET (0 .. Len(log))
  BY ScopeIsLastReset DEF RowsOf, ActiveRows
<1>2. Max(RowsOf(c, type)) \in RowsOf(c, type)
  BY <1>1, MaxIsGreatest
<1> QED
  BY <1>2 DEF LastOf

\* The projection has the types the workflow expects of it.
LEMMA ProjectionOK ==
    ASSUME Typed, NEW c
    PROVE  /\ Project(c).incident = None \/ IncidentOK(Project(c).incident)
           /\ Project(c).proposals \subseteq Proposals
           /\ Project(c).assessed \in [Proposals -> Outcomes]
<1>1. IsSeq(log) /\ \A i \in DOMAIN log : PayloadOK(log[i].event_type, log[i].payload)
  BY DEF Typed, LogOK, RowOK
<1>2. ASSUME NEW type, NEW i \in RowsOf(c, type) PROVE i \in DOMAIN log /\ log[i].event_type = type
  BY DEF RowsOf, ActiveRows
<1>3. Project(c).incident = None \/ IncidentOK(Project(c).incident)
  <2>1. Project(c).incident = LastOf(c, "INCIDENT_RAISED")
    BY DEF Project
  <2>2. CASE RowsOf(c, "INCIDENT_RAISED") = {}
    BY <2>1, <2>2 DEF LastOf
  <2>3. CASE RowsOf(c, "INCIDENT_RAISED") # {}
    BY <2>1, <2>3, <1>1, <1>2, LastIsARow DEF PayloadOK
  <2> QED
    BY <2>2, <2>3
<1>4. Project(c).proposals \subseteq Proposals
  <2>1. Project(c).proposals = IF RowsOf(c, "CANDIDATES_READY") = {} THEN {}
                               ELSE LastOf(c, "CANDIDATES_READY").proposals
    BY DEF Project
  <2>2. CASE RowsOf(c, "CANDIDATES_READY") # {}
    <3>1. PICK i \in RowsOf(c, "CANDIDATES_READY") :
              LastOf(c, "CANDIDATES_READY") = log[i].payload
      BY <2>2, <1>1, LastIsARow
    <3>2. log[i].payload \in [proposals : SUBSET Proposals]
      BY <1>1, <1>2 DEF PayloadOK
    <3> QED
      BY <2>1, <2>2, <3>1, <3>2
  <2> QED
    BY <2>1, <2>2
<1>5. Project(c).assessed \in [Proposals -> Outcomes]
  <2>1. ASSUME NEW p \in Proposals PROVE OutcomeOf(c, p) \in Outcomes
    <3> DEFINE rows == {i \in RowsOf(c, "CANDIDATE_ASSESSED") : log[i].payload.id = p}
    <3>1. CASE rows = {}
      BY <3>1 DEF OutcomeOf, Outcomes
    <3>2. CASE rows # {}
      <4>1. Len(log) \in Nat /\ rows \in SUBSET (0 .. Len(log))
        BY <1>1, ScopeIsLastReset DEF RowsOf, ActiveRows
      <4>2. Max(rows) \in RowsOf(c, "CANDIDATE_ASSESSED")
        BY <4>1, <3>2, MaxIsGreatest
      <4>3. log[Max(rows)].payload \in [id : Proposals, outcome : Outcomes]
        BY <4>2, <1>1, <1>2 DEF PayloadOK
      <4> QED
        BY <4>3, <3>2 DEF OutcomeOf
    <3> QED
      BY <3>1, <3>2
  <2>2. Project(c).assessed = [p \in Proposals |-> OutcomeOf(c, p)]
    BY DEF Project
  <2> QED
    BY <2>1, <2>2
<1> QED
  BY <1>3, <1>4, <1>5

\* A drift the store knows belongs to a case; so does a display id it has left.
LEMMA CaseIdsFound ==
    ASSUME Typed, NEW d \in DedupKeys
    PROVE  /\ CaseForDedup(log, d) # None => CaseForDedup(log, d) \in CaseIds
           /\ AvailableId(d) # None => AvailableId(d) \in CaseIds
<1>1. CaseForDedup(log, d) # None => CaseForDedup(log, d) \in CaseIds
  <2> SUFFICES ASSUME CaseForDedup(log, d) # None PROVE CaseForDedup(log, d) \in CaseIds
    OBVIOUS
  <2>1. HoldersOfKey(log, d) # {}
    BY DEF CaseForDedup
  <2>2. PICK i \in HoldersOfKey(log, d) : CaseForDedup(log, d) = log[i].case_id
    BY <2>1 DEF CaseForDedup
  <2>3. i \in DOMAIN log /\ log[i].dedup_key # None
    BY NoneIsNothingElse DEF HoldersOfKey, InScope
  <2> QED
    BY <2>2, <2>3 DEF Typed, LogOK, RowOK
<1>2. AvailableId(d) # None => AvailableId(d) \in CaseIds
  <2>1. CASE CaseForDedup(log, d) = None /\ FreeIds(d) # {}
    <3>1. DisplayIds[d] \in Seq(CaseIds)
      BY WorkflowConstants
    <3>2. FreeIds(d) \in SUBSET Nat /\ FreeIds(d) \subseteq DOMAIN DisplayIds[d]
      BY <3>1 DEF FreeIds
    <3>3. Min(FreeIds(d)) \in DOMAIN DisplayIds[d]
      BY <3>2, <2>1, MinIsLeast
    <3> QED
      BY <3>1, <3>3, <2>1 DEF AvailableId
  <2> QED
    BY <1>1, <2>1 DEF AvailableId
<1> QED
  BY <1>1, <1>2

\* An event's drift has a key.
LEMMA KeyOfEvent == ASSUME NEW e \in Events PROVE KeyOf[e.content] \in DedupKeys
  BY WorkflowConstants

-------------------------------------------------------------------------------
(***************************************************************************)
(* What a step does to a thread.                                           *)
(***************************************************************************)
Others(t) == \A u \in Threads \ {t} : thread'[u] = thread[u]

\* The step of one thread, which gives it the record r.
LEMMA Becomes ==
    ASSUME ThreadsOK, NEW t \in Threads, NEW r, ThreadOK(r), thread' = [thread EXCEPT ![t] = r]
    PROVE  ThreadsOK' /\ thread'[t] = r /\ Others(t)
<1>1. thread' = [u \in Threads |-> IF u = t THEN r ELSE thread[u]]
  BY DEF ThreadsOK
<1>2. \A u \in Threads : thread'[u] = IF u = t THEN r ELSE thread[u]
  BY <1>1
<1>3. \A u \in Threads : ThreadOK(thread[u])
  BY DEF ThreadsOK
<1>4. thread' = [u \in Threads |-> thread'[u]]
  BY <1>1
<1>5. \A u \in Threads : ThreadOK(thread'[u])
  BY <1>2, <1>3
<1> QED
  BY <1>2, <1>4, <1>5 DEF ThreadsOK, Others

\* The thread goes on elsewhere with its case.
LEMMA GoesOn ==
    ASSUME ThreadsOK, NEW t \in Threads, NEW pc \in Middle, thread[t].case_id \in CaseIds,
           Goto(t, pc)
    PROVE  /\ ThreadsOK' /\ Others(t)
           /\ thread'[t].pc = pc /\ thread'[t].case_id = thread[t].case_id
           /\ thread'[t].op = thread[t].op
           /\ thread'[t].incident = thread[t].incident
<1> DEFINE r == [thread[t] EXCEPT !.pc = pc]
<1>1. ThreadOK(thread[t])
  BY DEF ThreadsOK
<1>2. IsThread(r) /\ r.pc = pc /\ r.case_id = thread[t].case_id /\ r.op = thread[t].op
      /\ r.incident = thread[t].incident /\ r.proposals = thread[t].proposals
      /\ r.assessed = thread[t].assessed /\ r.pending = thread[t].pending
      /\ r.next = thread[t].next /\ r.event = thread[t].event
  BY <1>1 DEF ThreadOK, IsThread
<1> HIDE DEF r
<1>3. pc \in Working /\ pc \notin Asking /\ pc # "lock" /\ pc # "append" /\ pc \in Places
      /\ pc \notin Empty
  BY DEF Working, Middle, Asking, Places, Locked, Empty
<1>4. ThreadOK(r)
  BY <1>1, <1>2, <1>3 DEF ThreadOK
<1>5. thread' = [thread EXCEPT ![t] = r]
  BY DEF Goto, r
<1> QED
  BY <1>2, <1>4, <1>5, Becomes

\* The record of a thread that queues events.
LEMMA QueuedFields ==
    ASSUME ThreadsOK, NEW t \in Threads, NEW calls, NEW next
    PROVE  LET q == Queued(t, calls, next)
           IN  /\ IsThread(q) /\ q.pc = "append" /\ q.pending = calls /\ q.next = next
               /\ q.op = thread[t].op /\ q.case_id = thread[t].case_id
               /\ q.incident = thread[t].incident /\ q.proposals = thread[t].proposals
               /\ q.assessed = thread[t].assessed /\ q.event = thread[t].event
               /\ q.attempt = thread[t].attempt
<1> DEFINE q == Queued(t, calls, next)
<1>1. IsThread(thread[t])
  BY DEF ThreadsOK, ThreadOK
<1>2. q = [thread[t] EXCEPT !.pc = "append", !.pending = calls, !.next = next]
  BY DEF Queued
<1>3. DOMAIN q = DOMAIN thread[t]
  BY <1>2
<1>4. /\ q.pc = "append" /\ q.pending = calls /\ q.next = next
      /\ q.op = thread[t].op /\ q.case_id = thread[t].case_id
      /\ q.incident = thread[t].incident /\ q.proposals = thread[t].proposals
      /\ q.assessed = thread[t].assessed /\ q.event = thread[t].event
      /\ q.attempt = thread[t].attempt
  BY <1>1, <1>2 DEF IsThread
<1>5. IsThread(q)
  BY <1>1, <1>2, <1>4 DEF IsThread
<1> QED
  BY <1>4, <1>5

\* The plain case: Queue.
LEMMA Queues ==
    ASSUME ThreadsOK, NEW t \in Threads, NEW calls, NEW next \in Middle,
           thread[t].case_id \in CaseIds,
           IsSeq(calls), calls # <<>>,
           \A i \in DOMAIN calls : CallOK(calls[i]) /\ calls[i].case_id = thread[t].case_id,
           Queue(t, calls, next)
    PROVE  /\ ThreadsOK' /\ Others(t)
           /\ thread'[t].pc = "append" /\ thread'[t].pending = calls
           /\ thread'[t].next = next /\ thread'[t].case_id = thread[t].case_id
           /\ thread'[t].op = thread[t].op
           /\ thread'[t].incident = thread[t].incident
<1> DEFINE q == Queued(t, calls, next)
<1>1. /\ IsThread(q) /\ q.pc = "append" /\ q.pending = calls /\ q.next = next
      /\ q.op = thread[t].op /\ q.case_id = thread[t].case_id
      /\ q.incident = thread[t].incident /\ q.proposals = thread[t].proposals
      /\ q.assessed = thread[t].assessed
  BY QueuedFields
<1>2. thread' = [thread EXCEPT ![t] = q]
  BY DEF Queue
<1>3. ThreadOK(thread[t])
  BY DEF ThreadsOK
<1>4. ThreadsOK' /\ Others(t) /\ thread'[t] = q
  <2> HIDE DEF q
  <2>1. (q.incident = None \/ IncidentOK(q.incident)) /\ q.proposals \subseteq Proposals
        /\ q.assessed \in [Proposals -> Outcomes]
    BY <1>1, <1>3 DEF ThreadOK
  <2>2. "append" \in Working /\ "append" \notin Asking /\ "append" \in Places
        /\ "append" \notin Empty
    BY DEF Working, Middle, Asking, Places, Locked, Empty
  <2>3. ThreadOK(q)
    BY <1>1, <1>3, <2>1, <2>2 DEF ThreadOK
  <2> QED
    BY <1>2, <2>3, Becomes
<1> QED
  BY <1>1, <1>4

\* One event, or two.
LEMMA QueuesOne ==
    ASSUME ThreadsOK, NEW t \in Threads, NEW call, NEW next \in Middle,
           thread[t].case_id \in CaseIds,
           CallOK(call), call.case_id = thread[t].case_id, Queue(t, <<call>>, next)
    PROVE  /\ ThreadsOK' /\ Others(t)
           /\ thread'[t].pc = "append" /\ thread'[t].pending = <<call>>
           /\ thread'[t].next = next /\ thread'[t].case_id = thread[t].case_id
           /\ thread'[t].op = thread[t].op
           /\ thread'[t].incident = thread[t].incident
<1> DEFINE calls == <<call>>
<1>1. /\ IsSeq(calls) /\ calls # <<>>
      /\ \A i \in DOMAIN calls : CallOK(calls[i]) /\ calls[i].case_id = thread[t].case_id
  BY ShortSeqs
<1>2. Queue(t, calls, next)
  OBVIOUS
<1> HIDE DEF calls
<1>3. /\ ThreadsOK' /\ Others(t)
      /\ thread'[t].pc = "append" /\ thread'[t].pending = calls
      /\ thread'[t].next = next /\ thread'[t].case_id = thread[t].case_id
      /\ thread'[t].op = thread[t].op
      /\ thread'[t].incident = thread[t].incident
  BY <1>1, <1>2, Queues
<1> QED
  BY <1>3 DEF calls

\* A thread that queues two events is at the first of its appends.
LEMMA QueuesTwo ==
    ASSUME ThreadsOK, NEW t \in Threads, NEW call, NEW second, NEW next \in Middle,
           thread[t].case_id \in CaseIds,
           CallOK(call), call.case_id = thread[t].case_id,
           CallOK(second), second.case_id = thread[t].case_id, Queue(t, <<call, second>>, next)
    PROVE  /\ ThreadsOK' /\ Others(t)
           /\ thread'[t].pc = "append" /\ thread'[t].pending = <<call, second>>
           /\ thread'[t].next = next /\ thread'[t].case_id = thread[t].case_id
           /\ thread'[t].op = thread[t].op
           /\ thread'[t].incident = thread[t].incident
<1> DEFINE calls == <<call, second>>
<1>1. /\ IsSeq(calls) /\ calls # <<>>
      /\ \A i \in DOMAIN calls : CallOK(calls[i]) /\ calls[i].case_id = thread[t].case_id
  BY ShortSeqs
<1>2. Queue(t, calls, next)
  OBVIOUS
<1> HIDE DEF calls
<1>3. /\ ThreadsOK' /\ Others(t)
      /\ thread'[t].pc = "append" /\ thread'[t].pending = calls
      /\ thread'[t].next = next /\ thread'[t].case_id = thread[t].case_id
      /\ thread'[t].op = thread[t].op
      /\ thread'[t].incident = thread[t].incident
  BY <1>1, <1>2, Queues
<1> QED
  BY <1>3 DEF calls

\* An event of the thread's case other than those whose payload matters.
LEMMA PlainCall ==
    ASSUME NEW t \in Threads, thread[t].case_id \in CaseIds,
           NEW type \in CaseEvents \ {"SCHEMA_CHANGE_DETECTED"}, NEW payload,
           PayloadOK(type, payload)
    PROVE  CallOK(Call(t, type, payload)) /\ Call(t, type, payload).case_id = thread[t].case_id
  BY DEF CallOK, Call, CaseOf, ProgressCall

-------------------------------------------------------------------------------
(***************************************************************************)
(* Steps of a thread at work on its case: they leave the log and the lock  *)
(* alone, and only the closing call touches an incident that is there.     *)
(***************************************************************************)
IncidentsMove(t) ==
    \/ incidents' = incidents
    \/ incidents' = Append(incidents, [case_id |-> thread[t].case_id, status |-> "ACTIVE"])
    \/ /\ thread[t].pc = "resolve" /\ thread[t].incident # None /\ thread[t].incident.urn # 0
       /\ incidents' = [incidents EXCEPT ![thread[t].incident.urn].status = "RESOLVED"]

Works(t) ==
    /\ ThreadsOK' /\ Others(t) /\ RemoteOK'
    /\ thread[t].pc \in Working /\ thread'[t].pc \in Working \ {"begin"}
    /\ thread'[t].case_id = thread[t].case_id
    /\ thread'[t].pc # "final_evidence"
    /\ thread'[t].pc = "append" => thread'[t].next \notin {"final_evidence", "resolve"}
    /\ thread'[t].pc = "resolve" =>
          thread[t].pc = "final_evidence" /\ thread'[t].incident = thread[t].incident
    /\ IncidentsMove(t)
    /\ UNCHANGED <<log, lock, active, settled, unacked>>

\* Remote calls keep their types.
LEMMA RemoteCalls ==
    ASSUME RemoteOK, NEW c \in CaseIds
    PROVE  /\ UNCHANGED incidents =>
                 IsSeq(incidents') /\ \A n \in DOMAIN incidents' : incidents'[n] \in RemoteIncident
           /\ \A applied : RaiseIncident(c, applied) =>
                 /\ IsSeq(incidents') /\ \A n \in DOMAIN incidents' : incidents'[n] \in RemoteIncident
                 /\ \/ incidents' = incidents
                    \/ incidents' = Append(incidents, [case_id |-> c, status |-> "ACTIVE"])
           /\ \A d \in {"SAFE_REPAIR_VALIDATED", "AUTO_REPAIR_REFUSED", "RECOVERED"} : \A applied :
                 WriteDocument(c, d, applied) =>
                    documents' \in [CaseIds -> SUBSET {"SAFE_REPAIR_VALIDATED",
                                        "AUTO_REPAIR_REFUSED", "RECOVERED"}]
<1>1. UNCHANGED incidents =>
         IsSeq(incidents') /\ \A n \in DOMAIN incidents' : incidents'[n] \in RemoteIncident
  BY DEF RemoteOK
<1>2. ASSUME NEW applied, RaiseIncident(c, applied)
      PROVE  /\ IsSeq(incidents') /\ \A n \in DOMAIN incidents' : incidents'[n] \in RemoteIncident
             /\ \/ incidents' = incidents
                \/ incidents' = Append(incidents, [case_id |-> c, status |-> "ACTIVE"])
  <2>1. CASE incidents' = incidents
    BY <2>1 DEF RemoteOK
  <2>2. CASE incidents' = Append(incidents, [case_id |-> c, status |-> "ACTIVE"])
    <3> DEFINE new == [case_id |-> c, status |-> "ACTIVE"]
    <3>1. new \in RemoteIncident
      BY DEF RemoteIncident
    <3>2. IsSeq(incidents) /\ \A n \in DOMAIN incidents : incidents[n] \in RemoteIncident
      BY DEF RemoteOK
    <3> HIDE DEF new
    <3>3. /\ IsSeq(Append(incidents, new))
          /\ \A n \in DOMAIN Append(incidents, new) : Append(incidents, new)[n] \in RemoteIncident
      BY <3>1, <3>2, Appended
    <3> QED
      BY <3>3, <2>2 DEF new
  <2> QED
    BY <1>2, <2>1, <2>2 DEF RaiseIncident
<1>3. ASSUME NEW d \in {"SAFE_REPAIR_VALIDATED", "AUTO_REPAIR_REFUSED", "RECOVERED"},
             NEW applied, WriteDocument(c, d, applied)
      PROVE  documents' \in [CaseIds -> SUBSET {"SAFE_REPAIR_VALIDATED",
                                "AUTO_REPAIR_REFUSED", "RECOVERED"}]
  BY <1>3 DEF WriteDocument, RemoteOK
<1> QED
  BY <1>1, <1>2, <1>3

\* Where a thread is that takes such a step.
LEMMA AtWork ==
    ASSUME Typed, NEW t \in Threads, thread[t].pc \in Working
    PROVE  ThreadsOK /\ RemoteOK /\ ThreadOK(thread[t]) /\ thread[t].case_id \in CaseIds
  BY DEF Typed, ThreadsOK, ThreadOK

\* An answer of DataHub or GitHub.
LEMMA AnswerStatus ==
    /\ \A a \in DataHubAnswers : a[1] \in Status
    /\ \A a \in GitHubAnswers : a[1] \in Status
<1>1. ASSUME NEW configured, NEW otherwise \in Status, NEW a \in Answers(configured, otherwise)
      PROVE  a[1] \in Status
  <2>1. CASE configured
    <3>1. a \in {<<"SUCCEEDED", TRUE>>, <<"FAILED", TRUE>>, <<"FAILED", FALSE>>}
      BY <2>1 DEF Answers
    <3>2. a[1] \in {"SUCCEEDED", "FAILED"}
      <4>1. CASE a = <<"SUCCEEDED", TRUE>>
        BY <4>1
      <4>2. CASE a = <<"FAILED", TRUE>>
        BY <4>2
      <4>3. CASE a = <<"FAILED", FALSE>>
        BY <4>3
      <4> QED
        BY <3>1, <4>1, <4>2, <4>3
    <3> QED
      BY <3>2 DEF Status
  <2>2. CASE ~configured
    <3>1. a = <<otherwise, FALSE>>
      BY <2>2 DEF Answers
    <3> QED
      BY <3>1
  <2> QED
    BY <2>1, <2>2
<1>2. "NOT_CONFIGURED" \in Status /\ "NOT_RUN" \in Status
  BY DEF Status
<1> QED
  BY <1>1, <1>2 DEF DataHubAnswers, GitHubAnswers

\* Most such steps: the thread goes on, or queues events, and no incident that is
\* there changes.
Elsewhere == Middle \ {"final_evidence", "resolve"}
MovesOn(t) ==
    \/ \E pc \in Elsewhere : Goto(t, pc)
    \/ \E next \in Elsewhere : \E call : CallOK(call) /\ call.case_id = thread[t].case_id
                                         /\ Queue(t, <<call>>, next)
    \/ \E next \in Elsewhere : \E call, second :
          /\ CallOK(call) /\ call.case_id = thread[t].case_id
          /\ CallOK(second) /\ second.case_id = thread[t].case_id
          /\ Queue(t, <<call, second>>, next)

\* A thread that moves on and leaves all but DataHub alone works.
LEMMA MovingOnWorks ==
    ASSUME Typed, NEW t \in Threads, thread[t].pc \in Working, MovesOn(t),
           RemoteOK', IncidentsMove(t), UNCHANGED <<log, lock, active, settled, unacked>>
    PROVE  Works(t)
<1>1. ThreadsOK /\ thread[t].case_id \in CaseIds
  BY AtWork
<1>2. Elsewhere \subseteq Middle /\ Elsewhere \subseteq Working \ {"begin"} /\ "append" \in Working
      /\ "append" \notin Elsewhere
      /\ "final_evidence" \notin Elsewhere /\ "resolve" \notin Elsewhere
  BY DEF Elsewhere, Middle, Working
<1>3. /\ ThreadsOK' /\ Others(t) /\ thread'[t].case_id = thread[t].case_id
      /\ \/ thread'[t].pc \in Elsewhere
         \/ thread'[t].pc = "append" /\ thread'[t].next \in Elsewhere
  <2>1. CASE \E pc \in Elsewhere : Goto(t, pc)
    BY <1>1, <1>2, <2>1, GoesOn
  <2>2. CASE \E next \in Elsewhere : \E call :
                CallOK(call) /\ call.case_id = thread[t].case_id /\ Queue(t, <<call>>, next)
    <3> PICK next \in Elsewhere : \E call :
                CallOK(call) /\ call.case_id = thread[t].case_id /\ Queue(t, <<call>>, next)
      BY <2>2
    <3> PICK call :
                CallOK(call) /\ call.case_id = thread[t].case_id /\ Queue(t, <<call>>, next)
      OBVIOUS
    <3> QED
      BY <1>1, <1>2, QueuesOne
  <2>3. CASE \E next \in Elsewhere : \E call, second :
                /\ CallOK(call) /\ call.case_id = thread[t].case_id
                /\ CallOK(second) /\ second.case_id = thread[t].case_id
                /\ Queue(t, <<call, second>>, next)
    <3> PICK next \in Elsewhere : \E call, second :
                /\ CallOK(call) /\ call.case_id = thread[t].case_id
                /\ CallOK(second) /\ second.case_id = thread[t].case_id
                /\ Queue(t, <<call, second>>, next)
      BY <2>3
    <3> PICK call, second :
                /\ CallOK(call) /\ call.case_id = thread[t].case_id
                /\ CallOK(second) /\ second.case_id = thread[t].case_id
                /\ Queue(t, <<call, second>>, next)
      OBVIOUS
    <3> QED
      BY <1>1, <1>2, QueuesTwo
  <2> QED
    BY <2>1, <2>2, <2>3 DEF MovesOn
<1> QED
  BY <1>2, <1>3 DEF Works

\* Steps of _advance that leave the remote systems alone.
LEMMA LocalWorks ==
    ASSUME Typed, NEW t \in Threads, thread[t].pc \in Working, MovesOn(t),
           UNCHANGED remote, StepOnly
    PROVE  Works(t)
<1>1. RemoteOK' /\ IncidentsMove(t) /\ UNCHANGED <<log, lock, active, settled, unacked>>
  BY AtWork DEF RemoteOK, IncidentsMove, remote, StepOnly, process
<1> QED
  BY <1>1, MovingOnWorks

\* Which calls are well typed whatever their payload.
PlainTypes == CaseEvents \ {"SCHEMA_CHANGE_DETECTED", "INCIDENT_RAISED", "CANDIDATES_READY",
                            "CANDIDATE_ASSESSED"}
\* An event whose payload nothing is read of is a typed call.
LEMMA PlainCalls ==
    ASSUME NEW t \in Threads, thread[t].case_id \in CaseIds, NEW type \in PlainTypes, NEW payload
    PROVE  CallOK(Call(t, type, payload)) /\ Call(t, type, payload).case_id = thread[t].case_id
  BY PlainCall DEF PlainTypes, PayloadOK

\* The kinds of event whose payload nothing is read of.
LEMMA PlainTypesAre ==
    {"CONTEXT_GATHERED", "VALIDATION_STARTED", "PATCH_READY", "EVIDENCE_WRITTEN",
     "PR_ATTEMPTED", "PR_OPENED", "DEPLOYMENT_RECORDED", "POST_DEPLOY_VERIFIED",
     "INCIDENT_RESOLVED", "CONTAINED", "FAILED"} \subseteq PlainTypes
  BY DEF PlainTypes, CaseEvents, EventState

\* The stage that raises the incident keeps the types.
LEMMA IncidentWorks ==
    ASSUME Typed, NEW t \in Threads, Incident(t)
    PROVE  Works(t)
<1> DEFINE failed == Call(t, "FAILED", [reason |-> "incident"])
           c == thread[t].case_id
<1>1. thread[t].pc = "incident" /\ thread[t].pc \in Working
  BY DEF Incident, At_, At, Working, Middle
<1>2. ThreadsOK /\ RemoteOK /\ ThreadOK(thread[t]) /\ c \in CaseIds
  BY <1>1, AtWork
<1>3. CallOK(failed) /\ failed.case_id = c
  BY <1>2, PlainCalls, PlainTypesAre
<1>4. UNCHANGED <<documents, drafts, log, lock, active, settled, unacked>>
  BY DEF Incident, StepOnly, process
<1>5. {"finish", "context"} \subseteq Elsewhere
  BY DEF Elsewhere, Middle
<1> HIDE DEF failed
<1>6. CASE /\ UNCHANGED incidents
           /\ Goto(t, "finish") \/ Goto(t, "context") \/ Queue(t, <<failed>>, "finish")
  <2>1. MovesOn(t)
    BY <1>3, <1>5, <1>6 DEF MovesOn
  <2>2. RemoteOK' /\ IncidentsMove(t)
    BY <1>2, <1>4, <1>6 DEF RemoteOK, IncidentsMove
  <2> QED
    BY <1>1, <1>4, <2>1, <2>2, MovingOnWorks
<1>7. CASE \E a \in DataHubAnswers :
              LET urn == IF a[1] = "SUCCEEDED" THEN Len(incidents) + 1 ELSE 0
                  raised == Call(t, "INCIDENT_RAISED", [status |-> a[1], urn |-> urn])
              IN  /\ RaiseIncident(CaseOf(t), a[2])
                  /\ IF Ready(a[1])
                     THEN Queue(t, <<raised>>, "context")
                     ELSE Queue(t, <<raised, failed>>, "finish")
  <2> PICK a \in DataHubAnswers :
              LET urn == IF a[1] = "SUCCEEDED" THEN Len(incidents) + 1 ELSE 0
                  raised == Call(t, "INCIDENT_RAISED", [status |-> a[1], urn |-> urn])
              IN  /\ RaiseIncident(CaseOf(t), a[2])
                  /\ IF Ready(a[1])
                     THEN Queue(t, <<raised>>, "context")
                     ELSE Queue(t, <<raised, failed>>, "finish")
    BY <1>7
  <2> DEFINE urn == IF a[1] = "SUCCEEDED" THEN Len(incidents) + 1 ELSE 0
             payload == [status |-> a[1], urn |-> urn]
             raised == Call(t, "INCIDENT_RAISED", payload)
  <2>1. urn \in Nat /\ (urn # 0 => a[1] = "SUCCEEDED")
    BY <1>2, Appended DEF RemoteOK
  <2>2. IncidentOK(payload)
    BY <2>1, AnswerStatus DEF IncidentOK, Incidents
  <2>3. CallOK(raised) /\ raised.case_id = c
    <3>1. /\ "INCIDENT_RAISED" \in CaseEvents \ {"SCHEMA_CHANGE_DETECTED"}
          /\ PayloadOK("INCIDENT_RAISED", payload)
      BY <2>2 DEF CaseEvents, EventState, PayloadOK
    <3> HIDE DEF payload
    <3> QED
      BY <3>1, <1>2, PlainCall
  <2>4. RaiseIncident(c, a[2])
    BY DEF CaseOf
  <2>5. Queue(t, <<raised>>, "context") \/ Queue(t, <<raised, failed>>, "finish")
    OBVIOUS
  <2> HIDE DEF raised, payload, urn
  <2>6. MovesOn(t)
    BY <1>3, <1>5, <2>3, <2>5 DEF MovesOn
  <2>7. RemoteOK' /\ IncidentsMove(t)
    BY <1>2, <1>4, <2>4, RemoteCalls DEF RemoteOK, IncidentsMove
  <2> QED
    BY <1>1, <1>4, <2>6, <2>7, MovingOnWorks
<1> QED
  BY <1>6, <1>7 DEF Incident, failed

\* The stages from the context to the choice of a patch.
LEMMA StagesWork ==
    ASSUME Typed, NEW t \in Threads,
           Context(t) \/ Validate(t) \/ AllAssessed(t) \/ Select(t) \/ Handler(t)
    PROVE  Works(t)
<1>1. thread[t].pc \in Working
  BY DEF Context, Validate, AllAssessed, Select, Handler, At_, At, Working, Middle
<1>2. thread[t].case_id \in CaseIds
  BY <1>1, AtWork
<1>3. /\ \A payload : LET call == Call(t, "CONTEXT_GATHERED", payload)
                      IN  CallOK(call) /\ call.case_id = thread[t].case_id
      /\ \A payload : LET call == Call(t, "VALIDATION_STARTED", payload)
                      IN  CallOK(call) /\ call.case_id = thread[t].case_id
      /\ \A payload : LET call == Call(t, "PATCH_READY", payload)
                      IN  CallOK(call) /\ call.case_id = thread[t].case_id
      /\ \A payload : LET call == Call(t, "FAILED", payload)
                      IN  CallOK(call) /\ call.case_id = thread[t].case_id
  BY <1>2, PlainCalls, PlainTypesAre
<1>4. {"candidates", "contain", "load", "select", "evidence", "finish"} \subseteq Elsewhere
  BY DEF Elsewhere, Middle
<1>5. UNCHANGED remote /\ StepOnly
  BY DEF Context, Validate, AllAssessed, Select, Handler
<1>6. MovesOn(t)
  <2>1. CASE Context(t)
    BY <2>1, <1>3, <1>4 DEF Context, MovesOn
  <2>2. CASE Validate(t)
    BY <2>2, <1>3, <1>4 DEF Validate, MovesOn
  <2>3. CASE AllAssessed(t)
    BY <2>3, <1>4 DEF AllAssessed, MovesOn
  <2>4. CASE Select(t)
    BY <2>4, <1>3, <1>4 DEF Select, MovesOn
  <2>5. CASE Handler(t)
    BY <2>5, <1>3, <1>4 DEF Handler, MovesOn
  <2> QED
    BY <2>1, <2>2, <2>3, <2>4, <2>5
<1> QED
  BY <1>1, <1>5, <1>6, LocalWorks

\* The stages that also note what they found in the thread's own variables.
LEMMA NotingWorks ==
    ASSUME Typed, NEW t \in Threads, thread[t].pc \in Working, NEW r,
           ThreadOK(r), thread' = [thread EXCEPT ![t] = r],
           r.pc \in Elsewhere \/ (r.pc = "append" /\ r.next \in Elsewhere),
           r.case_id = thread[t].case_id, UNCHANGED remote, StepOnly
    PROVE  Works(t)
<1>1. ThreadsOK' /\ thread'[t] = r /\ Others(t)
  BY Becomes DEF Typed
<1>2. RemoteOK' /\ IncidentsMove(t) /\ UNCHANGED <<log, lock, active, settled, unacked>>
  BY AtWork DEF RemoteOK, IncidentsMove, remote, StepOnly, process
<1>3. Elsewhere \subseteq Working \ {"begin", "append", "final_evidence", "resolve"}
      /\ "append" \in Working
  BY DEF Elsewhere, Middle, Working
<1> QED
  BY <1>1, <1>2, <1>3 DEF Works

\* A record that differs from a thread's in these four fields.
LEMMA NotedOK ==
    ASSUME NEW r, ThreadOK(r), r.case_id \in CaseIds, NEW s, IsThread(s),
           s.op = r.op, s.event = r.event, s.case_id = r.case_id, s.incident = r.incident,
           s.proposals \subseteq Proposals, s.assessed \in [Proposals -> Outcomes],
           \/ s.pc \in Elsewhere /\ s.pending = r.pending
           \/ /\ s.pc = "append" /\ s.next \in Elsewhere
              /\ IsSeq(s.pending) /\ s.pending # <<>>
              /\ \A i \in DOMAIN s.pending : CallOK(s.pending[i]) /\ s.pending[i].case_id = r.case_id
    PROVE  ThreadOK(s)
<1>1. /\ Elsewhere \subseteq Middle /\ Middle \subseteq Working \ {"append"}
      /\ Working \subseteq Places /\ "append" \in Working
      /\ "lock" \notin Working /\ Working \cap Asking \subseteq {"begin"}
      /\ "begin" \notin Elsewhere /\ "begin" # "append"
      /\ Elsewhere \cap Empty = {} /\ "append" \notin Empty
  BY DEF Elsewhere, Middle, Working, Places, Locked, Asking, Empty
<1> QED
  BY <1>1 DEF ThreadOK

\* The stage that asks for candidates keeps the types.
LEMMA CandidatesWorks ==
    ASSUME Typed, NEW t \in Threads, Candidates(t)
    PROVE  Works(t)
<1> DEFINE c == thread[t].case_id
           failed == Call(t, "FAILED", [reason |-> "generation"])
<1>1. thread[t].pc \in Working
  BY DEF Candidates, At_, At, Working, Middle
<1>2. ThreadsOK /\ ThreadOK(thread[t]) /\ c \in CaseIds
  BY <1>1, AtWork
<1>3. UNCHANGED remote /\ StepOnly
  BY DEF Candidates
<1>4. {"validate", "finish", "contain"} \subseteq Elsewhere
  BY DEF Elsewhere, Middle
<1>5. CallOK(failed) /\ failed.case_id = c
  BY <1>2, PlainCalls, PlainTypesAre
<1> HIDE DEF failed
<1>6. CASE Queue(t, <<failed>>, "finish") \/ Goto(t, "contain")
  <2>1. MovesOn(t)
    BY <1>4, <1>5, <1>6 DEF MovesOn
  <2> QED
    BY <1>1, <1>3, <2>1, LocalWorks
<1>7. CASE thread' = [thread EXCEPT ![t].pc = "validate",
                                    ![t].proposals = Project(CaseOf(t)).proposals]
  <2> DEFINE known == Project(CaseOf(t)).proposals
             r == [thread[t] EXCEPT !.pc = "validate", !.proposals = known]
  <2>1. known \subseteq Proposals
    BY ProjectionOK
  <2>2. thread' = [thread EXCEPT ![t] = r]
    BY <1>7
  <2> HIDE DEF known
  <2>3. /\ IsThread(r) /\ r.pc = "validate" /\ r.op = thread[t].op /\ r.event = thread[t].event
        /\ r.case_id = c /\ r.incident = thread[t].incident /\ r.proposals = known
        /\ r.assessed = thread[t].assessed /\ r.pending = thread[t].pending
    <3>1. IsThread(thread[t]) /\ r = [thread[t] EXCEPT !.pc = "validate", !.proposals = known]
      BY <1>2 DEF ThreadOK
    <3> HIDE DEF r
    <3>2. /\ r.pc = "validate" /\ r.op = thread[t].op /\ r.event = thread[t].event
          /\ r.case_id = c /\ r.incident = thread[t].incident /\ r.proposals = known
          /\ r.assessed = thread[t].assessed /\ r.pending = thread[t].pending
          /\ r.next = thread[t].next /\ r.attempt = thread[t].attempt
      BY <3>1 DEF IsThread
    <3>3. IsThread(r)
      BY <3>1, <3>2 DEF IsThread
    <3> QED
      BY <3>2, <3>3
  <2>4. thread[t].assessed \in [Proposals -> Outcomes]
    BY <1>2 DEF ThreadOK
  <2> HIDE DEF r
  <2>5. ThreadOK(r)
    BY <1>2, <1>4, <2>1, <2>3, <2>4, NotedOK
  <2> QED
    BY <1>1, <1>3, <1>4, <2>2, <2>3, <2>5, NotingWorks
<1>8. CASE \E found \in SUBSET Proposals :
              thread' = [thread EXCEPT ![t] =
                  [Queued(t, <<Call(t, "CANDIDATES_READY", [proposals |-> found])>>, "validate")
                   EXCEPT !.proposals = found]]
  <2> PICK found \in SUBSET Proposals :
              thread' = [thread EXCEPT ![t] =
                  [Queued(t, <<Call(t, "CANDIDATES_READY", [proposals |-> found])>>, "validate")
                   EXCEPT !.proposals = found]]
    BY <1>8
  <2> DEFINE payload == [proposals |-> found]
             call == Call(t, "CANDIDATES_READY", payload)
             calls == <<call>>
             q == Queued(t, calls, "validate")
             r == [q EXCEPT !.proposals = found]
  <2>1. CallOK(call) /\ call.case_id = c
    <3>1. payload \in [proposals : SUBSET Proposals]
      OBVIOUS
    <3>2. /\ "CANDIDATES_READY" \in CaseEvents \ {"SCHEMA_CHANGE_DETECTED"}
          /\ PayloadOK("CANDIDATES_READY", payload)
      BY <3>1 DEF CaseEvents, EventState, PayloadOK
    <3> HIDE DEF payload
    <3> QED
      BY <3>2, <1>2, PlainCall
  <2>2. thread' = [thread EXCEPT ![t] = r]
    OBVIOUS
  <2> HIDE DEF call
  <2>3. /\ IsSeq(calls) /\ calls # <<>>
        /\ \A i \in DOMAIN calls : CallOK(calls[i]) /\ calls[i].case_id = c
    BY <2>1, ShortSeqs
  <2> HIDE DEF calls
  <2>4. /\ IsThread(q) /\ q.pc = "append" /\ q.pending = calls /\ q.next = "validate"
        /\ q.op = thread[t].op /\ q.case_id = c
        /\ q.incident = thread[t].incident /\ q.assessed = thread[t].assessed
        /\ q.event = thread[t].event
    BY <1>2, QueuedFields
  <2> HIDE DEF q
  <2>5. /\ IsThread(r) /\ r.pc = "append" /\ r.pending = calls /\ r.next = "validate"
        /\ r.op = thread[t].op /\ r.case_id = c
        /\ r.incident = thread[t].incident /\ r.assessed = thread[t].assessed
        /\ r.event = thread[t].event /\ r.proposals = found
    BY <2>4 DEF IsThread
  <2>6. thread[t].assessed \in [Proposals -> Outcomes]
    BY <1>2 DEF ThreadOK
  <2> HIDE DEF r
  <2>7. ThreadOK(r)
    BY <1>2, <1>4, <2>3, <2>5, <2>6, NotedOK
  <2> QED
    BY <1>1, <1>3, <1>4, <2>2, <2>5, <2>7, NotingWorks
<1> QED
  BY <1>6, <1>7, <1>8 DEF Candidates, failed

\* The stage that loads the recorded verdicts keeps the types.
LEMMA LoadWorks ==
    ASSUME Typed, NEW t \in Threads, Load(t)
    PROVE  Works(t)
<1> DEFINE found == Project(CaseOf(t)).assessed
           r == [thread[t] EXCEPT !.pc = "assess", !.assessed = found]
<1>1. thread[t].pc \in Working
  BY DEF Load, At_, At, Working, Middle
<1>2. ThreadsOK /\ ThreadOK(thread[t]) /\ thread[t].case_id \in CaseIds
  BY <1>1, AtWork
<1>3. UNCHANGED remote /\ StepOnly /\ thread' = [thread EXCEPT ![t] = r]
  BY DEF Load
<1>4. "assess" \in Elsewhere
  BY DEF Elsewhere, Middle
<1>5. found \in [Proposals -> Outcomes]
  BY ProjectionOK
<1> HIDE DEF found
<1>6. /\ IsThread(r) /\ r.pc = "assess" /\ r.op = thread[t].op /\ r.event = thread[t].event
      /\ r.case_id = thread[t].case_id /\ r.incident = thread[t].incident /\ r.assessed = found
      /\ r.proposals = thread[t].proposals /\ r.pending = thread[t].pending
  <2>1. IsThread(thread[t]) /\ r = [thread[t] EXCEPT !.pc = "assess", !.assessed = found]
    BY <1>2 DEF ThreadOK
  <2> HIDE DEF r
  <2>2. /\ r.pc = "assess" /\ r.op = thread[t].op /\ r.event = thread[t].event
        /\ r.case_id = thread[t].case_id /\ r.incident = thread[t].incident
        /\ r.assessed = found /\ r.proposals = thread[t].proposals
        /\ r.pending = thread[t].pending
        /\ r.next = thread[t].next /\ r.attempt = thread[t].attempt
    BY <2>1 DEF IsThread
  <2>3. IsThread(r)
    BY <2>1, <2>2 DEF IsThread
  <2> QED
    BY <2>2, <2>3
<1>7. thread[t].proposals \subseteq Proposals
  BY <1>2 DEF ThreadOK
<1> HIDE DEF r
<1>8. ThreadOK(r)
  BY <1>2, <1>4, <1>5, <1>6, <1>7, NotedOK
<1> QED
  BY <1>1, <1>3, <1>4, <1>6, <1>8, NotingWorks

\* The stage that assesses a candidate keeps the types.
LEMMA AssessWorks ==
    ASSUME Typed, NEW t \in Threads, Assess(t)
    PROVE  Works(t)
<1>1. thread[t].pc \in Working
  BY DEF Assess, At, Working, Middle
<1>2. ThreadsOK /\ ThreadOK(thread[t]) /\ thread[t].case_id \in CaseIds
  BY <1>1, AtWork
<1>3. UNCHANGED remote /\ StepOnly
  BY DEF Assess
<1> PICK p \in thread[t].proposals, outcome \in {"ELIGIBLE", "REJECTED"} :
        thread' = [thread EXCEPT ![t] =
            [Queued(t, <<Call(t, "CANDIDATE_ASSESSED", [id |-> p, outcome |-> outcome])>>,
                    "assess") EXCEPT !.assessed[p] = outcome]]
  BY DEF Assess
<1> DEFINE c == thread[t].case_id
           payload == [id |-> p, outcome |-> outcome]
           call == Call(t, "CANDIDATE_ASSESSED", payload)
           calls == <<call>>
           q == Queued(t, calls, "assess")
           r == [q EXCEPT !.assessed[p] = outcome]
<1>4. "assess" \in Elsewhere
  BY DEF Elsewhere, Middle
<1>5. p \in Proposals /\ outcome \in Outcomes /\ thread[t].assessed \in [Proposals -> Outcomes]
      /\ thread[t].proposals \subseteq Proposals
  BY <1>2 DEF ThreadOK, Outcomes
<1>6. CallOK(call) /\ call.case_id = c
  <2>1. payload \in [id : Proposals, outcome : Outcomes]
    BY <1>5
  <2>2. /\ "CANDIDATE_ASSESSED" \in CaseEvents \ {"SCHEMA_CHANGE_DETECTED"}
        /\ PayloadOK("CANDIDATE_ASSESSED", payload)
    BY <2>1 DEF CaseEvents, EventState, PayloadOK
  <2> HIDE DEF payload
  <2> QED
    BY <2>2, <1>2, PlainCall
<1>7. thread' = [thread EXCEPT ![t] = r]
  OBVIOUS
<1> HIDE DEF call
<1>8. /\ IsSeq(calls) /\ calls # <<>>
      /\ \A i \in DOMAIN calls : CallOK(calls[i]) /\ calls[i].case_id = c
  BY <1>6, ShortSeqs
<1> HIDE DEF calls
<1>9. /\ IsThread(q) /\ q.pc = "append" /\ q.pending = calls /\ q.next = "assess"
      /\ q.op = thread[t].op /\ q.case_id = c /\ q.proposals = thread[t].proposals
      /\ q.incident = thread[t].incident /\ q.assessed = thread[t].assessed
      /\ q.event = thread[t].event
  BY <1>2, QueuedFields
<1> HIDE DEF q
<1>10. /\ IsThread(r) /\ r.pc = "append" /\ r.pending = calls /\ r.next = "assess"
       /\ r.op = thread[t].op /\ r.case_id = c /\ r.proposals = thread[t].proposals
       /\ r.incident = thread[t].incident
       /\ r.assessed = [thread[t].assessed EXCEPT ![p] = outcome]
       /\ r.event = thread[t].event
  BY <1>9 DEF IsThread
<1> HIDE DEF r
<1>11. r.assessed \in [Proposals -> Outcomes]
  BY <1>5, <1>10
<1>12. ThreadOK(r)
  BY <1>2, <1>4, <1>5, <1>8, <1>10, <1>11, NotedOK
<1> QED
  BY <1>1, <1>3, <1>4, <1>7, <1>10, <1>12, NotingWorks

\* The stages that publish: the evidence, the draft and a refusal.
LEMMA PublishingWorks ==
    ASSUME Typed, NEW t \in Threads, Evidence(t) \/ PullRequest(t) \/ Contain(t)
    PROVE  Works(t)
<1>1. thread[t].pc \in Working
  BY DEF Evidence, PullRequest, Contain, At_, At, Working, Middle
<1>2. RemoteOK /\ thread[t].case_id \in CaseIds
  BY <1>1, AtWork
<1>3. /\ \A payload : LET call == Call(t, "EVIDENCE_WRITTEN", payload)
                      IN  CallOK(call) /\ call.case_id = thread[t].case_id
      /\ \A payload : LET call == Call(t, "FAILED", payload)
                      IN  CallOK(call) /\ call.case_id = thread[t].case_id
      /\ \A payload : LET call == Call(t, "PR_OPENED", payload)
                      IN  CallOK(call) /\ call.case_id = thread[t].case_id
      /\ \A payload : LET call == Call(t, "PR_ATTEMPTED", payload)
                      IN  CallOK(call) /\ call.case_id = thread[t].case_id
      /\ \A payload : LET call == Call(t, "CONTAINED", payload)
                      IN  CallOK(call) /\ call.case_id = thread[t].case_id
  BY <1>2, PlainCalls, PlainTypesAre
<1>4. {"pull_request", "finish"} \subseteq Elsewhere
  BY DEF Elsewhere, Middle
<1>5. CASE Evidence(t)
  <2>1. UNCHANGED <<incidents, drafts>> /\ StepOnly
    BY <1>5 DEF Evidence
  <2>2. \/ UNCHANGED documents
        \/ \E a \in DataHubAnswers : WriteDocument(thread[t].case_id, "SAFE_REPAIR_VALIDATED", a[2])
    BY <1>5 DEF Evidence, CaseOf
  <2>3. MovesOn(t)
    <3> DEFINE failed == Call(t, "FAILED", [reason |-> "evidence"])
    <3>1. \/ Goto(t, "pull_request") \/ Queue(t, <<failed>>, "finish")
          \/ \E a \in DataHubAnswers :
                LET row == Call(t, "EVIDENCE_WRITTEN", [status |-> a[1]]) IN
                Queue(t, <<row>>, "pull_request") \/ Queue(t, <<row, failed>>, "finish")
      BY <1>5 DEF Evidence
    <3>2. CallOK(failed) /\ failed.case_id = thread[t].case_id
      BY <1>3
    <3> HIDE DEF failed
    <3> QED
      BY <3>1, <3>2, <1>3, <1>4 DEF MovesOn
  <2>4. RemoteOK' /\ IncidentsMove(t) /\ UNCHANGED <<log, lock, active, settled, unacked>>
    BY <2>1, <2>2, <1>2, RemoteCalls DEF RemoteOK, IncidentsMove, StepOnly, process
  <2> QED
    BY <1>1, <2>3, <2>4, MovingOnWorks
<1>6. CASE PullRequest(t)
  <2>1. UNCHANGED <<incidents, documents>> /\ StepOnly /\ drafts' \subseteq drafts \cup {thread[t].case_id}
    BY <1>6 DEF PullRequest, CaseOf
  <2>2. MovesOn(t)
    <3>1. \/ Goto(t, "finish")
          \/ \E payload : \/ Queue(t, <<Call(t, "PR_OPENED", payload)>>, "finish")
                          \/ Queue(t, <<Call(t, "PR_ATTEMPTED", payload)>>, "finish")
      BY <1>6 DEF PullRequest
    <3> QED
      BY <3>1, <1>3, <1>4 DEF MovesOn
  <2>3. RemoteOK' /\ IncidentsMove(t) /\ UNCHANGED <<log, lock, active, settled, unacked>>
    BY <2>1, <1>2 DEF RemoteOK, IncidentsMove, StepOnly, process
  <2> QED
    BY <1>1, <2>2, <2>3, MovingOnWorks
<1>7. CASE Contain(t)
  <2>1. UNCHANGED <<incidents, drafts>> /\ StepOnly
    BY <1>7 DEF Contain
  <2>2. PICK a \in DataHubAnswers :
           /\ WriteDocument(thread[t].case_id, "AUTO_REPAIR_REFUSED", a[2])
           /\ Queue(t, <<Call(t, "CONTAINED", [status |-> a[1]])>>, "finish")
    BY <1>7 DEF Contain, CaseOf
  <2>3. MovesOn(t)
    BY <2>2, <1>3, <1>4 DEF MovesOn
  <2>4. RemoteOK' /\ IncidentsMove(t) /\ UNCHANGED <<log, lock, active, settled, unacked>>
    BY <2>1, <2>2, <1>2, RemoteCalls DEF RemoteOK, IncidentsMove, StepOnly, process
  <2> QED
    BY <1>1, <2>3, <2>4, MovingOnWorks
<1> QED
  BY <1>5, <1>6, <1>7

\* The end of a verification: the report, then the incident.
LEMMA ClosingWorks ==
    ASSUME Typed, NEW t \in Threads, FinalEvidence(t) \/ Resolve(t)
    PROVE  Works(t)
<1>1. thread[t].pc \in Working
  BY DEF FinalEvidence, Resolve, At, Working, Middle
<1>2. ThreadsOK /\ RemoteOK /\ ThreadOK(thread[t]) /\ thread[t].case_id \in CaseIds
  BY <1>1, AtWork
<1>3. /\ \A payload : LET call == Call(t, "INCIDENT_RESOLVED", payload)
                      IN  CallOK(call) /\ call.case_id = thread[t].case_id
      /\ \A payload : LET call == Call(t, "FAILED", payload)
                      IN  CallOK(call) /\ call.case_id = thread[t].case_id
  BY <1>2, PlainCalls, PlainTypesAre
<1>4. "finish" \in Elsewhere /\ "resolve" \in Middle /\ "resolve" \in Working \ {"begin", "append"}
  BY DEF Elsewhere, Middle, Working
<1>5. CASE FinalEvidence(t)
  <2>1. UNCHANGED <<incidents, drafts>> /\ StepOnly /\ thread[t].pc = "final_evidence"
    BY <1>5 DEF FinalEvidence, At
  <2>2. \E a : WriteDocument(thread[t].case_id, "RECOVERED", a)
    BY <1>5 DEF FinalEvidence, CaseOf
  <2>3. RemoteOK' /\ IncidentsMove(t) /\ UNCHANGED <<log, lock, active, settled, unacked>>
    BY <2>1, <2>2, <1>2, RemoteCalls DEF RemoteOK, IncidentsMove, StepOnly, process
  <2>4. \/ Queue(t, <<Call(t, "FAILED", [reason |-> "final evidence"])>>, "finish")
        \/ Goto(t, "resolve")
    BY <1>5 DEF FinalEvidence
  <2>5. CASE Queue(t, <<Call(t, "FAILED", [reason |-> "final evidence"])>>, "finish")
    <3>1. MovesOn(t)
      BY <2>5, <1>3, <1>4 DEF MovesOn
    <3> QED
      BY <1>1, <2>3, <3>1, MovingOnWorks
  <2>6. CASE Goto(t, "resolve")
    <3>1. /\ ThreadsOK' /\ Others(t) /\ thread'[t].pc = "resolve"
          /\ thread'[t].case_id = thread[t].case_id /\ thread'[t].incident = thread[t].incident
      BY <1>2, <1>4, <2>6, GoesOn
    <3> QED
      BY <3>1, <1>1, <1>4, <2>1, <2>3 DEF Works
  <2> QED
    BY <2>4, <2>5, <2>6
<1>6. CASE Resolve(t)
  <2> DEFINE urn == IF thread[t].incident = None THEN 0 ELSE thread[t].incident.urn
  <2>1. UNCHANGED <<documents, drafts>> /\ StepOnly /\ thread[t].pc = "resolve"
    BY <1>6 DEF Resolve, At
  <2>2. PICK a \in ResolveAnswers(urn) :
           /\ incidents' = IF a[2] THEN [incidents EXCEPT ![urn].status = "RESOLVED"]
                                   ELSE incidents
           /\ \/ Queue(t, <<Call(t, "FAILED", [reason |-> "resolution"])>>, "finish")
              \/ Queue(t, <<Call(t, "INCIDENT_RESOLVED", [status |-> a[1]])>>, "finish")
    BY <1>6 DEF Resolve
  <2>3. MovesOn(t)
    BY <2>2, <1>3, <1>4 DEF MovesOn
  <2>4. a[2] => urn # 0
    <3>1. ASSUME urn = 0 PROVE ~a[2]
      <4>1. a \in IF DataHubConfigured THEN {<<"FAILED", FALSE>>} ELSE {<<"NOT_CONFIGURED", FALSE>>}
        BY <3>1, <2>2 DEF ResolveAnswers, DataHubAnswers, Answers
      <4>2. CASE a = <<"FAILED", FALSE>>
        BY <4>2
      <4>3. CASE a = <<"NOT_CONFIGURED", FALSE>>
        BY <4>3
      <4> QED
        BY <4>1, <4>2, <4>3
    <3> QED
      BY <3>1
  <2>5. IncidentsMove(t)
    <3>1. CASE a[2]
      <4>1. urn # 0
        BY <2>4, <3>1
      <4>2. thread[t].incident # None /\ thread[t].incident.urn # 0
            /\ urn = thread[t].incident.urn
        BY <4>1
      <4>3. incidents' = [incidents EXCEPT ![urn].status = "RESOLVED"]
        BY <2>2, <3>1
      <4> QED
        BY <2>1, <4>2, <4>3 DEF IncidentsMove
    <3>2. CASE ~a[2]
      BY <2>2, <3>2 DEF IncidentsMove
    <3> QED
      BY <3>1, <3>2
  <2>6. IsSeq(incidents') /\ \A n \in DOMAIN incidents' : incidents'[n] \in RemoteIncident
    <3>1. PICK S : incidents \in Seq(S)
      BY <1>2 DEF RemoteOK, IsSeq
    <3>2. incidents \in Seq(RemoteIncident)
      BY <1>2, <3>1 DEF RemoteOK
    <3> HIDE DEF urn
    <3>3. incidents' \in Seq(RemoteIncident)
      <4>1. CASE incidents' = incidents
        BY <4>1, <3>2
      <4>2. CASE incidents' = [incidents EXCEPT ![urn].status = "RESOLVED"]
        <5>1. CASE urn \in DOMAIN incidents
          <6>1. incidents[urn] \in RemoteIncident
            BY <5>1, <3>2
          <6>2. [incidents[urn] EXCEPT !.status = "RESOLVED"] \in RemoteIncident
            BY <6>1 DEF RemoteIncident
          <6> DEFINE closed == [incidents[urn] EXCEPT !.status = "RESOLVED"]
          <6>3. incidents' = [incidents EXCEPT ![urn] = closed]
            BY <4>2
          <6>4. closed \in RemoteIncident
            BY <6>2
          <6> HIDE DEF closed
          <6> QED
            BY <6>3, <6>4, <3>2, <5>1
        <5>2. CASE urn \notin DOMAIN incidents
          <6>1. incidents' = incidents
            BY <4>2, <3>2, <5>2
          <6> QED
            BY <6>1, <3>2
        <5> QED
          BY <5>1, <5>2
      <4> QED
        BY <2>2, <4>1, <4>2
    <3> QED
      BY <3>3 DEF IsSeq
  <2>7. RemoteOK' /\ UNCHANGED <<log, lock, active, settled, unacked>>
    BY <2>1, <2>6, <1>2 DEF RemoteOK, StepOnly, process
  <2> QED
    BY <1>1, <2>3, <2>5, <2>7, MovingOnWorks
<1> QED
  BY <1>5, <1>6

-------------------------------------------------------------------------------
(***************************************************************************)
(* The kinds of step a thread takes.                                       *)
(***************************************************************************)
\* A thread at work goes on working on its case.
Moves(t) ==
    /\ ThreadsOK' /\ Others(t) /\ RemoteOK' /\ ProcessOK'
    /\ thread[t].pc \in Working /\ thread'[t].pc \in Working \ {"begin"}
    /\ thread'[t].case_id = thread[t].case_id
    /\ thread'[t].pc # "final_evidence"
    /\ thread'[t].pc = "append" => thread'[t].next \notin {"final_evidence", "resolve"}
    /\ thread'[t].pc = "resolve" =>
          thread[t].pc = "final_evidence" /\ thread'[t].incident = thread[t].incident
    /\ IncidentsMove(t)
    /\ UNCHANGED <<log, lock>>

\* A request is answered.
Rests(t) ==
    /\ ThreadsOK' /\ Others(t) /\ ProcessOK'
    /\ thread'[t].pc = "idle"
    /\ lock' = [lock EXCEPT ![ProcessOf[t]] = IF @ = t THEN None ELSE @]
    /\ UNCHANGED <<log, remote>>

\* A request looks for its case.
Asks(t) ==
    /\ ThreadsOK' /\ Others(t) /\ ProcessOK'
    /\ \/ thread'[t].pc \in {"lookup", "duplicate", "owned", "lock"}
       \/ /\ thread[t].pc \in {"recheck", "allocate", "detect"}
          /\ \/ thread'[t].pc \in {"allocate", "detect"}
             \/ /\ thread'[t].pc = "begin"
                /\ ActiveRows(log, thread'[t].case_id) # {}
    /\ UNCHANGED <<log, remote, lock>>

\* A request takes the worker lock.
Acquires(t) ==
    /\ ThreadsOK' /\ Others(t) /\ ProcessOK'
    /\ thread'[t].pc \in {"verify", "recheck"}
    /\ lock[ProcessOf[t]] = None /\ lock' = [lock EXCEPT ![ProcessOf[t]] = t]
    /\ UNCHANGED <<log, remote>>

\* A request records its detection.
Detects(t) ==
    /\ ThreadsOK' /\ Others(t) /\ ProcessOK'
    /\ thread[t].pc = "detect" /\ thread'[t].pc = "begin"
    /\ thread'[t].case_id = thread[t].case_id
    /\ \E call : /\ call.event_type = "SCHEMA_CHANGE_DETECTED"
                 /\ call.case_id = thread[t].case_id
                 /\ RowOK(NewRow(log, call))
                 /\ log' = Append(log, NewRow(log, call))
    /\ UNCHANGED <<remote, lock>>

\* A thread at work records its next event.
Appends(t) ==
    /\ ThreadsOK' /\ Others(t) /\ ProcessOK'
    /\ thread[t].pc = "append"
    /\ thread'[t].case_id = thread[t].case_id /\ thread'[t].incident = thread[t].incident
    /\ thread'[t].next = thread[t].next
    /\ thread[t].pending # <<>> /\ thread'[t].pending = Tail(thread[t].pending)
    /\ thread'[t].pc = IF Len(thread[t].pending) = 1 THEN thread[t].next ELSE "append"
    /\ RowOK(NewRow(log, Head(thread[t].pending)))
    /\ log' = Append(log, NewRow(log, Head(thread[t].pending)))
    /\ UNCHANGED <<remote, lock>>

\* The evidence of a deployment is judged.
Judges(t) ==
    /\ ThreadsOK' /\ Others(t) /\ ProcessOK'
    /\ thread[t].pc = "verify" /\ thread'[t].pc = "append"
    /\ thread'[t].case_id = thread[t].case_id
    /\ ActiveRows(log, thread[t].case_id) # {}
    /\ thread'[t].next \in {"contain", "final_evidence"}
    /\ LET incident == thread'[t].incident IN
       thread'[t].next = "final_evidence" /\ incident # None /\ incident.urn # 0 =>
          /\ \E i \in RowsOf(thread[t].case_id, "INCIDENT_RAISED") : log[i].payload = incident
          /\ LET last == thread'[t].pending[Len(thread'[t].pending)] IN
             /\ last.event_type = "POST_DEPLOY_VERIFIED"
             /\ last.payload.mode = "LIVE_RECOMPUTED"
    /\ UNCHANGED <<log, remote, lock>>

Resets ==
    /\ \E p \in Processes : lock[p] = None
    /\ log' = Append(log, ResetRow(log))
    /\ UNCHANGED <<thread, lock, remote>> /\ ProcessOK'

Crashes(p) ==
    /\ thread' = [t \in Threads |-> IF ProcessOf[t] = p THEN IdleThread ELSE thread[t]]
    /\ lock' = [lock EXCEPT ![p] = None]
    /\ ProcessOK' /\ UNCHANGED <<log, remote>>

\* A step of a stage is a move: it keeps the process state typed as well.
LEMMA WorksMoves ==
    ASSUME Typed, NEW t \in Threads, Works(t)
    PROVE  Moves(t)
<1>1. ProcessOK /\ UNCHANGED <<log, lock, active, settled, unacked>>
  BY DEF Typed, Works
<1>2. ProcessOK'
  BY <1>1 DEF ProcessOK
<1> QED
  BY <1>1, <1>2 DEF Works, Moves

\* Every stage of _advance, and of the end of a verification, moves.
LEMMA AdvanceMoves ==
    ASSUME Typed, NEW t \in Threads,
           \/ Incident(t) \/ Context(t) \/ Candidates(t) \/ Validate(t) \/ Load(t)
           \/ Assess(t) \/ AllAssessed(t) \/ Select(t) \/ Evidence(t) \/ PullRequest(t)
           \/ Contain(t) \/ Handler(t) \/ FinalEvidence(t) \/ Resolve(t)
    PROVE  Moves(t)
  BY WorksMoves, IncidentWorks, StagesWork, CandidatesWorks, LoadWorks, AssessWorks,
     PublishingWorks, ClosingWorks

\* The HTTP answer, with or without leaving _advance_safely_locked.
LEMMA RespondRests ==
    ASSUME Typed, NEW t \in Threads, NEW ok, Respond(t, ok), UNCHANGED <<log, remote>>,
           \/ UNCHANGED <<active, settled>>
           \/ thread[t].case_id \in CaseIds /\ \E completed : Release(t, completed)
    PROVE  Rests(t)
<1>1. thread' = [thread EXCEPT ![t] = IdleThread] /\ ThreadsOK
  BY DEF Respond, Typed
<1>2. ThreadsOK' /\ thread'[t] = IdleThread /\ Others(t)
  BY <1>1, IdleOK, Becomes
<1>3. lock' = [lock EXCEPT ![ProcessOf[t]] = IF @ = t THEN None ELSE @]
      /\ unacked' \subseteq unacked
  BY DEF Respond
<1>4. ProcessOK /\ ProcessOf[t] \in Processes
  BY WorkflowConstants DEF Typed
<1>5. lock' \in [Processes -> Threads \cup {None}] /\ unacked' \subseteq Events
  BY <1>3, <1>4 DEF ProcessOK
<1>6. active' \in [Processes -> SUBSET CaseIds] /\ settled' \in [Processes -> SUBSET CaseIds]
  <2>1. CASE UNCHANGED <<active, settled>>
    BY <2>1, <1>4 DEF ProcessOK
  <2>2. CASE thread[t].case_id \in CaseIds /\ \E completed : Release(t, completed)
    <3>1. PICK completed : Release(t, completed)
      BY <2>2
    <3>2. active' = [active EXCEPT ![ProcessOf[t]] = @ \ {thread[t].case_id}]
      BY <3>1 DEF Release, CaseOf
    <3>3. settled' = [settled EXCEPT ![ProcessOf[t]] = @ \cup {thread[t].case_id}]
          \/ settled' = [settled EXCEPT ![ProcessOf[t]] = @]
      BY <3>1 DEF Release, CaseOf
    <3> QED
      BY <2>2, <3>2, <3>3, <1>4 DEF ProcessOK
  <2> QED
    BY <2>1, <2>2
<1> QED
  BY <1>2, <1>3, <1>5, <1>6, IdleOK DEF Rests, ProcessOK

\* What an exception does: the handler is entered, or the request is answered.
LEMMA ExceptionMovesOrRests ==
    ASSUME Typed, NEW t \in Threads, Exception(t)
    PROVE  Moves(t) \/ Rests(t)
<1>1. ThreadsOK /\ ThreadOK(thread[t]) /\ RemoteOK /\ ProcessOK
  BY DEF Typed, ThreadsOK
<1>2. UNCHANGED <<log, remote>>
  BY DEF Exception
<1>3. CASE thread[t].op = "advance" /\ UNCHANGED <<process, unacked>>
           /\ thread' = [thread EXCEPT ![t].pc = "handler", ![t].op = "handler",
                                       ![t].pending = <<>>]
  <2> DEFINE r == [thread[t] EXCEPT !.pc = "handler", !.op = "handler", !.pending = <<>>]
  <2>1. thread' = [thread EXCEPT ![t] = r]
    BY <1>3
  <2>2. IsThread(thread[t]) /\ r = [thread[t] EXCEPT !.pc = "handler", !.op = "handler",
                                                     !.pending = <<>>]
    BY <1>1 DEF ThreadOK
  <2> HIDE DEF r
  <2>3. /\ r.pc = "handler" /\ r.op = "handler" /\ r.event = thread[t].event
        /\ r.case_id = thread[t].case_id /\ r.incident = thread[t].incident
        /\ r.assessed = thread[t].assessed /\ r.proposals = thread[t].proposals
        /\ r.pending = <<>> /\ r.next = thread[t].next /\ r.attempt = thread[t].attempt
    BY <2>2 DEF IsThread
  <2>4. IsThread(r)
    BY <2>2, <2>3 DEF IsThread
  <2>5. thread[t].pc \in Working /\ thread[t].case_id \in CaseIds
    BY <1>1, <1>3 DEF ThreadOK
  <2>6. "handler" \in Working /\ "handler" \notin Empty /\ Working \subseteq Places
        /\ Asking \subseteq Empty
    BY DEF Working, Middle, Asking, Places, Locked, Empty
  <2>7. IsSeq(r.pending) /\ DOMAIN r.pending = {}
    BY <2>3, ShortSeqs
  <2>8. ThreadOK(r)
    BY <1>1, <2>3, <2>4, <2>5, <2>6, <2>7 DEF ThreadOK
  <2>9. ThreadsOK' /\ thread'[t] = r /\ Others(t)
    BY <1>1, <2>1, <2>8, Becomes
  <2>10. RemoteOK' /\ ProcessOK' /\ IncidentsMove(t) /\ UNCHANGED <<log, lock>>
    BY <1>1, <1>2, <1>3 DEF RemoteOK, ProcessOK, IncidentsMove, remote, process
  <2>11. Moves(t)
    BY <2>3, <2>5, <2>6, <2>9, <2>10 DEF Moves
  <2> QED
    BY <2>11
<1>4. CASE thread[t].op = "handler" /\ Respond(t, FALSE) /\ Release(t, FALSE)
  <2>1. thread[t].case_id \in CaseIds
    BY <1>1, <1>4 DEF ThreadOK
  <2> QED
    BY <1>2, <1>4, <2>1, RespondRests
<1>5. CASE Respond(t, FALSE) /\ UNCHANGED <<active, settled>>
  BY <1>2, <1>5, RespondRests
<1> QED
  BY <1>3, <1>4, <1>5 DEF Exception


\* A thread that looks for its case: its record gets a new place, and perhaps a
\* new case, attempt, operation or event.
LEMMA AskingOK ==
    ASSUME ThreadsOK, NEW t \in Threads, thread[t].pc \in Empty,
           NEW s, IsThread(s), thread' = [thread EXCEPT ![t] = s],
           s.incident = thread[t].incident, s.proposals = thread[t].proposals,
           s.assessed = thread[t].assessed, s.pending = thread[t].pending,
           s.case_id \in CaseIds \cup {None},
           \/ s.pc \in {"duplicate", "owned", "detect", "begin", "verify"} /\ s.case_id \in CaseIds
           \/ s.pc \in {"lookup", "lock", "recheck", "allocate"},
           s.op \in {None, "ingest", "verify"},
           s.op = "verify" => s.case_id \in CaseIds,
           s.pc \in Asking \/ (s.pc = "lock" /\ s.op # "verify") => s.event \in Events
    PROVE  ThreadsOK' /\ Others(t) /\ thread'[t] = s
<1>1. {"lookup", "duplicate", "owned", "detect", "begin", "verify", "lock", "recheck",
       "allocate"} \subseteq Places
  BY DEF Places, Locked, Working, Asking
<1>2. /\ {"lookup", "lock", "recheck", "allocate", "duplicate", "owned", "detect", "verify"}
            \cap Working = {}
      /\ "begin" # "append"
  BY DEF Working, Middle
<1>3. IsSeq(<<>>) /\ DOMAIN <<>> = {}
  BY ShortSeqs
<1>4. ThreadOK(thread[t]) /\ thread[t].pending = <<>>
  BY DEF ThreadsOK, ThreadOK
<1>5. s.pc \in Places /\ s.pc # "append"
  BY <1>1
<1>6. s.pc \in Working \cup {"duplicate", "owned", "detect", "verify"} => s.case_id \in CaseIds
  BY <1>2
<1>7. (s.incident = None \/ IncidentOK(s.incident)) /\ s.proposals \subseteq Proposals
      /\ s.assessed \in [Proposals -> Outcomes]
  BY <1>4 DEF ThreadOK
<1>8. ThreadOK(s)
  BY <1>3, <1>4, <1>5, <1>6, <1>7, NoneIsNothingElse DEF ThreadOK
<1> QED
  BY <1>8, Becomes

\* What is known of a thread that has not begun to work.
LEMMA NotAtWork ==
    ASSUME Typed, NEW t \in Threads, thread[t].pc \in Empty, thread[t].pc # "begin"
    PROVE  /\ ThreadsOK /\ ProcessOK /\ IsThread(thread[t])
           /\ thread[t].op \in {None, "ingest", "verify"}
           /\ thread[t].op = "verify" => thread[t].case_id \in CaseIds
           /\ thread[t].case_id \in CaseIds \cup {None}
           /\ thread[t].pc \in {"duplicate", "owned", "detect", "verify"} =>
                 thread[t].case_id \in CaseIds
           /\ thread[t].pc \in Asking \/ (thread[t].pc = "lock" /\ thread[t].op # "verify") =>
                 thread[t].event \in Events /\ KeyOf[thread[t].event.content] \in DedupKeys
<1>1. ThreadsOK /\ ProcessOK /\ ThreadOK(thread[t])
  BY DEF Typed, ThreadsOK
<1>2. thread[t].pc \notin Working
  BY DEF Empty, Asking, Working, Middle
<1> QED
  BY <1>1, <1>2, KeyOfEvent DEF ThreadOK

\* Asking steps: a new place only.
LEMMA GotoAsks ==
    ASSUME Typed, NEW t \in Threads, thread[t].pc \in Empty, thread[t].pc # "begin",
           NEW pc, Goto(t, pc),
           \/ pc = "owned" /\ thread[t].case_id \in CaseIds
           \/ pc \in {"lock", "recheck", "allocate"}
           \/ pc = "verify" /\ thread[t].op = "verify",
           pc # "verify" => thread[t].event \in Events
    PROVE  ThreadsOK' /\ Others(t) /\ thread'[t].pc = pc
<1> DEFINE r == [thread[t] EXCEPT !.pc = pc]
<1>1. thread' = [thread EXCEPT ![t] = r]
  BY DEF Goto
<1>2. IsThread(thread[t]) /\ r = [thread[t] EXCEPT !.pc = pc]
  BY NotAtWork
<1> HIDE DEF r
<1>3. /\ r.pc = pc /\ r.op = thread[t].op /\ r.event = thread[t].event
      /\ r.case_id = thread[t].case_id /\ r.incident = thread[t].incident
      /\ r.assessed = thread[t].assessed /\ r.proposals = thread[t].proposals
      /\ r.pending = thread[t].pending /\ r.next = thread[t].next
      /\ r.attempt = thread[t].attempt
  BY <1>2 DEF IsThread
<1>4. IsThread(r)
  BY <1>2, <1>3 DEF IsThread
<1>5. pc = "verify" => pc \notin Asking
  BY DEF Asking
<1>6. /\ ThreadsOK /\ thread[t].op \in {None, "ingest", "verify"}
      /\ thread[t].case_id \in CaseIds \cup {None}
      /\ thread[t].op = "verify" => thread[t].case_id \in CaseIds
  BY NotAtWork
<1>7. ThreadsOK' /\ Others(t) /\ thread'[t] = r
  BY <1>1, <1>3, <1>4, <1>5, <1>6, AskingOK
<1> QED
  BY <1>3, <1>7

\* Asking steps: a new place and a case.
LEMMA CaseAsks ==
    ASSUME Typed, NEW t \in Threads, thread[t].pc \in Empty, thread[t].pc # "begin",
           NEW pc, NEW c \in CaseIds, thread[t].event \in Events,
           thread' = [thread EXCEPT ![t].pc = pc, ![t].case_id = c],
           pc \in {"duplicate", "begin", "detect"}
    PROVE  ThreadsOK' /\ Others(t) /\ thread'[t].pc = pc /\ thread'[t].case_id = c
<1> DEFINE r == [thread[t] EXCEPT !.pc = pc, !.case_id = c]
<1>1. thread' = [thread EXCEPT ![t] = r]
  OBVIOUS
<1>2. IsThread(thread[t]) /\ r = [thread[t] EXCEPT !.pc = pc, !.case_id = c]
  BY NotAtWork
<1> HIDE DEF r
<1>3. /\ r.pc = pc /\ r.op = thread[t].op /\ r.event = thread[t].event
      /\ r.case_id = c /\ r.incident = thread[t].incident
      /\ r.assessed = thread[t].assessed /\ r.proposals = thread[t].proposals
      /\ r.pending = thread[t].pending /\ r.next = thread[t].next
      /\ r.attempt = thread[t].attempt
  BY <1>2 DEF IsThread
<1>4. IsThread(r)
  BY <1>2, <1>3 DEF IsThread
<1>6. ThreadsOK /\ thread[t].op \in {None, "ingest", "verify"}
  BY NotAtWork
<1>7. ThreadsOK' /\ Others(t) /\ thread'[t] = r
  BY <1>1, <1>3, <1>4, <1>6, AskingOK
<1> QED
  BY <1>3, <1>7

\* A schema change is delivered.
LEMMA DeliverAsks ==
    ASSUME Typed, NEW t \in Threads, NEW e \in Events, Deliver(t, e)
    PROVE  Asks(t)
<1> DEFINE r == [thread[t] EXCEPT !.pc = "lookup", !.op = "ingest", !.event = e]
<1>1. thread' = [thread EXCEPT ![t] = r]
  BY DEF Deliver
<1>2. thread[t].pc \in Empty /\ thread[t].pc # "begin"
  BY DEF Deliver, At, Empty
<1>3. IsThread(thread[t]) /\ r = [thread[t] EXCEPT !.pc = "lookup", !.op = "ingest", !.event = e]
  BY <1>2, NotAtWork
<1> HIDE DEF r
<1>4. /\ r.pc = "lookup" /\ r.op = "ingest" /\ r.event = e
      /\ r.case_id = thread[t].case_id /\ r.incident = thread[t].incident
      /\ r.assessed = thread[t].assessed /\ r.proposals = thread[t].proposals
      /\ r.pending = thread[t].pending /\ r.next = thread[t].next
      /\ r.attempt = thread[t].attempt
  BY <1>3 DEF IsThread
<1>5. IsThread(r)
  BY <1>3, <1>4 DEF IsThread
<1>6. ThreadsOK /\ ProcessOK /\ thread[t].case_id \in CaseIds \cup {None}
  BY <1>2, NotAtWork
<1>7. ThreadsOK' /\ Others(t) /\ thread'[t] = r
  BY <1>1, <1>2, <1>4, <1>5, <1>6, AskingOK
<1>8. ProcessOK' /\ UNCHANGED <<log, remote, lock>>
  BY <1>6 DEF Deliver, process, ProcessOK
<1> QED
  BY <1>4, <1>7, <1>8 DEF Asks

\* A verification is asked for.
LEMMA StartVerifyAsks ==
    ASSUME Typed, NEW t \in Threads, NEW c \in CaseIds, StartVerify(t, c)
    PROVE  Asks(t)
<1> DEFINE r == [thread[t] EXCEPT !.pc = "lock", !.op = "verify", !.case_id = c]
<1>1. thread' = [thread EXCEPT ![t] = r]
  BY DEF StartVerify
<1>2. thread[t].pc \in Empty /\ thread[t].pc # "begin"
  BY DEF StartVerify, At, Empty
<1>3. IsThread(thread[t]) /\ r = [thread[t] EXCEPT !.pc = "lock", !.op = "verify", !.case_id = c]
  BY <1>2, NotAtWork
<1> HIDE DEF r
<1>4. /\ r.pc = "lock" /\ r.op = "verify" /\ r.event = thread[t].event
      /\ r.case_id = c /\ r.incident = thread[t].incident
      /\ r.assessed = thread[t].assessed /\ r.proposals = thread[t].proposals
      /\ r.pending = thread[t].pending /\ r.next = thread[t].next
      /\ r.attempt = thread[t].attempt
  BY <1>3 DEF IsThread
<1>5. IsThread(r)
  BY <1>3, <1>4 DEF IsThread
<1>6. ThreadsOK /\ ProcessOK /\ "lock" \notin Asking
  BY <1>2, NotAtWork DEF Asking
<1>7. ThreadsOK' /\ Others(t) /\ thread'[t] = r
  BY <1>1, <1>2, <1>4, <1>5, <1>6, AskingOK
<1>8. ProcessOK' /\ UNCHANGED <<log, remote, lock>>
  BY <1>6 DEF StartVerify, process, ProcessOK
<1> QED
  BY <1>4, <1>7, <1>8 DEF Asks

\* The optimistic lookup and the two steps of the fast path.
LEMMA FastPathAsks ==
    ASSUME Typed, NEW t \in Threads, Lookup(t) \/ FastDuplicate(t) \/ FastOwned(t)
    PROVE  Asks(t) \/ Moves(t) \/ Rests(t)
<1>1. thread[t].pc \in {"lookup", "duplicate", "owned"}
  BY DEF Lookup, FastDuplicate, FastOwned, At
<1>2. thread[t].pc \in Empty /\ thread[t].pc \in Asking /\ thread[t].pc # "begin"
  BY <1>1 DEF Empty, Asking
<1>3. /\ ProcessOK /\ thread[t].event \in Events /\ KeyOfReq(t) \in DedupKeys
      /\ thread[t].pc = "duplicate" => thread[t].case_id \in CaseIds
  BY <1>2, NotAtWork DEF KeyOfReq
<1>4. UNCHANGED <<log, remote>>
  BY DEF Lookup, FastDuplicate, FastOwned
<1>5. ASSUME UNCHANGED <<process, unacked>> PROVE ProcessOK' /\ UNCHANGED lock
  BY <1>3, <1>5 DEF ProcessOK, process
<1>6. CASE Goto(t, "lock") /\ UNCHANGED <<process, unacked>>
  <2>1. ThreadsOK' /\ Others(t) /\ thread'[t].pc = "lock"
    BY <1>2, <1>3, <1>6, GotoAsks
  <2> QED
    BY <1>4, <1>5, <1>6, <2>1 DEF Asks
<1>7. CASE Lookup(t)
  <2> DEFINE existing == CaseForDedup(log, KeyOfReq(t))
  <2>1. UNCHANGED <<process, unacked>>
    BY <1>7 DEF Lookup
  <2>2. CASE existing = None
    <3>1. Goto(t, "lock")
      BY <1>7, <2>2 DEF Lookup
    <3> QED
      BY <1>6, <2>1, <3>1
  <2>3. CASE existing # None
    <3>1. existing \in CaseIds
      BY <1>3, <2>3, CaseIdsFound
    <3>2. thread' = [thread EXCEPT ![t].pc = "duplicate", ![t].case_id = existing]
      BY <1>7, <2>3 DEF Lookup
    <3> HIDE DEF existing
    <3>3. ThreadsOK' /\ Others(t) /\ thread'[t].pc = "duplicate"
      BY <1>2, <1>3, <3>1, <3>2, CaseAsks
    <3> QED
      BY <1>4, <1>5, <2>1, <3>3 DEF Asks
  <2> QED
    BY <2>2, <2>3
<1>8. CASE FastDuplicate(t)
  <2>1. \/ Exception(t)
        \/ Goto(t, "lock") /\ UNCHANGED <<process, unacked>>
        \/ Respond(t, TRUE) /\ UNCHANGED <<active, settled>>
        \/ /\ Goto(t, "owned") /\ UNCHANGED <<process, unacked>>
    BY <1>8 DEF FastDuplicate
  <2>2. CASE Goto(t, "owned") /\ UNCHANGED <<process, unacked>>
    <3>1. thread[t].case_id \in CaseIds
      BY <1>3, <1>8 DEF FastDuplicate, At
    <3>2. ThreadsOK' /\ Others(t) /\ thread'[t].pc = "owned"
      BY <1>2, <1>3, <2>2, <3>1, GotoAsks
    <3> QED
      BY <1>4, <1>5, <2>2, <3>2 DEF Asks
  <2>3. CASE Respond(t, TRUE) /\ UNCHANGED <<active, settled>>
    BY <1>4, <2>3, RespondRests
  <2> QED
    BY <1>6, <2>1, <2>2, <2>3, ExceptionMovesOrRests
<1>9. CASE FastOwned(t)
  <2>1. \/ Respond(t, TRUE) /\ UNCHANGED <<active, settled>>
        \/ Goto(t, "lock") /\ UNCHANGED <<process, unacked>>
    BY <1>9 DEF FastOwned
  <2> QED
    BY <1>4, <1>6, <2>1, RespondRests
<1> QED
  BY <1>7, <1>8, <1>9

\* with self._worker_lock.
LEMMA AcquireAcquires ==
    ASSUME Typed, NEW t \in Threads, Acquire(t)
    PROVE  Acquires(t)
<1>1. thread[t].pc = "lock" /\ thread[t].pc \in Empty /\ thread[t].pc # "begin"
  BY DEF Acquire, At, Empty
<1>2. ProcessOK /\ (thread[t].op # "verify" => thread[t].event \in Events)
      /\ ProcessOf[t] \in Processes
  BY <1>1, NotAtWork, WorkflowConstants
<1>3. \/ Goto(t, "verify") /\ thread[t].op = "verify"
      \/ Goto(t, "recheck") /\ thread[t].op # "verify"
  BY DEF Acquire
<1>4. ThreadsOK' /\ Others(t) /\ thread'[t].pc \in {"verify", "recheck"}
  <2>1. CASE Goto(t, "verify") /\ thread[t].op = "verify"
    BY <1>1, <2>1, GotoAsks
  <2>2. CASE Goto(t, "recheck") /\ thread[t].op # "verify"
    BY <1>1, <1>2, <2>2, GotoAsks
  <2> QED
    BY <1>3, <2>1, <2>2
<1>5. /\ lock[ProcessOf[t]] = None /\ lock' = [lock EXCEPT ![ProcessOf[t]] = t]
      /\ UNCHANGED <<log, active, settled, remote, unacked>>
  BY DEF Acquire
<1>6. ProcessOK'
  <2>1. lock' \in [Processes -> Threads \cup {None}]
    BY <1>2, <1>5 DEF ProcessOK
  <2> QED
    BY <1>2, <1>5, <2>1 DEF ProcessOK
<1> QED
  BY <1>4, <1>5, <1>6 DEF Acquires

\* The second look, and the choice of a display id.
LEMMA RecheckAsks ==
    ASSUME Typed, NEW t \in Threads, Recheck(t) \/ Allocate(t)
    PROVE  Asks(t) \/ Moves(t) \/ Rests(t)
<1>1. thread[t].pc \in {"recheck", "allocate"}
  BY DEF Recheck, Allocate, At
<1>2. thread[t].pc \in Empty /\ thread[t].pc \in Asking /\ thread[t].pc # "begin"
  <2>1. "recheck" \in Asking /\ "allocate" \in Asking
    BY DEF Asking
  <2> QED
    BY <1>1, <2>1 DEF Empty
<1>3. ProcessOK /\ thread[t].event \in Events /\ KeyOfReq(t) \in DedupKeys
  BY <1>2, NotAtWork DEF KeyOfReq
<1>4. UNCHANGED <<log, remote>>
  BY DEF Recheck, Allocate
<1>5. ASSUME UNCHANGED <<process, unacked>> PROVE ProcessOK' /\ UNCHANGED lock
  BY <1>3, <1>5 DEF ProcessOK, process
<1>6. CASE Recheck(t)
  <2> DEFINE existing == CaseForDedup(log, KeyOfReq(t))
  <2>1. \/ Exception(t)
        \/ Respond(t, TRUE) /\ UNCHANGED <<active, settled>>
        \/ Goto(t, "allocate") /\ UNCHANGED <<process, unacked>>
        \/ /\ existing # None /\ Readable(existing) /\ UNCHANGED <<process, unacked>>
           /\ thread' = [thread EXCEPT ![t].pc = "begin", ![t].case_id = existing]
    BY <1>6 DEF Recheck
  <2>2. CASE Goto(t, "allocate") /\ UNCHANGED <<process, unacked>>
    <3>1. ThreadsOK' /\ Others(t) /\ thread'[t].pc = "allocate"
      BY <1>2, <1>3, <2>2, GotoAsks
    <3> QED
      BY <1>1, <1>4, <1>5, <2>2, <3>1 DEF Asks
  <2>3. CASE /\ existing # None /\ Readable(existing) /\ UNCHANGED <<process, unacked>>
             /\ thread' = [thread EXCEPT ![t].pc = "begin", ![t].case_id = existing]
    <3>1. existing \in CaseIds /\ ActiveRows(log, existing) # {}
      BY <1>3, <2>3, CaseIdsFound DEF Readable
    <3> HIDE DEF existing
    <3>2. ThreadsOK' /\ Others(t) /\ thread'[t].pc = "begin" /\ thread'[t].case_id = existing
      BY <1>2, <1>3, <2>3, <3>1, CaseAsks
    <3> QED
      BY <1>1, <1>4, <1>5, <2>3, <3>1, <3>2 DEF Asks
  <2>4. CASE Respond(t, TRUE) /\ UNCHANGED <<active, settled>>
    BY <1>4, <2>4, RespondRests
  <2> QED
    BY <2>1, <2>2, <2>3, <2>4, ExceptionMovesOrRests
<1>7. CASE Allocate(t)
  <2> DEFINE c == AvailableId(KeyOfReq(t))
  <2>1. \/ Exception(t)
        \/ \E ok : Respond(t, ok) /\ UNCHANGED <<active, settled>>
        \/ /\ c # None /\ UNCHANGED <<process, unacked>>
           /\ thread' = [thread EXCEPT ![t].pc = "detect", ![t].case_id = c]
    BY <1>7 DEF Allocate
  <2>2. CASE /\ c # None /\ UNCHANGED <<process, unacked>>
             /\ thread' = [thread EXCEPT ![t].pc = "detect", ![t].case_id = c]
    <3>1. c \in CaseIds
      BY <1>3, <2>2, CaseIdsFound
    <3> HIDE DEF c
    <3>2. ThreadsOK' /\ Others(t) /\ thread'[t].pc = "detect"
      BY <1>2, <1>3, <2>2, <3>1, CaseAsks
    <3> QED
      BY <1>1, <1>4, <1>5, <2>2, <3>2 DEF Asks
  <2>3. CASE \E ok : Respond(t, ok) /\ UNCHANGED <<active, settled>>
    BY <1>4, <2>3, RespondRests
  <2> QED
    BY <2>1, <2>2, <2>3, ExceptionMovesOrRests
<1> QED
  BY <1>6, <1>7

\* The rows the store inserts.
LEMMA RowsAreOK ==
    /\ \A call : CallOK(call) => RowOK(NewRow(log, call))
    /\ RowOK(ResetRow(log))
    /\ \A call : /\ call.event_type = "SCHEMA_CHANGE_DETECTED" /\ call.state = "DETECTED"
                 /\ call.case_id \in CaseIds
                 => RowOK(NewRow(log, call))
<1>1. ASSUME NEW call, CallOK(call) PROVE RowOK(NewRow(log, call))
  <2> DEFINE row == NewRow(log, call)
  <2>1. /\ row.event_type = call.event_type /\ row.payload = call.payload
        /\ row.case_id = call.case_id /\ row.state = call.state
        /\ row.dedup_key = call.dedup_key
    BY DEF NewRow
  <2> HIDE DEF row
  <2>2. call.event_type \in EventType /\ call.event_type # "SYSTEM_RESET"
    BY <1>1 DEF CallOK, EventType, CaseEvents, EventState
  <2>3. RowOK(row)
    BY <1>1, <2>1, <2>2 DEF CallOK, RowOK
  <2> QED
    BY <2>3 DEF row
<1>2. RowOK(ResetRow(log))
  <2> DEFINE row == ResetRow(log)
  <2>1. row.event_type = "SYSTEM_RESET" /\ row.case_id = SystemCase /\ row.dedup_key = None
    BY DEF ResetRow
  <2> HIDE DEF row
  <2>2. RowOK(row)
    BY <2>1 DEF RowOK, EventType, PayloadOK
  <2> QED
    BY <2>2 DEF row
<1>3. ASSUME NEW call, call.event_type = "SCHEMA_CHANGE_DETECTED", call.state = "DETECTED",
             call.case_id \in CaseIds
      PROVE  RowOK(NewRow(log, call))
  <2> DEFINE row == NewRow(log, call)
  <2>1. /\ row.event_type = "SCHEMA_CHANGE_DETECTED" /\ row.case_id = call.case_id
        /\ row.state = "DETECTED"
    BY <1>3 DEF NewRow
  <2> HIDE DEF row
  <2>2. "SCHEMA_CHANGE_DETECTED" \in EventType
        /\ EventState["SCHEMA_CHANGE_DETECTED"] = "DETECTED"
    BY DEF EventType, CaseEvents, EventState
  <2>3. RowOK(row)
    BY <1>3, <2>1, <2>2 DEF RowOK, PayloadOK
  <2> QED
    BY <2>3 DEF row
<1> QED
  BY <1>1, <1>2, <1>3

\* The append of the detection.
LEMMA DetectKinds ==
    ASSUME Typed, NEW t \in Threads, Detect(t)
    PROVE  Detects(t) \/ Asks(t) \/ Moves(t) \/ Rests(t)
<1> DEFINE call == DetectionOf(t, CaseOf(t))
<1>1. thread[t].pc = "detect" /\ thread[t].pc \in Empty /\ thread[t].pc # "begin"
      /\ thread[t].pc \in Asking
  BY DEF Detect, At, Empty, Asking
<1>2. ProcessOK /\ thread[t].event \in Events /\ thread[t].case_id \in CaseIds
  BY <1>1, NotAtWork
<1>3. /\ call.event_type = "SCHEMA_CHANGE_DETECTED" /\ call.state = "DETECTED"
      /\ call.case_id = thread[t].case_id
  BY DEF DetectionOf, DetectionCall, CaseOf
<1>4. \/ Exception(t)
      \/ \E ok : Respond(t, ok) /\ UNCHANGED <<log, active, settled, remote>>
      \/ /\ log' = Append(log, NewRow(log, call)) /\ Goto(t, "begin")
         /\ UNCHANGED <<process, unacked, remote>>
      \/ /\ thread' = [thread EXCEPT ![t].pc = "allocate", ![t].attempt = @ + 1]
         /\ UNCHANGED <<log, process, unacked, remote>>
  BY DEF Detect
<1> HIDE DEF call
<1>5. CASE \E ok : Respond(t, ok) /\ UNCHANGED <<log, active, settled, remote>>
  BY <1>5, RespondRests
<1>6. CASE /\ log' = Append(log, NewRow(log, call)) /\ Goto(t, "begin")
           /\ UNCHANGED <<process, unacked, remote>>
  <2> DEFINE r == [thread[t] EXCEPT !.pc = "begin"]
  <2>1. thread' = [thread EXCEPT ![t] = r]
    BY <1>6 DEF Goto
  <2>2. IsThread(thread[t]) /\ r = [thread[t] EXCEPT !.pc = "begin"]
    BY <1>1, NotAtWork
  <2> HIDE DEF r
  <2>3. /\ r.pc = "begin" /\ r.op = thread[t].op /\ r.event = thread[t].event
        /\ r.case_id = thread[t].case_id /\ r.incident = thread[t].incident
        /\ r.assessed = thread[t].assessed /\ r.proposals = thread[t].proposals
        /\ r.pending = thread[t].pending /\ r.next = thread[t].next
        /\ r.attempt = thread[t].attempt
    BY <2>2 DEF IsThread
  <2>4. IsThread(r)
    BY <2>2, <2>3 DEF IsThread
  <2>5. ThreadsOK /\ thread[t].op \in {None, "ingest", "verify"}
    BY <1>1, NotAtWork
  <2>6. ThreadsOK' /\ Others(t) /\ thread'[t] = r
    BY <1>1, <1>2, <2>1, <2>3, <2>4, <2>5, AskingOK
  <2>7. RowOK(NewRow(log, call))
    BY <1>2, <1>3, RowsAreOK
  <2>8. ProcessOK' /\ UNCHANGED <<remote, lock>>
    BY <1>2, <1>6 DEF ProcessOK, process
  <2>9. Detects(t)
    BY <1>1, <1>3, <1>6, <2>3, <2>6, <2>7, <2>8 DEF Detects
  <2> QED
    BY <2>9
<1>7. CASE /\ thread' = [thread EXCEPT ![t].pc = "allocate", ![t].attempt = @ + 1]
           /\ UNCHANGED <<log, process, unacked, remote>>
  <2> DEFINE r == [thread[t] EXCEPT !.pc = "allocate", !.attempt = @ + 1]
  <2>1. thread' = [thread EXCEPT ![t] = r]
    BY <1>7
  <2>2. IsThread(thread[t])
        /\ r = [thread[t] EXCEPT !.pc = "allocate", !.attempt = thread[t].attempt + 1]
    BY <1>1, NotAtWork
  <2> HIDE DEF r
  <2>3. /\ r.pc = "allocate" /\ r.op = thread[t].op /\ r.event = thread[t].event
        /\ r.case_id = thread[t].case_id /\ r.incident = thread[t].incident
        /\ r.assessed = thread[t].assessed /\ r.proposals = thread[t].proposals
        /\ r.pending = thread[t].pending /\ r.next = thread[t].next
        /\ r.attempt = thread[t].attempt + 1
    BY <2>2 DEF IsThread
  <2>4. IsThread(r)
    BY <2>2, <2>3 DEF IsThread
  <2>5. ThreadsOK /\ thread[t].op \in {None, "ingest", "verify"}
    BY <1>1, NotAtWork
  <2>6. ThreadsOK' /\ Others(t) /\ thread'[t] = r
    BY <1>1, <1>2, <2>1, <2>3, <2>4, <2>5, AskingOK
  <2>7. ProcessOK' /\ UNCHANGED <<log, remote, lock>>
    BY <1>2, <1>7 DEF ProcessOK, process
  <2>8. Asks(t)
    BY <1>1, <2>3, <2>6, <2>7 DEF Asks
  <2> QED
    BY <2>8
<1> QED
  BY <1>4, <1>5, <1>6, <1>7, ExceptionMovesOrRests

\* Entering _advance_safely_locked.
LEMMA BeginMoves ==
    ASSUME Typed, NEW t \in Threads, Begin(t)
    PROVE  Moves(t)
<1> DEFINE r == [thread[t] EXCEPT !.pc = "incident", !.op = "advance"]
<1>1. thread[t].pc = "begin" /\ thread[t].pc \in Working
  BY DEF Begin, At, Working
<1>2. ThreadsOK /\ RemoteOK /\ ThreadOK(thread[t]) /\ thread[t].case_id \in CaseIds
  BY <1>1, AtWork
<1>3. thread' = [thread EXCEPT ![t] = r]
  BY DEF Begin
<1>4. IsThread(thread[t]) /\ r = [thread[t] EXCEPT !.pc = "incident", !.op = "advance"]
  BY <1>2 DEF ThreadOK
<1> HIDE DEF r
<1>5. /\ r.pc = "incident" /\ r.op = "advance" /\ r.event = thread[t].event
      /\ r.case_id = thread[t].case_id /\ r.incident = thread[t].incident
      /\ r.assessed = thread[t].assessed /\ r.proposals = thread[t].proposals
      /\ r.pending = thread[t].pending /\ r.next = thread[t].next
      /\ r.attempt = thread[t].attempt
  BY <1>4 DEF IsThread
<1>6. IsThread(r)
  BY <1>4, <1>5 DEF IsThread
<1>7. "incident" \in Working \ {"begin"} /\ "incident" \in Places /\ "incident" \notin Empty
      /\ Asking \subseteq Empty
  BY DEF Working, Middle, Places, Locked, Asking, Empty
<1>8. ThreadOK(r)
  BY <1>2, <1>5, <1>6, <1>7 DEF ThreadOK
<1>9. ThreadsOK' /\ thread'[t] = r /\ Others(t)
  BY <1>2, <1>3, <1>8, Becomes
<1>10. ProcessOK /\ ProcessOf[t] \in Processes
  BY WorkflowConstants DEF Typed
<1>11. /\ active' = [active EXCEPT ![ProcessOf[t]] = @ \cup {thread[t].case_id}]
       /\ UNCHANGED <<log, lock, settled, remote, unacked>>
  BY DEF Begin, CaseOf
<1>12. active' \in [Processes -> SUBSET CaseIds]
  BY <1>2, <1>10, <1>11 DEF ProcessOK
<1>13. ProcessOK' /\ RemoteOK' /\ IncidentsMove(t)
  BY <1>2, <1>10, <1>11, <1>12 DEF ProcessOK, RemoteOK, IncidentsMove, remote
<1> QED
  BY <1>1, <1>5, <1>7, <1>9, <1>11, <1>13 DEF Moves

\* One append transaction.
LEMMA AppendKinds ==
    ASSUME Typed, NEW t \in Threads, AppendEvent(t)
    PROVE  Appends(t) \/ Moves(t) \/ Rests(t)
<1> DEFINE calls == thread[t].pending
           place == IF Len(calls) = 1 THEN thread[t].next ELSE "append"
           r == [thread[t] EXCEPT !.pending = Tail(calls), !.pc = place]
           call == Head(calls)
<1>1. thread[t].pc = "append" /\ thread[t].pc \in Working
  BY DEF AppendEvent, At, Working
<1>2. ThreadsOK /\ ThreadOK(thread[t]) /\ thread[t].case_id \in CaseIds
  BY <1>1, AtWork
<1>3. CASE /\ log' = Append(log, NewRow(log, call)) /\ UNCHANGED <<process, unacked, remote>>
           /\ thread' = [thread EXCEPT ![t].pending = Tail(@),
                ![t].pc = IF Len(thread[t].pending) = 1 THEN thread[t].next ELSE "append"]
  <2>1. thread' = [thread EXCEPT ![t] = r]
    BY <1>3
  <2>2. IsThread(thread[t]) /\ r = [thread[t] EXCEPT !.pending = Tail(calls), !.pc = place]
    BY <1>2 DEF ThreadOK
  <2>3. /\ IsSeq(calls) /\ calls # <<>> /\ thread[t].next \in Middle
        /\ \A i \in DOMAIN calls : CallOK(calls[i]) /\ calls[i].case_id = thread[t].case_id
    BY <1>1, <1>2 DEF ThreadOK
  <2> HIDE DEF r
  <2>4. /\ r.pc = place /\ r.op = thread[t].op /\ r.event = thread[t].event
        /\ r.case_id = thread[t].case_id /\ r.incident = thread[t].incident
        /\ r.assessed = thread[t].assessed /\ r.proposals = thread[t].proposals
        /\ r.pending = Tail(calls) /\ r.next = thread[t].next
        /\ r.attempt = thread[t].attempt
    BY <2>2 DEF IsThread
  <2>5. IsThread(r)
    BY <2>2, <2>4 DEF IsThread
  <2>6. /\ IsSeq(Tail(calls)) /\ Len(calls) \in Nat /\ Len(calls) > 0
        /\ Len(Tail(calls)) = Len(calls) - 1
        /\ DOMAIN Tail(calls) = 1 .. Len(calls) - 1 /\ DOMAIN calls = 1 .. Len(calls)
        /\ call = calls[1]
        /\ \A k \in 1 .. Len(calls) - 1 : Tail(calls)[k] = calls[k + 1]
    BY <2>3, Tailed
  <2>7. \A i \in DOMAIN Tail(calls) :
           CallOK(Tail(calls)[i]) /\ Tail(calls)[i].case_id = thread[t].case_id
    BY <2>3, <2>6
  <2>8. place # "append" \/ Tail(calls) # <<>>
    <3>1. CASE Len(calls) = 1
      BY <3>1, <2>3 DEF Middle
    <3>2. CASE Len(calls) # 1
      <4> HIDE DEF calls
      <4>1. Len(calls) \in Nat /\ Len(calls) > 0 /\ Len(Tail(calls)) = Len(calls) - 1
        BY <2>6
      <4>2. Len(Tail(calls)) # 0
        BY <3>2, <4>1
      <4>3. Len(<<>>) = 0
        OBVIOUS
      <4> QED
        BY <4>2, <4>3
    <3> QED
      BY <3>1, <3>2
  <2>9. place \in Middle \cup {"append"}
    BY <2>3
  <2> HIDE DEF place
  <2>10. /\ Middle \cup {"append"} \subseteq Working /\ Working \subseteq Places
         /\ (Middle \cup {"append"}) \cap Empty = {} /\ Asking \subseteq Empty /\ "lock" \in Empty
    BY DEF Middle, Working, Places, Locked, Empty, Asking
  <2>11. (r.incident = None \/ IncidentOK(r.incident)) /\ r.proposals \subseteq Proposals
         /\ r.assessed \in [Proposals -> Outcomes]
    BY <1>2, <2>4 DEF ThreadOK
  <2>12. IsSeq(r.pending) /\ \A i \in DOMAIN r.pending :
            CallOK(r.pending[i]) /\ r.pending[i].case_id = r.case_id
    BY <2>4, <2>6, <2>7
  <2>13. r.pc \in Working /\ r.pc \in Places /\ r.pc \notin Empty
         /\ (r.pc = "append" => r.pending # <<>> /\ r.next \in Middle)
    BY <2>3, <2>4, <2>8, <2>9, <2>10
  <2>14. ThreadOK(r)
    BY <1>2, <2>4, <2>5, <2>10, <2>11, <2>12, <2>13 DEF ThreadOK
  <2>15. ThreadsOK' /\ thread'[t] = r /\ Others(t)
    BY <1>2, <2>1, <2>14, Becomes
  <2>16. CallOK(call)
    BY <2>3, <2>6
  <2>17. RowOK(NewRow(log, call))
    BY <2>16, RowsAreOK
  <2>18. ProcessOK' /\ UNCHANGED <<remote, lock>>
    BY <1>3 DEF Typed, ProcessOK, process
  <2>19. Appends(t)
    BY <1>1, <1>3, <2>3, <2>4, <2>15, <2>17, <2>18 DEF Appends, place
  <2> QED
    BY <2>19
<1> QED
  BY <1>3, ExceptionMovesOrRests DEF AppendEvent

\* The verdict on a deployment: a live incident is brought to its closing only by
\* evidence recomputed from live data.
LEMMA VerifyKinds ==
    ASSUME Typed, NEW t \in Threads, Verify(t)
    PROVE  Judges(t) \/ Moves(t) \/ Rests(t)
<1> DEFINE c == thread[t].case_id
           found == Project(c).incident
           deployed == Call(t, "DEPLOYMENT_RECORDED", [mode |-> EvidenceMode])
           verified == Call(t, "POST_DEPLOY_VERIFIED", [mode |-> EvidenceMode])
<1>1. thread[t].pc = "verify" /\ thread[t].pc \in Empty /\ thread[t].pc # "begin"
      /\ Readable(c)
  BY DEF Verify, At_, At, Empty, CaseOf
<1>2. /\ ThreadsOK /\ ThreadOK(thread[t]) /\ ProcessOK /\ c \in CaseIds
      /\ thread[t].op \in {None, "ingest", "verify"}
  BY <1>1, NotAtWork DEF ThreadsOK
<1>3. /\ CallOK(deployed) /\ deployed.case_id = c
      /\ CallOK(verified) /\ verified.case_id = c
      /\ verified.event_type = "POST_DEPLOY_VERIFIED" /\ verified.payload.mode = EvidenceMode
  <2>1. /\ CallOK(deployed) /\ deployed.case_id = c
        /\ CallOK(verified) /\ verified.case_id = c
    BY <1>2, PlainCalls, PlainTypesAre
  <2>2. verified.event_type = "POST_DEPLOY_VERIFIED" /\ verified.payload.mode = EvidenceMode
    BY DEF Call, ProgressCall
  <2> QED
    BY <2>1, <2>2
<1>4. found = None \/ IncidentOK(found)
  BY ProjectionOK
<1>5. found # None => \E i \in RowsOf(c, "INCIDENT_RAISED") : log[i].payload = found
  <2>1. found = LastOf(c, "INCIDENT_RAISED")
    BY DEF Project
  <2> QED
    BY <2>1, LastIsARow DEF LastOf, Typed, LogOK
<1>6. \/ Exception(t)
      \/ \E verdict \in Verdicts(found) :
            /\ thread' = [thread EXCEPT ![t] =
                  [(IF verdict = "accepted"
                    THEN Queued(t, <<deployed, verified>>, "final_evidence")
                    ELSE Queued(t, <<deployed>>, "contain"))
                   EXCEPT !.incident = found]]
            /\ UNCHANGED <<log, process, remote, unacked>>
  BY DEF Verify, CaseOf
<1> HIDE DEF deployed
<1>7. ASSUME NEW calls, IsSeq(calls), calls # <<>>, NEW next \in {"contain", "final_evidence"},
             \A i \in DOMAIN calls : CallOK(calls[i]) /\ calls[i].case_id = c,
             thread' = [thread EXCEPT ![t] =
                          [Queued(t, calls, next) EXCEPT !.incident = found]],
             UNCHANGED <<log, process, remote, unacked>>,
             next = "final_evidence" /\ found # None /\ found.urn # 0 =>
                EvidenceMode = "LIVE_RECOMPUTED" /\ calls[Len(calls)] = verified
      PROVE  Judges(t)
  <2> DEFINE q == Queued(t, calls, next)
             r == [q EXCEPT !.incident = found]
  <2>1. thread' = [thread EXCEPT ![t] = r]
    BY <1>7
  <2>2. /\ IsThread(q) /\ q.pc = "append" /\ q.pending = calls /\ q.next = next
        /\ q.op = thread[t].op /\ q.case_id = c
        /\ q.assessed = thread[t].assessed /\ q.proposals = thread[t].proposals
        /\ q.event = thread[t].event /\ q.attempt = thread[t].attempt
    BY <1>2, QueuedFields
  <2> HIDE DEF q, found
  <2>3. r = [q EXCEPT !.incident = found]
    OBVIOUS
  <2> HIDE DEF r
  <2>4. /\ r.pc = "append" /\ r.pending = calls /\ r.next = next
        /\ r.op = thread[t].op /\ r.case_id = c /\ r.incident = found
        /\ r.assessed = thread[t].assessed /\ r.proposals = thread[t].proposals
        /\ r.event = thread[t].event /\ r.attempt = thread[t].attempt
    BY <2>2, <2>3 DEF IsThread
  <2>5. IsThread(r)
    BY <2>2, <2>3, <2>4 DEF IsThread
  <2>6. /\ "append" \in Working /\ "append" \notin Empty /\ "append" \in Places
        /\ Asking \subseteq Empty /\ {"contain", "final_evidence"} \subseteq Middle
    BY DEF Working, Middle, Places, Locked, Empty, Asking
  <2>7. (r.incident = None \/ IncidentOK(r.incident)) /\ r.proposals \subseteq Proposals
        /\ r.assessed \in [Proposals -> Outcomes]
    BY <1>2, <1>4, <2>4 DEF ThreadOK
  <2>8. ThreadOK(r)
    BY <1>2, <1>7, <2>4, <2>5, <2>6, <2>7 DEF ThreadOK
  <2>9. ThreadsOK' /\ thread'[t] = r /\ Others(t)
    BY <1>2, <2>1, <2>8, Becomes
  <2>10. ProcessOK' /\ UNCHANGED <<log, remote, lock>>
    BY <1>2, <1>7 DEF ProcessOK, process
  <2>11. ActiveRows(log, c) # {}
    BY <1>1 DEF Readable
  <2>12. next = "final_evidence" /\ found # None /\ found.urn # 0 =>
            /\ \E i \in RowsOf(c, "INCIDENT_RAISED") : log[i].payload = found
            /\ calls[Len(calls)].event_type = "POST_DEPLOY_VERIFIED"
            /\ calls[Len(calls)].payload.mode = "LIVE_RECOMPUTED"
    BY <1>3, <1>5, <1>7
  <2> QED
    BY <1>1, <2>4, <2>9, <2>10, <2>11, <2>12 DEF Judges
<1>8. CASE Exception(t)
  BY <1>8, ExceptionMovesOrRests
<1>9. ASSUME NEW verdict \in Verdicts(found),
             thread' = [thread EXCEPT ![t] =
                  [(IF verdict = "accepted"
                    THEN Queued(t, <<deployed, verified>>, "final_evidence")
                    ELSE Queued(t, <<deployed>>, "contain"))
                   EXCEPT !.incident = found]],
             UNCHANGED <<log, process, remote, unacked>>
      PROVE  Judges(t)
  <2> HIDE DEF found, verified
  <2>1. CASE verdict = "accepted"
    <3> DEFINE calls == <<deployed, verified>>
    <3>1. IsSeq(calls) /\ calls # <<>> /\ DOMAIN calls = {1, 2} /\ calls[1] = deployed
          /\ calls[2] = verified
      BY ShortSeqs
    <3>2. Len(calls) = 2
      OBVIOUS
    <3>3. thread' = [thread EXCEPT ![t] =
                       [Queued(t, calls, "final_evidence") EXCEPT !.incident = found]]
      BY <1>9, <2>1
    <3> HIDE DEF calls
    <3>4. \A i \in DOMAIN calls : CallOK(calls[i]) /\ calls[i].case_id = c
      BY <1>3, <3>1
    <3>5. ASSUME found # None, found.urn # 0
          PROVE  EvidenceMode = "LIVE_RECOMPUTED"
      <4>1. found.status = "SUCCEEDED"
        BY <1>4, <3>5 DEF IncidentOK
      <4>2. IsLive(found)
        BY <3>5, <4>1 DEF IsLive
      <4>3. LiveExecutor
        BY <1>9, <2>1, <4>2 DEF Verdicts
      <4> QED
        BY <4>3 DEF EvidenceMode
    <3>6. calls[Len(calls)] = verified
      BY <3>1, <3>2
    <3> QED
      BY <1>7, <1>9, <3>1, <3>3, <3>4, <3>5, <3>6
  <2>2. CASE verdict # "accepted"
    <3> DEFINE calls == <<deployed>>
    <3>1. IsSeq(calls) /\ calls # <<>> /\ DOMAIN calls = {1} /\ calls[1] = deployed
      BY ShortSeqs
    <3>2. thread' = [thread EXCEPT ![t] =
                       [Queued(t, calls, "contain") EXCEPT !.incident = found]]
      BY <1>9, <2>2
    <3> HIDE DEF calls
    <3>3. \A i \in DOMAIN calls : CallOK(calls[i]) /\ calls[i].case_id = c
      BY <1>3, <3>1
    <3> QED
      BY <1>7, <1>9, <3>1, <3>2, <3>3
  <2> QED
    BY <2>1, <2>2
<1> QED
  BY <1>6, <1>8, <1>9

\* The end of the locked section.
LEMMA FinishRests ==
    ASSUME Typed, NEW t \in Threads, Finish(t)
    PROVE  Rests(t)
<1>1. thread[t].pc \in Working
  BY DEF Finish, At, Working, Middle
<1>2. thread[t].case_id \in CaseIds
  BY <1>1, AtWork
<1>3. PICK ok : Respond(t, ok)
  BY DEF Finish
<1>4. UNCHANGED <<log, remote>> /\ (UNCHANGED <<active, settled>> \/ Release(t, TRUE))
  BY DEF Finish
<1> QED
  BY <1>2, <1>3, <1>4, RespondRests

\* Every step of the specification is of one of these kinds.
Acts(t) == \/ Moves(t) \/ Rests(t) \/ Asks(t) \/ Acquires(t) \/ Detects(t) \/ Appends(t)
           \/ Judges(t)

\* The classification: every action is one of the kinds above.
LEMMA EveryStepHasAKind ==
    ASSUME Typed, Next
    PROVE  \/ \E t \in Threads : Acts(t)
           \/ Resets
           \/ \E p \in Processes : Crashes(p)
           \/ UNCHANGED vars
<1>1. ASSUME NEW t \in Threads, Step(t) PROVE Acts(t)
  <2>1. CASE IngestStep(t)
    BY <2>1, FastPathAsks, AcquireAcquires, RecheckAsks, DetectKinds, BeginMoves
       DEF IngestStep, Acts
  <2>2. CASE AdvanceStep(t)
    BY <2>2, AdvanceMoves, AppendKinds, FinishRests DEF AdvanceStep, Acts
  <2>3. CASE VerifyStep(t)
    BY <2>3, VerifyKinds, AdvanceMoves DEF VerifyStep, Acts
  <2>4. CASE Unreadable(t)
    BY <2>4, ExceptionMovesOrRests DEF Unreadable, Acts
  <2> QED
    BY <1>1, <2>1, <2>2, <2>3, <2>4 DEF Step
<1>2. ASSUME NEW t \in Threads, Fault(t) PROVE Acts(t)
  BY <1>2, ExceptionMovesOrRests DEF Fault, Acts
<1>3. ASSUME NEW t \in Threads, NEW e \in Events, Deliver(t, e) PROVE Acts(t)
  BY <1>3, DeliverAsks DEF Acts
<1>4. ASSUME NEW t \in Threads, NEW c \in CaseIds, StartVerify(t, c) PROVE Acts(t)
  BY <1>4, StartVerifyAsks DEF Acts
<1>5. ASSUME NEW p \in Processes, ResetDemo(p) PROVE Resets
  BY <1>5 DEF ResetDemo, Resets, Typed, ProcessOK, process
<1>6. ASSUME NEW p \in Processes, Crash(p) PROVE Crashes(p)
  <2>1. ProcessOK
    BY DEF Typed
  <2>2. /\ lock' = [lock EXCEPT ![p] = None] /\ active' = [active EXCEPT ![p] = {}]
        /\ settled' = [settled EXCEPT ![p] = {}] /\ UNCHANGED <<log, remote, unacked>>
        /\ thread' = [t \in Threads |-> IF ProcessOf[t] = p THEN IdleThread ELSE thread[t]]
    BY <1>6 DEF Crash
  <2>3. ProcessOK'
    BY <2>1, <2>2 DEF ProcessOK
  <2> QED
    BY <2>2, <2>3 DEF Crashes
<1>7. CASE Quiescent
  BY <1>7 DEF Quiescent
<1> QED
  BY <1>1, <1>2, <1>3, <1>4, <1>5, <1>6, <1>7 DEF Next

\* A typed row keeps the log typed.
LEMMA LogGrows ==
    ASSUME LogOK, NEW row, RowOK(row), log' = Append(log, row)
    PROVE  LogOK'
<1>1. /\ IsSeq(log') /\ Len(log) \in Nat
      /\ DOMAIN log = 1 .. Len(log) /\ DOMAIN log' = 1 .. Len(log) + 1
      /\ log'[Len(log) + 1] = row /\ \A k \in DOMAIN log : log'[k] = log[k]
  BY Appended DEF LogOK
<1>2. ASSUME NEW i \in DOMAIN log' PROVE RowOK(log'[i])
  <2>1. i = Len(log) + 1 \/ i \in DOMAIN log
    BY <1>1
  <2> QED
    BY <1>1, <2>1 DEF LogOK
<1> QED
  BY <1>1, <1>2 DEF LogOK

\* Every step keeps the types, kind by kind.
LEMMA TypedStep == Typed /\ [Next]_vars => Typed'
<1> SUFFICES ASSUME Typed, [Next]_vars PROVE Typed'
  OBVIOUS
<1>1. ThreadsOK /\ LogOK /\ RemoteOK /\ ProcessOK
  BY DEF Typed
<1>2. UNCHANGED remote => RemoteOK'
  BY <1>1 DEF RemoteOK, remote
<1>3. UNCHANGED log => LogOK'
  BY <1>1 DEF LogOK
<1>4. ASSUME NEW t \in Threads, Acts(t) PROVE Typed'
  <2>1. CASE Moves(t)
    BY <2>1, <1>3 DEF Moves, Typed
  <2>2. CASE Rests(t)
    BY <2>2, <1>2, <1>3 DEF Rests, Typed
  <2>3. CASE Asks(t)
    BY <2>3, <1>2, <1>3 DEF Asks, Typed
  <2>4. CASE Acquires(t)
    BY <2>4, <1>2, <1>3 DEF Acquires, Typed
  <2>5. CASE Detects(t)
    BY <2>5, <1>1, <1>2, LogGrows DEF Detects, Typed
  <2>6. CASE Appends(t)
    BY <2>6, <1>1, <1>2, LogGrows DEF Appends, Typed
  <2>7. CASE Judges(t)
    BY <2>7, <1>2, <1>3 DEF Judges, Typed
  <2> QED
    BY <1>4, <2>1, <2>2, <2>3, <2>4, <2>5, <2>6, <2>7 DEF Acts
<1>5. CASE Resets
  <2>1. RowOK(ResetRow(log)) /\ log' = Append(log, ResetRow(log)) /\ UNCHANGED <<thread, remote>>
        /\ ProcessOK'
    BY <1>5, RowsAreOK DEF Resets
  <2>2. LogOK'
    BY <1>1, <2>1, LogGrows
  <2>3. ThreadsOK'
    BY <1>1, <2>1 DEF ThreadsOK
  <2> QED
    BY <1>2, <2>1, <2>2, <2>3 DEF Typed
<1>6. ASSUME NEW p \in Processes, Crashes(p) PROVE Typed'
  <2>1. thread' = [t \in Threads |-> IF ProcessOf[t] = p THEN IdleThread ELSE thread[t]]
        /\ ProcessOK' /\ UNCHANGED <<log, remote>>
    BY <1>6 DEF Crashes
  <2>2. \A t \in Threads : ThreadOK(thread'[t])
    BY <1>1, <2>1, IdleOK DEF ThreadsOK
  <2>3. ThreadsOK'
    BY <2>1, <2>2 DEF ThreadsOK
  <2> QED
    BY <1>2, <1>3, <2>1, <2>3 DEF Typed
<1>7. CASE UNCHANGED vars
  BY <1>1, <1>7 DEF Typed, ThreadsOK, LogOK, RemoteOK, ProcessOK, vars, process, remote
<1> QED
  BY <1>4, <1>5, <1>6, <1>7, EveryStepHasAKind

\* Every thread's request, lock and ownership entry is one the code can hold,
\* whatever requests, faults and restarts there are.
THEOREM WorkflowTypeCorrect == Spec => []TypeOK
<1>1. Spec => []Typed
  BY TypedInit, TypedStep, PTL DEF Spec
<1> QED
  BY <1>1, TypedIsTyped, PTL

-------------------------------------------------------------------------------
(***************************************************************************)
(* The worker lock.                                                        *)
(***************************************************************************)
\* A request inside the locked section holds its process's worker lock.
LockHeld == \A t \in Threads : thread[t].pc \in Locked => lock[ProcessOf[t]] = t

\* Which places are behind the lock.
LEMMA LockedPlaces ==
    /\ Working \subseteq Locked /\ {"append", "verify", "recheck", "detect", "begin"} \subseteq Locked
    /\ {"recheck", "allocate", "detect"} \subseteq Locked
    /\ {"idle", "lookup", "duplicate", "owned", "lock"} \cap Locked = {}
    /\ {"idle", "lookup", "duplicate", "owned", "lock", "allocate", "detect", "verify",
        "recheck"} \cap Working = {}
    /\ {"final_evidence", "resolve"} \subseteq Working /\ Middle \subseteq Working
    /\ {"begin", "append"} \subseteq Working /\ {"begin", "append"} \cap Middle = {}
  BY DEF Locked, Working, Middle

\* Every step keeps the lock with the thread inside the locked section.
LEMMA LockHeldStep ==
    ASSUME Typed, LockHeld, [Next]_vars
    PROVE  LockHeld'
<1>1. ThreadsOK /\ lock \in [Processes -> Threads \cup {None}]
      /\ \A t \in Threads : ProcessOf[t] \in Processes
  BY WorkflowConstants DEF Typed, ProcessOK
<1>2. ASSUME NEW t \in Threads, Others(t), UNCHANGED lock,
             thread'[t].pc \in Locked => thread[t].pc \in Locked
      PROVE  LockHeld'
  BY <1>2 DEF LockHeld, Others
<1>3. ASSUME NEW t \in Threads, Acts(t) PROVE LockHeld'
  <2>1. CASE Moves(t)
    BY <1>2, <2>1, LockedPlaces DEF Moves
  <2>2. CASE Rests(t)
    <3>1. /\ thread'[t].pc \notin Locked /\ Others(t)
          /\ lock' = [lock EXCEPT ![ProcessOf[t]] = IF @ = t THEN None ELSE @]
      BY <2>2, LockedPlaces DEF Rests
    <3>2. ASSUME NEW u \in Threads, thread'[u].pc \in Locked PROVE lock'[ProcessOf[u]] = u
      <4>1. u # t /\ thread'[u] = thread[u]
        BY <3>1, <3>2 DEF Others
      <4>2. lock[ProcessOf[u]] = u
        BY <4>1, <3>2 DEF LockHeld
      <4> QED
        BY <1>1, <3>1, <4>1, <4>2
    <3> QED
      BY <3>2 DEF LockHeld
  <2>3. CASE Asks(t)
    BY <1>2, <2>3, LockedPlaces DEF Asks
  <2>4. CASE Acquires(t)
    <3>1. /\ Others(t) /\ lock[ProcessOf[t]] = None
          /\ lock' = [lock EXCEPT ![ProcessOf[t]] = t]
      BY <2>4 DEF Acquires
    <3>2. ASSUME NEW u \in Threads, thread'[u].pc \in Locked PROVE lock'[ProcessOf[u]] = u
      <4>1. CASE u = t
        BY <1>1, <3>1, <4>1
      <4>2. CASE u # t
        <5>1. lock[ProcessOf[u]] = u
          BY <3>1, <3>2, <4>2 DEF LockHeld, Others
        <5>2. ProcessOf[u] # ProcessOf[t]
          BY <3>1, <5>1, NoneIsNothingElse
        <5> QED
          BY <1>1, <3>1, <5>1, <5>2
      <4> QED
        BY <4>1, <4>2
    <3> QED
      BY <3>2 DEF LockHeld
  <2>5. CASE Detects(t)
    BY <1>2, <2>5, LockedPlaces DEF Detects
  <2>6. CASE Appends(t)
    BY <1>2, <2>6, LockedPlaces DEF Appends
  <2>7. CASE Judges(t)
    BY <1>2, <2>7, LockedPlaces DEF Judges
  <2> QED
    BY <1>3, <2>1, <2>2, <2>3, <2>4, <2>5, <2>6, <2>7 DEF Acts
<1>4. CASE Resets
  BY <1>4 DEF Resets, LockHeld
<1>5. ASSUME NEW p \in Processes, Crashes(p) PROVE LockHeld'
  <2>1. /\ thread' = [t \in Threads |-> IF ProcessOf[t] = p THEN IdleThread ELSE thread[t]]
        /\ lock' = [lock EXCEPT ![p] = None]
    BY <1>5 DEF Crashes
  <2>2. ASSUME NEW u \in Threads, thread'[u].pc \in Locked PROVE lock'[ProcessOf[u]] = u
    <3>1. thread'[u] = IF ProcessOf[u] = p THEN IdleThread ELSE thread[u]
      BY <2>1
    <3>2. ProcessOf[u] # p /\ thread'[u] = thread[u]
      BY <2>2, <3>1, IdleOK, LockedPlaces
    <3>3. lock[ProcessOf[u]] = u
      BY <2>2, <3>2 DEF LockHeld
    <3> QED
      BY <1>1, <2>1, <3>2, <3>3
  <2> QED
    BY <2>2 DEF LockHeld
<1>6. CASE UNCHANGED vars
  BY <1>6 DEF LockHeld, vars, process
<1> QED
  BY <1>3, <1>4, <1>5, <1>6, EveryStepHasAKind

\* A process runs at most one ingest or verification at a time: two threads of
\* the same process are never both behind the worker lock.
LockExcludes ==
    \A t, u \in Threads :
        thread[t].pc \in Locked /\ thread[u].pc \in Locked /\ ProcessOf[t] = ProcessOf[u] => t = u

\* Types and the holder of the lock, in every reachable state.
LEMMA LockAlwaysHeld == Spec => [](Typed /\ LockHeld)
<1>1. Init => LockHeld
  <2>1. Init => \A t \in Threads : thread[t].pc = "idle"
    BY IdleOK DEF Init
  <2> QED
    BY <2>1, LockedPlaces DEF LockHeld
<1> QED
  BY <1>1, TypedInit, TypedStep, LockHeldStep, PTL DEF Spec

\* with self._worker_lock: neither an exception, nor an answer, nor a restart
\* leaves two requests of one process working at the same time.
THEOREM WorkerLockExcludes == Spec => []LockExcludes
<1>1. LockHeld => LockExcludes
  BY DEF LockHeld, LockExcludes
<1> QED
  BY <1>1, LockAlwaysHeld, PTL

-------------------------------------------------------------------------------
(***************************************************************************)
(* One API process, as the service is run: then a reset never lands inside *)
(* an ingest or a verification.                                            *)
(***************************************************************************)
OneProcess == \A p, q \in Processes : p = q

\* A row that is not a reset belongs to the scope of the rows before it.
LEMMA RowAdded ==
    ASSUME LogOK, NEW row, row.event_type # "SYSTEM_RESET", log' = Append(log, row)
    PROVE  /\ Len(log) \in Nat /\ DOMAIN log = 1 .. Len(log) /\ DOMAIN log' = 1 .. Len(log) + 1
           /\ log'[Len(log) + 1] = row /\ \A i \in DOMAIN log : log'[i] = log[i]
           /\ CurrentScope(log') = CurrentScope(log) /\ CurrentScope(log) \in 0 .. Len(log)
           /\ \A c : ActiveRows(log, c) \subseteq DOMAIN log
           /\ \A c : c # row.case_id => ActiveRows(log', c) = ActiveRows(log, c)
           /\ \A c : c = row.case_id =>
                 ActiveRows(log', c) = ActiveRows(log, c) \cup {Len(log) + 1}
<1>1. /\ IsSeq(log') /\ Len(log) \in Nat
      /\ DOMAIN log = 1 .. Len(log) /\ DOMAIN log' = 1 .. Len(log) + 1
      /\ log'[Len(log) + 1] = row /\ \A k \in DOMAIN log : log'[k] = log[k]
  BY Appended DEF LogOK
<1>2. CurrentScope(log) \in 0 .. Len(log)
  BY ScopeIsLastReset DEF LogOK
<1>3. CurrentScope(log') = CurrentScope(log)
  <2>1. {i \in DOMAIN log' : log'[i].event_type = "SYSTEM_RESET"}
            = {i \in DOMAIN log : log[i].event_type = "SYSTEM_RESET"}
    <3>1. ASSUME NEW i \in DOMAIN log' PROVE i = Len(log) + 1 \/ i \in DOMAIN log
      BY <1>1
    <3>2. DOMAIN log \subseteq DOMAIN log' /\ Len(log) + 1 \notin DOMAIN log
      BY <1>1
    <3> QED
      BY <1>1, <3>1, <3>2
  <2> QED
    BY <2>1 DEF CurrentScope
<1>4. \A c : ActiveRows(log, c) \subseteq DOMAIN log
  BY DEF ActiveRows
<1>5. ASSUME NEW c PROVE
          /\ c # row.case_id => ActiveRows(log', c) = ActiveRows(log, c)
          /\ c = row.case_id => ActiveRows(log', c) = ActiveRows(log, c) \cup {Len(log) + 1}
  <2> DEFINE scope == CurrentScope(log)
  <2>1. /\ ActiveRows(log, c) = {i \in DOMAIN log : i > scope /\ log[i].case_id = c}
        /\ ActiveRows(log', c) = {i \in DOMAIN log' : i > scope /\ log'[i].case_id = c}
    BY <1>3 DEF ActiveRows
  <2>2. DOMAIN log' = DOMAIN log \cup {Len(log) + 1} /\ Len(log) + 1 \notin DOMAIN log
    BY <1>1
  <2>3. Len(log) + 1 > scope
    BY <1>1, <1>2
  <2> HIDE DEF scope
  <2> DEFINE n == Len(log) + 1
  <2>4. log'[n] = row /\ DOMAIN log' = DOMAIN log \cup {n} /\ n \notin DOMAIN log /\ n > scope
    BY <1>1, <2>2, <2>3
  <2> HIDE DEF n
  <2>5. CASE c # row.case_id
    BY <1>1, <2>1, <2>4, <2>5
  <2>6. CASE c = row.case_id
    <3>1. ASSUME NEW i \in ActiveRows(log', c) PROVE i \in ActiveRows(log, c) \cup {n}
      BY <1>1, <2>1, <2>4, <3>1
    <3>2. ASSUME NEW i \in ActiveRows(log, c) \cup {n} PROVE i \in ActiveRows(log', c)
      <4>1. CASE i = n
        BY <2>1, <2>4, <2>6, <4>1
      <4>2. CASE i \in ActiveRows(log, c)
        BY <1>1, <2>1, <2>4, <4>2
      <4> QED
        BY <3>2, <4>1, <4>2
    <3>3. ActiveRows(log', c) = ActiveRows(log, c) \cup {n}
      BY <3>1, <3>2
    <3> QED
      BY <2>6, <3>3 DEF n
  <2> QED
    BY <2>5, <2>6
<1> QED
  BY <1>1, <1>2, <1>3, <1>4, <1>5

\* After a reset no case has active rows.
LEMMA ResetAdded ==
    ASSUME LogOK, log' = Append(log, ResetRow(log))
    PROVE  /\ Len(log) \in Nat /\ DOMAIN log = 1 .. Len(log) /\ DOMAIN log' = 1 .. Len(log) + 1
           /\ \A i \in DOMAIN log : log'[i] = log[i]
           /\ CurrentScope(log') = Len(log) + 1
           /\ \A c : ActiveRows(log', c) = {}
<1> DEFINE row == ResetRow(log)
<1>1. row.event_type = "SYSTEM_RESET"
  BY DEF ResetRow
<1> HIDE DEF row
<1>2. /\ IsSeq(log') /\ Len(log) \in Nat
      /\ DOMAIN log = 1 .. Len(log) /\ DOMAIN log' = 1 .. Len(log) + 1
      /\ log'[Len(log) + 1] = row /\ \A k \in DOMAIN log : log'[k] = log[k]
  BY Appended DEF LogOK, row
<1>3. /\ CurrentScope(log') \in 0 .. Len(log') /\ Len(log') \in Nat
      /\ DOMAIN log' = 1 .. Len(log')
      /\ \A i \in DOMAIN log' :
            log'[i].event_type = "SYSTEM_RESET" => i <= CurrentScope(log')
  BY <1>2, ScopeIsLastReset
<1>4. Len(log) + 1 \in DOMAIN log' /\ Len(log') = Len(log) + 1
  <2>1. Len(log) + 1 \in DOMAIN log'
    BY <1>2
  <2>2. log' = Append(log, row) /\ \E S : log \in Seq(S) /\ row \in S
    <3>1. PICK S : log \in Seq(S)
      BY DEF LogOK, IsSeq
    <3>2. log \in Seq(S \cup {row})
      BY <3>1
    <3> QED
      BY <3>2 DEF row
  <2>3. Len(log') = Len(log) + 1
    BY <2>2
  <2> QED
    BY <2>1, <2>3
<1>5. CurrentScope(log') = Len(log) + 1
  BY <1>1, <1>2, <1>3, <1>4
<1>6. ASSUME NEW c PROVE ActiveRows(log', c) = {}
  <2>1. \A i \in DOMAIN log' : ~(i > CurrentScope(log'))
    BY <1>2, <1>5
  <2> QED
    BY <2>1 DEF ActiveRows
<1> QED
  BY <1>2, <1>5, <1>6

\* The rows that a detection and a progress event add.
LEMMA DetectedRow ==
    ASSUME NEW t \in Threads, Detects(t)
    PROVE  \E row : /\ row.event_type = "SCHEMA_CHANGE_DETECTED"
                    /\ row.case_id = thread[t].case_id
                    /\ row.reset_scope = CurrentScope(log)
                    /\ log' = Append(log, row)
<1>1. PICK call : /\ call.event_type = "SCHEMA_CHANGE_DETECTED"
                  /\ call.case_id = thread[t].case_id
                  /\ log' = Append(log, NewRow(log, call))
  BY DEF Detects
<1> DEFINE row == NewRow(log, call)
<1>2. /\ row.event_type = "SCHEMA_CHANGE_DETECTED" /\ row.case_id = thread[t].case_id
      /\ row.reset_scope = CurrentScope(log) /\ log' = Append(log, row)
  BY <1>1 DEF NewRow
<1> HIDE DEF row
<1> QED
  BY <1>2

\* The row of an event is not a reset and belongs to the thread's case.
LEMMA AppendedRow ==
    ASSUME Typed, NEW t \in Threads, Appends(t)
    PROVE  LET call == Head(thread[t].pending)
               row  == NewRow(log, call)
           IN  /\ row.event_type # "SYSTEM_RESET" /\ row.case_id = thread[t].case_id
               /\ row.event_type = call.event_type /\ row.payload = call.payload
               /\ row.reset_scope = CurrentScope(log)
               /\ log' = Append(log, row)
<1> DEFINE call == Head(thread[t].pending)
           row  == NewRow(log, call)
<1>1. CallOK(call) /\ call.case_id = thread[t].case_id
  <2>1. thread[t].pending # <<>> /\ ThreadOK(thread[t])
    BY DEF Appends, Typed, ThreadsOK
  <2>2. /\ IsSeq(thread[t].pending)
        /\ \A i \in DOMAIN thread[t].pending :
              CallOK(thread[t].pending[i]) /\ thread[t].pending[i].case_id = thread[t].case_id
    BY <2>1 DEF ThreadOK
  <2>3. 1 \in DOMAIN thread[t].pending /\ call = thread[t].pending[1]
    BY <2>1, <2>2, Tailed
  <2> QED
    BY <2>2, <2>3
<1> HIDE DEF call
<1>2. /\ row.event_type = call.event_type /\ row.case_id = call.case_id
      /\ row.payload = call.payload /\ row.reset_scope = CurrentScope(log)
  BY DEF NewRow
<1>3. row.event_type # "SYSTEM_RESET"
  BY <1>1, <1>2 DEF CallOK, CaseEvents, EventState
<1>4. log' = Append(log, row)
  BY DEF Appends, call
<1> QED
  BY <1>1, <1>2, <1>3, <1>4 DEF call

\* A request that works on a case works on one whose rows the queries can see.
WorkersHaveCases ==
    \A t \in Threads : thread[t].pc \in Working => ActiveRows(log, thread[t].case_id) # {}

\* Under one process a reset finds no request behind the worker lock.
LEMMA ResetFindsNobody ==
    ASSUME OneProcess, Typed, LockHeld, Resets
    PROVE  \A t \in Threads : thread[t].pc \notin Locked
<1>1. PICK p \in Processes : lock[p] = None
  BY DEF Resets
<1>2. ASSUME NEW t \in Threads, thread[t].pc \in Locked PROVE FALSE
  <2>1. ProcessOf[t] \in Processes /\ lock[ProcessOf[t]] = t
    BY <1>2, WorkflowConstants DEF LockHeld
  <2>2. ProcessOf[t] = p
    BY <2>1 DEF OneProcess
  <2> QED
    BY <1>1, <2>1, <2>2, NoneIsNothingElse
<1> QED
  BY <1>2

\* Every step leaves a thread at work with rows of its case.
LEMMA WorkersHaveCasesStep ==
    ASSUME OneProcess, Typed, LockHeld, WorkersHaveCases, [Next]_vars
    PROVE  WorkersHaveCases'
<1>1. LogOK
  BY DEF Typed
<1>2. ASSUME NEW t \in Threads, Others(t), UNCHANGED log,
             thread'[t].pc \in Working => ActiveRows(log, thread'[t].case_id) # {}
      PROVE  WorkersHaveCases'
  <2>1. ASSUME NEW u \in Threads, thread'[u].pc \in Working
        PROVE  ActiveRows(log, thread'[u].case_id) # {}
    BY <1>2, <2>1 DEF WorkersHaveCases, Others
  <2> QED
    BY <1>2, <2>1 DEF WorkersHaveCases
<1>3. ASSUME NEW t \in Threads, Others(t), NEW row, row.event_type # "SYSTEM_RESET",
             log' = Append(log, row), row.case_id = thread'[t].case_id
      PROVE  WorkersHaveCases'
  <2>1. \A c : c # row.case_id => ActiveRows(log', c) = ActiveRows(log, c)
    BY <1>1, <1>3, RowAdded
  <2>2. \A c : c = row.case_id => ActiveRows(log', c) = ActiveRows(log, c) \cup {Len(log) + 1}
    BY <1>1, <1>3, RowAdded
  <2>3. ASSUME NEW u \in Threads, thread'[u].pc \in Working
        PROVE  ActiveRows(log', thread'[u].case_id) # {}
    <3>1. CASE thread'[u].case_id = row.case_id
      BY <2>2, <3>1
    <3>2. CASE thread'[u].case_id # row.case_id
      <4>1. u # t /\ thread'[u] = thread[u]
        BY <1>3, <3>2 DEF Others
      <4>2. ActiveRows(log, thread'[u].case_id) # {}
        BY <2>3, <4>1 DEF WorkersHaveCases
      <4> QED
        BY <2>1, <3>2, <4>2
    <3> QED
      BY <3>1, <3>2
  <2> QED
    BY <2>3 DEF WorkersHaveCases
<1>4. ASSUME NEW t \in Threads, Acts(t) PROVE WorkersHaveCases'
  <2>1. CASE Moves(t)
    <3>1. Others(t) /\ UNCHANGED log /\ ActiveRows(log, thread'[t].case_id) # {}
      BY <2>1 DEF Moves, WorkersHaveCases
    <3> QED
      BY <1>2, <3>1
  <2>2. CASE Rests(t)
    BY <1>2, <2>2, LockedPlaces DEF Rests
  <2>3. CASE Asks(t)
    BY <1>2, <2>3, LockedPlaces DEF Asks
  <2>4. CASE Acquires(t)
    BY <1>2, <2>4, LockedPlaces DEF Acquires
  <2>5. CASE Detects(t)
    <3>1. PICK row : /\ row.event_type = "SCHEMA_CHANGE_DETECTED"
                     /\ row.case_id = thread[t].case_id /\ log' = Append(log, row)
      BY <2>5, DetectedRow
    <3>2. row.event_type # "SYSTEM_RESET" /\ row.case_id = thread'[t].case_id /\ Others(t)
      BY <2>5, <3>1 DEF Detects
    <3> QED
      BY <1>3, <3>1, <3>2
  <2>6. CASE Appends(t)
    <3> DEFINE row == NewRow(log, Head(thread[t].pending))
    <3>1. row.event_type # "SYSTEM_RESET" /\ row.case_id = thread'[t].case_id
          /\ log' = Append(log, row) /\ Others(t)
      BY <2>6, AppendedRow DEF Appends
    <3> HIDE DEF row
    <3> QED
      BY <1>3, <3>1
  <2>7. CASE Judges(t)
    <3>1. Others(t) /\ UNCHANGED log /\ ActiveRows(log, thread'[t].case_id) # {}
      BY <2>7 DEF Judges
    <3> QED
      BY <1>2, <3>1
  <2> QED
    BY <1>4, <2>1, <2>2, <2>3, <2>4, <2>5, <2>6, <2>7 DEF Acts
<1>5. CASE Resets
  <2>1. \A t \in Threads : thread'[t].pc \notin Working
    BY <1>5, ResetFindsNobody, LockedPlaces DEF Resets
  <2> QED
    BY <2>1 DEF WorkersHaveCases
<1>6. ASSUME NEW p \in Processes, Crashes(p) PROVE WorkersHaveCases'
  <2>1. /\ thread' = [t \in Threads |-> IF ProcessOf[t] = p THEN IdleThread ELSE thread[t]]
        /\ UNCHANGED log
    BY <1>6 DEF Crashes
  <2>2. ASSUME NEW u \in Threads, thread'[u].pc \in Working
        PROVE  ActiveRows(log, thread'[u].case_id) # {}
    <3>1. thread'[u] = thread[u]
      BY <2>1, <2>2, IdleOK, LockedPlaces
    <3> QED
      BY <2>2, <3>1 DEF WorkersHaveCases
  <2> QED
    BY <2>1, <2>2 DEF WorkersHaveCases
<1>7. CASE UNCHANGED vars
  BY <1>7 DEF WorkersHaveCases, vars
<1> QED
  BY <1>4, <1>5, <1>6, <1>7, EveryStepHasAKind

\* A row that is a detection, or joins rows that are there, leaves every case
\* readable.
LEMMA StillReadable ==
    ASSUME LogOK, ProjectionsReadable, NEW row, row.event_type # "SYSTEM_RESET",
           log' = Append(log, row),
           row.event_type = "SCHEMA_CHANGE_DETECTED" \/ ActiveRows(log, row.case_id) # {}
    PROVE  ProjectionsReadable'
<1> DEFINE n == Len(log) + 1
<1>1. /\ Len(log) \in Nat /\ DOMAIN log = 1 .. Len(log)
      /\ log'[n] = row /\ \A i \in DOMAIN log : log'[i] = log[i]
      /\ \A c : ActiveRows(log, c) \subseteq DOMAIN log
  BY RowAdded
<1>2. ASSUME NEW c \in CaseIds, ActiveRows(log', c) # {}
      PROVE  log'[Min(ActiveRows(log', c))].event_type = "SCHEMA_CHANGE_DETECTED"
  <2>1. CASE c # row.case_id
    <3>1. ActiveRows(log', c) = ActiveRows(log, c)
      BY <2>1, RowAdded
    <3>2. ActiveRows(log, c) \in SUBSET Nat
      BY <1>1
    <3>3. Min(ActiveRows(log, c)) \in DOMAIN log
      BY <1>1, <1>2, <3>1, <3>2, MinIsLeast
    <3>4. log[Min(ActiveRows(log, c))].event_type = "SCHEMA_CHANGE_DETECTED"
      BY <1>2, <3>1 DEF ProjectionsReadable, Readable
    <3> QED
      BY <1>1, <3>1, <3>3, <3>4
  <2>2. CASE c = row.case_id
    <3> DEFINE S == ActiveRows(log, c)
    <3>1. ActiveRows(log', c) = S \cup {n}
      BY <2>2, RowAdded
    <3>2. S \in SUBSET Nat /\ S \cup {n} \in SUBSET Nat /\ S \subseteq DOMAIN log
          /\ \A i \in S : i < n
      BY <1>1
    <3> HIDE DEF S
    <3>3. Min(S \cup {n}) \in S \cup {n} /\ \A x \in S \cup {n} : Min(S \cup {n}) <= x
      <4>1. S \cup {n} # {}
        OBVIOUS
      <4> HIDE DEF n
      <4> QED
        BY <3>2, <4>1, MinIsLeast
    <3>4. CASE S = {}
      <4>1. Min(S \cup {n}) = n
        BY <3>3, <3>4
      <4>2. row.event_type = "SCHEMA_CHANGE_DETECTED"
        BY <2>2, <3>4 DEF S
      <4> QED
        BY <1>1, <3>1, <4>1, <4>2
    <3>5. CASE S # {}
      <4>1. Min(S) \in S /\ \A x \in S : Min(S) <= x
        BY <3>2, <3>5, MinIsLeast
      <4>2. Min(S \cup {n}) = Min(S)
        <5> DEFINE a == Min(S)
                   b == Min(S \cup {n})
        <5>1. a \in S /\ \A x \in S : a <= x
          BY <4>1
        <5>2. b \in S \cup {n} /\ \A x \in S \cup {n} : b <= x
          BY <3>3
        <5> HIDE DEF a, b
        <5>3. a \in Nat /\ a < n /\ n \in Nat /\ b \in Nat /\ b <= a
          BY <1>1, <3>2, <5>1, <5>2
        <5>4. b \in S
          BY <5>2, <5>3
        <5>5. a <= b
          BY <5>1, <5>4
        <5> QED
          BY <5>3, <5>5 DEF a, b
      <4>3. log[Min(S)].event_type = "SCHEMA_CHANGE_DETECTED"
        BY <3>5 DEF S, ProjectionsReadable, Readable
      <4> QED
        BY <1>1, <3>1, <3>2, <4>1, <4>2, <4>3
    <3> QED
      BY <3>4, <3>5
  <2> QED
    BY <2>1, <2>2
<1> QED
  BY <1>2 DEF ProjectionsReadable, Readable

\* Every step leaves the first active row of a case a detection.
LEMMA ProjectionsReadableStep ==
    ASSUME OneProcess, Typed, LockHeld, WorkersHaveCases, ProjectionsReadable, [Next]_vars
    PROVE  ProjectionsReadable'
<1>1. LogOK
  BY DEF Typed
<1>2. UNCHANGED log => ProjectionsReadable'
  BY DEF ProjectionsReadable, Readable
<1>3. ASSUME NEW t \in Threads, Acts(t) PROVE ProjectionsReadable'
  <2>1. CASE Moves(t) \/ Rests(t) \/ Asks(t) \/ Acquires(t) \/ Judges(t)
    BY <1>2, <2>1 DEF Moves, Rests, Asks, Acquires, Judges
  <2>2. CASE Detects(t)
    <3>1. PICK row : row.event_type = "SCHEMA_CHANGE_DETECTED" /\ log' = Append(log, row)
      BY <2>2, DetectedRow
    <3>2. row.event_type # "SYSTEM_RESET"
      BY <3>1
    <3> QED
      BY <1>1, <3>1, <3>2, StillReadable
  <2>3. CASE Appends(t)
    <3> DEFINE row == NewRow(log, Head(thread[t].pending))
    <3>1. row.event_type # "SYSTEM_RESET" /\ row.case_id = thread[t].case_id
          /\ log' = Append(log, row)
      BY <2>3, AppendedRow
    <3>2. ActiveRows(log, thread[t].case_id) # {}
      BY <2>3, LockedPlaces DEF Appends, WorkersHaveCases
    <3> HIDE DEF row
    <3> QED
      BY <1>1, <3>1, <3>2, StillReadable
  <2> QED
    BY <1>3, <2>1, <2>2, <2>3 DEF Acts
<1>4. CASE Resets
  BY <1>1, <1>4, ResetAdded DEF Resets, ProjectionsReadable
<1>5. ASSUME NEW p \in Processes, Crashes(p) PROVE ProjectionsReadable'
  BY <1>2, <1>5 DEF Crashes
<1>6. CASE UNCHANGED vars
  BY <1>2, <1>6 DEF vars
<1> QED
  BY <1>3, <1>4, <1>5, <1>6, EveryStepHasAKind

\* Initially no thread works and no case has rows.
LEMMA CasesReadableInit == Init => WorkersHaveCases /\ ProjectionsReadable
<1> SUFFICES ASSUME Init PROVE WorkersHaveCases /\ ProjectionsReadable
  OBVIOUS
<1>1. log = <<>> /\ \A t \in Threads : thread[t].pc = "idle"
  BY IdleOK DEF Init
<1>2. \A c : ActiveRows(log, c) = {}
  <2>1. DOMAIN log = {}
    BY <1>1, ShortSeqs
  <2> QED
    BY <2>1 DEF ActiveRows
<1> QED
  BY <1>1, <1>2, LockedPlaces DEF WorkersHaveCases, ProjectionsReadable

\* With one API process every case stays readable: get_case, list_cases and the
\* guard never meet a case whose first active row is not its detection, whatever
\* resets, faults and restarts come between the steps of an ingest.
THEOREM CasesReadable ==
    ASSUME OneProcess
    PROVE  Spec => []ProjectionsReadable
<1>1. Typed /\ LockHeld /\ WorkersHaveCases /\ ProjectionsReadable /\ [Next]_vars
         => WorkersHaveCases' /\ ProjectionsReadable'
  BY WorkersHaveCasesStep, ProjectionsReadableStep
<1> QED
  BY <1>1, LockAlwaysHeld, CasesReadableInit, PTL DEF Spec

-------------------------------------------------------------------------------
(***************************************************************************)
(* What closes an incident.                                                *)
(***************************************************************************)
\* The rows after the last reset carry its number.
ScopesAgree ==
    \A i \in DOMAIN log : i > CurrentScope(log) => log[i].reset_scope = CurrentScope(log)

\* The case that raised incident n has recorded, later in the same stream, a
\* verification recomputed from live data.
Proven(n) ==
    \E i, j \in DOMAIN log :
        /\ i < j /\ SameStream(i, j)
        /\ log[i].event_type = "INCIDENT_RAISED" /\ log[i].payload.urn = n
        /\ log[j].event_type = "POST_DEPLOY_VERIFIED"
        /\ log[j].payload.mode = "LIVE_RECOMPUTED"

HasUrn(t) == thread[t].incident # None /\ thread[t].incident.urn # 0

\* A thread on its way to the closing of a live incident has its verification
\* queued last, and one that is there has it recorded.
OnTheWay(t) ==
    /\ thread[t].pc = "append" => thread[t].next # "resolve"
    /\ thread[t].pc = "append" /\ thread[t].next = "final_evidence" /\ HasUrn(t) =>
        /\ \E i \in RowsOf(thread[t].case_id, "INCIDENT_RAISED") :
              log[i].payload = thread[t].incident
        /\ LET last == thread[t].pending[Len(thread[t].pending)] IN
           /\ last.event_type = "POST_DEPLOY_VERIFIED"
           /\ last.payload.mode = "LIVE_RECOMPUTED"
AtTheEnd(t) ==
    thread[t].pc \in {"final_evidence", "resolve"} /\ HasUrn(t) => Proven(thread[t].incident.urn)

ClosingInv ==
    /\ ScopesAgree
    /\ \A t \in Threads : OnTheWay(t) /\ AtTheEnd(t)
    /\ IncidentClosedOnLiveEvidence

\* Every step keeps the two notions of the current scope in agreement.
LEMMA ScopesAgreeStep ==
    ASSUME Typed, ScopesAgree, [Next]_vars
    PROVE  ScopesAgree'
<1>1. LogOK
  BY DEF Typed
<1>2. UNCHANGED log => ScopesAgree'
  BY DEF ScopesAgree
<1>3. ASSUME NEW row, row.event_type # "SYSTEM_RESET", row.reset_scope = CurrentScope(log),
             log' = Append(log, row)
      PROVE  ScopesAgree'
  <2> DEFINE n == Len(log) + 1
  <2>1. /\ DOMAIN log' = 1 .. n /\ DOMAIN log = 1 .. Len(log) /\ Len(log) \in Nat
        /\ log'[n] = row /\ \A i \in DOMAIN log : log'[i] = log[i]
        /\ CurrentScope(log') = CurrentScope(log)
    BY <1>1, <1>3, RowAdded
  <2>2. ASSUME NEW i \in DOMAIN log', i > CurrentScope(log')
        PROVE  log'[i].reset_scope = CurrentScope(log')
    <3>1. i = n \/ i \in DOMAIN log
      BY <2>1
    <3> HIDE DEF n
    <3>2. CASE i = n
      BY <1>3, <2>1, <3>2
    <3>3. CASE i \in DOMAIN log
      BY <2>1, <2>2, <3>3 DEF ScopesAgree
    <3> QED
      BY <3>1, <3>2, <3>3
  <2> QED
    BY <2>2 DEF ScopesAgree
<1>4. ASSUME NEW t \in Threads, Acts(t) PROVE ScopesAgree'
  <2>1. CASE Moves(t) \/ Rests(t) \/ Asks(t) \/ Acquires(t) \/ Judges(t)
    BY <1>2, <2>1 DEF Moves, Rests, Asks, Acquires, Judges
  <2>2. CASE Detects(t)
    <3>1. PICK row : row.event_type = "SCHEMA_CHANGE_DETECTED" /\ log' = Append(log, row)
                     /\ row.reset_scope = CurrentScope(log)
      BY <2>2, DetectedRow
    <3>2. row.event_type # "SYSTEM_RESET"
      BY <3>1
    <3> QED
      BY <1>3, <3>1, <3>2
  <2>3. CASE Appends(t)
    <3> DEFINE row == NewRow(log, Head(thread[t].pending))
    <3>1. row.event_type # "SYSTEM_RESET" /\ row.reset_scope = CurrentScope(log)
          /\ log' = Append(log, row)
      BY <2>3, AppendedRow
    <3> HIDE DEF row
    <3> QED
      BY <1>3, <3>1
  <2> QED
    BY <1>4, <2>1, <2>2, <2>3 DEF Acts
<1>5. CASE Resets
  <2>1. CurrentScope(log') = Len(log) + 1 /\ DOMAIN log' = 1 .. Len(log) + 1 /\ Len(log) \in Nat
    BY <1>1, <1>5, ResetAdded DEF Resets
  <2>2. \A i \in DOMAIN log' : ~(i > CurrentScope(log'))
    BY <2>1
  <2> QED
    BY <2>2 DEF ScopesAgree
<1>6. ASSUME NEW p \in Processes, Crashes(p) PROVE ScopesAgree'
  BY <1>2, <1>6 DEF Crashes
<1>7. CASE UNCHANGED vars
  BY <1>2, <1>7 DEF vars
<1> QED
  BY <1>4, <1>5, <1>6, <1>7, EveryStepHasAKind

\* A log that only grows keeps what it has proven.
LEMMA ProvenStays ==
    ASSUME DOMAIN log \subseteq DOMAIN log', \A i \in DOMAIN log : log'[i] = log[i], NEW n,
           Proven(n)
    PROVE  Proven(n)'
<1>1. PICK i \in DOMAIN log, j \in DOMAIN log :
        /\ i < j /\ SameStream(i, j)
        /\ log[i].event_type = "INCIDENT_RAISED" /\ log[i].payload.urn = n
        /\ log[j].event_type = "POST_DEPLOY_VERIFIED"
        /\ log[j].payload.mode = "LIVE_RECOMPUTED"
  BY DEF Proven
<1>2. i \in DOMAIN log' /\ j \in DOMAIN log' /\ log'[i] = log[i] /\ log'[j] = log[j]
  OBVIOUS
<1>3. SameStream(i, j)'
  BY <1>1, <1>2 DEF SameStream
<1> QED
  BY <1>1, <1>2, <1>3 DEF Proven

\* Every step leaves the rows that are there.
LEMMA LogKept ==
    ASSUME Typed, [Next]_vars
    PROVE  DOMAIN log \subseteq DOMAIN log' /\ \A i \in DOMAIN log : log'[i] = log[i]
<1>1. LogOK
  BY DEF Typed
<1>2. ASSUME NEW row, log' = Append(log, row)
      PROVE  DOMAIN log \subseteq DOMAIN log' /\ \A i \in DOMAIN log : log'[i] = log[i]
  BY <1>1, <1>2, Appended DEF LogOK
<1>3. \/ UNCHANGED log
      \/ \E row : log' = Append(log, row)
  <2>1. ASSUME NEW t \in Threads, Acts(t)
        PROVE  UNCHANGED log \/ \E row : log' = Append(log, row)
    BY <2>1 DEF Acts, Moves, Rests, Asks, Acquires, Detects, Appends, Judges
  <2> QED
    BY <2>1, EveryStepHasAKind DEF Resets, Crashes, vars
<1> QED
  BY <1>2, <1>3

\* Every step keeps the evidence of a thread that may close an incident.
LEMMA ThreadsOnTheirWayStep ==
    ASSUME OneProcess, Typed, LockHeld, ClosingInv, [Next]_vars
    PROVE  \A t \in Threads : OnTheWay(t)' /\ AtTheEnd(t)'
<1>1. LogOK /\ DOMAIN log \subseteq DOMAIN log' /\ \A i \in DOMAIN log : log'[i] = log[i]
  BY LogKept DEF Typed
<1>2. \A n : Proven(n) => Proven(n)'
  BY <1>1, ProvenStays
<1>3. ASSUME NEW u \in Threads, thread'[u] = thread[u],
             \A c : ActiveRows(log, c) \subseteq ActiveRows(log', c)
      PROVE  OnTheWay(u)' /\ AtTheEnd(u)'
  <2>1. OnTheWay(u) /\ AtTheEnd(u) /\ (HasUrn(u)' <=> HasUrn(u))
    BY <1>3 DEF ClosingInv, HasUrn
  <2>2. AtTheEnd(u)'
    BY <1>2, <1>3, <2>1 DEF AtTheEnd
  <2>3. ASSUME NEW c, NEW i \in RowsOf(c, "INCIDENT_RAISED")
        PROVE  i \in RowsOf(c, "INCIDENT_RAISED")' /\ log'[i] = log[i]
    <3>1. i \in ActiveRows(log, c) /\ i \in DOMAIN log /\ log[i].event_type = "INCIDENT_RAISED"
      BY DEF RowsOf, ActiveRows
    <3> QED
      BY <1>1, <1>3, <3>1 DEF RowsOf
  <2>4. OnTheWay(u)'
    BY <1>3, <2>1, <2>3 DEF OnTheWay
  <2> QED
    BY <2>2, <2>4
<1>4. ASSUME NEW t \in Threads, Others(t),
             \A c : ActiveRows(log, c) \subseteq ActiveRows(log', c),
             OnTheWay(t)' /\ AtTheEnd(t)'
      PROVE  \A u \in Threads : OnTheWay(u)' /\ AtTheEnd(u)'
  BY <1>3, <1>4 DEF Others
<1>5. ASSUME NEW row, row.event_type # "SYSTEM_RESET", log' = Append(log, row)
      PROVE  \A c : ActiveRows(log, c) \subseteq ActiveRows(log', c)
  <2>1. ASSUME NEW c PROVE ActiveRows(log, c) \subseteq ActiveRows(log', c)
    <3>1. c # row.case_id => ActiveRows(log', c) = ActiveRows(log, c)
      BY <1>1, <1>5, RowAdded
    <3>2. c = row.case_id => ActiveRows(log', c) = ActiveRows(log, c) \cup {Len(log) + 1}
      BY <1>1, <1>5, RowAdded
    <3> QED
      BY <3>1, <3>2
  <2> QED
    BY <2>1
<1>6. UNCHANGED log => \A c : ActiveRows(log, c) \subseteq ActiveRows(log', c)
  OBVIOUS
<1>7. ASSUME NEW t \in Threads, Acts(t)
      PROVE  \A u \in Threads : OnTheWay(u)' /\ AtTheEnd(u)'
  <2>1. CASE Moves(t)
    <3>1. /\ Others(t) /\ UNCHANGED log /\ thread'[t].pc # "final_evidence"
          /\ thread'[t].pc = "append" => thread'[t].next \notin {"final_evidence", "resolve"}
          /\ thread'[t].pc = "resolve" =>
                thread[t].pc = "final_evidence" /\ thread'[t].incident = thread[t].incident
      BY <2>1 DEF Moves
    <3>2. OnTheWay(t)'
      BY <3>1 DEF OnTheWay
    <3>3. AtTheEnd(t)'
      <4>1. AtTheEnd(t)
        BY DEF ClosingInv
      <4> QED
        BY <1>2, <3>1, <4>1 DEF AtTheEnd, HasUrn
    <3> QED
      BY <1>4, <1>6, <3>1, <3>2, <3>3
  <2>2. CASE Rests(t) \/ Asks(t) \/ Acquires(t)
    <3>1. Others(t) /\ UNCHANGED log
          /\ thread'[t].pc \in {"idle", "lookup", "duplicate", "owned", "lock", "allocate",
                                "detect", "begin", "verify", "recheck"}
      BY <2>2 DEF Rests, Asks, Acquires
    <3>2. OnTheWay(t)' /\ AtTheEnd(t)'
      BY <3>1 DEF OnTheWay, AtTheEnd
    <3> QED
      BY <1>4, <1>6, <3>1, <3>2
  <2>3. CASE Detects(t)
    <3>1. PICK row : row.event_type = "SCHEMA_CHANGE_DETECTED" /\ log' = Append(log, row)
      BY <2>3, DetectedRow
    <3>2. row.event_type # "SYSTEM_RESET"
      BY <3>1
    <3>3. Others(t) /\ thread'[t].pc = "begin"
      BY <2>3 DEF Detects
    <3>4. OnTheWay(t)' /\ AtTheEnd(t)'
      BY <3>3 DEF OnTheWay, AtTheEnd
    <3> QED
      BY <1>4, <1>5, <3>1, <3>2, <3>3, <3>4
  <2>4. CASE Appends(t)
    <3> DEFINE calls == thread[t].pending
               call == Head(calls)
               row == NewRow(log, call)
    <3> PICK n : n = Len(log) + 1
      OBVIOUS
    <3>1. /\ row.event_type # "SYSTEM_RESET" /\ row.case_id = thread[t].case_id
          /\ row.event_type = call.event_type /\ row.payload = call.payload
          /\ row.reset_scope = CurrentScope(log) /\ log' = Append(log, row)
      BY <2>4, AppendedRow
    <3>2. /\ Others(t) /\ thread[t].pc = "append"
          /\ thread'[t].case_id = thread[t].case_id /\ thread'[t].incident = thread[t].incident
          /\ thread'[t].next = thread[t].next
          /\ calls # <<>> /\ thread'[t].pending = Tail(calls)
          /\ thread'[t].pc = IF Len(calls) = 1 THEN thread[t].next ELSE "append"
      BY <2>4 DEF Appends
    <3>3. IsSeq(calls) /\ thread[t].next \in Middle
      BY <3>2 DEF Typed, ThreadsOK, ThreadOK
    <3>4. /\ Len(calls) \in Nat /\ Len(calls) > 0 /\ call = calls[1]
          /\ Len(Tail(calls)) = Len(calls) - 1
          /\ \A k \in 1 .. Len(calls) - 1 : Tail(calls)[k] = calls[k + 1]
      BY <3>2, <3>3, Tailed
    <3>5. OnTheWay(t) /\ ScopesAgree
      BY DEF ClosingInv
    <3> HIDE DEF row, call, calls
    <3>6. \A c : ActiveRows(log, c) \subseteq ActiveRows(log', c)
      BY <1>5, <3>1
    <3>7. /\ n \in DOMAIN log' /\ log'[n] = row /\ \A i \in DOMAIN log : i < n
      BY <1>1, <3>1, RowAdded
    <3>8. CASE Len(calls) = 1
      <4>1. thread'[t].pc = thread[t].next /\ thread'[t].pc # "append"
        BY <3>2, <3>3, <3>8, LockedPlaces
      <4>2. OnTheWay(t)'
        BY <4>1 DEF OnTheWay
      <4>3. thread'[t].pc # "resolve"
        BY <3>2, <3>5, <4>1 DEF OnTheWay
      <4>4. ASSUME thread'[t].pc = "final_evidence", HasUrn(t)'
            PROVE  Proven(thread[t].incident.urn)'
        <5>1. /\ HasUrn(t) /\ thread[t].next = "final_evidence"
          BY <3>2, <4>1, <4>4 DEF HasUrn
        <5>2. PICK i \in RowsOf(thread[t].case_id, "INCIDENT_RAISED") :
                      log[i].payload = thread[t].incident
          BY <3>2, <3>5, <5>1 DEF OnTheWay
        <5>3. call.event_type = "POST_DEPLOY_VERIFIED" /\ call.payload.mode = "LIVE_RECOMPUTED"
          BY <3>2, <3>4, <3>5, <3>8, <5>1 DEF OnTheWay, calls
        <5>4. /\ i \in DOMAIN log /\ i > CurrentScope(log) /\ log[i].case_id = thread[t].case_id
              /\ log[i].event_type = "INCIDENT_RAISED"
          BY DEF RowsOf, ActiveRows
        <5>5. log[i].reset_scope = CurrentScope(log)
          BY <3>5, <5>4 DEF ScopesAgree
        <5>6. /\ i \in DOMAIN log' /\ log'[i] = log[i] /\ i < n
          BY <1>1, <3>7, <5>4
        <5>7. SameStream(i, n)'
          BY <3>1, <3>7, <5>4, <5>5, <5>6 DEF SameStream
        <5>8. log'[i].event_type = "INCIDENT_RAISED"
              /\ log'[i].payload.urn = thread[t].incident.urn
          BY <5>2, <5>4, <5>6
        <5>9. log'[n].event_type = "POST_DEPLOY_VERIFIED"
              /\ log'[n].payload.mode = "LIVE_RECOMPUTED"
          BY <3>1, <3>7, <5>3
        <5> QED
          BY <3>2, <3>7, <5>6, <5>7, <5>8, <5>9 DEF Proven
      <4>5. AtTheEnd(t)'
        BY <3>2, <4>3, <4>4 DEF AtTheEnd
      <4> QED
        BY <1>4, <3>2, <3>6, <4>2, <4>5
    <3>9. CASE Len(calls) # 1
      <4>1. thread'[t].pc = "append"
        BY <3>2, <3>9
      <4>2. AtTheEnd(t)'
        BY <4>1 DEF AtTheEnd
      <4>3. Tail(calls)[Len(Tail(calls))] = calls[Len(calls)]
        <5> DEFINE m == Len(calls)
        <5>1. m \in Nat /\ m > 0 /\ m # 1
          BY <3>4, <3>9
        <5>2. Len(Tail(calls)) = m - 1 /\ \A k \in 1 .. m - 1 : Tail(calls)[k] = calls[k + 1]
          BY <3>4
        <5> HIDE DEF m
        <5>3. m - 1 \in 1 .. m - 1 /\ (m - 1) + 1 = m
          BY <5>1
        <5>4. Tail(calls)[m - 1] = calls[m]
          BY <5>2, <5>3
        <5> QED
          BY <5>2, <5>4 DEF m
      <4>4. thread'[t].next # "resolve"
        BY <3>2, <3>5 DEF OnTheWay
      <4>5. ASSUME thread'[t].next = "final_evidence", HasUrn(t)'
            PROVE  /\ \E i \in RowsOf(thread[t].case_id, "INCIDENT_RAISED")' :
                         log'[i].payload = thread'[t].incident
                   /\ calls[Len(calls)].event_type = "POST_DEPLOY_VERIFIED"
                   /\ calls[Len(calls)].payload.mode = "LIVE_RECOMPUTED"
        <5>1. /\ HasUrn(t) /\ thread[t].next = "final_evidence"
          BY <3>2, <4>5 DEF HasUrn
        <5>2. PICK i \in RowsOf(thread[t].case_id, "INCIDENT_RAISED") :
                      log[i].payload = thread[t].incident
          BY <3>2, <3>5, <5>1 DEF OnTheWay
        <5>3. calls[Len(calls)].event_type = "POST_DEPLOY_VERIFIED"
              /\ calls[Len(calls)].payload.mode = "LIVE_RECOMPUTED"
          BY <3>2, <3>5, <5>1 DEF OnTheWay, calls
        <5>4. i \in ActiveRows(log, thread[t].case_id) /\ i \in DOMAIN log
              /\ log[i].event_type = "INCIDENT_RAISED"
          BY DEF RowsOf, ActiveRows
        <5>5. log'[i] = log[i] /\ i \in ActiveRows(log', thread[t].case_id)
          BY <1>1, <3>6, <5>4
        <5>6. i \in {k \in ActiveRows(log', thread'[t].case_id) :
                       log'[k].event_type = "INCIDENT_RAISED"}
          BY <3>2, <5>4, <5>5
        <5>7. RowsOf(thread[t].case_id, "INCIDENT_RAISED")' =
                {k \in ActiveRows(log', thread'[t].case_id) :
                       log'[k].event_type = "INCIDENT_RAISED"}
          BY DEF RowsOf
        <5> QED
          BY <3>2, <5>2, <5>3, <5>5, <5>6, <5>7
      <4>6. OnTheWay(t)'
        BY <3>2, <4>3, <4>4, <4>5 DEF OnTheWay, calls
      <4> QED
        BY <1>4, <3>2, <3>6, <4>2, <4>6
    <3> QED
      BY <3>8, <3>9
  <2>5. CASE Judges(t)
    <3>1. /\ Others(t) /\ UNCHANGED log /\ thread'[t].pc = "append"
          /\ thread'[t].case_id = thread[t].case_id
          /\ thread'[t].next \in {"contain", "final_evidence"}
          /\ LET incident == thread'[t].incident IN
             thread'[t].next = "final_evidence" /\ incident # None /\ incident.urn # 0 =>
                /\ \E i \in RowsOf(thread[t].case_id, "INCIDENT_RAISED") :
                      log[i].payload = incident
                /\ LET last == thread'[t].pending[Len(thread'[t].pending)] IN
                   /\ last.event_type = "POST_DEPLOY_VERIFIED"
                   /\ last.payload.mode = "LIVE_RECOMPUTED"
      BY <2>5 DEF Judges
    <3>2. AtTheEnd(t)'
      BY <3>1 DEF AtTheEnd
    <3>3. RowsOf(thread[t].case_id, "INCIDENT_RAISED")'
             = RowsOf(thread[t].case_id, "INCIDENT_RAISED")
      BY <3>1 DEF RowsOf
    <3>4. OnTheWay(t)'
      BY <3>1, <3>3 DEF OnTheWay, HasUrn
    <3> QED
      BY <1>4, <1>6, <3>1, <3>2, <3>4
  <2> QED
    BY <1>7, <2>1, <2>2, <2>3, <2>4, <2>5 DEF Acts
<1>8. CASE Resets
  <2>1. \A t \in Threads : thread'[t].pc \notin Locked
    BY <1>8, ResetFindsNobody DEF Resets
  <2>2. \A t \in Threads : thread'[t].pc \notin {"append", "final_evidence", "resolve"}
    BY <2>1, LockedPlaces
  <2> QED
    BY <2>2 DEF OnTheWay, AtTheEnd
<1>9. ASSUME NEW p \in Processes, Crashes(p)
      PROVE  \A u \in Threads : OnTheWay(u)' /\ AtTheEnd(u)'
  <2>1. /\ thread' = [t \in Threads |-> IF ProcessOf[t] = p THEN IdleThread ELSE thread[t]]
        /\ UNCHANGED log
    BY <1>9 DEF Crashes
  <2>2. ASSUME NEW u \in Threads PROVE OnTheWay(u)' /\ AtTheEnd(u)'
    <3>1. CASE thread'[u] = thread[u]
      BY <1>3, <1>6, <2>1, <3>1
    <3>2. CASE thread'[u].pc = "idle"
      BY <3>2 DEF OnTheWay, AtTheEnd
    <3> QED
      BY <2>1, <3>1, <3>2, IdleOK
  <2> QED
    BY <2>2
<1>10. CASE UNCHANGED vars
  BY <1>3, <1>6, <1>10 DEF vars
<1> QED
  BY <1>7, <1>8, <1>9, <1>10, EveryStepHasAKind

\* Every step closes an incident on live evidence only, and evidence stays.
LEMMA ClosedStep ==
    ASSUME Typed, ClosingInv, [Next]_vars
    PROVE  IncidentClosedOnLiveEvidence'
<1>1. DOMAIN log \subseteq DOMAIN log' /\ \A i \in DOMAIN log : log'[i] = log[i]
  BY LogKept
<1>2. \A n : Proven(n) => Proven(n)'
  BY <1>1, ProvenStays
<1>3. \A n \in DOMAIN incidents : incidents[n].status = "RESOLVED" => Proven(n)
  BY DEF ClosingInv, IncidentClosedOnLiveEvidence, Proven
<1>4. ASSUME \A n \in DOMAIN incidents' : incidents'[n].status = "RESOLVED" => Proven(n)
      PROVE  IncidentClosedOnLiveEvidence'
  <2>1. \A n \in DOMAIN incidents' : incidents'[n].status = "RESOLVED" => Proven(n)'
    BY <1>2, <1>4
  <2> QED
    BY <2>1 DEF IncidentClosedOnLiveEvidence, Proven
<1>5. CASE UNCHANGED incidents
  BY <1>3, <1>4, <1>5
<1>6. ASSUME NEW t \in Threads, Moves(t) PROVE IncidentClosedOnLiveEvidence'
  <2>1. IncidentsMove(t)
    BY <1>6 DEF Moves
  <2>2. CASE incidents' = Append(incidents, [case_id |-> thread[t].case_id, status |-> "ACTIVE"])
    <3> DEFINE new == [case_id |-> thread[t].case_id, status |-> "ACTIVE"]
    <3>1. new.status # "RESOLVED" /\ IsSeq(incidents)
      BY DEF Typed, RemoteOK
    <3> HIDE DEF new
    <3>2. /\ Len(incidents) \in Nat
          /\ DOMAIN incidents = 1 .. Len(incidents)
          /\ DOMAIN incidents' = 1 .. Len(incidents) + 1
          /\ incidents'[Len(incidents) + 1] = new
          /\ \A k \in DOMAIN incidents : incidents'[k] = incidents[k]
      BY <2>2, <3>1, Appended DEF new
    <3>3. ASSUME NEW n \in DOMAIN incidents', incidents'[n].status = "RESOLVED"
          PROVE  Proven(n)
      <4>1. n \in DOMAIN incidents \/ n = Len(incidents) + 1
        BY <3>2
      <4> QED
        BY <1>3, <3>1, <3>2, <3>3, <4>1
    <3> QED
      BY <1>4, <3>3
  <2>3. CASE /\ thread[t].pc = "resolve" /\ thread[t].incident # None
             /\ thread[t].incident.urn # 0
             /\ incidents' = [incidents EXCEPT ![thread[t].incident.urn].status = "RESOLVED"]
    <3> DEFINE urn == thread[t].incident.urn
    <3>1. Proven(urn)
      BY <2>3 DEF ClosingInv, AtTheEnd, HasUrn
    <3>2. \A n \in DOMAIN incidents' :
             n \in DOMAIN incidents /\ (n # urn => incidents'[n] = incidents[n])
      BY <2>3
    <3> HIDE DEF urn
    <3>3. ASSUME NEW n \in DOMAIN incidents', incidents'[n].status = "RESOLVED"
          PROVE  Proven(n)
      BY <1>3, <3>1, <3>2, <3>3
    <3> QED
      BY <1>4, <3>3
  <2> QED
    BY <1>5, <2>1, <2>2, <2>3 DEF IncidentsMove
<1>7. ASSUME NEW t \in Threads, Acts(t), ~Moves(t) PROVE UNCHANGED incidents
  BY <1>7 DEF Acts, Rests, Asks, Acquires, Detects, Appends, Judges, remote
<1>8. Resets \/ (\E p \in Processes : Crashes(p)) \/ UNCHANGED vars => UNCHANGED incidents
  BY DEF Resets, Crashes, vars, remote
<1> QED
  BY <1>5, <1>6, <1>7, <1>8, EveryStepHasAKind

\* Initially there is neither an incident nor a thread at work.
LEMMA ClosingInit == Init => ClosingInv
<1> SUFFICES ASSUME Init PROVE ClosingInv
  OBVIOUS
<1>1. log = <<>> /\ incidents = <<>> /\ \A t \in Threads : thread[t].pc = "idle"
  BY IdleOK DEF Init
<1>2. DOMAIN log = {} /\ DOMAIN incidents = {}
  BY <1>1, ShortSeqs
<1> QED
  BY <1>1, <1>2 DEF ClosingInv, ScopesAgree, OnTheWay, AtTheEnd, IncidentClosedOnLiveEvidence

\* With one API process a DataHub incident is closed only after its own case
\* recorded, later in the same stream, a verification recomputed from live data:
\* no crash, reset, redelivery or mistaken answer of DataHub closes one sooner.
THEOREM IncidentsClosedOnEvidence ==
    ASSUME OneProcess
    PROVE  Spec => []IncidentClosedOnLiveEvidence
<1>1. Typed /\ LockHeld /\ ClosingInv /\ [Next]_vars => ClosingInv'
  <2> SUFFICES ASSUME Typed, LockHeld, ClosingInv, [Next]_vars PROVE ClosingInv'
    OBVIOUS
  <2>1. ScopesAgree'
    BY ScopesAgreeStep DEF ClosingInv
  <2>2. \A t \in Threads : OnTheWay(t)' /\ AtTheEnd(t)'
    BY ThreadsOnTheirWayStep
  <2>3. IncidentClosedOnLiveEvidence'
    BY ClosedStep
  <2> QED
    BY <2>1, <2>2, <2>3 DEF ClosingInv
<1>2. ClosingInv => IncidentClosedOnLiveEvidence
  BY DEF ClosingInv
<1> QED
  BY <1>1, <1>2, LockAlwaysHeld, ClosingInit, PTL DEF Spec

===============================================================================
