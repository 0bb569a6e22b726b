--------------------------- MODULE RecoveryWorkflow ---------------------------
(***************************************************************************)
(* WorkflowService of apps/api/workflow.py: requests served by threads of  *)
(* one or more API processes, the per-process worker lock and ownership    *)
(* sets, the event store they write, and the three remote systems an       *)
(* advance touches: DataHub incidents, DataHub evidence documents and      *)
(* GitHub draft pull requests.                                             *)
(*                                                                         *)
(* One step is a read of the store together with the decision and the      *)
(* remote call made on what was read, or one append transaction.  Between  *)
(* any two steps the process may crash, and an exception may leave the     *)
(* code (a SQLite or file error): both are drawn from a budget of faults.  *)
(***************************************************************************)
EXTENDS EventLog

CONSTANTS
    Processes, Threads,
    ProcessOf,          \* the process a thread belongs to
    CaseIds, DedupKeys, Contents, KeyOf,
    DisplayIds,         \* the ids a drift may be shown under, shortest first
    Events,             \* schema changes on allowed assets: [content, event_id]
    Proposals,          \* candidate repairs the generator may propose
    ReplayMode,         \* settings.replay_mode
    LiveExecutor,       \* settings.execution_mode = "postgres"
    DataHubConfigured, GeneratorConfigured, GitHubEnabled,
    MaxAttempts,        \* the 8 allocation attempts of ingest
    Bounds              \* faults, resets, verifications and duplicate
                        \* deliveries in one behaviour

ASSUME WorkflowConstants ==
    /\ ProcessOf \in [Threads -> Processes]
    /\ KeyOf \in [Contents -> DedupKeys]
    /\ \A d \in DedupKeys : DisplayIds[d] \in Seq(CaseIds)
    /\ \A e \in Events : e.content \in Contents
    /\ MaxAttempts \in Nat \ {0}
    /\ Bounds \in [{"faults", "resets", "verifications", "duplicates"} -> Nat]
    /\ {ReplayMode, LiveExecutor, DataHubConfigured,
        GeneratorConfigured, GitHubEnabled} \subseteq BOOLEAN

ASSUME NoneIsNothingElse ==
    /\ None \notin Threads \cup CaseIds \cup DedupKeys
    /\ None \notin {"ingest", "advance", "handler", "verify"}
    /\ None \notin Events
    /\ SystemCase \notin CaseIds
    /\ \A e \in Events : e.event_id \notin Nat

VARIABLES
    log,         \* rows of the events table
    thread,      \* the request each thread is serving
    lock,        \* _worker_lock: its holder, per process
    active,      \* _active_cases, per process
    settled,     \* _settled_cases, per process
    incidents,   \* remote: incidents ever raised, with their status
    documents,   \* remote: decisions published in a case's evidence report
    drafts,      \* remote: cases whose draft pull request exists
    unacked,     \* schema changes the sender will deliver again
    budget       \* what is left of Bounds

process == <<lock, active, settled>>
remote  == <<incidents, documents, drafts>>
vars    == <<log, thread, process, remote, unacked, budget>>

-------------------------------------------------------------------------------
(***************************************************************************)
(* Projection of a case.                                                   *)
(***************************************************************************)
ResumableStates ==
    {"DETECTED", "CONTEXT_GATHERED", "CANDIDATES_READY", "VALIDATING", "PATCH_READY"}

\* get_case raises CaseNotFoundError without active rows, and ValueError when
\* the first of them is not the detection.
Readable(c) ==
    /\ ActiveRows(log, c) # {}
    /\ log[Min(ActiveRows(log, c))].event_type = "SCHEMA_CHANGE_DETECTED"

RowsOf(c, type) == {i \in ActiveRows(log, c) : log[i].event_type = type}

\* The payload of the case's last event of a type; None if it has none.
LastOf(c, type) ==
    LET rows == RowsOf(c, type) IN IF rows = {} THEN None ELSE log[Max(rows)].payload

\* The last assessment of a proposal; "NONE" if it has none.
OutcomeOf(c, p) ==
    LET rows == {i \in RowsOf(c, "CANDIDATE_ASSESSED") : log[i].payload.id = p}
    IN  IF rows = {} THEN "NONE" ELSE log[Max(rows)].payload.outcome

Unassessed == [p \in Proposals |-> "NONE"]

\* project_case: what the workflow reads back at each of its checkpoints.
Project(c) ==
    [state       |-> CurrentState(log, c),
     incident    |-> LastOf(c, "INCIDENT_RAISED"),
     hasContext  |-> RowsOf(c, "CONTEXT_GATHERED") # {},
     proposals   |-> IF RowsOf(c, "CANDIDATES_READY") = {} THEN {}
                     ELSE LastOf(c, "CANDIDATES_READY").proposals,
     assessed    |-> [p \in Proposals |-> OutcomeOf(c, p)],
     hasPatch    |-> RowsOf(c, "PATCH_READY") # {},
     writeback   |-> LastOf(c, "EVIDENCE_WRITTEN"),
     hasDraft    |-> RowsOf(c, "PR_OPENED") # {}]

-------------------------------------------------------------------------------
(***************************************************************************)
(* The remote systems, external to the repository.  A configured one       *)
(* answers SUCCEEDED when the mutation was applied and read back, FAILED   *)
(* when anything went wrong, applied or not.                               *)
(***************************************************************************)
Answers(configured, otherwise) ==
    IF configured THEN {<<"SUCCEEDED", TRUE>>, <<"FAILED", TRUE>>, <<"FAILED", FALSE>>}
                  ELSE {<<otherwise, FALSE>>}

DataHubAnswers == Answers(DataHubConfigured, "NOT_CONFIGURED")
GitHubAnswers  == Answers(GitHubEnabled, "NOT_RUN")

\* raise_incident; only a confirmed incident's urn is reported (0: none is).
RaiseIncident(c, applied) ==
    incidents' = IF applied
                 THEN Append(incidents, [case_id |-> c, status |-> "ACTIVE"])
                 ELSE incidents

WriteDocument(c, decision, applied) ==
    documents' = IF applied THEN [documents EXCEPT ![c] = @ \cup {decision}]
                            ELSE documents

\* An incident without a remote urn cannot be resolved.
ResolveAnswers(urn) ==
    IF DataHubConfigured /\ urn = 0 THEN {<<"FAILED", FALSE>>} ELSE DataHubAnswers

Ready(status) == ReplayMode \/ status = "SUCCEEDED"
IsLive(incident) == incident # None /\ incident.status = "SUCCEEDED"

-------------------------------------------------------------------------------
(***************************************************************************)
(* Threads.                                                                *)
(***************************************************************************)
IdleThread ==
    [pc |-> "idle", op |-> None, event |-> None, case_id |-> None, attempt |-> 0,
     incident |-> None, proposals |-> {}, assessed |-> Unassessed,
     pending |-> <<>>, next |-> None]

At(t, pc)   == thread[t].pc = pc
CaseOf(t)   == thread[t].case_id
KeyOfReq(t) == KeyOf[thread[t].event.content]
Goto(t, pc) == thread' = [thread EXCEPT ![t].pc = pc]

Holds(t) == lock[ProcessOf[t]] = t

\* Append these events to the case one after the other, then go on at next.
Queued(t, calls, next) ==
    [thread[t] EXCEPT !.pc = "append", !.pending = calls, !.next = next]
Queue(t, calls, next) == thread' = [thread EXCEPT ![t] = Queued(t, calls, next)]
Call(t, type, payload) == ProgressCall(CaseOf(t), type, payload)

\* The detection this request stands for.  observed_at is fixed: EventStore
\* shows that it makes no difference.
DetectionOf(t, c) ==
    DetectionCall(c, [content |-> thread[t].event.content, observed_at |-> 0],
                  KeyOfReq(t), thread[t].event.event_id)

\* Mutant of Respond: an error leaves the worker lock held.
MutRespondKeepsLock(t, ok) ==
    /\ thread' = [thread EXCEPT ![t] = IdleThread]
    /\ lock' = [lock EXCEPT ![ProcessOf[t]] = IF @ = t /\ ok THEN None ELSE @]
    /\ unacked' = IF ok THEN unacked \ {thread[t].event} ELSE unacked

\* The HTTP answer; leaving the with block releases the worker lock.  A sender
\* that gets no answer, or an error, keeps its schema change.
Respond(t, ok) ==
    /\ thread' = [thread EXCEPT ![t] = IdleThread]
    /\ lock' = [lock EXCEPT ![ProcessOf[t]] = IF @ = t THEN None ELSE @]
    /\ unacked' = IF ok THEN unacked \ {thread[t].event} ELSE unacked

\* The finally clause of _advance_safely_locked.
Release(t, completed) ==
    /\ active' = [active EXCEPT ![ProcessOf[t]] = @ \ {CaseOf(t)}]
    /\ settled' = [settled EXCEPT ![ProcessOf[t]] =
                      IF completed THEN @ \cup {CaseOf(t)} ELSE @]

Spend(what) ==
    /\ budget[what] > 0
    /\ budget' = [budget EXCEPT ![what] = @ - 1]

ReadingPcs == {"incident", "context", "candidates", "validate", "load", "select",
               "evidence", "pull_request", "handler", "verify"}
BusyPcs    == ReadingPcs \cup {"duplicate", "recheck", "allocate", "detect",
                               "assess", "contain", "append", "final_evidence",
                               "resolve"}

\* An exception leaves the code the thread is running.  _advance's are caught
\* once, by the handler that records FAILED; one that leaves the handler, or
\* any other code, becomes an error answer.
Exception(t) ==
    /\ UNCHANGED <<log, remote>>
    /\ \/ /\ thread[t].op = "advance"
          /\ thread' = [thread EXCEPT ![t].pc = "handler", ![t].op = "handler",
                                      ![t].pending = <<>>]
          /\ UNCHANGED <<process, unacked>>
       \/ /\ thread[t].op = "handler"
          /\ Respond(t, FALSE)
          /\ Release(t, FALSE)
       \/ /\ thread[t].op \in {"ingest", "verify"}
          /\ Respond(t, FALSE)
          /\ UNCHANGED <<active, settled>>

-------------------------------------------------------------------------------
(***************************************************************************)
(* ingest: the request, its unlocked fast path, and the locked section.    *)
(***************************************************************************)

\* A schema change arrives: sent again because it was never answered, or an
\* extra copy of one that was.  (One on an asset outside the allowlist is
\* refused before anything is read.)
Deliver(t, e) ==
    /\ At(t, "idle")
    /\ \/ e \in unacked /\ UNCHANGED budget
       \/ e \notin unacked /\ Spend("duplicates")
    /\ thread' = [thread EXCEPT ![t].pc = "lookup", ![t].op = "ingest",
                                ![t].event = e]
    /\ UNCHANGED <<log, process, remote, unacked>>

\* The optimistic find_case_for_dedup, outside the lock.
Lookup(t) ==
    /\ At(t, "lookup")
    /\ LET existing == CaseForDedup(log, KeyOfReq(t))
       IN  IF existing = None
           THEN Goto(t, "lock")
           ELSE thread' = [thread EXCEPT ![t].pc = "duplicate",
                                         ![t].case_id = existing]
    /\ UNCHANGED <<log, process, remote, unacked, budget>>

\* _deduplicated_response, outside the lock: the event id must not be reused
\* for another change, and the case must still be active.
FastDuplicate(t) ==
    /\ At(t, "duplicate")
    /\ LET c == CaseOf(t) IN
       \/ /\ Conflict(log, DetectionOf(t, c))
          /\ Exception(t)
       \/ /\ ~Conflict(log, DetectionOf(t, c)) /\ ActiveRows(log, c) = {}
          /\ Goto(t, "lock")
          /\ UNCHANGED <<process, unacked>>
       \/ /\ ~Conflict(log, DetectionOf(t, c)) /\ ActiveRows(log, c) # {}
          /\ IF ~Readable(c) THEN Exception(t)
             ELSE IF CurrentState(log, c) \notin ResumableStates
                  THEN Respond(t, TRUE) /\ UNCHANGED <<active, settled>>
                  ELSE Goto(t, "owned") /\ UNCHANGED <<process, unacked>>
    /\ UNCHANGED <<log, remote, budget>>

\* _case_is_owned_by_process, after the state was read.
FastOwned(t) ==
    /\ At(t, "owned")
    /\ \/ /\ CaseOf(t) \in active[ProcessOf[t]] \cup settled[ProcessOf[t]]
          /\ Respond(t, TRUE)
          /\ UNCHANGED <<active, settled>>
       \/ /\ CaseOf(t) \notin active[ProcessOf[t]] \cup settled[ProcessOf[t]]
          /\ Goto(t, "lock")
          /\ UNCHANGED <<process, unacked>>
    /\ UNCHANGED <<log, remote, budget>>

\* with self._worker_lock.
Acquire(t) ==
    /\ At(t, "lock")
    /\ lock[ProcessOf[t]] = None
    /\ lock' = [lock EXCEPT ![ProcessOf[t]] = t]
    /\ Goto(t, IF thread[t].op = "verify" THEN "verify" ELSE "recheck")
    /\ UNCHANGED <<log, active, settled, remote, unacked, budget>>

\* Mutant of Recheck: every known drift is a duplicate, finished or not.
MutRecheckNoResume(t) ==
    /\ At(t, "recheck")
    /\ LET existing == CaseForDedup(log, KeyOfReq(t)) IN
       \/ existing = None /\ Goto(t, "allocate") /\ UNCHANGED <<process, unacked>>
       \/ existing # None /\ Respond(t, TRUE) /\ UNCHANGED <<active, settled>>
    /\ UNCHANGED <<log, remote, budget>>

\* The second look, under the lock: a durable checkpoint that no one in this
\* process owns is resumed, any other known drift is a duplicate.
Recheck(t) ==
    /\ At(t, "recheck")
    /\ LET existing == CaseForDedup(log, KeyOfReq(t)) IN
       \/ /\ existing = None
          /\ Goto(t, "allocate")
          /\ UNCHANGED <<process, unacked>>
       \/ /\ existing # None
          /\ Conflict(log, DetectionOf(t, existing)) \/ ~Readable(existing)
          /\ Exception(t)
       \/ /\ existing # None
          /\ ~Conflict(log, DetectionOf(t, existing)) /\ Readable(existing)
          /\ IF /\ CurrentState(log, existing) \in ResumableStates
                /\ existing \notin active[ProcessOf[t]] \cup settled[ProcessOf[t]]
             THEN /\ thread' = [thread EXCEPT ![t].pc = "begin",
                                              ![t].case_id = existing]
                  /\ UNCHANGED <<process, unacked>>
             ELSE Respond(t, TRUE) /\ UNCHANGED <<active, settled>>
    /\ UNCHANGED <<log, remote, budget>>

\* _available_case_id: the shortest display id that is not taken.
FreeIds(d) == {i \in DOMAIN DisplayIds[d] : ActiveRows(log, DisplayIds[d][i]) = {}}
AvailableId(d) ==
    IF CaseForDedup(log, d) # None THEN CaseForDedup(log, d)
    ELSE IF FreeIds(d) = {} THEN None ELSE DisplayIds[d][Min(FreeIds(d))]

Allocate(t) ==
    /\ At(t, "allocate")
    /\ LET c == AvailableId(KeyOfReq(t)) IN
       \/ /\ c = None \/ Conflict(log, DetectionOf(t, c))
          /\ Exception(t)
       \/ /\ c # None /\ ~Conflict(log, DetectionOf(t, c))
          /\ IF IdTaken(log, DetectionOf(t, c))
             THEN Respond(t, Readable(c)) /\ UNCHANGED <<active, settled>>
             ELSE /\ thread' = [thread EXCEPT ![t].pc = "detect", ![t].case_id = c]
                  /\ UNCHANGED <<process, unacked>>
    /\ UNCHANGED <<log, remote, budget>>

\* Mutant of Detect: the id that was free a moment ago is taken for granted.
MutDetectUnchecked(t) ==
    /\ At(t, "detect")
    /\ log' = Append(log, NewRow(log, DetectionOf(t, CaseOf(t))))
    /\ Goto(t, "begin")
    /\ UNCHANGED <<process, unacked, remote, budget>>

\* The append of the detection event, which re-checks all of the above.
Detect(t) ==
    /\ At(t, "detect")
    /\ LET call == DetectionOf(t, CaseOf(t)) IN
       \/ /\ Accepted(log, call)
          /\ log' = Append(log, NewRow(log, call))
          /\ Goto(t, "begin")
          /\ UNCHANGED <<process, unacked, remote>>
       \/ /\ Conflict(log, call)
          /\ Exception(t)
       \/ /\ Duplicate(log, call)
          /\ Respond(t, Readable(DuplicateOf(log, call)))
          /\ UNCHANGED <<log, active, settled, remote>>
       \/ /\ SecondDetection(log, call)
          /\ ~IdTaken(log, call) /\ ~KeyTaken(log, call)
          /\ IF thread[t].attempt + 1 = MaxAttempts
             THEN Exception(t)
             ELSE /\ thread' = [thread EXCEPT ![t].pc = "allocate",
                                              ![t].attempt = @ + 1]
                  /\ UNCHANGED <<log, process, unacked, remote>>
    /\ UNCHANGED budget

\* Mutant of Begin: ownership is entered under the dedup key.
MutBeginByKey(t) ==
    /\ At(t, "begin")
    /\ active' = [active EXCEPT ![ProcessOf[t]] = @ \cup {KeyOfReq(t)}]
    /\ thread' = [thread EXCEPT ![t].pc = "incident", ![t].op = "advance"]
    /\ UNCHANGED <<log, lock, settled, remote, unacked, budget>>

\* Entering _advance_safely_locked.
Begin(t) ==
    /\ At(t, "begin")
    /\ active' = [active EXCEPT ![ProcessOf[t]] = @ \cup {CaseOf(t)}]
    /\ thread' = [thread EXCEPT ![t].pc = "incident", ![t].op = "advance"]
    /\ UNCHANGED <<log, lock, settled, remote, unacked, budget>>

-------------------------------------------------------------------------------
(***************************************************************************)
(* _advance: each step reads the case back and goes on from the last       *)
(* checkpoint it finds.                                                    *)
(***************************************************************************)
StepOnly == UNCHANGED <<log, process, unacked, budget>>
At_(t, pc) == At(t, pc) /\ Readable(CaseOf(t))

\* The remote incident is raised once per case; connected mode needs it.
Incident(t) ==
    /\ At_(t, "incident")
    /\ LET case == Project(CaseOf(t)) IN
       \/ /\ case.state \notin ResumableStates
          /\ Goto(t, "finish")
          /\ UNCHANGED incidents
       \/ /\ case.state \in ResumableStates /\ case.incident # None
          /\ IF Ready(case.incident.status)
             THEN Goto(t, "context")
             ELSE Queue(t, <<Call(t, "FAILED", [reason |-> "incident"])>>, "finish")
          /\ UNCHANGED incidents
       \/ /\ case.state \in ResumableStates /\ case.incident = None
          /\ \E a \in DataHubAnswers :
                LET urn == IF a[1] = "SUCCEEDED" THEN Len(incidents) + 1 ELSE 0
                    raised == Call(t, "INCIDENT_RAISED", [status |-> a[1], urn |-> urn])
                IN  /\ RaiseIncident(CaseOf(t), a[2])
                    /\ IF Ready(a[1])
                       THEN Queue(t, <<raised>>, "context")
                       ELSE Queue(t, <<raised, Call(t, "FAILED", [reason |-> "incident"])>>,
                                  "finish")
    /\ UNCHANGED <<documents, drafts>> /\ StepOnly

\* _context: a configured DataHub may answer with an incomplete context; without
\* an answer the recorded replay context stands in for it, in replay mode only.
ContextMayBeIncomplete == DataHubConfigured \/ ~ReplayMode

Context(t) ==
    /\ At_(t, "context")
    /\ IF Project(CaseOf(t)).hasContext
       THEN Goto(t, "candidates")
       ELSE \/ Queue(t, <<Call(t, "CONTEXT_GATHERED", None)>>, "candidates")
            \/ ContextMayBeIncomplete /\ Goto(t, "contain")
    /\ UNCHANGED remote /\ StepOnly

GeneratorAnswers ==
    IF GeneratorConfigured THEN {"SUCCEEDED", "FAILED"}
    ELSE IF ReplayMode THEN {"RECORDED_REPLAY"} ELSE {"NOT_CONFIGURED"}

Candidates(t) ==
    /\ At_(t, "candidates")
    /\ LET known == Project(CaseOf(t)).proposals IN
       \/ /\ known # {}
          /\ thread' = [thread EXCEPT ![t].pc = "validate", ![t].proposals = known]
       \/ /\ known = {}
          /\ \E s \in GeneratorAnswers, found \in SUBSET Proposals :
                IF ~Ready(s)
                THEN Queue(t, <<Call(t, "FAILED", [reason |-> "generation"])>>, "finish")
                ELSE IF found = {}
                THEN Goto(t, "contain")
                ELSE thread' = [thread EXCEPT ![t] =
                        [Queued(t, <<Call(t, "CANDIDATES_READY", [proposals |-> found])>>,
                                "validate") EXCEPT !.proposals = found]]
    /\ UNCHANGED remote /\ StepOnly

Validate(t) ==
    /\ At_(t, "validate")
    /\ IF CurrentState(log, CaseOf(t)) = "CANDIDATES_READY"
       THEN Queue(t, <<Call(t, "VALIDATION_STARTED", None)>>, "load")
       ELSE Goto(t, "load")
    /\ UNCHANGED remote /\ StepOnly

\* Mutant of Load: what was assessed before the crash is forgotten.
MutLoadNothing(t) ==
    /\ At_(t, "load")
    /\ thread' = [thread EXCEPT ![t].pc = "assess", ![t].assessed = Unassessed]
    /\ UNCHANGED remote /\ StepOnly

\* assessments_by_id: what earlier runs of this case already assessed.
Load(t) ==
    /\ At_(t, "load")
    /\ thread' = [thread EXCEPT ![t].pc = "assess",
                                ![t].assessed = Project(CaseOf(t)).assessed]
    /\ UNCHANGED remote /\ StepOnly

\* The executor runs one proposal and the policy judges it; an executor that
\* raises counts as a rejection.
Assess(t) ==
    /\ At(t, "assess")
    /\ \E p \in thread[t].proposals, outcome \in {"ELIGIBLE", "REJECTED"} :
          /\ thread[t].assessed[p] = "NONE"
          /\ thread' = [thread EXCEPT ![t] =
                [Queued(t, <<Call(t, "CANDIDATE_ASSESSED", [id |-> p, outcome |-> outcome])>>,
                        "assess") EXCEPT !.assessed[p] = outcome]]
    /\ UNCHANGED remote /\ StepOnly

Eligible(t) == {p \in thread[t].proposals : thread[t].assessed[p] = "ELIGIBLE"}

AllAssessed(t) ==
    /\ At(t, "assess")
    /\ \A p \in thread[t].proposals : thread[t].assessed[p] # "NONE"
    /\ Goto(t, IF Eligible(t) = {} THEN "contain" ELSE "select")
    /\ UNCHANGED remote /\ StepOnly

\* min() over the eligible assessments; their metrics are not modelled, so any
\* of them may be the best.
Select(t) ==
    /\ At_(t, "select")
    /\ IF Project(CaseOf(t)).hasPatch
       THEN Goto(t, "evidence")
       ELSE \E p \in Eligible(t) :
                Queue(t, <<Call(t, "PATCH_READY", [selected |-> p])>>, "evidence")
    /\ UNCHANGED remote /\ StepOnly

\* Mutant of Evidence: a recorded report is taken for a confirmed one.
MutEvidenceUnread(t) ==
    /\ At_(t, "evidence")
    /\ LET written == Project(CaseOf(t)).writeback
           failed  == Call(t, "FAILED", [reason |-> "evidence"])
       IN
       \/ written # None /\ Goto(t, "pull_request") /\ UNCHANGED documents
       \/ /\ written = None
          /\ \E a \in DataHubAnswers :
                LET row == Call(t, "EVIDENCE_WRITTEN", [status |-> a[1]]) IN
                /\ WriteDocument(CaseOf(t), "SAFE_REPAIR_VALIDATED", a[2])
                /\ IF Ready(a[1]) THEN Queue(t, <<row>>, "pull_request")
                                  ELSE Queue(t, <<row, failed>>, "finish")
    /\ UNCHANGED <<incidents, drafts>> /\ StepOnly

Evidence(t) ==
    /\ At_(t, "evidence")
    /\ LET written == Project(CaseOf(t)).writeback
           failed  == Call(t, "FAILED", [reason |-> "evidence"])
       IN
       \/ /\ written # None
          /\ IF Ready(written.status) THEN Goto(t, "pull_request")
                                      ELSE Queue(t, <<failed>>, "finish")
          /\ UNCHANGED documents
       \/ /\ written = None
          /\ \E a \in DataHubAnswers :
                LET row == Call(t, "EVIDENCE_WRITTEN", [status |-> a[1]]) IN
                /\ WriteDocument(CaseOf(t), "SAFE_REPAIR_VALIDATED", a[2])
                /\ IF Ready(a[1]) THEN Queue(t, <<row>>, "pull_request")
                                  ELSE Queue(t, <<row, failed>>, "finish")
    /\ UNCHANGED <<incidents, drafts>> /\ StepOnly

\* Only a draft that GitHub confirmed moves the case; any other answer is
\* recorded and leaves it in PATCH_READY.
PullRequest(t) ==
    /\ At_(t, "pull_request")
    /\ IF Project(CaseOf(t)).hasDraft
       THEN Goto(t, "finish") /\ UNCHANGED drafts
       ELSE \E a \in GitHubAnswers :
               /\ drafts' = IF a[2] THEN drafts \cup {CaseOf(t)} ELSE drafts
               /\ Queue(t, <<Call(t, IF a[1] = "SUCCEEDED" THEN "PR_OPENED"
                                                           ELSE "PR_ATTEMPTED",
                                  [status |-> a[1]])>>, "finish")
    /\ UNCHANGED <<incidents, documents>> /\ StepOnly

\* _contain: the refusal is published first, then recorded.
Contain(t) ==
    /\ At(t, "contain")
    /\ \E a \in DataHubAnswers :
          /\ WriteDocument(CaseOf(t), "AUTO_REPAIR_REFUSED", a[2])
          /\ Queue(t, <<Call(t, "CONTAINED", [status |-> a[1]])>>, "finish")
    /\ UNCHANGED <<incidents, drafts>> /\ StepOnly

\* One append transaction; a transition that has become illegal raises.
AppendEvent(t) ==
    /\ At(t, "append")
    /\ LET call == Head(thread[t].pending) IN
       \/ /\ Accepted(log, call)
          /\ log' = Append(log, NewRow(log, call))
          /\ thread' = [thread EXCEPT ![t].pending = Tail(@),
                ![t].pc = IF Len(thread[t].pending) = 1 THEN thread[t].next ELSE "append"]
          /\ UNCHANGED <<process, unacked, remote>>
       \/ ~Accepted(log, call) /\ Exception(t)
    /\ UNCHANGED budget

\* Mutant of Handler: the exception is swallowed.
MutHandlerSilent(t) ==
    /\ At_(t, "handler")
    /\ Goto(t, "finish")
    /\ UNCHANGED remote /\ StepOnly

\* The except branch of _advance_safely_locked.
Handler(t) ==
    /\ At_(t, "handler")
    /\ IF CurrentState(log, CaseOf(t)) \in TerminalStates
       THEN Goto(t, "finish")
       ELSE Queue(t, <<Call(t, "FAILED", [reason |-> "exception"])>>, "finish")
    /\ UNCHANGED remote /\ StepOnly

\* The end of the locked section: finally, the last get_case, the answer.
Finish(t) ==
    /\ At(t, "finish")
    /\ Respond(t, Readable(CaseOf(t)))
    /\ IF thread[t].op = "verify" THEN UNCHANGED <<active, settled>>
                                  ELSE Release(t, TRUE)
    /\ UNCHANGED <<log, remote, budget>>

-------------------------------------------------------------------------------
(***************************************************************************)
(* verify_deployment, under the same lock.                                 *)
(***************************************************************************)
StartVerify(t, c) ==
    /\ At(t, "idle")
    /\ ActiveRows(log, c) # {}
    /\ Spend("verifications")
    /\ thread' = [thread EXCEPT ![t].pc = "lock", ![t].op = "verify",
                                ![t].case_id = c]
    /\ UNCHANGED <<log, process, remote, unacked>>

EvidenceMode == IF LiveExecutor THEN "LIVE_RECOMPUTED" ELSE "RECORDED_REPLAY_INPUT"

\* Mutant of Verify: a live incident is closed on the caller's numbers too.
MutVerifyTrusting(t) ==
    /\ At_(t, "verify")
    /\ LET case     == Project(CaseOf(t))
           deployed == Call(t, "DEPLOYMENT_RECORDED", [mode |-> EvidenceMode])
           verified == Call(t, "POST_DEPLOY_VERIFIED", [mode |-> EvidenceMode])
       IN  IF case.state # "PR_OPEN"
           THEN Exception(t)
           ELSE /\ thread' = [thread EXCEPT ![t] =
                    [Queued(t, <<deployed, verified>>, "final_evidence")
                     EXCEPT !.incident = case.incident]]
                /\ UNCHANGED <<log, process, remote, unacked>>
    /\ UNCHANGED budget

\* _live_post_deploy_evidence and the policy's verdict on it: the base may have
\* moved, the merged patch may differ, the executor may fail, and without fresh
\* DataHub context there is no evidence at all.
LiveVerdicts ==
    {"unobtainable"} \cup (IF DataHubConfigured THEN {"accepted", "refused"} ELSE {})

\* Without live evidence the caller's numbers are judged, but never to close a
\* live incident.
Verdicts(incident) ==
    IF LiveExecutor THEN LiveVerdicts
    ELSE IF IsLive(incident) THEN {"unobtainable"} ELSE {"accepted", "refused"}

\* Refused, with nothing recorded, unless the draft PR is open and there is
\* evidence to judge.
Verify(t) ==
    /\ At_(t, "verify")
    /\ LET case     == Project(CaseOf(t))
           deployed == Call(t, "DEPLOYMENT_RECORDED", [mode |-> EvidenceMode])
           verified == Call(t, "POST_DEPLOY_VERIFIED", [mode |-> EvidenceMode])
       IN
       \/ case.state # "PR_OPEN" /\ Exception(t)
       \/ /\ case.state = "PR_OPEN"
          /\ \E verdict \in Verdicts(case.incident) :
                IF verdict = "unobtainable" THEN Exception(t)
                ELSE /\ thread' = [thread EXCEPT ![t] =
                          [(IF verdict = "accepted"
                            THEN Queued(t, <<deployed, verified>>, "final_evidence")
                            ELSE Queued(t, <<deployed>>, "contain"))
                           EXCEPT !.incident = case.incident]]
                     /\ UNCHANGED <<log, process, remote, unacked>>
    /\ UNCHANGED budget

\* Mutant of FinalEvidence: the incident is resolved before its report is safe.
MutResolveFirst(t) ==
    /\ At(t, "final_evidence")
    /\ LET incident == thread[t].incident IN
       /\ incidents' = IF IsLive(incident)
                       THEN [incidents EXCEPT ![incident.urn].status = "RESOLVED"]
                       ELSE incidents
       /\ \E a \in DataHubAnswers :
             /\ WriteDocument(CaseOf(t), "RECOVERED", a[2])
             /\ IF IsLive(incident) /\ a[1] # "SUCCEEDED"
                THEN Queue(t, <<Call(t, "FAILED", [reason |-> "final evidence"])>>, "finish")
                ELSE Goto(t, "resolve")
    /\ UNCHANGED drafts /\ StepOnly

FinalEvidence(t) ==
    /\ At(t, "final_evidence")
    /\ \E a \in DataHubAnswers :
          /\ WriteDocument(CaseOf(t), "RECOVERED", a[2])
          /\ IF IsLive(thread[t].incident) /\ a[1] # "SUCCEEDED"
             THEN Queue(t, <<Call(t, "FAILED", [reason |-> "final evidence"])>>, "finish")
             ELSE Goto(t, "resolve")
    /\ UNCHANGED <<incidents, drafts>> /\ StepOnly

\* Mutant of Resolve: the answer of the closing call is not looked at.
MutResolveBlind(t) ==
    /\ At(t, "resolve")
    /\ LET urn == IF thread[t].incident = None THEN 0 ELSE thread[t].incident.urn IN
       \E a \in ResolveAnswers(urn) :
          /\ incidents' = IF a[2] THEN [incidents EXCEPT ![urn].status = "RESOLVED"]
                                  ELSE incidents
          /\ Queue(t, <<Call(t, "INCIDENT_RESOLVED", [status |-> a[1]])>>, "finish")
    /\ UNCHANGED <<documents, drafts>> /\ StepOnly

Resolve(t) ==
    /\ At(t, "resolve")
    /\ LET urn == IF thread[t].incident = None THEN 0 ELSE thread[t].incident.urn IN
       \E a \in ResolveAnswers(urn) :
          /\ incidents' = IF a[2] THEN [incidents EXCEPT ![urn].status = "RESOLVED"]
                                  ELSE incidents
          /\ IF IsLive(thread[t].incident) /\ a[1] # "SUCCEEDED"
             THEN Queue(t, <<Call(t, "FAILED", [reason |-> "resolution"])>>, "finish")
             ELSE Queue(t, <<Call(t, "INCIDENT_RESOLVED", [status |-> a[1]])>>, "finish")
    /\ UNCHANGED <<documents, drafts>> /\ StepOnly

-------------------------------------------------------------------------------
(***************************************************************************)
(* Resets, faults and restarts.                                            *)
(***************************************************************************)

\* Mutant of ResetDemo: the store is reset without the worker lock.
MutResetUnlocked(p) ==
    /\ Spend("resets")
    /\ log' = Append(log, ResetRow(log))
    /\ UNCHANGED <<thread, process, remote, unacked>>

\* reset() holds the worker lock around its one transaction.
ResetDemo(p) ==
    /\ lock[p] = None
    /\ Spend("resets")
    /\ log' = Append(log, ResetRow(log))
    /\ UNCHANGED <<thread, process, remote, unacked>>

\* A projection that cannot be read raises.
Unreadable(t) ==
    /\ thread[t].pc \in ReadingPcs
    /\ ~Readable(CaseOf(t))
    /\ Exception(t)
    /\ UNCHANGED budget

\* A SQLite, file or library error.
Fault(t) ==
    /\ thread[t].pc \in BusyPcs
    /\ Spend("faults")
    /\ Exception(t)

\* The process dies and is started again: nothing in memory survives.
Crash(p) ==
    /\ settled[p] # {} \/ \E t \in Threads : ProcessOf[t] = p /\ ~At(t, "idle")
    /\ Spend("faults")
    /\ thread' = [t \in Threads |-> IF ProcessOf[t] = p THEN IdleThread ELSE thread[t]]
    /\ lock' = [lock EXCEPT ![p] = None]
    /\ active' = [active EXCEPT ![p] = {}]
    /\ settled' = [settled EXCEPT ![p] = {}]
    /\ UNCHANGED <<log, remote, unacked>>

\* Nothing is running and nothing is owed to a sender: the service waits.
Quiescent ==
    /\ \A t \in Threads : At(t, "idle")
    /\ unacked = {}
    /\ UNCHANGED vars

-------------------------------------------------------------------------------
Init ==
    /\ log = <<>>
    /\ thread = [t \in Threads |-> IdleThread]
    /\ lock = [p \in Processes |-> None]
    /\ active = [p \in Processes |-> {}]
    /\ settled = [p \in Processes |-> {}]
    /\ incidents = <<>>
    /\ documents = [c \in CaseIds |-> {}]
    /\ drafts = {}
    /\ unacked = Events
    /\ budget = Bounds

IngestStep(t) ==
    \/ Lookup(t) \/ FastDuplicate(t) \/ FastOwned(t) \/ Acquire(t)
    \/ Recheck(t) \/ Allocate(t) \/ Detect(t) \/ Begin(t)
AdvanceStep(t) ==
    \/ Incident(t) \/ Context(t) \/ Candidates(t) \/ Validate(t) \/ Load(t)
    \/ Assess(t) \/ AllAssessed(t) \/ Select(t) \/ Evidence(t) \/ PullRequest(t)
    \/ Contain(t) \/ AppendEvent(t) \/ Handler(t) \/ Finish(t)
VerifyStep(t) == Verify(t) \/ FinalEvidence(t) \/ Resolve(t)

Step(t) == IngestStep(t) \/ AdvanceStep(t) \/ VerifyStep(t) \/ Unreadable(t)

Next ==
    \/ \E t \in Threads : Step(t) \/ Fault(t)
    \/ \E t \in Threads, e \in Events : Deliver(t, e)
    \/ \E t \in Threads, c \in CaseIds : StartVerify(t, c)
    \/ \E p \in Processes : ResetDemo(p) \/ Crash(p)
    \/ Quiescent

Spec == Init /\ [][Next]_vars

\* A started request goes on, and a sender delivers again what was not answered.
Fairness ==
    /\ \A t \in Threads : WF_vars(Step(t))
    /\ \A e \in Events : WF_vars(e \in unacked /\ \E t \in Threads : Deliver(t, e))
FairSpec == Spec /\ Fairness

-------------------------------------------------------------------------------
(***************************************************************************)
(* Properties.                                                             *)
(***************************************************************************)
Status == {"SUCCEEDED", "RECORDED_REPLAY", "NOT_CONFIGURED", "NOT_RUN", "FAILED"}
EvidenceModes == {"LIVE_RECOMPUTED", "RECORDED_REPLAY_INPUT"}
Outcomes == {"NONE", "ELIGIBLE", "REJECTED"}

ASSUME NoneIsNoPayload ==
    None \notin [status : Status] /\ None \notin [status : Status, urn : Nat]

\* No behaviour raises more incidents than it can start advances.
Urns == 0 .. Cardinality(Events) + Cardinality(Processes) + Bounds["faults"]
             + Bounds["resets"] + Bounds["duplicates"]

\* Payloads of the events that follow a detection.
EventDetails ==
    [INCIDENT_RAISED      |-> [status : Status, urn : Urns],
     CONTEXT_GATHERED     |-> {None},
     CANDIDATES_READY     |-> [proposals : SUBSET Proposals],
     VALIDATION_STARTED   |-> {None},
     CANDIDATE_ASSESSED   |-> [id : Proposals, outcome : Outcomes],
     PATCH_READY          |-> [selected : Proposals],
     EVIDENCE_WRITTEN     |-> [status : Status],
     PR_ATTEMPTED         |-> [status : Status],
     PR_OPENED            |-> [status : Status],
     DEPLOYMENT_RECORDED  |-> [mode : EvidenceModes],
     POST_DEPLOY_VERIFIED |-> [mode : EvidenceModes],
     INCIDENT_RESOLVED    |-> [status : Status],
     CONTAINED            |-> [status : Status],
     FAILED               |-> [reason : {"incident", "generation", "evidence", "exception",
                                         "final evidence", "resolution"}]]

\* Every thread's request, lock and ownership entry is one the code can hold.
TypeOK ==
    /\ \A t \in Threads :
        /\ thread[t].pc \in BusyPcs \cup {"idle", "lookup", "owned", "lock", "begin", "finish"}
        /\ thread[t].op \in {None, "ingest", "advance", "handler", "verify"}
        /\ thread[t].case_id \in CaseIds \cup {None}
        /\ thread[t].proposals \subseteq Proposals
        /\ thread[t].assessed \in [Proposals -> Outcomes]
        /\ \A i \in DOMAIN thread[t].pending :
              thread[t].pending[i].event_type \in CaseEvents
    /\ \A i \in DOMAIN log : log[i].event_type \in EventType
    /\ lock \in [Processes -> Threads \cup {None}]
    /\ active \in [Processes -> SUBSET CaseIds]
    /\ settled \in [Processes -> SUBSET CaseIds]
    /\ \A i \in DOMAIN incidents :
          incidents[i] \in [case_id : CaseIds, status : {"ACTIVE", "RESOLVED"}]
    /\ documents \in [CaseIds -> SUBSET {"SAFE_REPAIR_VALIDATED", "AUTO_REPAIR_REFUSED",
                                         "RECOVERED"}]
    /\ drafts \subseteq CaseIds
    /\ unacked \subseteq Events

\* No reset lands inside an ingest or a verification: a case with active rows
\* always starts with its detection, so get_case, list_cases and the guard can
\* read every case (the hazard of the comment in ingest, workflow.py 142-145).
ProjectionsReadable ==
    \A c \in CaseIds : ActiveRows(log, c) # {} => Readable(c)

\* Rows of the same case and scope, at any time in the log's history.
SameStream(i, j) ==
    log[i].case_id = log[j].case_id /\ log[i].reset_scope = log[j].reset_scope

\* A resumed case repeats no checkpoint: whatever crashes, redeliveries and
\* concurrent requests happen, each step of a case is recorded at most once, and
\* each proposal is assessed at most once.
CheckpointsOnce ==
    \A i, j \in DOMAIN log :
        /\ i < j
        /\ SameStream(i, j)
        /\ log[i].event_type = log[j].event_type
        => \/ log[i].event_type \in {"PR_ATTEMPTED", "SYSTEM_RESET"}
           \/ /\ log[i].event_type = "CANDIDATE_ASSESSED"
              /\ log[i].payload.id # log[j].payload.id

\* A live incident is closed only on evidence: a DataHub incident is RESOLVED
\* only if the case that raised it has recorded, later in the same stream, a
\* post-deployment verification recomputed from live data.
IncidentClosedOnLiveEvidence ==
    \A n \in DOMAIN incidents : incidents[n].status = "RESOLVED" =>
        \E i, j \in DOMAIN log :
            /\ i < j
            /\ SameStream(i, j)
            /\ log[i].event_type = "INCIDENT_RAISED" /\ log[i].payload.urn = n
            /\ log[j].event_type = "POST_DEPLOY_VERIFIED"
            /\ log[j].payload.mode = "LIVE_RECOMPUTED"

\* A case shown as RESOLVED whose incident is live in DataHub has that incident
\* resolved and the RECOVERED report published there.
ResolvedIsResolvedRemotely ==
    \A c \in CaseIds :
        /\ CurrentState(log, c) = "RESOLVED"
        /\ IsLive(LastOf(c, "INCIDENT_RAISED"))
        => /\ incidents[LastOf(c, "INCIDENT_RAISED").urn].status = "RESOLVED"
           /\ "RECOVERED" \in documents[c]

\* Until a case has been verified after deployment its live incident stays
\* ACTIVE, and so it does when the final evidence report could not be published
\* ("incident remains active", workflow.py 627-631).  Only a case that reached
\* the closing call may find it closed.
IncidentActiveUntilClosing ==
    \A c \in CaseIds :
        LET incident == LastOf(c, "INCIDENT_RAISED") IN
        IsLive(incident) /\ incidents[incident.urn].status = "RESOLVED" =>
            \/ CurrentState(log, c) \in {"POST_DEPLOY_VERIFIED", "RESOLVED"}
            \/ LastOf(c, "FAILED") = [reason |-> "resolution"]

\* A draft pull request exists only for a patch whose proposal was assessed
\* eligible earlier in the same stream and, in connected mode, only once its
\* evidence report was confirmed in DataHub: also when the process crashed
\* between any two of these steps.
DraftIsBacked ==
    \A c \in drafts :
        \E i, j, k \in DOMAIN log :
            /\ i < j /\ j < k /\ SameStream(i, j) /\ SameStream(j, k)
            /\ log[i].case_id = c
            /\ log[i].event_type = "CANDIDATE_ASSESSED"
            /\ log[j].event_type = "PATCH_READY"
            /\ log[i].payload = [id |-> log[j].payload.selected, outcome |-> "ELIGIBLE"]
            /\ log[k].event_type = "EVIDENCE_WRITTEN"
            /\ ReplayMode \/ log[k].payload.status = "SUCCEEDED"

\* A case whose advance is over or was never started.
Unfinished(c) ==
    /\ CurrentState(log, c) \in ResumableStates
    /\ RowsOf(c, "PR_ATTEMPTED") = {}

\* The ownership sets only suppress duplicates: while no request holds the
\* worker lock, no unfinished case is hidden from redelivery by them.
OwnershipHidesNothing ==
    \A p \in Processes : (\A q \in Processes : lock[q] = None) =>
        \A c \in active[p] \cup settled[p] : ~Unfinished(c)

\* A sender that was told its schema change is accepted can forget it: it is on
\* record, and under an event id it chose exactly as it was sent.
AcknowledgedIsRecorded ==
    \A e \in Events \ unacked :
        \E i \in DOMAIN log :
            /\ log[i].event_type = "SCHEMA_CHANGE_DETECTED"
            /\ log[i].dedup_key = KeyOf[e.content]
            /\ e.event_id # None /\ e.event_id = log[i].event_id =>
                   log[i].payload.content = e.content

\* Every case that was detected reaches a terminal state, an open draft, or a
\* recorded draft attempt, whatever faults interrupt it, because its sender
\* delivers the schema change again until it is answered.
EveryDriftIsWorkedOff ==
    \A c \in CaseIds : Unfinished(c) ~> ~Unfinished(c)

\* No request waits for ever: each is answered, or dies with its process.
EveryRequestAnswered ==
    \A t \in Threads : ~At(t, "idle") ~> At(t, "idle")

\* Every write of the workflow is an operation of the event store.
Store == INSTANCE EventStore WITH
    EventIds <- {e.event_id : e \in Events} \ {None},
    Times <- {0}, Details <- EventDetails, MaxLog <- 1000
WritesAreStoreOperations == Store!Spec

\* The workflow keeps the promise of CaseLifecycle.
PhaseOf(state) ==
    CASE state = None -> "absent"
      [] state \in ResumableStates -> "repairing"
      [] state = "PR_OPEN" -> "proposed"
      [] state = "DEPLOYED" -> "deployed"
      [] state = "POST_DEPLOY_VERIFIED" -> "proven"
      [] state = "RESOLVED" -> "recovered"
      [] state \in {"CONTAINED", "FAILED"} -> "stopped"

LiveCases == {c \in CaseIds : IsLive(LastOf(c, "INCIDENT_RAISED"))}

Lifecycle == INSTANCE CaseLifecycle WITH
    Cases  <- CaseIds,
    phase  <- [c \in CaseIds |-> PhaseOf(CurrentState(log, c))],
    live   <- LiveCases,
    closed <- {c \in LiveCases :
                 incidents[LastOf(c, "INCIDENT_RAISED").urn].status = "RESOLVED"}
ImplementsLifecycle == Lifecycle!Spec

\* What CaseLifecycle promises, read of the workflow: a live incident is closed
\* only for a repair proven in production, and a case with a live incident counts
\* as recovered only once it is closed ("RESOLVED only after
\* POST_DEPLOY_VERIFIED", the order of verify_deployment).
ClosedOnlyIfProven == Lifecycle!ClosedOnlyIfProven
===============================================================================
