------------------------------ MODULE CaseStates ------------------------------
(***************************************************************************)
(* The life of a recovery case, as apps/api/state_machine.py tabulates it, *)
(* and the kinds of event apps/api/models.py lets a case record.  A case   *)
(* that has recorded nothing yet has no state: the code's None is the      *)
(* constant None here and in every module that extends this one.           *)
(***************************************************************************)
CONSTANT None

CaseState ==
    {"DETECTED", "CONTEXT_GATHERED", "CANDIDATES_READY", "VALIDATING",
     "PATCH_READY", "PR_OPEN", "DEPLOYED", "POST_DEPLOY_VERIFIED",
     "RESOLVED", "CONTAINED", "FAILED"}

ASSUME NoneIsNoState == None \notin CaseState

\* The two branches every unfinished case may take instead of the next step.
Refusals == {"CONTAINED", "FAILED"}

ALLOWED_TRANSITIONS ==
    [DETECTED             |-> {"CONTEXT_GATHERED"} \cup Refusals,
     CONTEXT_GATHERED     |-> {"CANDIDATES_READY"} \cup Refusals,
     CANDIDATES_READY     |-> {"VALIDATING"} \cup Refusals,
     VALIDATING           |-> {"PATCH_READY"} \cup Refusals,
     PATCH_READY          |-> {"PR_OPEN"} \cup Refusals,
     PR_OPEN              |-> {"DEPLOYED"} \cup Refusals,
     DEPLOYED             |-> {"POST_DEPLOY_VERIFIED"} \cup Refusals,
     POST_DEPLOY_VERIFIED |-> {"RESOLVED"} \cup Refusals,
     RESOLVED             |-> {},
     CONTAINED            |-> {},
     FAILED               |-> {}]

TerminalStates == {"RESOLVED", "CONTAINED", "FAILED"}

\* Mutant of ValidTransition: a refusal is accepted in every state.
MutRefuseAnytime(current, target) ==
    \/ current = None /\ target = "DETECTED"
    \/ current # None /\ target \in {current} \cup Refusals \cup ALLOWED_TRANSITIONS[current]

\* validate_transition: a new case starts in DETECTED, a case may repeat its
\* state (a terminal one too), any other move must be in the table.
ValidTransition(current, target) ==
    \/ current = None /\ target = "DETECTED"
    \/ current # None /\ target = current
    \/ current # None /\ target \in ALLOWED_TRANSITIONS[current]

\* Every event the workflow appends, with the one state it is appended in.
EventState ==
    [SCHEMA_CHANGE_DETECTED |-> "DETECTED",
     INCIDENT_RAISED        |-> "DETECTED",
     CONTEXT_GATHERED       |-> "CONTEXT_GATHERED",
     CANDIDATES_READY       |-> "CANDIDATES_READY",
     VALIDATION_STARTED     |-> "VALIDATING",
     CANDIDATE_ASSESSED     |-> "VALIDATING",
     PATCH_READY            |-> "PATCH_READY",
     EVIDENCE_WRITTEN       |-> "PATCH_READY",
     PR_ATTEMPTED           |-> "PATCH_READY",
     PR_OPENED              |-> "PR_OPEN",
     DEPLOYMENT_RECORDED    |-> "DEPLOYED",
     POST_DEPLOY_VERIFIED   |-> "POST_DEPLOY_VERIFIED",
     INCIDENT_RESOLVED      |-> "RESOLVED",
     CONTAINED              |-> "CONTAINED",
     FAILED                 |-> "FAILED"]

CaseEvents == DOMAIN EventState
EventType  == CaseEvents \cup {"SYSTEM_RESET"}
===============================================================================
