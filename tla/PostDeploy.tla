------------------------------ MODULE PostDeploy ------------------------------
(***************************************************************************)
(* verify_deployment of apps/api/workflow.py with execution_mode postgres, *)
(* on a case in PR_OPEN with a live incident, and all it relies on: the    *)
(* base branch of the origin, DataHub's context (LineageContext), the      *)
(* verified worktree and the candidate schema in which dbt builds it, the  *)
(* policy on what comes out (EvidencePolicy), and the writes to DataHub    *)
(* (DataHubAdapter).  RecoveryWorkflow has the same operation with the     *)
(* evidence's outcome left open and everything around it.                  *)
(*                                                                         *)
(* The worker lock lets one verification run at a time.  The base branch,  *)
(* the metadata and DataHub move on their own.  The process may be killed  *)
(* at any time; a dbt it has started then lives on (orphan).               *)
(***************************************************************************)
EXTENDS DataHubAdapter, LineageContext, EvidencePolicy, CaseStates

CONSTANTS
    Commits,      \* commits the base branch may point to
    ExactPatch,   \* those whose patch file is byte for byte the stored one
    ProjectOf,    \* the dbt project of each: models, tests and output table
    Edges,        \* lineage edges that may come and go
    MaxMishaps    \* bound: failures, and changes of the branch and the metadata

ASSUME PostDeployConstants ==
    /\ Ops = {"report", "containment", "resolution"}
    /\ ExactPatch \subseteq Commits /\ None \notin Commits /\ MaxMishaps \in Nat
    /\ \A c \in Commits : IsTable(ProjectOf[c].output)
    /\ ChainEdges \cup Parallel \subseteq Edges /\ Edges \subseteq Datasets \X Datasets

VARIABLES
    base,       \* the tip of the base branch at the origin
    edges,      \* the lineage DataHub holds
    entity,     \* the asset's owner, glossary term and document: what is read
    relation,   \* fct_revenue of the candidate schema: its table, or None
    orphan,     \* the commit a dbt without a parent still builds, or None
    verify,     \* the verification that runs
    state,      \* of the case
    deployed,   \* the commit DEPLOYMENT_RECORDED names, or None
    history,    \* what happened meanwhile: see Start, DbtBuilds and Crash
    mishaps     \* bound: mishaps so far

world == <<base, edges, entity, relation, orphan>>
record == <<state, deployed>>
vars == <<adapter, world, verify, record, history, mishaps>>

Idle == [pc |-> "idle", commit |-> None, deep |-> {}, direct |-> <<>>,
         semantic |-> None, current |-> FALSE, built |-> FALSE,
         metrics |-> None, join |-> 0]

Tables == {ProjectOf[c].output : c \in Commits}
Built(c) == IF ExpectedModels \subseteq ProjectOf[c].models
            THEN ProjectOf[c].output ELSE relation

PcState == {"idle", "entity", "lineage", "links", "dbt", "tests", "aggregates", "join",
            "drop", "evidence", "decide", "contain", "report", "reported", "resolve",
            "resolved"}

TypeOK ==
    /\ AdapterTypeOK
    /\ base \in Commits /\ edges \subseteq Edges
    /\ entity \in {"net", "other", "invalid"}
    /\ relation \in Tables \cup {None} /\ orphan \in Commits \cup {None}
    /\ verify.pc \in PcState
    /\ verify.pc # "idle" => verify.commit \in ExactPatch
    /\ verify.direct \in UNION {[1 .. n -> SUBSET Datasets] : n \in 0 .. Len(Chain) - 1}
    /\ verify.pc = "idle" => verify = Idle
    /\ state \in {"PR_OPEN", "DEPLOYED", "POST_DEPLOY_VERIFIED"} \cup TerminalStates
    /\ deployed \in ExactPatch \cup {None}
    /\ (deployed = None) <=> (state = "PR_OPEN")

Mishap == mishaps < MaxMishaps /\ mishaps' = mishaps + 1

Init ==
    /\ AdapterInit
    /\ base \in Commits
    /\ edges = ChainEdges \cup Parallel /\ entity = "net"
    /\ relation = None /\ orphan = None
    /\ verify = Idle /\ state = "PR_OPEN" /\ deployed = None
    /\ history = [edges |-> edges, moved |-> FALSE, mixed |-> FALSE, crashed |-> FALSE]
    /\ mishaps = 0

\* The verification goes on; ValueError ends it and leaves the case in PR_OPEN.
Continue(pc) == verify' = [verify EXCEPT !.pc = pc]
Raise == verify' = Idle

(***************************************************************************)
(* _live_post_deploy_evidence: the commit.                                 *)
(***************************************************************************)
\* Mutant of Start: the patch in the commit is not compared.
MutStartAnyPatch ==
    /\ verify.pc = "idle" /\ state = "PR_OPEN"
    /\ verify' = [Idle EXCEPT !.pc = "entity", !.commit = base]
    /\ history' = [history EXCEPT !.edges = edges, !.moved = FALSE, !.crashed = FALSE]
    /\ UNCHANGED <<adapter, world, record, mishaps>>

\* The caller names a commit; it must be the tip just fetched and hold the exact
\* patch.  Any other request raises, which is a stutter.
Start ==
    /\ verify.pc = "idle" /\ state = "PR_OPEN"
    /\ \E requested \in Commits :
         /\ requested = base /\ requested \in ExactPatch
         /\ verify' = [Idle EXCEPT !.pc = "entity", !.commit = requested]
    /\ history' = [history EXCEPT !.edges = edges, !.moved = FALSE, !.crashed = FALSE]
    /\ UNCHANGED <<adapter, world, record, mishaps>>

(***************************************************************************)
(* fetch_context: one call after the other, each on the metadata as it is. *)
(***************************************************************************)
\* _glossary_context and _owner_context; _semantic_verdict of the net candidate.
ReadEntity ==
    /\ verify.pc = "entity"
    /\ IF entity = "invalid" THEN Raise
       ELSE verify' = [verify EXCEPT
                !.pc = "lineage",
                !.semantic = IF entity = "net" THEN "MATCH" ELSE "MISSING"]
    /\ UNCHANGED <<adapter, world, record, history, mishaps>>

\* An empty answer is an error, not a lineage that is not current.
ReadLineage ==
    /\ verify.pc = "lineage"
    /\ LET deep == Reachable(edges, Chain[1], Len(Chain) - 1)
       IN  IF deep = {Chain[1]} THEN Raise
           ELSE verify' = [verify EXCEPT !.pc = "links", !.deep = deep]
    /\ UNCHANGED <<adapter, world, record, history, mishaps>>

ReadLink ==
    /\ verify.pc = "links" /\ Len(verify.direct) < Len(Chain) - 1
    /\ verify' = [verify EXCEPT
            !.direct = Append(@, Downstreams(edges, Chain[Len(@) + 1]))]
    /\ UNCHANGED <<adapter, world, record, history, mishaps>>

\* The links are judged in order: an empty answer is an error if it is met.
Normalize ==
    /\ verify.pc = "links" /\ Len(verify.direct) = Len(Chain) - 1
    /\ IF MeetsEmpty(verify.direct) THEN Raise
       ELSE verify' = [verify EXCEPT
                !.pc = "dbt", !.current = LineageCurrent(verify.deep, verify.direct)]
    /\ UNCHANGED <<adapter, world, record, history, mishaps>>

\* A call fails, or DataHub returns part of a schema or a lineage and says so.
ContextFails ==
    /\ verify.pc \in {"entity", "lineage", "links"} /\ Mishap
    /\ Raise
    /\ UNCHANGED <<adapter, world, record, history>>

(***************************************************************************)
(* PostgresDbtExecutor.execute in the verified worktree.                   *)
(***************************************************************************)
DbtBuilds ==
    /\ verify.pc = "dbt"
    /\ relation' = Built(verify.commit)
    /\ Continue("tests")
    /\ history' = [history EXCEPT !.mixed = FALSE]
    /\ UNCHANGED <<adapter, base, edges, entity, orphan, record, mishaps>>

\* dbt tests the relation as it finds it.  Without a build there are no metrics.
DbtTests ==
    /\ verify.pc = "tests"
    /\ LET passed == /\ relation # None
                     /\ BuildPassed(ProjectOf[verify.commit], relation)
       IN  verify' = [verify EXCEPT
                !.built = passed, !.pc = IF passed THEN "aggregates" ELSE "drop"]
    /\ UNCHANGED <<adapter, world, record, history, mishaps>>

\* The 180 s of _run_dbt, or a node that fails for its own reasons.
DbtFails ==
    /\ verify.pc \in {"dbt", "tests"} /\ Mishap
    /\ Continue("drop")
    /\ UNCHANGED <<adapter, world, record, history>>

\* _reconcile: two statements on the candidate, each with its own snapshot.
ReadAggregates ==
    /\ verify.pc = "aggregates"
    /\ verify' = [verify EXCEPT !.pc = "join", !.metrics = Aggregates(relation)]
    /\ UNCHANGED <<adapter, world, record, history, mishaps>>
ReadJoin ==
    /\ verify.pc = "join"
    /\ verify' = [verify EXCEPT !.pc = "drop", !.join = JoinCount(relation)]
    /\ UNCHANGED <<adapter, world, record, history, mishaps>>

\* _drop_candidate_schema, in the finally clause.
DropSchema ==
    /\ verify.pc = "drop"
    /\ relation' = None
    /\ Continue("evidence")
    /\ UNCHANGED <<adapter, base, edges, entity, orphan, record, history, mishaps>>

\* Any query that fails raises, one in the finally clause too; the schema stays
\* if it is the drop that fails.
QueryFails ==
    /\ verify.pc \in {"aggregates", "join", "drop"} /\ Mishap
    /\ Raise
    /\ relation' \in {relation, IF verify.pc = "drop" THEN relation ELSE None}
    /\ UNCHANGED <<adapter, base, edges, entity, orphan, record, history>>

(***************************************************************************)
(* _verify_deployment_locked: the record and the decision.                 *)
(***************************************************************************)
RecordDeployment ==
    /\ verify.pc = "evidence"
    /\ state' = "DEPLOYED" /\ deployed' = verify.commit
    /\ Continue("decide")
    /\ UNCHANGED <<adapter, world, history, mishaps>>

Accepted ==
    /\ verify.metrics # None
    /\ PolicyAccepts(verify.semantic, verify.metrics, verify.join, verify.built,
                     verify.current)

Decide ==
    /\ verify.pc = "decide"
    /\ \/ Accepted /\ state' = "POST_DEPLOY_VERIFIED" /\ Continue("report")
       \/ ~Accepted /\ UNCHANGED state /\ Continue("contain")
    /\ UNCHANGED <<adapter, world, deployed, history, mishaps>>

CallDataHub(pc, op, next) ==
    /\ verify.pc = pc
    /\ Send(op)
    /\ Continue(next)
    /\ UNCHANGED <<world, record, history, mishaps>>
CallContain == verify.pc = "contain" /\ "containment" \notin called
               /\ CallDataHub("contain", "containment", "contain")
CallReport  == CallDataHub("report", "report", "reported")
CallResolve == CallDataHub("resolve", "resolution", "resolved")

\* _contain: whatever became of the report.
Contain ==
    /\ verify.pc = "contain" /\ answers["containment"] # NoAnswer
    /\ state' = "CONTAINED" /\ Raise
    /\ UNCHANGED <<adapter, world, deployed, history, mishaps>>

\* Mutant of AfterReport: the report's answer is not looked at.
MutAfterReportBlind ==
    /\ verify.pc = "reported" /\ answers["report"] # NoAnswer
    /\ Continue("resolve") /\ UNCHANGED state
    /\ UNCHANGED <<adapter, world, deployed, history, mishaps>>

\* A live incident stays active unless the final report is on DataHub.
AfterReport ==
    /\ verify.pc = "reported" /\ answers["report"] # NoAnswer
    /\ IF answers["report"] = "SUCCEEDED"
       THEN Continue("resolve") /\ UNCHANGED state
       ELSE Raise /\ state' = "FAILED"
    /\ UNCHANGED <<adapter, world, deployed, history, mishaps>>

AfterResolve ==
    /\ verify.pc = "resolved" /\ answers["resolution"] # NoAnswer
    /\ state' = IF answers["resolution"] = "SUCCEEDED" THEN "RESOLVED" ELSE "FAILED"
    /\ Raise
    /\ UNCHANGED <<adapter, world, deployed, history, mishaps>>

\* What the adapter and DataHub do by themselves.
AdapterStep == Adapter /\ UNCHANGED <<world, verify, record, history, mishaps>>
DataHubStep == DataHub /\ UNCHANGED <<world, verify, record, history, mishaps>>

(***************************************************************************)
(* The world around it.                                                    *)
(***************************************************************************)
BaseMoves ==
    /\ Mishap /\ base' \in Commits \ {base}
    /\ UNCHANGED <<adapter, edges, entity, relation, orphan, verify, record, history>>

\* Ingestion adds or removes an edge, or somebody edits the asset.
MetadataChanges ==
    /\ Mishap
    /\ \/ \E e \in Edges :
            /\ edges' = IF e \in edges THEN edges \ {e} ELSE edges \cup {e}
            /\ history' = [history EXCEPT !.moved = TRUE]
            /\ UNCHANGED entity
       \/ /\ entity' \in {"net", "other", "invalid"} \ {entity}
          /\ UNCHANGED <<edges, history>>
    /\ UNCHANGED <<adapter, base, relation, orphan, verify, record>>

Crash ==
    /\ verify.pc # "idle" /\ Mishap
    /\ Raise /\ CallLost
    /\ orphan' = IF verify.pc = "dbt" THEN verify.commit ELSE orphan
    /\ history' = [history EXCEPT !.crashed = TRUE]
    /\ UNCHANGED <<base, edges, entity, relation, record>>

OrphanBuilds ==
    /\ orphan # None
    /\ relation' = Built(orphan) /\ orphan' = None
    /\ history' = [history EXCEPT !.mixed = TRUE]
    /\ UNCHANGED <<adapter, base, edges, entity, verify, record, mishaps>>

Context == ReadEntity \/ ReadLineage \/ ReadLink \/ Normalize
Execute == DbtBuilds \/ DbtTests \/ ReadAggregates \/ ReadJoin \/ DropSchema
Conclude == RecordDeployment \/ Decide \/ CallContain \/ Contain \/ CallReport
            \/ AfterReport \/ CallResolve \/ AfterResolve
Progress == Context \/ Execute \/ Conclude \/ AdapterStep
Faults == ContextFails \/ DbtFails \/ QueryFails \/ BaseMoves \/ MetadataChanges \/ Crash

Next == Start \/ Progress \/ DataHubStep \/ OrphanBuilds \/ Faults

\* A verification that started goes on; DataHub need not answer or show anything.
Spec == Init /\ [][Next]_vars /\ WF_vars(Progress)

-------------------------------------------------------------------------------
(***************************************************************************)
(* Properties.                                                             *)
(***************************************************************************)

\* The incident is closed in DataHub only after the final report is there for
\* all to read, whatever answers were lost, late or premature.
ReportBeforeResolution == "resolution" \in stored => "report" \in shown

Verified == state \in {"POST_DEPLOY_VERIFIED", "RESOLVED"}

\* A deployment is called verified only if the table the deployed commit itself
\* builds keeps every payment of the baseline and its total, even when an earlier
\* candidate schema was never dropped or the branch moved meanwhile.  Two
\* exceptions: a dbt whose API was killed wrote into the same schema, and the
\* commit's project no longer tests that payment_id is unique.
VerifiedKeepsPayments ==
    Verified /\ ~history.mixed /\ "unique" \in ProjectOf[deployed].tests =>
        KeepsPayments(ProjectOf[deployed].output)

\* If no edge changed between the reads, the lineage is called current exactly
\* when the contract holds (mcp.py 581-585, 678-702).  Reads that an edge changed
\* between may add up to a contract that held at no moment.
LineageJudgedRight ==
    /\ verify.pc \in PcState \ {"idle", "entity", "lineage", "links"}
    /\ ~history.moved
    => (verify.current <=> ContractHolds(history.edges))

\* Each write keeps the promises of RemoteCall.
ImplementsRemoteCall == Remote!Spec

\* A deployment on record is settled: resolved, contained or failed.  Only the
\* death of the process leaves it in DEPLOYED or POST_DEPLOY_VERIFIED, for which
\* verify_deployment has no way back (workflow.py 540-542).
EveryDeploymentSettles == state = "DEPLOYED" ~> state \in TerminalStates \/ history.crashed
===============================================================================
