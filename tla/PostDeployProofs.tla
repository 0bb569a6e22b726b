--------------------------- MODULE PostDeployProofs ---------------------------
(***************************************************************************)
(* What a verification of a deployment guarantees for any commits, any     *)
(* lineage and any baseline, and, before that, what the adapter it writes  *)
(* through guarantees for any set of writes and any number of read-backs.  *)
(***************************************************************************)
EXTENDS PostDeploy, FiniteSetTheorems, NaturalsInduction, WellFoundedInduction, TLAPS

-------------------------------------------------------------------------------
(***************************************************************************)
(* DataHubAdapter by itself.                                               *)
(***************************************************************************)

\* Nothing is shown or stored that was not asked for, and the call in progress has
\* no answer yet.
LEMMA AdapterInitOK == AdapterInit => AdapterTypeOK
  BY AdapterConstants DEF AdapterInit, AdapterTypeOK, NoCall, NoAnswer

\* Every step of the adapter and of DataHub keeps the type invariant.
LEMMA AdapterNextOK == AdapterTypeOK /\ [AdapterNext]_adapter => AdapterTypeOK'
  <1> SUFFICES ASSUME AdapterTypeOK, [AdapterNext]_adapter PROVE AdapterTypeOK'
    OBVIOUS
  <1> USE AdapterConstants DEF AdapterTypeOK, NoCall, NoAnswer
  <1>1. ASSUME NEW op \in Ops, Send(op) PROVE AdapterTypeOK'
    BY <1>1 DEF Send
  <1>2. CASE MutationFails
    BY <1>2 DEF MutationFails, Return, datahub
  <1>3. CASE MutationConfirmed
    BY <1>3 DEF MutationConfirmed, datahub
  <1>4. CASE ReadBackConfirms
    BY <1>4 DEF ReadBackConfirms, Return, datahub
  <1>5. CASE ReadBackFails
    <2>1. CASE call.reads + 1 < ReadbackAttempts
      BY <1>5, <2>1 DEF ReadBackFails, datahub
    <2>2. CASE ~(call.reads + 1 < ReadbackAttempts)
      BY <1>5, <2>2 DEF ReadBackFails, Return, datahub
    <2>3. QED BY <2>1, <2>2
  <1>6. CASE CallLost
    BY <1>6 DEF CallLost, datahub
  <1>7. ASSUME NEW op \in Ops, CarryOut(op) PROVE AdapterTypeOK'
    BY <1>7 DEF CarryOut
  <1>8. ASSUME NEW op \in Ops, Refuse(op) PROVE AdapterTypeOK'
    BY <1>8 DEF Refuse
  <1>9. ASSUME NEW op \in Ops, Show(op) PROVE AdapterTypeOK'
    BY <1>9 DEF Show
  <1>10. CASE UNCHANGED adapter
    BY <1>10 DEF adapter, datahub
  <1>11. QED
    BY <1>1, <1>2, <1>3, <1>4, <1>5, <1>6, <1>7, <1>8, <1>9, <1>10
       DEF AdapterNext, Adapter, DataHub

\* Each step is a step of RemoteCall or leaves its variables alone.
LEMMA AdapterStepRefines ==
  AdapterTypeOK /\ [AdapterNext]_adapter => [Remote!Next]_(Remote!vars)
  <1> SUFFICES ASSUME AdapterTypeOK, [AdapterNext]_adapter
               PROVE  Remote!Next \/ UNCHANGED <<called, stored, answers>>
    BY DEF Remote!vars
  <1> USE DEF Remote!Next
  <1>1. ASSUME NEW op \in Ops, Send(op) PROVE Remote!Ask(op)
    BY <1>1 DEF Send, Remote!Ask
  <1>2. CASE MutationFails
    <2>1. call.op \in Ops /\ Remote!Answer(call.op, "FAILED")
      BY <1>2 DEF MutationFails, Return, datahub, AdapterTypeOK, Remote!Answer
    <2>2. QED BY <2>1
  <1>3. CASE MutationConfirmed
    BY <1>3 DEF MutationConfirmed, datahub
  <1>4. CASE ReadBackConfirms
    <2>1. call.op \in Ops /\ Remote!Answer(call.op, "SUCCEEDED")
      BY <1>4 DEF ReadBackConfirms, Return, datahub, AdapterTypeOK, Remote!Answer
    <2>2. QED BY <2>1
  <1>5. CASE ReadBackFails
    <2>1. CASE call.reads + 1 < ReadbackAttempts
      BY <1>5, <2>1 DEF ReadBackFails, datahub
    <2>2. CASE ~(call.reads + 1 < ReadbackAttempts)
      <3>1. call.op \in Ops /\ Remote!Answer(call.op, "FAILED")
        BY <1>5, <2>2 DEF ReadBackFails, Return, datahub, AdapterTypeOK, Remote!Answer
      <3>2. QED BY <3>1
    <2>3. QED BY <2>1, <2>2
  <1>6. CASE CallLost
    BY <1>6 DEF CallLost, datahub
  <1>7. ASSUME NEW op \in Ops, CarryOut(op)
        PROVE  Remote!TakeEffect(op) \/ UNCHANGED <<called, stored, answers>>
    BY <1>7 DEF CarryOut, Remote!TakeEffect, AdapterTypeOK
  <1>8. ASSUME NEW op \in Ops, Refuse(op) PROVE UNCHANGED <<called, stored, answers>>
    BY <1>8 DEF Refuse
  <1>9. ASSUME NEW op \in Ops, Show(op) PROVE UNCHANGED <<called, stored, answers>>
    BY <1>9 DEF Show
  <1>10. CASE UNCHANGED adapter
    BY <1>10 DEF adapter, datahub
  <1>11. QED
    BY <1>1, <1>2, <1>3, <1>4, <1>5, <1>6, <1>7, <1>8, <1>9, <1>10
       DEF AdapterNext, Adapter, DataHub

\* The type invariant of a write holds throughout.
LEMMA AdapterInvariant == AdapterSpec => []AdapterTypeOK
  <1>1. QED
    BY AdapterInitOK, AdapterNextOK, PTL DEF AdapterSpec

\* A status SUCCEEDED is only ever returned for a write that DataHub carried out,
\* whatever it refused, delayed, lost or answered too early (graphql.py 43-175,
\* mcp.py 177-360).
THEOREM WritesKeepTheirPromise == AdapterSpec => Remote!Spec
  <1>1. AdapterInit => Remote!Init
    BY DEF AdapterInit, Remote!Init
  <1>2. QED
    BY <1>1, AdapterStepRefines, AdapterInvariant, PTL DEF AdapterSpec, Remote!Spec

-------------------------------------------------------------------------------
(***************************************************************************)
(* A verification and the writes it makes.                                 *)
(***************************************************************************)

\* A verification uses the adapter only as the adapter may be used.
LEMMA StepsAreAdapterSteps == [Next]_vars => [AdapterNext]_adapter
  <1> SUFFICES ASSUME [Next]_vars PROVE AdapterNext \/ UNCHANGED adapter
    OBVIOUS
  <1> USE DEF AdapterNext
  <1>1. CASE Start
    BY <1>1 DEF Start
  <1>2. CASE Context
    BY <1>2 DEF Context, ReadEntity, ReadLineage, ReadLink, Normalize
  <1>3. CASE Execute
    BY <1>3 DEF Execute, DbtBuilds, DbtTests, ReadAggregates, ReadJoin, DropSchema
  <1>4. CASE RecordDeployment \/ Decide \/ Contain \/ AfterReport \/ AfterResolve
    BY <1>4 DEF RecordDeployment, Decide, Contain, AfterReport, AfterResolve
  <1>5. CASE CallContain \/ CallReport \/ CallResolve
    BY <1>5, PostDeployConstants DEF CallContain, CallReport, CallResolve, CallDataHub
  <1>6. CASE AdapterStep \/ DataHubStep
    BY <1>6 DEF AdapterStep, DataHubStep
  <1>7. CASE OrphanBuilds
    BY <1>7 DEF OrphanBuilds
  <1>8. CASE Faults
    BY <1>8 DEF Faults, ContextFails, DbtFails, QueryFails, BaseMoves, MetadataChanges,
               Crash
  <1>9. CASE UNCHANGED vars
    BY <1>9 DEF vars
  <1> QED
    BY <1>1, <1>2, <1>3, <1>4, <1>5, <1>6, <1>7, <1>8, <1>9
       DEF Next, Progress, Conclude

\* So the adapter, seen alone, behaves as it is specified.
LEMMA SpecUsesAdapter == Spec => AdapterSpec
  <1>1. Init => AdapterInit
    BY DEF Init
  <1> QED
    BY <1>1, StepsAreAdapterSteps, PTL DEF Spec, AdapterSpec

\* Each of the three writes of a verification is reported SUCCEEDED only if
\* DataHub carried it out (workflow.py 599-649).
THEOREM VerificationWritesKeepTheirPromise == Spec => ImplementsRemoteCall
  BY SpecUsesAdapter, WritesKeepTheirPromise DEF ImplementsRemoteCall

-------------------------------------------------------------------------------
(***************************************************************************)
(* The order of the final report and of the resolution.                    *)
(***************************************************************************)
\* The inductive invariant: a write answered SUCCEEDED can be read, and the
\* resolution is asked for only behind such an answer to the report.
OrderInv ==
    /\ AdapterTypeOK
    /\ "pc" \in DOMAIN verify
    /\ \A op \in Ops : answers[op] = "SUCCEEDED" => op \in shown
    /\ verify.pc \in {"resolve", "resolved"} => answers["report"] = "SUCCEEDED"
    /\ "resolution" \in called => "report" \in shown

\* An answer, once given, stays; so does what is shown and what was called.
LEMMA AnswersStay ==
  ASSUME OrderInv, [AdapterNext]_adapter
  PROVE  /\ answers["report"] # NoAnswer => answers'["report"] = answers["report"]
         /\ shown \subseteq shown'
         /\ \A op \in Ops : answers'[op] = "SUCCEEDED" => op \in shown'
  <1> USE PostDeployConstants DEF OrderInv, AdapterTypeOK, NoAnswer
  <1>1. ASSUME NEW op \in Ops, Send(op) PROVE UNCHANGED <<answers, shown>>
    BY <1>1 DEF Send
  <1>2. ASSUME NEW status \in {"SUCCEEDED", "FAILED"}, Return(status), call.phase # "none",
               status = "SUCCEEDED" => call.op \in shown
        PROVE  /\ answers["report"] # NoAnswer => answers'["report"] = answers["report"]
               /\ shown \subseteq shown'
               /\ \A op \in Ops : answers'[op] = "SUCCEEDED" => op \in shown'
    BY <1>2 DEF Return, datahub
  <1>3. CASE MutationFails
    BY <1>2, <1>3 DEF MutationFails
  <1>4. CASE MutationConfirmed \/ CallLost
    BY <1>4 DEF MutationConfirmed, CallLost, datahub
  <1>5. CASE ReadBackConfirms
    BY <1>2, <1>5 DEF ReadBackConfirms
  <1>6. CASE ReadBackFails
    <2>1. CASE call.reads + 1 < ReadbackAttempts
      BY <1>6, <2>1 DEF ReadBackFails, datahub
    <2>2. CASE ~(call.reads + 1 < ReadbackAttempts)
      BY <1>2, <1>6, <2>2 DEF ReadBackFails
    <2>3. QED BY <2>1, <2>2
  <1>7. ASSUME NEW op \in Ops, CarryOut(op) \/ Refuse(op) \/ Show(op)
        PROVE  UNCHANGED answers /\ shown \subseteq shown'
    BY <1>7 DEF CarryOut, Refuse, Show
  <1>8. CASE UNCHANGED adapter
    BY <1>8 DEF adapter, datahub
  <1> QED
    BY <1>1, <1>3, <1>4, <1>5, <1>6, <1>7, <1>8 DEF AdapterNext, Adapter, DataHub

\* Only CallResolve asks for the resolution.
LEMMA WhoResolves ==
  ASSUME OrderInv, [Next]_vars
  PROVE  "resolution" \in called' => "resolution" \in called \/ verify.pc = "resolve"
  <1> USE PostDeployConstants DEF OrderInv, AdapterTypeOK
  <1>1. CASE Start \/ Context \/ Execute \/ OrphanBuilds \/ UNCHANGED vars
    BY <1>1 DEF Start, Context, ReadEntity, ReadLineage, ReadLink, Normalize, Execute,
               DbtBuilds, DbtTests, ReadAggregates, ReadJoin, DropSchema, OrphanBuilds,
               vars, adapter
  <1>2. CASE RecordDeployment \/ Decide \/ Contain \/ AfterReport \/ AfterResolve
    BY <1>2 DEF RecordDeployment, Decide, Contain, AfterReport, AfterResolve, adapter
  <1>3. CASE CallContain \/ CallReport \/ CallResolve
    BY <1>3 DEF CallContain, CallReport, CallResolve, CallDataHub, Send
  <1>4. CASE AdapterStep \/ DataHubStep
    BY <1>4 DEF AdapterStep, DataHubStep, Adapter, MutationFails, MutationConfirmed,
               ReadBackConfirms, ReadBackFails, Return, DataHub, CarryOut, Refuse, Show
  <1>5. CASE Faults
    BY <1>5 DEF Faults, ContextFails, DbtFails, QueryFails, BaseMoves, MetadataChanges,
               Crash, CallLost, adapter
  <1> QED
    BY <1>1, <1>2, <1>3, <1>4, <1>5 DEF Next, Progress, Conclude

\* A verification reaches its resolution only behind a report that succeeded.
LEMMA WhoReports ==
  ASSUME OrderInv, [Next]_vars
  PROVE  /\ "pc" \in DOMAIN verify'
         /\ verify'.pc \in {"resolve", "resolved"} =>
                verify.pc \in {"resolve", "resolved"} \/ answers["report"] = "SUCCEEDED"
  <1>0. Raise => "pc" \in DOMAIN verify' /\ verify'.pc = "idle"
    BY DEF Raise, Idle
  <1> USE DEF OrderInv, Continue
  <1>1. CASE Start
    BY <1>1 DEF Start, Idle
  <1>2. CASE Context
    <2>1. CASE ReadEntity
      <3>1. CASE entity = "invalid"
        BY <1>0, <2>1, <3>1 DEF ReadEntity
      <3>2. CASE entity # "invalid"
        BY <2>1, <3>2 DEF ReadEntity
      <3>3. QED BY <3>1, <3>2
    <2>2. CASE ReadLineage
      <3>1. CASE Raise
        BY <1>0, <3>1
      <3>2. CASE ~Raise
        <4>1. verify' = [verify EXCEPT !.pc = "links",
                             !.deep = Reachable(edges, Chain[1], Len(Chain) - 1)]
          BY <2>2, <3>2 DEF ReadLineage
        <4>2. QED BY <4>1
      <3>3. QED BY <3>1, <3>2
    <2>3. CASE ReadLink
      BY <2>3 DEF ReadLink
    <2>4. CASE Normalize
      <3>1. CASE Raise
        BY <1>0, <3>1
      <3>2. CASE ~Raise
        <4>1. verify' = [verify EXCEPT !.pc = "dbt",
                             !.current = LineageCurrent(verify.deep, verify.direct)]
          BY <2>4, <3>2 DEF Normalize
        <4>2. QED BY <4>1
      <3>3. QED BY <3>1, <3>2
    <2>5. QED BY <1>2, <2>1, <2>2, <2>3, <2>4 DEF Context
  <1>3. CASE Execute
    BY <1>0, <1>3 DEF Execute, DbtBuilds, DbtTests, ReadAggregates, ReadJoin, DropSchema
  <1>4. CASE RecordDeployment \/ Decide \/ Contain \/ AfterReport \/ AfterResolve
    BY <1>0, <1>4 DEF RecordDeployment, Decide, Contain, AfterReport, AfterResolve
  <1>5. CASE CallContain \/ CallReport \/ CallResolve
    BY <1>5 DEF CallContain, CallReport, CallResolve, CallDataHub
  <1>6. CASE AdapterStep \/ DataHubStep
    BY <1>6 DEF AdapterStep, DataHubStep
  <1>7. CASE OrphanBuilds
    BY <1>7 DEF OrphanBuilds
  <1>8. CASE Faults
    BY <1>0, <1>8 DEF Faults, ContextFails, DbtFails, QueryFails, BaseMoves, MetadataChanges,
               Crash
  <1>9. CASE UNCHANGED vars
    BY <1>9 DEF vars
  <1> QED
    BY <1>1, <1>2, <1>3, <1>4, <1>5, <1>6, <1>7, <1>8, <1>9
       DEF Next, Progress, Conclude

\* The invariant is preserved by every step.
LEMMA OrderInvInductive == OrderInv /\ [Next]_vars => OrderInv'
  <1> SUFFICES ASSUME OrderInv, [Next]_vars PROVE OrderInv'
    OBVIOUS
  <1>1. AdapterTypeOK' /\ [AdapterNext]_adapter
    BY StepsAreAdapterSteps, AdapterNextOK DEF OrderInv
  <1>2. /\ answers["report"] = "SUCCEEDED" => answers'["report"] = "SUCCEEDED"
        /\ shown \subseteq shown'
        /\ \A op \in Ops : answers'[op] = "SUCCEEDED" => op \in shown'
    BY <1>1, AnswersStay DEF NoAnswer
  <1> QED
    BY <1>1, <1>2, WhoResolves, WhoReports, PostDeployConstants DEF OrderInv

\* The incident is closed in DataHub only after the final report can be read
\* there (workflow.py 599-634), for any data and any number of read-backs.
THEOREM ReportPrecedesResolution == Spec => []ReportBeforeResolution
  <1>1. Init => OrderInv
    BY AdapterInitOK, PostDeployConstants
       DEF Init, AdapterInit, OrderInv, Idle, NoAnswer
  <1>2. OrderInv => ReportBeforeResolution
    BY DEF OrderInv, AdapterTypeOK, ReportBeforeResolution
  <1> QED
    BY <1>1, <1>2, OrderInvInductive, PTL DEF Spec

-------------------------------------------------------------------------------
(***************************************************************************)
(* What acceptance says of a table.                                        *)
(***************************************************************************)
\* Rows with distinct ids join with the baseline at most once per shared id.
LEMMA JoinCountsIds ==
  ASSUME NEW t, IsTable(t), TestPasses("unique", t)
  PROVE  LET shared == Ids(t) \cap Ids(Baseline)
         IN  /\ JoinCount(t) \in Nat /\ Cardinality(shared) \in Nat
             /\ JoinCount(t) <= Cardinality(shared)
  <1> DEFINE shared == Ids(t) \cap Ids(Baseline)
             pairs  == {p \in (DOMAIN t) \X (DOMAIN Baseline) :
                            t[p[1]].id = Baseline[p[2]].id}
             id     == [p \in pairs |-> t[p[1]].id]
             first  == [i \in DOMAIN Baseline |-> Baseline[i].id]
  <1>1. DOMAIN t = 1 .. Len(t) /\ Len(t) \in Nat
    BY DEF IsTable
  <1>2. DOMAIN Baseline = 1 .. Len(Baseline) /\ Len(Baseline) \in Nat
    BY BaselineAssumption DEF IsTable
  <1>3. \A i, j \in DOMAIN t : t[i].id = t[j].id => i = j
    BY DEF TestPasses
  <1>4. IsFiniteSet(Ids(Baseline))
    <2>1. first \in Surjection(DOMAIN Baseline, Ids(Baseline))
      BY DEF Surjection, Ids
    <2>2. IsFiniteSet(DOMAIN Baseline)
      BY <1>2, FS_Interval
    <2>3. QED BY <2>1, <2>2, FS_Surjection
  <1>5. IsFiniteSet(shared)
    BY <1>4, FS_Subset
  <1>6. id \in Injection(pairs, shared)
    <2>1. id \in [pairs -> shared]
      BY DEF Ids
    <2>2. ASSUME NEW p \in pairs, NEW q \in pairs, id[p] = id[q] PROVE p = q
      <3>1. p[1] = q[1] /\ p[2] = q[2]
        BY <2>2, <1>3, BaselineAssumption
      <3>2. p = <<p[1], p[2]>> /\ q = <<q[1], q[2]>>
        OBVIOUS
      <3>3. QED BY <3>1, <3>2
    <2>3. QED BY <2>1, <2>2 DEF Injection, IsInjective
  <1>7. IsFiniteSet(pairs) /\ Cardinality(pairs) <= Cardinality(shared)
    BY <1>5, <1>6, FS_Injection
  <1>8. Cardinality(pairs) \in Nat /\ Cardinality(shared) \in Nat
    BY <1>5, <1>7, FS_CardinalityType
  <1> QED
    BY <1>7, <1>8 DEF JoinCount

\* A table whose rows are distinct and that the overlap and total checks let
\* through keeps the payments of the baseline.
LEMMA ChecksKeepPayments ==
  ASSUME NEW t, IsTable(t), TestPasses("unique", t), OverlapEnough(JoinCount(t)),
         DeltaWithin(Aggregates(t).total, Aggregates(Baseline).total, MAX_TOTAL_VARIANCE)
  PROVE  KeepsPayments(t)
  <1> DEFINE shared == Ids(t) \cap Ids(Baseline)
  <1>1. /\ JoinCount(t) \in Nat /\ Cardinality(shared) \in Nat
        /\ JoinCount(t) <= Cardinality(shared)
    BY JoinCountsIds
  <1>2. Len(Baseline) \in Nat
    BY BaselineAssumption DEF IsTable
  <1>3. (Len(Baseline) - Cardinality(shared)) * Whole
            <= (Whole - MIN_KEY_OVERLAP) * Len(Baseline)
    <2> HIDE DEF shared
    <2> QED BY <1>1, <1>2 DEF OverlapEnough, Whole, MIN_KEY_OVERLAP
  <1> QED
    BY <1>3 DEF KeepsPayments

-------------------------------------------------------------------------------
(***************************************************************************)
(* The evidence behind a verified deployment.                              *)
(***************************************************************************)
Out(c) == ProjectOf[c].output

\* What acceptance has established of the table a commit builds.
Proven(c) ==
    /\ c \in Commits
    /\ BuildPassed(ProjectOf[c], Out(c))
    /\ OverlapEnough(JoinCount(Out(c)))
    /\ DeltaWithin(Aggregates(Out(c)).total, Aggregates(Baseline).total,
                   MAX_TOTAL_VARIANCE)

Before == {"idle", "entity", "lineage", "links", "dbt", "tests"}

Reporting == {"report", "reported", "resolve", "resolved"}

\* The inductive invariant: up to the first write of an orphan, the relation, the
\* test results and the metrics are those of the table the commit builds.
KeepInv ==
    /\ DOMAIN verify = DOMAIN Idle
    /\ "mixed" \in DOMAIN history
    /\ verify.pc # "idle" => verify.commit \in Commits
    /\ verify.pc \in Before => ~verify.built /\ verify.metrics = None
    /\ verify.pc = "decide" => deployed = verify.commit
    /\ Verified /\ ~history.mixed => Proven(deployed)
    /\ ~history.mixed /\ verify.pc # "idle" =>
         /\ verify.pc = "tests" => relation = Built(verify.commit)
         /\ verify.built => BuildPassed(ProjectOf[verify.commit], Out(verify.commit))
         /\ verify.pc \in {"aggregates", "join"} =>
                verify.built /\ relation = Out(verify.commit)
         /\ verify.metrics # None => verify.metrics = Aggregates(Out(verify.commit))
         /\ verify.metrics # None /\ verify.pc # "join" =>
                verify.join = JoinCount(Out(verify.commit))
    /\ verify.pc # "idle" => (Verified <=> verify.pc \in Reporting)

\* A verification that ends leaves nothing for the invariant to say but of the
\* deployment already on record.
LEMMA RaiseKeeps ==
  ASSUME KeepInv, Raise, UNCHANGED deployed, "mixed" \in DOMAIN history',
         Verified' => Verified, history.mixed => history'.mixed
  PROVE  KeepInv'
  <1>1. DOMAIN verify' = DOMAIN Idle /\ verify'.pc = "idle" /\ ~verify'.built
        /\ verify'.metrics = None
    BY DEF Raise, Idle
  <1>2. Proven(deployed) => Proven(deployed)'
    BY DEF Proven, Out
  <1> QED
    BY <1>1, <1>2 DEF KeepInv, Proven, Out

\* The fields of a verification that does not run.
LEMMA IdleRecord ==
  /\ DOMAIN Idle = {"pc", "commit", "deep", "direct", "semantic", "current", "built",
                    "metrics", "join"}
  /\ Idle.pc = "idle" /\ Idle.built = FALSE /\ Idle.metrics = None
  BY DEF Idle

\* A case in PR_OPEN with no verification running satisfies it.
LEMMA KeepInvInit == Init => KeepInv
  BY IdleRecord DEF Init, KeepInv, Before, Verified, Reporting

\* A step that leaves the evidence alone and only moves on, or not even that.
LEMMA MoveKeeps ==
  ASSUME KeepInv, UNCHANGED deployed, "mixed" \in DOMAIN history',
         history'.mixed = history.mixed, Verified' => Verified, NEW pc,
         verify' = [verify EXCEPT !.pc = pc],
         pc \in {"tests", "aggregates", "join"} => UNCHANGED relation,
         verify.pc # "idle" /\ pc # "idle",
         pc \in Before \cup {"aggregates", "join", "decide"} => pc = verify.pc,
         verify.pc = "join" => verify.metrics = None \/ pc = "join",
         Verified' <=> pc \in Reporting
  PROVE  KeepInv'
  <1> USE IdleRecord DEF KeepInv
  <1>1. /\ DOMAIN verify' = DOMAIN Idle /\ verify'.pc = pc
        /\ verify'.commit = verify.commit /\ verify'.built = verify.built
        /\ verify'.metrics = verify.metrics /\ verify'.join = verify.join
    OBVIOUS
  <1>2. \A c : Proven(c)' <=> Proven(c)
    BY DEF Proven, Out
  <1>3. pc = "tests" => Built(verify.commit)' = Built(verify.commit)
    BY DEF Built
  <1>4. \/ pc \in Before \cup {"aggregates", "join", "decide"} /\ pc = verify.pc
        \/ pc \notin Before \cup {"aggregates", "join", "decide"}
    OBVIOUS
  <1>5. pc \in Before => ~verify.built /\ verify.metrics = None
    BY <1>4
  <1>6. pc = "decide" => deployed = verify.commit
    BY <1>4 DEF Before
  <1>7. Verified' /\ ~history'.mixed => Proven(deployed)'
    BY <1>2
  <1>8. ~history.mixed =>
         /\ pc = "tests" => relation' = Built(verify.commit)
         /\ verify.built => BuildPassed(ProjectOf[verify.commit], Out(verify.commit))
         /\ pc \in {"aggregates", "join"} =>
                verify.built /\ relation' = Out(verify.commit)
         /\ verify.metrics # None => verify.metrics = Aggregates(Out(verify.commit))
         /\ verify.metrics # None /\ pc # "join" =>
                verify.join = JoinCount(Out(verify.commit))
    BY <1>4 DEF Before
  <1> QED
    BY <1>1, <1>2, <1>3, <1>5, <1>6, <1>7, <1>8 DEF Out, Before

\* A step before dbt has built.
LEMMA EarlyKeeps ==
  ASSUME KeepInv, UNCHANGED <<state, deployed>>, "mixed" \in DOMAIN history', ~Verified,
         DOMAIN verify' = DOMAIN Idle, verify'.pc \in Before \ {"idle", "tests"},
         verify'.commit \in Commits, ~verify'.built, verify'.metrics = None
  PROVE  KeepInv'
  BY DEF KeepInv, Before, Verified, Reporting

\* A step elsewhere.
LEMMA OthersKeep ==
  ASSUME KeepInv, UNCHANGED <<verify, relation, state, deployed>>,
         "mixed" \in DOMAIN history', history'.mixed = history.mixed
  PROVE  KeepInv'
  <1>1. Proven(deployed)' <=> Proven(deployed)
    BY DEF Proven, Out
  <1>2. Built(verify.commit)' = Built(verify.commit)
    BY DEF Built
  <1> QED
    BY <1>1, <1>2 DEF KeepInv, Verified, Out

\* Starting, and reading the context.
LEMMA ContextKeeps ==
  ASSUME KeepInv, Start \/ Context
  PROVE  KeepInv'
  <1>0. "mixed" \in DOMAIN history /\ DOMAIN verify = DOMAIN Idle
    BY DEF KeepInv
  <1>1. CASE Start
    <2>1. PICK c \in Commits : verify' = [Idle EXCEPT !.pc = "entity", !.commit = c]
      BY <1>1 DEF Start
    <2>2. /\ DOMAIN verify' = DOMAIN Idle /\ verify'.pc = "entity"
          /\ verify'.commit = c /\ ~verify'.built /\ verify'.metrics = None
      BY <2>1, IdleRecord
    <2>3. UNCHANGED <<state, deployed>> /\ ~Verified
      BY <1>1 DEF Start, record, Verified
    <2>4. "mixed" \in DOMAIN history'
      BY <1>0, <1>1 DEF Start
    <2>5. QED BY <2>2, <2>3, <2>4, EarlyKeeps DEF Before
  <1>2. CASE Context
    <2>1. UNCHANGED <<state, deployed, history>> /\ (Verified' => Verified)
      BY <1>2 DEF Context, ReadEntity, ReadLineage, ReadLink, Normalize, record, Verified
    <2>2. CASE Raise
      BY <1>0, <2>1, <2>2, RaiseKeeps
    <2>3. ASSUME ~Raise
          PROVE  /\ DOMAIN verify' = DOMAIN Idle
                 /\ verify.pc \in {"entity", "lineage", "links"}
                 /\ verify'.pc \in {"lineage", "links", "dbt"}
                 /\ verify'.commit = verify.commit /\ verify'.built = verify.built
                 /\ verify'.metrics = verify.metrics
      <3> USE IdleRecord
      <3>1. CASE ReadEntity
        <4>1. verify' = [verify EXCEPT !.pc = "lineage",
                             !.semantic = IF entity = "net" THEN "MATCH" ELSE "MISSING"]
          BY <2>3, <3>1 DEF ReadEntity
        <4>2. QED BY <1>0, <3>1, <4>1 DEF ReadEntity
      <3>2. CASE ReadLineage
        <4>1. verify' = [verify EXCEPT !.pc = "links",
                             !.deep = Reachable(edges, Chain[1], Len(Chain) - 1)]
          BY <2>3, <3>2 DEF ReadLineage
        <4>2. QED BY <1>0, <3>2, <4>1 DEF ReadLineage
      <3>3. CASE ReadLink
        BY <1>0, <3>3 DEF ReadLink
      <3>4. CASE Normalize
        <4>1. verify' = [verify EXCEPT !.pc = "dbt",
                             !.current = LineageCurrent(verify.deep, verify.direct)]
          BY <2>3, <3>4 DEF Normalize
        <4>2. QED BY <1>0, <3>4, <4>1 DEF Normalize
      <3>5. QED BY <1>2, <3>1, <3>2, <3>3, <3>4 DEF Context
    <2>4. CASE ~Raise
      <3>1. verify.pc # "idle" /\ verify.pc \in Before /\ verify.pc \notin Reporting
        BY <2>3, <2>4 DEF Before, Reporting
      <3>2. ~Verified /\ verify.commit \in Commits /\ ~verify.built /\ verify.metrics = None
        BY <3>1 DEF KeepInv
      <3>3. QED BY <1>0, <2>1, <2>3, <2>4, <3>2, EarlyKeeps DEF Before
    <2>5. QED BY <2>2, <2>4
  <1> QED BY <1>1, <1>2

\* The build, its tests and the two queries: from the table the commit builds to
\* the figures the policy is given.
LEMMA ExecuteKeeps ==
  ASSUME KeepInv, DbtBuilds \/ DbtTests \/ ReadAggregates \/ ReadJoin
  PROVE  KeepInv'
  <1>0. DOMAIN verify = DOMAIN Idle /\ "mixed" \in DOMAIN history
    BY DEF KeepInv
  <1>1. UNCHANGED <<state, deployed>> /\ "mixed" \in DOMAIN history'
    BY <1>0 DEF DbtBuilds, DbtTests, ReadAggregates, ReadJoin, record
  <1>2. verify.pc \in {"dbt", "tests", "aggregates", "join"}
    BY DEF DbtBuilds, DbtTests, ReadAggregates, ReadJoin
  <1>3. ~Verified /\ ~Verified' /\ verify.commit \in Commits
    BY <1>1, <1>2 DEF KeepInv, Verified, Reporting
  <1> USE IdleRecord DEF Before, Reporting
  <1>4. CASE DbtBuilds
    <2>1. /\ DOMAIN verify' = DOMAIN Idle /\ verify'.pc = "tests"
          /\ verify'.commit = verify.commit /\ ~verify'.built /\ verify'.metrics = None
      BY <1>0, <1>4 DEF DbtBuilds, Continue, KeepInv
    <2>2. relation' = Built(verify.commit)'
      BY <1>4, <2>1 DEF DbtBuilds, Built
    <2>3. QED
      BY <1>1, <1>3, <2>1, <2>2 DEF KeepInv
  <1>5. CASE DbtTests
    <2> DEFINE passed == relation # None /\ BuildPassed(ProjectOf[verify.commit], relation)
    <2>1. verify.metrics = None /\ history' = history
      BY <1>5 DEF DbtTests, KeepInv
    <2>2. /\ DOMAIN verify' = DOMAIN Idle /\ verify'.commit = verify.commit
          /\ verify'.built = passed /\ verify'.metrics = None
          /\ verify'.pc = IF passed THEN "aggregates" ELSE "drop"
      BY <1>0, <1>5, <2>1 DEF DbtTests
    <2>3. ~history.mixed /\ passed =>
              /\ relation = Out(verify.commit)
              /\ BuildPassed(ProjectOf[verify.commit], Out(verify.commit))
      BY <1>5 DEF KeepInv, DbtTests, Built, Out, BuildPassed
    <2>4. relation' = relation
      BY <1>5 DEF DbtTests, world
    <2> HIDE DEF passed
    <2>5. QED
      BY <1>1, <1>3, <2>1, <2>2, <2>3, <2>4 DEF KeepInv, Out
  <1>6. CASE ReadAggregates
    <2>1. /\ DOMAIN verify' = DOMAIN Idle /\ verify'.commit = verify.commit
          /\ verify'.built = verify.built /\ verify'.pc = "join"
          /\ verify'.metrics = Aggregates(relation)
      BY <1>0, <1>6 DEF ReadAggregates
    <2>2. relation' = relation /\ history' = history
      BY <1>6 DEF ReadAggregates, world
    <2>3. ~history.mixed =>
              /\ verify.built /\ relation = Out(verify.commit)
              /\ BuildPassed(ProjectOf[verify.commit], Out(verify.commit))
      BY <1>6 DEF KeepInv, ReadAggregates
    <2>4. QED
      BY <1>1, <1>3, <2>1, <2>2, <2>3 DEF KeepInv, Out
  <1>7. CASE ReadJoin
    <2>1. /\ DOMAIN verify' = DOMAIN Idle /\ verify'.commit = verify.commit
          /\ verify'.built = verify.built /\ verify'.pc = "drop"
          /\ verify'.metrics = verify.metrics /\ verify'.join = JoinCount(relation)
      BY <1>0, <1>7 DEF ReadJoin
    <2>2. relation' = relation /\ history' = history
      BY <1>7 DEF ReadJoin, world
    <2>3. ~history.mixed =>
              /\ verify.built /\ relation = Out(verify.commit)
              /\ BuildPassed(ProjectOf[verify.commit], Out(verify.commit))
              /\ verify.metrics # None => verify.metrics = Aggregates(Out(verify.commit))
      BY <1>7 DEF KeepInv, ReadJoin
    <2>4. QED
      BY <1>1, <1>3, <2>1, <2>2, <2>3 DEF KeepInv, Out
  <1> QED BY <1>4, <1>5, <1>6, <1>7

\* Dropping the schema, and the calls: nothing is learned.
LEMMA MovesKeep ==
  ASSUME KeepInv, DbtFails \/ DropSchema \/ CallContain \/ CallReport \/ CallResolve
  PROVE  KeepInv'
  <1>0. "mixed" \in DOMAIN history /\ history' = history /\ UNCHANGED <<state, deployed>>
    BY DEF KeepInv, DbtFails, DropSchema, CallContain, CallReport, CallResolve,
           CallDataHub, record
  <1>1. (Verified' <=> Verified) /\ (verify.pc # "idle" => (Verified <=> verify.pc \in Reporting))
    BY <1>0 DEF KeepInv, Verified
  <1> USE DEF Before, Reporting, Continue
  <1>2. CASE DbtFails
    <2>1. verify.pc \in {"dbt", "tests"} /\ verify' = [verify EXCEPT !.pc = "drop"]
      BY <1>2 DEF DbtFails
    <2>2. QED BY <1>0, <1>1, <2>1, MoveKeeps
  <1>3. CASE DropSchema
    <2>1. verify.pc = "drop" /\ verify' = [verify EXCEPT !.pc = "evidence"]
      BY <1>3 DEF DropSchema
    <2>2. QED BY <1>0, <1>1, <2>1, MoveKeeps
  <1>4. CASE CallContain
    <2>1. verify.pc = "contain" /\ verify' = [verify EXCEPT !.pc = "contain"]
      BY <1>4 DEF CallContain, CallDataHub
    <2>2. QED BY <1>0, <1>1, <2>1, MoveKeeps
  <1>5. CASE CallReport
    <2>1. verify.pc = "report" /\ verify' = [verify EXCEPT !.pc = "reported"]
      BY <1>5 DEF CallReport, CallDataHub
    <2>2. QED BY <1>0, <1>1, <2>1, MoveKeeps
  <1>6. CASE CallResolve
    <2>1. verify.pc = "resolve" /\ verify' = [verify EXCEPT !.pc = "resolved"]
      BY <1>6 DEF CallResolve, CallDataHub
    <2>2. QED BY <1>0, <1>1, <2>1, MoveKeeps
  <1> QED BY <1>2, <1>3, <1>4, <1>5, <1>6

\* The record and the decision.
LEMMA ConcludeKeeps ==
  ASSUME KeepInv, RecordDeployment \/ Decide \/ Contain \/ AfterReport \/ AfterResolve
  PROVE  KeepInv'
  <1>0. DOMAIN verify = DOMAIN Idle /\ "mixed" \in DOMAIN history /\ history' = history
    BY DEF KeepInv, RecordDeployment, Decide, Contain, AfterReport, AfterResolve
  <1>1. verify.pc # "idle" /\ (Verified <=> verify.pc \in Reporting)
    BY DEF KeepInv, RecordDeployment, Decide, Contain, AfterReport, AfterResolve
  <1> USE IdleRecord DEF Before, Reporting, Continue
  <1>2. CASE RecordDeployment
    <2>1. /\ DOMAIN verify' = DOMAIN Idle /\ verify'.pc = "decide"
          /\ verify'.commit = verify.commit /\ verify'.built = verify.built
          /\ verify'.metrics = verify.metrics /\ verify'.join = verify.join
      BY <1>0, <1>2 DEF RecordDeployment
    <2>2. deployed' = verify.commit /\ ~Verified' /\ verify.pc = "evidence"
      BY <1>2 DEF RecordDeployment, Verified
    <2>3. QED BY <1>0, <2>1, <2>2 DEF KeepInv, Out
  <1>3. ASSUME Decide, Accepted, state' = "POST_DEPLOY_VERIFIED", Continue("report")
        PROVE  KeepInv'
    <2>1. /\ DOMAIN verify' = DOMAIN Idle /\ verify'.pc = "report"
          /\ verify'.commit = verify.commit /\ verify'.built = verify.built
          /\ verify'.metrics = verify.metrics /\ verify'.join = verify.join
      BY <1>0, <1>3
    <2>2. verify.pc = "decide" /\ deployed' = deployed /\ deployed = verify.commit
          /\ verify.commit \in Commits
      BY <1>3 DEF Decide, KeepInv
    <2>3. /\ verify.metrics # None /\ verify.built /\ OverlapEnough(verify.join)
          /\ DeltaWithin(verify.metrics.total, Aggregates(Baseline).total,
                         MAX_TOTAL_VARIANCE)
      BY <1>3 DEF Accepted, PolicyAccepts
    <2>4. ~history.mixed =>
            /\ BuildPassed(ProjectOf[verify.commit], Out(verify.commit))
            /\ verify.metrics = Aggregates(Out(verify.commit))
            /\ verify.join = JoinCount(Out(verify.commit))
      BY <2>2, <2>3 DEF KeepInv
    <2>5. ~history.mixed => Proven(deployed)'
      BY <2>2, <2>3, <2>4 DEF Proven, Out
    <2>6. Verified'
      BY <1>3 DEF Verified
    <2>7. QED BY <1>0, <2>1, <2>2, <2>3, <2>4, <2>5, <2>6 DEF KeepInv, Out
  <1>4. ASSUME Decide, UNCHANGED state, Continue("contain") PROVE KeepInv'
    <2>1. verify.pc = "decide" /\ deployed' = deployed /\ (Verified' <=> Verified)
      BY <1>4 DEF Decide, Verified
    <2>2. QED BY <1>0, <1>1, <1>4, <2>1, MoveKeeps
  <1>5. CASE Contain
    <2>1. Raise /\ ~Verified' /\ deployed' = deployed
      BY <1>5 DEF Contain, Verified
    <2>2. QED BY <1>0, <2>1, RaiseKeeps
  <1>6. ASSUME AfterReport, Continue("resolve"), UNCHANGED state PROVE KeepInv'
    <2>1. verify.pc = "reported" /\ deployed' = deployed /\ (Verified' <=> Verified)
      BY <1>6 DEF AfterReport, Verified
    <2>2. QED BY <1>0, <1>1, <1>6, <2>1, MoveKeeps
  <1>7. ASSUME AfterReport, Raise, state' = "FAILED" PROVE KeepInv'
    <2>1. ~Verified' /\ deployed' = deployed
      BY <1>7 DEF AfterReport, Verified
    <2>2. QED BY <1>0, <1>7, <2>1, RaiseKeeps
  <1>8. CASE AfterResolve
    <2>1. Raise /\ Verified /\ deployed' = deployed
      BY <1>1, <1>8 DEF AfterResolve
    <2>2. QED BY <1>0, <2>1, RaiseKeeps
  <1> QED
    BY <1>2, <1>3, <1>4, <1>5, <1>6, <1>7, <1>8 DEF Decide, AfterReport

\* What goes wrong, and what goes on elsewhere.
LEMMA WorldKeeps ==
  ASSUME KeepInv,
         \/ ContextFails \/ QueryFails \/ Crash \/ OrphanBuilds \/ BaseMoves
         \/ MetadataChanges \/ AdapterStep \/ DataHubStep \/ UNCHANGED vars
  PROVE  KeepInv'
  <1>0. "mixed" \in DOMAIN history
    BY DEF KeepInv
  <1>1. CASE ContextFails \/ QueryFails \/ Crash
    <2>1. /\ Raise /\ UNCHANGED <<state, deployed>> /\ "mixed" \in DOMAIN history'
          /\ history'.mixed = history.mixed
      BY <1>0, <1>1 DEF ContextFails, QueryFails, Crash, record
    <2>2. QED BY <2>1, RaiseKeeps DEF Verified
  <1>2. CASE OrphanBuilds
    <2>1. /\ UNCHANGED <<verify, state, deployed>>
          /\ "mixed" \in DOMAIN history' /\ history'.mixed
      BY <1>0, <1>2 DEF OrphanBuilds, record
    <2>2. QED BY <2>1 DEF KeepInv, Verified
  <1>3. CASE BaseMoves \/ MetadataChanges \/ AdapterStep \/ DataHubStep \/ UNCHANGED vars
    <2>1. /\ UNCHANGED <<verify, relation, state, deployed>>
          /\ "mixed" \in DOMAIN history' /\ history'.mixed = history.mixed
      BY <1>0, <1>3 DEF BaseMoves, MetadataChanges, AdapterStep, DataHubStep, vars, record,
                        world
    <2>2. QED BY <2>1, OthersKeep
  <1> QED BY <1>1, <1>2, <1>3

\* The invariant is preserved by every step.
LEMMA KeepInvStep == KeepInv /\ [Next]_vars => KeepInv'
  BY ContextKeeps, ExecuteKeeps, MovesKeep, ConcludeKeeps, WorldKeeps
     DEF Next, Progress, Execute, Conclude, Faults

\* A deployment is called verified only if the table the deployed commit itself
\* builds keeps every payment of the baseline and its total (workflow.py 744-850,
\* executor.py, engine.py), for any projects, tables and thresholds' outcomes,
\* whatever is left in the candidate schema and however the branch moves.
THEOREM VerifiedIsProven == Spec => []VerifiedKeepsPayments
  <1>1. KeepInv => VerifiedKeepsPayments
    <2> SUFFICES ASSUME KeepInv, Verified, ~history.mixed,
                        "unique" \in ProjectOf[deployed].tests
                 PROVE  KeepsPayments(Out(deployed))
      BY DEF VerifiedKeepsPayments, Out
    <2>1. Proven(deployed)
      BY DEF KeepInv
    <2>2. IsTable(Out(deployed)) /\ TestPasses("unique", Out(deployed))
      BY <2>1, PostDeployConstants DEF Proven, BuildPassed, Out
    <2>3. QED
      BY <2>1, <2>2, ChecksKeepPayments DEF Proven
  <1> QED
    BY <1>1, KeepInvInit, KeepInvStep, PTL DEF Spec

-------------------------------------------------------------------------------
(***************************************************************************)
(* The contract of the lineage, and what reading it shows.                 *)
(***************************************************************************)
\* The step of Reachable: one more hop.
HopOn(E, s) == s \cup UNION {Downstreams(E, v) : v \in s}

\* What is reached within n hops, by the paths that lead there.
Paths(E, u, k) ==
    {p \in [0 .. k -> Datasets] : p[0] = u /\ \A i \in 1 .. k : <<p[i - 1], p[i]>> \in E}
ByPaths(E, u, n) == {v \in Datasets : \E k \in 0 .. n : \E p \in Paths(E, u, k) : p[k] = v}

\* The direct downstreams of a dataset are the ends of its edges.
LEMMA DownstreamsAreEdges ==
  ASSUME NEW E \in SUBSET (Datasets \X Datasets), NEW u
  PROVE  /\ Downstreams(E, u) \subseteq Datasets
         /\ \A v : v \in Downstreams(E, u) <=> <<u, v>> \in E
  <1>1. ASSUME NEW e \in E PROVE e = <<e[1], e[2]>> /\ e[2] \in Datasets
    OBVIOUS
  <1>2. ASSUME NEW v, <<u, v>> \in E PROVE v \in Downstreams(E, u)
    <2>1. <<u, v>>[1] = u /\ <<u, v>>[2] = v
      OBVIOUS
    <2>2. QED BY <1>2, <2>1 DEF Downstreams
  <1>3. ASSUME NEW v \in Downstreams(E, u) PROVE <<u, v>> \in E /\ v \in Datasets
    <2>1. PICK e \in E : e[1] = u /\ e[2] = v
      BY <1>3 DEF Downstreams
    <2>2. QED BY <1>1, <2>1
  <1> QED BY <1>2, <1>3

\* What paths reach is what hops reach.
LEMMA PathsAreHops ==
  ASSUME NEW E \in SUBSET (Datasets \X Datasets), NEW u \in Datasets
  PROVE  /\ ByPaths(E, u, 0) = {u}
         /\ \A n \in Nat \ {0} : ByPaths(E, u, n) = HopOn(E, ByPaths(E, u, n - 1))
  <1>1. ByPaths(E, u, 0) = {u}
    <2>1. [i \in 0 .. 0 |-> u] \in Paths(E, u, 0)
      BY DEF Paths
    <2>2. u \in ByPaths(E, u, 0)
      BY <2>1 DEF ByPaths
    <2>3. QED BY <2>2 DEF ByPaths, Paths
  <1>2. ASSUME NEW n \in Nat \ {0}, NEW w \in ByPaths(E, u, n)
        PROVE  w \in HopOn(E, ByPaths(E, u, n - 1))
    <2>1. PICK k \in 0 .. n : \E p \in Paths(E, u, k) : p[k] = w
      BY <1>2 DEF ByPaths
    <2>2. PICK p \in Paths(E, u, k) : p[k] = w
      BY <2>1
    <2>3. CASE k < n
      <3>1. w \in ByPaths(E, u, n - 1)
        BY <1>2, <2>2, <2>3 DEF ByPaths
      <3>2. QED BY <3>1 DEF HopOn
    <2>4. CASE k = n
      <3> DEFINE q == [i \in 0 .. n - 1 |-> p[i]]
      <3>1. p \in [0 .. n -> Datasets] /\ p[0] = u /\ \A i \in 1 .. n : <<p[i - 1], p[i]>> \in E
        BY <2>4 DEF Paths
      <3>2. q \in [0 .. n - 1 -> Datasets] /\ q[0] = u
        BY <3>1
      <3>3. \A i \in 1 .. n - 1 : <<q[i - 1], q[i]>> \in E
        BY <3>1
      <3>4. q \in Paths(E, u, n - 1) /\ q[n - 1] = p[n - 1]
        <4>1. q[n - 1] = p[n - 1]
          OBVIOUS
        <4> HIDE DEF q
        <4>2. QED BY <3>2, <3>3, <4>1 DEF Paths
      <3>5. p[n - 1] \in Datasets /\ n - 1 \in 0 .. n - 1
        BY <3>1
      <3>6. p[n - 1] \in ByPaths(E, u, n - 1)
        BY <3>4, <3>5 DEF ByPaths
      <3>7. w \in Downstreams(E, p[n - 1])
        <4>1. <<p[n - 1], w>> \in E
          BY <2>2, <2>4, <3>1
        <4>2. QED BY <4>1, DownstreamsAreEdges
      <3>8. QED BY <3>6, <3>7 DEF HopOn
    <2>5. QED BY <2>3, <2>4
  <1>3. ASSUME NEW n \in Nat \ {0}, NEW w \in HopOn(E, ByPaths(E, u, n - 1))
        PROVE  w \in ByPaths(E, u, n)
    <2>1. CASE w \in ByPaths(E, u, n - 1)
      BY <2>1 DEF ByPaths
    <2>2. ASSUME NEW v \in ByPaths(E, u, n - 1), w \in Downstreams(E, v)
          PROVE  w \in ByPaths(E, u, n)
      <3>1. PICK k \in 0 .. n - 1 : \E p \in Paths(E, u, k) : p[k] = v
        BY DEF ByPaths
      <3>2. PICK p \in Paths(E, u, k) : p[k] = v
        BY <3>1
      <3>3. w \in Datasets /\ <<v, w>> \in E
        BY <2>2, DownstreamsAreEdges
      <3> DEFINE q == [i \in 0 .. k + 1 |-> IF i = k + 1 THEN w ELSE p[i]]
      <3>4. p \in [0 .. k -> Datasets] /\ p[0] = u /\ \A i \in 1 .. k : <<p[i - 1], p[i]>> \in E
        BY DEF Paths
      <3>5. q \in [0 .. k + 1 -> Datasets] /\ q[0] = u /\ q[k + 1] = w
        BY <3>3, <3>4
      <3>6. ASSUME NEW i \in 1 .. k + 1 PROVE <<q[i - 1], q[i]>> \in E
        <4>1. CASE i = k + 1
          BY <3>2, <3>3, <4>1
        <4>2. CASE i # k + 1
          <5>1. i \in 1 .. k /\ q[i - 1] = p[i - 1] /\ q[i] = p[i]
            BY <4>2
          <5>2. QED BY <3>4, <5>1
        <4>3. QED BY <4>1, <4>2
      <3>7. q \in Paths(E, u, k + 1)
        BY <3>5, <3>6 DEF Paths
      <3>8. k + 1 \in 0 .. n
        OBVIOUS
      <3> HIDE DEF q
      <3>9. QED BY <3>3, <3>5, <3>7, <3>8 DEF ByPaths
    <2>3. QED BY <1>3, <2>1, <2>2 DEF HopOn
  <1> QED BY <1>1, <1>2, <1>3

\* Every hop of Reachable adds the direct downstreams of what was reached.
LEMMA ReachableStep ==
  ASSUME NEW E \in SUBSET (Datasets \X Datasets), NEW u \in Datasets
  PROVE  /\ Reachable(E, u, 0) = {u}
         /\ \A n \in Nat \ {0} : Reachable(E, u, n) = HopOn(E, Reachable(E, u, n - 1))
  <1> DEFINE Hop(f, n) == IF n = 0 THEN {u}
                          ELSE f[n - 1] \cup UNION {Downstreams(E, v) : v \in f[n - 1]}
             reach == CHOOSE f : f = [n \in Nat |-> Hop(f, n)]
             paths == [n \in Nat |-> ByPaths(E, u, n)]
  <1>1. \A h : Reachable(E, u, h) = reach[h]
    BY DEF Reachable
  <1>2. ASSUME NEW n \in Nat PROVE paths[n] = Hop(paths, n)
    <2>1. CASE n = 0
      BY <2>1, PathsAreHops
    <2>2. CASE n # 0
      <3>1. n - 1 \in Nat /\ n \in Nat \ {0}
        BY <2>2
      <3>2. paths[n - 1] = ByPaths(E, u, n - 1) /\ paths[n] = ByPaths(E, u, n)
        BY <3>1
      <3> HIDE DEF paths
      <3>3. paths[n] = HopOn(E, paths[n - 1])
        BY <3>1, <3>2, PathsAreHops
      <3>4. QED BY <2>2, <3>3 DEF HopOn
    <2>3. QED BY <2>1, <2>2
  <1>3. paths = [n \in Nat |-> Hop(paths, n)]
    <2>1. paths = [n \in Nat |-> paths[n]]
      OBVIOUS
    <2> HIDE DEF paths, Hop
    <2>2. [n \in Nat |-> paths[n]] = [n \in Nat |-> Hop(paths, n)]
      BY <1>2
    <2>3. QED BY <2>1, <2>2
  <1>4. \E f : f = [n \in Nat |-> Hop(f, n)]
    <2> HIDE DEF paths, Hop
    <2>1. QED BY <1>3
  <1>5. reach = [n \in Nat |-> Hop(reach, n)]
    <2> HIDE DEF Hop
    <2>1. QED BY <1>4
  <1>6. \A n \in Nat : reach[n] = Hop(reach, n)
    <2> HIDE DEF reach, Hop
    <2>1. [n \in Nat |-> Hop(reach, n)] = [n \in Nat |-> Hop(reach, n)]
      OBVIOUS
    <2>2. \A n \in Nat : [m \in Nat |-> Hop(reach, m)][n] = Hop(reach, n)
      OBVIOUS
    <2>3. QED BY <1>5, <2>2
  <1> HIDE DEF reach
  <1>7. QED BY <1>1, <1>6 DEF HopOn

\* Along the edges of the contract every required dataset is reached in as many
\* hops as the chain has links.
LEMMA ChainIsReached ==
  ASSUME NEW E \in SUBSET (Datasets \X Datasets), ChainEdges \subseteq E
  PROVE  Required \subseteq Reachable(E, Chain[1], Len(Chain) - 1)
  <1> DEFINE reach(n) == Reachable(E, Chain[1], n)
             late == {n \in Nat : n < Len(Chain) /\ ~(\A j \in 1 .. n + 1 : Chain[j] \in reach(n))}
  <1>1. Len(Chain) \in Nat /\ Len(Chain) > 1 /\ DOMAIN Chain = 1 .. Len(Chain)
        /\ \A i \in 1 .. Len(Chain) : Chain[i] \in Datasets
    BY ChainAssumption
  <1>2. reach(0) = {Chain[1]} /\ \A n \in Nat \ {0} : reach(n) = HopOn(E, reach(n - 1))
    <2>1. Chain[1] \in Datasets
      BY <1>1
    <2>2. QED BY <2>1, ReachableStep
  <1> HIDE DEF reach
  <1>3. late = {}
    <2> SUFFICES ASSUME late # {} PROVE FALSE
      OBVIOUS
    <2>1. PICK n \in late : \A m \in late : ~(<<m, n>> \in OpToRel(<, Nat))
      BY NatLessThanWellFounded, WFMin
    <2>2. n \in Nat /\ n < Len(Chain) /\ \A m \in Nat : m < n => m \notin late
      BY <2>1 DEF OpToRel
    <2>3. n # 0
      <3>1. ASSUME n = 0 PROVE \A j \in 1 .. n + 1 : Chain[j] \in reach(n)
        <4>1. \A j \in 1 .. n + 1 : j = 1
          BY <3>1
        <4>2. QED BY <1>2, <3>1, <4>1
      <3>2. QED BY <2>1, <3>1
    <2>4. n - 1 \in Nat /\ n - 1 < Len(Chain) /\ n - 1 \notin late
      BY <2>2, <2>3
    <2>5. \A j \in 1 .. n : Chain[j] \in reach(n - 1)
      BY <2>2, <2>4
    <2>6. reach(n) = HopOn(E, reach(n - 1))
      BY <1>2, <2>2, <2>3
    <2>7. n \in 1 .. Len(Chain) - 1 /\ <<Chain[n], Chain[n + 1]>> \in E
      BY <1>1, <2>2, <2>3 DEF ChainEdges, Links
    <2>8. Chain[n + 1] \in Downstreams(E, Chain[n])
      BY <2>7, DownstreamsAreEdges
    <2>9. \A j \in 1 .. n + 1 : Chain[j] \in reach(n)
      <3>1. Chain[n + 1] \in reach(n)
        BY <2>5, <2>6, <2>7, <2>8 DEF HopOn
      <3>2. \A j \in 1 .. n : Chain[j] \in reach(n)
        BY <2>5, <2>6 DEF HopOn
      <3>3. QED BY <2>2, <3>1, <3>2
    <2>10. QED BY <2>1, <2>9
  <1>4. \A j \in 1 .. Len(Chain) : Chain[j] \in reach(Len(Chain) - 1)
    <2>1. Len(Chain) - 1 \in Nat /\ Len(Chain) - 1 < Len(Chain)
          /\ (Len(Chain) - 1) + 1 = Len(Chain)
      BY <1>1
    <2>2. QED BY <1>3, <2>1
  <1> QED BY <1>1, <1>4 DEF Required, reach

\* The contract holds of a graph exactly if the lineage read from that graph, as
\* one answer of several hops and one of a single hop for each link, is current.
LEMMA CurrentMeansContract ==
  ASSUME NEW E \in SUBSET (Datasets \X Datasets), NEW direct,
         \A i \in Links : direct[i] = Downstreams(E, Chain[i])
  PROVE  LineageCurrent(Reachable(E, Chain[1], Len(Chain) - 1), direct) <=> ContractHolds(E)
  <1> DEFINE last == Chain[Len(Chain)]
             between == {e \in E : e[1] \in Required \ {last} /\ e[2] \in Required}
  <1>1. Len(Chain) \in Nat /\ Len(Chain) > 1 /\ DOMAIN Chain = 1 .. Len(Chain)
        /\ \A i \in 1 .. Len(Chain) : Chain[i] \in Datasets
    BY ChainAssumption
  <1>2. ASSUME NEW i \in Links
        PROVE  /\ i \in DOMAIN Chain /\ i + 1 \in DOMAIN Chain
               /\ Chain[i] \in Required \ {last} /\ Chain[i + 1] \in Required
    BY <1>1, ChainAssumption DEF Links, Required
  <1>3. ASSUME NEW e \in between
        PROVE  /\ e = <<e[1], e[2]>>
               /\ \E i \in Links : e[1] = Chain[i]
    <2>1. e = <<e[1], e[2]>>
      OBVIOUS
    <2>2. PICK i \in DOMAIN Chain : e[1] = Chain[i] /\ Chain[i] # last
      BY DEF Required
    <2>3. i \in Links
      BY <1>1, <2>2 DEF Links
    <2>4. QED BY <2>1, <2>2, <2>3
  <1>4. ContractHolds(E) <=> ChainEdges \subseteq between /\ between \subseteq ChainEdges \cup Parallel
    BY DEF ContractHolds
  <1>5. ASSUME TopologyCurrent(direct) PROVE ContractHolds(E)
    <2>1. ASSUME NEW i \in Links PROVE <<Chain[i], Chain[i + 1]>> \in between
      <3>1. Chain[i + 1] \in Downstreams(E, Chain[i])
        BY <1>5 DEF TopologyCurrent, LinkCurrent
      <3>2. <<Chain[i], Chain[i + 1]>> \in E
        BY <3>1, DownstreamsAreEdges
      <3>3. QED BY <1>2, <3>2
    <2>2. ASSUME NEW e \in between PROVE e \in ChainEdges \cup Parallel
      <3>1. PICK i \in Links : e[1] = Chain[i] /\ e = <<Chain[i], e[2]>>
        BY <1>3
      <3>2. e \in E /\ e[2] \in Required
        OBVIOUS
      <3>3. e[2] \in Downstreams(E, Chain[i])
        BY <3>1, <3>2, DownstreamsAreEdges
      <3>4. e[2] = Chain[i + 1] \/ <<Chain[i], e[2]>> \in Parallel
        BY <1>5, <3>2, <3>3 DEF TopologyCurrent, LinkCurrent
      <3>5. QED BY <3>1, <3>4 DEF ChainEdges
    <2>3. QED BY <1>4, <2>1, <2>2 DEF ChainEdges
  <1>6. ASSUME ContractHolds(E), NEW i \in Links PROVE LinkCurrent(i, direct[i])
    <2>1. <<Chain[i], Chain[i + 1]>> \in E
      BY <1>4, <1>6 DEF ChainEdges
    <2>2. Chain[i + 1] \in direct[i]
      BY <2>1, DownstreamsAreEdges
    <2>3. ASSUME NEW v \in direct[i] \cap Required
          PROVE  v = Chain[i + 1] \/ <<Chain[i], v>> \in Parallel
      <3>1. <<Chain[i], v>> \in E
        BY DownstreamsAreEdges
      <3>2. <<Chain[i], v>> \in between
        <4>1. <<Chain[i], v>>[1] = Chain[i] /\ <<Chain[i], v>>[2] = v
          OBVIOUS
        <4>2. QED BY <1>2, <3>1, <4>1
      <3>3. <<Chain[i], v>> \in ChainEdges \cup Parallel
        BY <1>4, <1>6, <3>2
      <3>4. ASSUME NEW j \in Links, <<Chain[i], v>> = <<Chain[j], Chain[j + 1]>>
            PROVE  v = Chain[i + 1]
        <4>1. i = j
          BY <1>2, <3>4, ChainAssumption
        <4>2. QED BY <3>4, <4>1
      <3>5. QED BY <3>3, <3>4 DEF ChainEdges
    <2>4. QED BY <2>2, <2>3 DEF LinkCurrent
  <1>7. ContractHolds(E) => Required \subseteq Reachable(E, Chain[1], Len(Chain) - 1)
    BY <1>4, ChainIsReached
  <1> HIDE DEF last, between
  <1> QED BY <1>5, <1>6, <1>7 DEF LineageCurrent, TopologyCurrent

-------------------------------------------------------------------------------
(***************************************************************************)
(* The types, and the lineage a verification reads.                        *)
(***************************************************************************)
\* The steps of fetch_context, before the lineage is judged.
Fetching == {"idle", "entity", "lineage", "links"}

\* The record has its fields, and an answer for each link asked for so far.
VerifyOK ==
    /\ DOMAIN verify = DOMAIN Idle
    /\ verify.pc \in PcState
    /\ verify.pc = "idle" => verify = Idle
    /\ verify.pc # "idle" => verify.commit \in ExactPatch
    /\ verify.direct \in UNION {[1 .. n -> SUBSET Datasets] : n \in 0 .. Len(Chain) - 1}

\* What surrounds the verification; a decision is taken on a recorded deployment.
WorldOK ==
    /\ AdapterTypeOK
    /\ base \in Commits /\ edges \subseteq Edges
    /\ entity \in {"net", "other", "invalid"}
    /\ relation \in Tables \cup {None} /\ orphan \in Commits \cup {None}
    /\ state \in {"PR_OPEN", "DEPLOYED", "POST_DEPLOY_VERIFIED"} \cup TerminalStates
    /\ deployed \in ExactPatch \cup {None}
    /\ (deployed = None) <=> (state = "PR_OPEN")
    /\ verify.pc \in {"decide", "contain", "report", "reported", "resolve", "resolved"} =>
           deployed # None

\* As long as no edge has changed since the start, everything read so far is of
\* the graph there was at the start.
ReadsOK ==
    /\ DOMAIN history = {"edges", "moved", "mixed", "crashed"}
    /\ history.edges \subseteq Edges
    /\ verify.pc # "idle" => history.moved \/ edges = history.edges
    /\ ~history.moved =>
        /\ verify.pc \notin {"idle", "entity", "lineage"} =>
               verify.deep = Reachable(history.edges, Chain[1], Len(Chain) - 1)
        /\ \A i \in DOMAIN verify.direct :
               verify.direct[i] = Downstreams(history.edges, Chain[i])
        /\ verify.pc \notin Fetching => (verify.current <=> ContractHolds(history.edges))

ReadInv == VerifyOK /\ WorldOK /\ ReadsOK

\* The fields that the reads are about, of a verification that does not run.
LEMMA IdleReads == Idle.pc = "idle" /\ Idle.direct = <<>> /\ DOMAIN Idle.direct = {}
  BY DEF Idle

\* Nothing read is a legal set of answers.
LEMMA NoAnswersYet ==
  <<>> \in UNION {[1 .. n -> SUBSET Datasets] : n \in 0 .. Len(Chain) - 1}
  <1>1. Len(Chain) \in Nat /\ Len(Chain) > 1
    BY ChainAssumption
  <1>2. <<>> \in [1 .. 0 -> SUBSET Datasets] /\ 0 \in 0 .. Len(Chain) - 1
    BY <1>1
  <1> QED BY <1>2

\* One more answer.
LEMMA OneMoreAnswer ==
  ASSUME NEW d \in UNION {[1 .. n -> SUBSET Datasets] : n \in 0 .. Len(Chain) - 1},
         Len(d) < Len(Chain) - 1, NEW s \in SUBSET Datasets
  PROVE  /\ Append(d, s) \in UNION {[1 .. n -> SUBSET Datasets] : n \in 0 .. Len(Chain) - 1}
         /\ DOMAIN d = 1 .. Len(d) /\ Len(d) \in Nat
         /\ DOMAIN Append(d, s) = 1 .. Len(d) + 1
         /\ Append(d, s)[Len(d) + 1] = s
         /\ \A i \in DOMAIN d : Append(d, s)[i] = d[i]
  <1>1. PICK n \in 0 .. Len(Chain) - 1 : d \in [1 .. n -> SUBSET Datasets]
    OBVIOUS
  <1>2. n \in Nat /\ Len(Chain) \in Nat
    BY ChainAssumption
  <1>3. d \in Seq(SUBSET Datasets) /\ Len(d) = n
    BY <1>1, <1>2
  <1>4. Append(d, s) \in Seq(SUBSET Datasets) /\ Len(Append(d, s)) = n + 1
    BY <1>3
  <1>5. Append(d, s) \in [1 .. n + 1 -> SUBSET Datasets] /\ n + 1 \in 0 .. Len(Chain) - 1
    <2>1. \A q \in Seq(SUBSET Datasets) : Len(q) = n + 1 => q \in [1 .. n + 1 -> SUBSET Datasets]
      BY <1>2
    <2>2. n + 1 \in 0 .. Len(Chain) - 1
      BY <1>2, <1>3
    <2>3. QED BY <1>4, <2>1, <2>2
  <1> QED BY <1>1, <1>2, <1>3, <1>4, <1>5

\* The initial states.
LEMMA ReadInvInit == Init => ReadInv
  <1> SUFFICES ASSUME Init PROVE ReadInv
    OBVIOUS
  <1> USE DEF Init
  <1>1. VerifyOK
    BY IdleReads, NoAnswersYet DEF VerifyOK, PcState
  <1>2. WorldOK
    BY AdapterInitOK, PostDeployConstants, IdleReads DEF WorldOK
  <1>3. ReadsOK
    BY PostDeployConstants, IdleReads DEF ReadsOK, Fetching
  <1> QED BY <1>1, <1>2, <1>3 DEF ReadInv

\* A verification that has ended has read nothing.
LEMMA RaiseReads ==
  ASSUME ReadInv, Raise
  PROVE  VerifyOK'
  BY IdleReads, NoAnswersYet DEF Raise, VerifyOK, PcState

\* A step that goes on, with what has been read: the context is complete, or was
\* being read and is not yet.
LEMMA GoOnReads ==
  ASSUME ReadInv, DOMAIN verify' = DOMAIN Idle, verify.pc # "idle",
         verify'.pc \in PcState \ {"idle"},
         UNCHANGED <<verify.commit, verify.deep, verify.direct, verify.current>>,
         UNCHANGED <<history.edges, history.moved, edges>>,
         DOMAIN history' = DOMAIN history,
         \/ verify.pc = "entity" /\ verify'.pc = "lineage"
         \/ verify.pc \notin Fetching /\ verify'.pc \notin Fetching \cup {"entity"}
  PROVE  VerifyOK' /\ ReadsOK'
  BY DEF ReadInv, VerifyOK, ReadsOK, Fetching

\* Starting, and reading the context.
LEMMA ContextReads ==
  ASSUME ReadInv, Start \/ Context
  PROVE  VerifyOK' /\ ReadsOK'
  <1> USE PostDeployConstants
  <1>0. /\ DOMAIN verify = DOMAIN Idle /\ verify.pc \in PcState
        /\ DOMAIN history = {"edges", "moved", "mixed", "crashed"}
        /\ history.edges \subseteq Edges /\ edges \subseteq Edges
    BY DEF ReadInv, VerifyOK, WorldOK, ReadsOK
  <1>1. CASE Start
    <2>1. PICK c \in ExactPatch : verify' = [Idle EXCEPT !.pc = "entity", !.commit = c]
      BY <1>1 DEF Start
    <2>2. /\ DOMAIN verify' = DOMAIN Idle /\ verify'.pc = "entity" /\ verify'.commit = c
          /\ verify'.direct = <<>> /\ DOMAIN verify'.direct = {}
      BY <2>1, IdleReads, IdleRecord
    <2>3. history' = [history EXCEPT !.edges = edges, !.moved = FALSE, !.crashed = FALSE]
          /\ edges' = edges
      BY <1>1 DEF Start, world
    <2>4. /\ DOMAIN history' = DOMAIN history /\ history'.edges = edges /\ ~history'.moved
      BY <1>0, <2>3
    <2>5. VerifyOK'
      BY <2>2, NoAnswersYet DEF VerifyOK, PcState
    <2>6. ReadsOK'
      BY <1>0, <2>2, <2>3, <2>4 DEF ReadsOK, Fetching
    <2>7. QED BY <2>5, <2>6
  <1>2. ASSUME Context, Raise PROVE VerifyOK' /\ ReadsOK'
    <2>1. history' = history /\ edges' = edges
      BY <1>2 DEF Context, ReadEntity, ReadLineage, ReadLink, Normalize, world
    <2>2. verify'.pc = "idle" /\ DOMAIN verify'.direct = {}
      BY <1>2, IdleReads DEF Raise
    <2>3. QED BY <1>0, <1>2, <2>1, <2>2, RaiseReads DEF ReadInv, ReadsOK, Fetching
  <1>3. ASSUME ReadEntity, ~Raise PROVE VerifyOK' /\ ReadsOK'
    <2>1. verify.pc = "entity" /\ history' = history /\ edges' = edges
          /\ verify' = [verify EXCEPT !.pc = "lineage",
                            !.semantic = IF entity = "net" THEN "MATCH" ELSE "MISSING"]
      BY <1>3 DEF ReadEntity, world
    <2>2. /\ DOMAIN verify' = DOMAIN Idle /\ verify'.pc = "lineage"
          /\ UNCHANGED <<verify.commit, verify.deep, verify.direct, verify.current>>
      BY <1>0, <2>1, IdleRecord
    <2>3. QED BY <2>1, <2>2, GoOnReads DEF PcState
  <1>4. ASSUME ReadLineage, ~Raise PROVE VerifyOK' /\ ReadsOK'
    <2>1. verify.pc = "lineage" /\ history' = history /\ edges' = edges
          /\ verify' = [verify EXCEPT !.pc = "links",
                            !.deep = Reachable(edges, Chain[1], Len(Chain) - 1)]
      BY <1>4 DEF ReadLineage, world
    <2>2. /\ DOMAIN verify' = DOMAIN Idle /\ verify'.pc = "links"
          /\ UNCHANGED <<verify.commit, verify.direct>>
          /\ verify'.deep = Reachable(edges, Chain[1], Len(Chain) - 1)
      BY <1>0, <2>1, IdleRecord
    <2>3. QED BY <1>0, <2>1, <2>2 DEF ReadInv, VerifyOK, ReadsOK, Fetching, PcState
  <1>5. CASE ReadLink
    <2> DEFINE n == Len(verify.direct)
               d == Downstreams(edges, Chain[n + 1])
    <2>1. verify.pc = "links" /\ history' = history /\ edges' = edges
          /\ n < Len(Chain) - 1
          /\ verify' = [verify EXCEPT !.direct = Append(verify.direct, d)]
      BY <1>5 DEF ReadLink, world
    <2>2. d \in SUBSET Datasets
      BY <1>0, DownstreamsAreEdges
    <2> HIDE DEF d
    <2>3. /\ DOMAIN verify' = DOMAIN Idle /\ verify'.pc = "links"
          /\ UNCHANGED <<verify.commit, verify.deep>>
          /\ verify'.direct = Append(verify.direct, d)
      BY <1>0, <2>1, IdleRecord
    <2>4. verify.direct \in UNION {[1 .. k -> SUBSET Datasets] : k \in 0 .. Len(Chain) - 1}
      BY DEF ReadInv, VerifyOK
    <2>5. /\ verify'.direct \in UNION {[1 .. k -> SUBSET Datasets] : k \in 0 .. Len(Chain) - 1}
          /\ DOMAIN verify.direct = 1 .. n /\ n \in Nat
          /\ DOMAIN verify'.direct = 1 .. n + 1
          /\ verify'.direct[n + 1] = d
          /\ \A i \in DOMAIN verify.direct : verify'.direct[i] = verify.direct[i]
      <3> DEFINE a == Append(verify.direct, d)
      <3>1. /\ a \in UNION {[1 .. k -> SUBSET Datasets] : k \in 0 .. Len(Chain) - 1}
            /\ DOMAIN verify.direct = 1 .. n /\ n \in Nat
            /\ DOMAIN a = 1 .. n + 1 /\ a[n + 1] = d
            /\ \A i \in DOMAIN verify.direct : a[i] = verify.direct[i]
        BY <2>1, <2>2, <2>4, OneMoreAnswer
      <3>2. verify'.direct = a
        BY <2>3
      <3> HIDE DEF a
      <3>3. QED BY <3>1, <3>2
    <2>6. VerifyOK'
      BY <2>1, <2>3, <2>5 DEF ReadInv, VerifyOK, PcState
    <2>7. ~history.moved => \A i \in DOMAIN verify'.direct :
                                verify'.direct[i] = Downstreams(history.edges, Chain[i])
      <3> SUFFICES ASSUME ~history.moved, NEW i \in DOMAIN verify'.direct
                   PROVE  verify'.direct[i] = Downstreams(history.edges, Chain[i])
        OBVIOUS
      <3>1. edges = history.edges
        BY <2>1 DEF ReadInv, ReadsOK
      <3>2. CASE i = n + 1
        BY <2>5, <3>1, <3>2 DEF d
      <3>3. CASE i # n + 1
        BY <2>5, <3>3 DEF ReadInv, ReadsOK
      <3>4. QED BY <3>2, <3>3
    <2>8. QED BY <1>0, <2>1, <2>3, <2>6, <2>7 DEF ReadInv, ReadsOK, Fetching
  <1>6. ASSUME Normalize, ~Raise PROVE VerifyOK' /\ ReadsOK'
    <2>1. verify.pc = "links" /\ history' = history /\ edges' = edges
          /\ Len(verify.direct) = Len(Chain) - 1
          /\ verify' = [verify EXCEPT !.pc = "dbt",
                            !.current = LineageCurrent(verify.deep, verify.direct)]
      BY <1>6 DEF Normalize, world
    <2>2. /\ DOMAIN verify' = DOMAIN Idle /\ verify'.pc = "dbt"
          /\ UNCHANGED <<verify.commit, verify.deep, verify.direct>>
          /\ verify'.current = LineageCurrent(verify.deep, verify.direct)
      BY <1>0, <2>1, IdleRecord
    <2>3. VerifyOK'
      BY <2>1, <2>2 DEF ReadInv, VerifyOK, PcState
    <2>4. DOMAIN verify.direct = Links
      <3>1. PICK k \in 0 .. Len(Chain) - 1 : verify.direct \in [1 .. k -> SUBSET Datasets]
        BY DEF ReadInv, VerifyOK
      <3>2. k \in Nat
        BY ChainAssumption
      <3>3. Len(verify.direct) = k
        BY <3>1, <3>2
      <3>4. QED BY <2>1, <3>1, <3>3 DEF Links
    <2>5. ~history.moved => (verify'.current <=> ContractHolds(history.edges))
      <3>1. history.edges \in SUBSET (Datasets \X Datasets)
        BY <1>0
      <3>2. ~history.moved =>
              /\ verify.deep = Reachable(history.edges, Chain[1], Len(Chain) - 1)
              /\ \A i \in Links : verify.direct[i] = Downstreams(history.edges, Chain[i])
        BY <2>1, <2>4 DEF ReadInv, ReadsOK
      <3>3. QED BY <2>2, <3>1, <3>2, CurrentMeansContract
    <2>6. QED BY <1>0, <2>1, <2>2, <2>3, <2>5 DEF ReadInv, ReadsOK, Fetching
  <1> QED
    BY <1>1, <1>2, <1>3, <1>4, <1>5, <1>6 DEF Context, ReadLink

\* The rest of the verification works with what has been read.
LEMMA LaterReads ==
  ASSUME ReadInv, Execute \/ Conclude \/ DbtFails
  PROVE  VerifyOK' /\ ReadsOK'
  <1>0. /\ DOMAIN verify = DOMAIN Idle
        /\ DOMAIN history = {"edges", "moved", "mixed", "crashed"}
        /\ "edges" \in DOMAIN history /\ "moved" \in DOMAIN history
    BY DEF ReadInv, VerifyOK, ReadsOK
  <1> DEFINE Went == /\ DOMAIN verify' = DOMAIN Idle
                     /\ UNCHANGED <<verify.commit, verify.deep, verify.direct, verify.current>>
                     /\ verify.pc \notin Fetching
                     /\ verify'.pc \in PcState \ (Fetching \cup {"entity"})
  <1>1. UNCHANGED <<history.edges, history.moved, edges>> /\ DOMAIN history' = DOMAIN history
    BY <1>0 DEF Execute, DbtBuilds, DbtTests, ReadAggregates, ReadJoin, DropSchema, Conclude,
           RecordDeployment, Decide, CallContain, CallReport, CallResolve, CallDataHub,
           Contain, AfterReport, AfterResolve, DbtFails, world
  <1> USE IdleRecord DEF Fetching, PcState
  <1>2. ASSUME DbtBuilds PROVE Went
    BY <1>0, <1>2 DEF DbtBuilds, Continue
  <1>3. ASSUME DbtTests PROVE Went
    BY <1>0, <1>3 DEF DbtTests
  <1>4. ASSUME NEW pc \in PcState \ (Fetching \cup {"entity"}), Continue(pc),
               verify.pc \notin Fetching
        PROVE  Went
    BY <1>0, <1>4 DEF Continue
  <1>5. ASSUME ReadAggregates \/ ReadJoin PROVE Went
    <2>1. CASE ReadAggregates
      BY <1>0, <2>1 DEF ReadAggregates
    <2>2. CASE ReadJoin
      BY <1>0, <2>2 DEF ReadJoin
    <2>3. QED BY <1>5, <2>1, <2>2
  <1>6. ASSUME \/ DropSchema \/ DbtFails \/ RecordDeployment \/ Decide
               \/ CallContain \/ CallReport \/ CallResolve
        PROVE  Went
    <2>1. /\ verify.pc \notin Fetching
          /\ \E pc \in PcState \ (Fetching \cup {"entity"}) : Continue(pc)
      BY <1>6 DEF DropSchema, DbtFails, RecordDeployment, Decide, CallContain, CallReport,
             CallResolve, CallDataHub
    <2> HIDE DEF Went
    <2>2. QED BY <1>4, <2>1
  <1>7. ASSUME AfterReport, ~Raise PROVE Went
    BY <1>4, <1>7 DEF AfterReport
  <1> HIDE DEF Fetching, PcState
  <1>8. Went \/ Raise
    BY <1>2, <1>3, <1>4, <1>5, <1>6, <1>7 DEF Execute, Conclude, Contain, AfterResolve
  <1>9. CASE Raise
    <2>1. verify'.pc = "idle" /\ DOMAIN verify'.direct = {}
      BY <1>9, IdleReads DEF Raise
    <2>2. QED BY <1>0, <1>1, <1>9, <2>1, RaiseReads DEF ReadInv, ReadsOK, Fetching
  <1>10. CASE Went
    BY <1>1, <1>10, GoOnReads DEF Fetching
  <1> QED BY <1>8, <1>9, <1>10

\* What goes wrong and what goes on elsewhere: an edge that changes is noted.
LEMMA WorldReads ==
  ASSUME ReadInv,
         \/ ContextFails \/ QueryFails \/ Crash \/ OrphanBuilds \/ BaseMoves
         \/ MetadataChanges \/ AdapterStep \/ DataHubStep \/ UNCHANGED vars
  PROVE  VerifyOK' /\ ReadsOK'
  <1>0. /\ DOMAIN history = {"edges", "moved", "mixed", "crashed"}
    BY DEF ReadInv, ReadsOK
  <1>1. CASE ContextFails \/ QueryFails \/ Crash
    <2>1. /\ Raise /\ edges' = edges /\ DOMAIN history' = DOMAIN history
          /\ history'.edges = history.edges /\ history'.moved = history.moved
      BY <1>0, <1>1 DEF ContextFails, QueryFails, Crash, world
    <2>2. verify'.pc = "idle" /\ DOMAIN verify'.direct = {}
      BY <2>1, IdleReads DEF Raise
    <2>3. QED BY <1>0, <2>1, <2>2, RaiseReads DEF ReadInv, ReadsOK, Fetching
  <1>2. CASE OrphanBuilds \/ BaseMoves \/ AdapterStep \/ DataHubStep \/ UNCHANGED vars
    <2>1. /\ verify' = verify /\ edges' = edges /\ DOMAIN history' = DOMAIN history
          /\ history'.edges = history.edges /\ history'.moved = history.moved
      BY <1>0, <1>2 DEF OrphanBuilds, BaseMoves, AdapterStep, DataHubStep, vars, world
    <2>2. QED BY <2>1 DEF ReadInv, ReadsOK, VerifyOK
  <1>3. CASE MetadataChanges
    <2>1. /\ verify' = verify /\ DOMAIN history' = DOMAIN history
          /\ history'.edges = history.edges
          /\ history'.moved \/ (history' = history /\ edges' = edges)
      BY <1>0, <1>3 DEF MetadataChanges
    <2>2. QED BY <1>0, <2>1 DEF ReadInv, ReadsOK, VerifyOK
  <1> QED BY <1>1, <1>2, <1>3

\* The types of the rest, and that what follows the decision is on record.
LEMMA WorldTyped ==
  ASSUME ReadInv, [Next]_vars
  PROVE  WorldOK'
  <1> USE PostDeployConstants
  <1>1. AdapterTypeOK'
    BY StepsAreAdapterSteps, AdapterNextOK DEF ReadInv, WorldOK
  <1>2. ASSUME NEW c \in Commits PROVE Built(c) \in Tables \cup {None}
    BY DEF Built, Tables, ReadInv, WorldOK
  <1>3. /\ DOMAIN verify = DOMAIN Idle /\ (verify.pc # "idle" => verify.commit \in ExactPatch)
    BY DEF ReadInv, VerifyOK
  <1>4. Raise => verify'.pc = "idle"
    BY IdleReads DEF Raise
  <1> DEFINE Late == {"decide", "contain", "report", "reported", "resolve", "resolved"}
             Same == /\ UNCHANGED <<base, edges, entity, relation, orphan>>
             Rec  == /\ state' \in {"PR_OPEN", "DEPLOYED", "POST_DEPLOY_VERIFIED"} \cup TerminalStates
                     /\ deployed' \in ExactPatch \cup {None}
                     /\ (deployed' = None) <=> (state' = "PR_OPEN")
                     /\ verify'.pc \in Late => deployed' # None
             Wor  == /\ base' \in Commits /\ edges' \subseteq Edges
                     /\ entity' \in {"net", "other", "invalid"}
                     /\ relation' \in Tables \cup {None} /\ orphan' \in Commits \cup {None}
  <1>5. Same => Wor
    BY DEF ReadInv, WorldOK, Tables
  <1>6. UNCHANGED record /\ (verify'.pc \in Late => verify.pc \in Late) => Rec
    BY DEF ReadInv, WorldOK, record
  <1>7. CASE Start \/ Context \/ ContextFails
    <2>1. Same /\ UNCHANGED record
      BY <1>7 DEF Start, Context, ReadEntity, ReadLineage, ReadLink, Normalize, ContextFails, world
    <2>2. verify'.pc \notin Late
      <3>1. ASSUME Raise PROVE verify'.pc \notin Late
        BY <1>4, <3>1
      <3>2. ASSUME Start PROVE verify'.pc \notin Late
        BY <3>2, IdleRecord DEF Start
      <3>3. ASSUME ReadEntity /\ ~Raise PROVE verify'.pc \notin Late
        BY <1>3, <3>3, IdleRecord DEF ReadEntity
      <3>4. ASSUME ReadLineage /\ ~Raise PROVE verify'.pc \notin Late
        <4>1. verify' = [verify EXCEPT !.pc = "links",
                            !.deep = Reachable(edges, Chain[1], Len(Chain) - 1)]
          BY <3>4 DEF ReadLineage
        <4>2. QED BY <1>3, <4>1, IdleRecord
      <3>5. ASSUME ReadLink PROVE verify'.pc \notin Late
        BY <1>3, <3>5, IdleRecord DEF ReadLink
      <3>6. ASSUME Normalize /\ ~Raise PROVE verify'.pc \notin Late
        <4>1. verify' = [verify EXCEPT !.pc = "dbt",
                            !.current = LineageCurrent(verify.deep, verify.direct)]
          BY <3>6 DEF Normalize
        <4>2. QED BY <1>3, <4>1, IdleRecord
      <3>7. QED BY <1>7, <3>1, <3>2, <3>3, <3>4, <3>5, <3>6 DEF Context, ContextFails
    <2>3. QED BY <1>1, <1>5, <1>6, <2>1, <2>2 DEF WorldOK, Tables
  <1>8. CASE Execute \/ DbtFails \/ QueryFails
    <2>1. UNCHANGED record
      BY <1>8 DEF Execute, DbtBuilds, DbtTests, ReadAggregates, ReadJoin, DropSchema,
                  DbtFails, QueryFails
    <2>2. verify'.pc \notin Late
      BY <1>3, <1>4, <1>8, IdleRecord
         DEF Execute, DbtBuilds, DbtTests, ReadAggregates, ReadJoin, DropSchema, Continue,
             DbtFails, QueryFails
    <2>3. Wor
      BY <1>2, <1>3, <1>5, <1>8
         DEF Execute, DbtBuilds, DbtTests, ReadAggregates, ReadJoin, DropSchema, DbtFails,
             QueryFails, world, ReadInv, WorldOK, Tables
    <2>4. QED BY <1>1, <1>6, <2>1, <2>2, <2>3 DEF WorldOK, Tables
  <1>9. CASE Conclude
    <2>1. Same
      BY <1>9 DEF Conclude, RecordDeployment, Decide, CallContain, CallReport, CallResolve,
                  CallDataHub, Contain, AfterReport, AfterResolve, world
    <2>2. ASSUME RecordDeployment PROVE Rec
      BY <1>3, <2>2, IdleRecord DEF RecordDeployment, Continue, TerminalStates
    <2>3. ASSUME Decide PROVE Rec
      BY <1>3, <2>3, IdleRecord DEF Decide, Continue, ReadInv, WorldOK
    <2>4. ASSUME CallContain \/ CallReport \/ CallResolve PROVE Rec
      <3>1. UNCHANGED record /\ verify.pc \in Late
        BY <2>4 DEF CallContain, CallReport, CallResolve, CallDataHub
      <3>2. QED BY <1>6, <3>1
    <2>5. ASSUME Contain \/ AfterReport \/ AfterResolve PROVE Rec
      <3>1. deployed' = deployed /\ deployed # None /\ verify.pc \in Late
        BY <2>5 DEF Contain, AfterReport, AfterResolve, ReadInv, WorldOK
      <3>2. state' = state \/ state' \in TerminalStates
        BY <2>5 DEF Contain, AfterReport, AfterResolve, TerminalStates
      <3>3. QED BY <3>1, <3>2 DEF ReadInv, WorldOK, TerminalStates
    <2>6. Rec
      BY <1>9, <2>2, <2>3, <2>4, <2>5 DEF Conclude
    <2>7. QED BY <1>1, <1>5, <2>1, <2>6 DEF WorldOK, Tables
  <1>10. CASE AdapterStep \/ DataHubStep \/ OrphanBuilds \/ BaseMoves \/ MetadataChanges
              \/ Crash \/ UNCHANGED vars
    <2>1. UNCHANGED record
      BY <1>10 DEF AdapterStep, DataHubStep, OrphanBuilds, BaseMoves, MetadataChanges, Crash,
                   vars, record
    <2>2. verify' = verify \/ verify'.pc = "idle"
      BY <1>4, <1>10 DEF AdapterStep, DataHubStep, OrphanBuilds, BaseMoves, MetadataChanges,
                   Crash, vars
    <2>3. ASSUME AdapterStep \/ DataHubStep \/ UNCHANGED vars PROVE Wor
      <3>1. Same
        BY <2>3 DEF AdapterStep, DataHubStep, vars, world
      <3>2. QED BY <1>5, <3>1
    <2>4. ASSUME OrphanBuilds PROVE Wor
      BY <1>2, <2>4 DEF OrphanBuilds, ReadInv, WorldOK
    <2>5. ASSUME BaseMoves PROVE Wor
      BY <2>5 DEF BaseMoves, ReadInv, WorldOK, Tables
    <2>6. ASSUME MetadataChanges PROVE Wor
      BY <2>6 DEF MetadataChanges, ReadInv, WorldOK, Tables
    <2>7. ASSUME Crash PROVE Wor
      BY <1>3, <2>7 DEF Crash, ReadInv, WorldOK, Tables
    <2>8. Wor
      BY <1>10, <2>3, <2>4, <2>5, <2>6, <2>7
    <2>9. QED BY <1>1, <1>6, <2>1, <2>2, <2>8 DEF WorldOK, Tables
  <1> QED
    BY <1>7, <1>8, <1>9, <1>10 DEF Next, Progress, Faults

\* The invariant is preserved by every step.
LEMMA ReadInvStep == ReadInv /\ [Next]_vars => ReadInv'
  BY ContextReads, LaterReads, WorldReads, WorldTyped
     DEF ReadInv, Next, Progress, Faults

\* Type correctness of a verification and its world.
THEOREM PostDeployTypeCorrect == Spec => []TypeOK
  <1>1. ReadInv => TypeOK
    BY DEF ReadInv, VerifyOK, WorldOK, TypeOK
  <1> QED
    BY <1>1, ReadInvInit, ReadInvStep, PTL DEF Spec

\* If no edge changed between the reads, the lineage is called current exactly
\* when the contract holds (mcp.py 581-585, 678-702), for any chain of required
\* datasets and any lineage around it.
THEOREM LineageIsJudgedRight == Spec => []LineageJudgedRight
  <1>1. ReadInv => LineageJudgedRight
    BY DEF ReadInv, VerifyOK, ReadsOK, LineageJudgedRight, Fetching
  <1> QED
    BY <1>1, ReadInvInit, ReadInvStep, PTL DEF Spec
===============================================================================
