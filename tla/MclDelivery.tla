------------------------------ MODULE MclDelivery ------------------------------
(***************************************************************************)
(* How a schema change recorded in DataHub reaches the API: the metadata   *)
(* change log topic, the DataHub Actions pipeline that runs                *)
(* DataRescueSchemaAction of packages/datahub/actions.py, its HTTP         *)
(* requests, and what ingest puts on record for them.                      *)
(*                                                                         *)
(* The topic, the consumer group and the pipeline's retries are external.  *)
(* They behave as demo/datahub/schema-drift-actions.yml configures them:   *)
(* retry_count, failure_mode THROW (the pipeline stops and acknowledges    *)
(* nothing), synchronous commits, and auto.offset.reset latest for a group *)
(* that has committed nothing yet.  An offset is the number of messages    *)
(* before it.  Of a case only its detection is followed here; the rest of  *)
(* ingest, and display ids that collide, are in RecoveryWorkflow.          *)
(***************************************************************************)
EXTENDS EventLog

CONSTANTS
    Contents,             \* what a schema change says, after normalization
    DedupKeys, KeyOf,     \* the digest of each content
    CaseOf,               \* the display id of each digest
    EventIds,             \* eventId of a message, or the digest of its bytes
    RetryCount,           \* options.retry_count
    Messages,             \* what may be published: see Message
    MaxTopic, MaxMishaps  \* bounds: messages published, mishaps

\* What handle() can tell of a message, and ingest of its asset.  A message with
\* no drift is another entity's or aspect's, a first schema or an unchanged one.
Kinds   == {"no_drift", "malformed", "not_allowed", "drift"}
Message == [kind : Kinds, content : Contents, event_id : EventIds]

ASSUME DeliveryConstants ==
    /\ Messages \subseteq Message
    /\ KeyOf \in [Contents -> DedupKeys]
    /\ DOMAIN CaseOf = DedupKeys /\ None \notin {CaseOf[d] : d \in DedupKeys}
    /\ None \notin DedupKeys \cup EventIds
    /\ {RetryCount, MaxTopic, MaxMishaps} \subseteq Nat

VARIABLES
    topic,      \* the messages published, in order
    committed,  \* the consumer group's offset, None before its first commit
    begin,      \* history: the offset the group's commits count from
    position,   \* the offset the running consumer reads next
    consumer,   \* what the pipeline is doing with the message at position
    attempt,    \* deliveries of this message in this run of the pipeline
    response,   \* of the request that is waited for
    abandoned,  \* offsets of requests the API still works on, their clients gone
    log,        \* the event store
    mishaps     \* bound: mishaps so far

pipeline == <<committed, begin, position, consumer, attempt>>
vars     == <<topic, pipeline, response, abandoned, log, mishaps>>


ConsumerState == {"stopped", "polling", "handling", "waiting", "failed", "done"}
Responses     == {"none", "pending", "202", "403", "409", "error"}

Current == topic[position + 1]
Call(m) == LET d == KeyOf[m.content]
           IN  DetectionCall(CaseOf[d], [content |-> m.content], d, m.event_id)

TypeOK ==
    /\ topic \in Seq(Messages)
    /\ committed \in 0 .. Len(topic) \cup {None}
    /\ begin \in 0 .. Len(topic)
    /\ position \in 0 .. Len(topic)
    /\ consumer \in ConsumerState
    /\ attempt \in 0 .. RetryCount + 1
    /\ response \in Responses
    /\ abandoned \subseteq 0 .. Len(topic) - 1
    /\ \A k \in DOMAIN log : log[k].dedup_key \in DedupKeys \cup {None}
    /\ consumer \notin {"stopped", "polling"} => position < Len(topic)
    /\ response # "none" => consumer = "waiting"

Mishap == mishaps < MaxMishaps /\ mishaps' = mishaps + 1

Init ==
    /\ topic = <<>> /\ committed = None /\ begin = 0 /\ position = 0
    /\ consumer = "stopped" /\ attempt = 0 /\ response = "none"
    /\ abandoned = {} /\ log = <<>> /\ mishaps = 0

(***************************************************************************)
(* The topic and the pipeline around the action.                           *)
(***************************************************************************)
Publish ==
    /\ Len(topic) < MaxTopic
    /\ \E m \in Messages : topic' = Append(topic, m)
    /\ UNCHANGED <<pipeline, response, abandoned, log, mishaps>>

\* Without a committed offset the group starts at the end of the topic.
Start ==
    /\ consumer = "stopped"
    /\ consumer' = "polling"
    /\ position' = IF committed = None THEN Len(topic) ELSE committed
    /\ begin' = IF committed = None THEN Len(topic) ELSE begin
    /\ UNCHANGED <<topic, committed, attempt, response, abandoned, log, mishaps>>

Poll ==
    /\ consumer = "polling" /\ position < Len(topic)
    /\ consumer' = "handling" /\ attempt' = 1
    /\ UNCHANGED <<topic, committed, begin, position, response, abandoned, log, mishaps>>

\* Mutant of Retry: the retries are not counted.
MutRetryForever ==
    /\ consumer = "failed"
    /\ consumer' = "handling" /\ attempt' = attempt + 1
    /\ UNCHANGED <<topic, committed, begin, position, response, abandoned, log, mishaps>>

Retry ==
    /\ consumer = "failed" /\ attempt <= RetryCount
    /\ consumer' = "handling" /\ attempt' = attempt + 1
    /\ UNCHANGED <<topic, committed, begin, position, response, abandoned, log, mishaps>>

\* THROW.
Throw ==
    /\ consumer = "failed" /\ attempt > RetryCount
    /\ consumer' = "stopped"
    /\ UNCHANGED <<topic, committed, begin, position, attempt, response, abandoned,
                   log, mishaps>>

Ack ==
    /\ consumer = "done"
    /\ consumer' = "polling" /\ position' = position + 1 /\ committed' = position + 1
    /\ UNCHANGED <<topic, begin, attempt, response, abandoned, log, mishaps>>

\* The request of a client that is gone stays with the API if it was pending.
LeftBehind == IF response = "pending" THEN {position} ELSE {}

\* The pipeline's process dies, or the group evicts it: the attempts on one
\* message, 240 s each, may outlast max.poll.interval.ms (300 s).
Crash ==
    /\ consumer # "stopped" /\ Mishap
    /\ consumer' = "stopped" /\ response' = "none"
    /\ abandoned' = abandoned \cup LeftBehind
    /\ UNCHANGED <<topic, committed, begin, position, attempt, log>>

\* scripts/datahub-actions.sh restore: back to offsets captured earlier.
Restore ==
    /\ consumer = "stopped" /\ Mishap
    /\ \E o \in 0 .. (IF committed = None THEN begin ELSE committed) :
         /\ committed' = o
         /\ begin' = IF o < begin THEN o ELSE begin
    /\ UNCHANGED <<topic, position, consumer, attempt, response, abandoned, log>>

(***************************************************************************)
(* DataHubSchemaMCLWatcher.handle, HTTPEventSink and act.                  *)
(***************************************************************************)
\* SKIPPED acknowledges, FAILED raises, all else is sent to the API.
Handle ==
    /\ consumer = "handling"
    /\ \/ /\ Current.kind = "no_drift"
          /\ consumer' = "done" /\ UNCHANGED response
       \/ /\ Current.kind = "malformed"
          /\ consumer' = "failed" /\ UNCHANGED response
       \/ /\ Current.kind \in {"not_allowed", "drift"}
          /\ consumer' = "waiting" /\ response' = "pending"
    /\ UNCHANGED <<topic, committed, begin, position, attempt, abandoned, log, mishaps>>

\* Mutant of Settles: a client error is not worth a retry.
MutSkipsClientErrors(r) == r \in {"202", "403", "409"}
\* Mutant of Settles: the API's header goes unread.
MutHeaderUnread(r) == r = "202"

\* ENQUEUED, or SKIPPED for the labelled 403; any other response is FAILED.
Settles(r) == r \in {"202", "403"}

Reply ==
    /\ response \notin {"none", "pending"}
    /\ consumer' = IF Settles(response) THEN "done" ELSE "failed"
    /\ response' = "none"
    /\ UNCHANGED <<topic, committed, begin, position, attempt, abandoned, log, mishaps>>

\* request_timeout_seconds: an httpx.RequestError.
Timeout ==
    /\ consumer = "waiting" /\ Mishap
    /\ consumer' = "failed" /\ response' = "none"
    /\ abandoned' = abandoned \cup LeftBehind
    /\ UNCHANGED <<topic, committed, begin, position, attempt, log>>

(***************************************************************************)
(* The API: schema_change of main.py, ingest, and append.                  *)
(***************************************************************************)
Ingest(m, r) ==
    \/ m.kind = "not_allowed" /\ r = "403" /\ UNCHANGED log
    \/ m.kind = "drift" /\ Conflict(log, Call(m)) /\ r = "409" /\ UNCHANGED log
    \/ m.kind = "drift" /\ Duplicate(log, Call(m)) /\ r = "202" /\ UNCHANGED log
    \/ /\ m.kind = "drift" /\ Accepted(log, Call(m)) /\ r = "202"
       /\ log' = Append(log, NewRow(log, Call(m)))

Respond ==
    /\ response = "pending"
    /\ \E r \in Responses : Ingest(Current, r) /\ response' = r
    /\ UNCHANGED <<topic, pipeline, abandoned, mishaps>>

\* A request nobody waits for any more is still carried out, behind the lock.
RespondLate ==
    \E k \in abandoned :
        /\ \E r \in Responses : Ingest(topic[k + 1], r)
        /\ abandoned' = abandoned \ {k}
        /\ UNCHANGED <<topic, pipeline, response, mishaps>>

\* The API dies with what it works on; a 5xx has the same answer.
ApiCrash ==
    /\ response = "pending" \/ abandoned # {}
    /\ Mishap
    /\ response' = IF response = "pending" THEN "error" ELSE response
    /\ abandoned' = {}
    /\ UNCHANGED <<topic, pipeline, log>>

DemoReset ==
    /\ Mishap
    /\ log' = Append(log, ResetRow(log))
    /\ UNCHANGED <<topic, pipeline, response, abandoned>>

Watcher == Start \/ Poll \/ Handle \/ Reply \/ Retry \/ Throw \/ Ack
Api     == Respond \/ RespondLate
Faults  == Crash \/ Restore \/ Timeout \/ ApiCrash \/ DemoReset

Next == Publish \/ Watcher \/ Api \/ Faults

\* The pipeline is started again whenever it stopped; the API answers.
Spec == Init /\ [][Next]_vars /\ WF_vars(Watcher) /\ WF_vars(Respond)

-------------------------------------------------------------------------------
(***************************************************************************)
(* Properties.                                                             *)
(***************************************************************************)

\* The drift a message announces is on record, and the record is of this drift.
Recorded(m) ==
    \E k \in DOMAIN log :
        /\ log[k].event_type = "SCHEMA_CHANGE_DETECTED"
        /\ log[k].dedup_key = KeyOf[m.content]
        /\ log[k].event_id = m.event_id => log[k].payload.content = m.content

\* A drift the group has committed is on record, through retries, timeouts whose
\* request lives on, crashes on either side, rewound offsets and resets: a
\* message is acknowledged only for a 202 or for the API's own allowlist
\* rejection (actions.py 96-119, 206-220).
CommittedIsRecorded ==
    committed # None =>
        \A k \in begin + 1 .. committed : topic[k].kind = "drift" => Recorded(topic[k])

\* What no retry can deliver: act() raises for it every time.
Poison(m) == m.kind = "malformed" \/ (m.kind = "drift" /\ Conflict(log, Call(m)))

\* Once the group has committed an offset, a drift published past it ends up on
\* record, or behind a message that no retry can deliver (THROW stops the
\* pipeline at that message and every restart meets it again).
Awaited(k) == k <= Len(topic) /\ committed # None /\ committed < k /\ topic[k].kind = "drift"
Settled(k) ==
    /\ k <= Len(topic)
    /\ \/ Recorded(topic[k])
       \/ \E j \in 1 .. k : committed # None /\ committed < j /\ Poison(topic[j])
EveryDriftArrives == \A k \in 1 .. MaxTopic : Awaited(k) ~> Settled(k)
===============================================================================
