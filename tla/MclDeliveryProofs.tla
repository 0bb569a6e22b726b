--------------------------- MODULE MclDeliveryProofs ---------------------------
(***************************************************************************)
(* What the consumer group's offset says of the event store, for any       *)
(* messages, any number of retries and any number of mishaps.              *)
(***************************************************************************)
EXTENDS MclDelivery, TLAPS

\* Every step keeps the types (actions.py, and the pipeline around it).
LEMMA TypeInit == Init => TypeOK
  <1> SUFFICES ASSUME Init PROVE TypeOK
    OBVIOUS
  <1>1. topic \in Seq(Messages) /\ Len(topic) = 0 /\ DOMAIN log = {}
    BY DEF Init
  <1>2. RetryCount \in Nat
    BY DeliveryConstants
  <1> QED
    BY <1>1, <1>2 DEF Init, TypeOK, ConsumerState, Responses

\* The key of a row: that of the drift, and none for a reset.
LEMMA RowColumns ==
  /\ \A m \in Message : NewRow(log, Call(m)).dedup_key = KeyOf[m.content]
  /\ ResetRow(log).dedup_key = None
  BY DEF NewRow, Call, DetectionCall, ResetRow

-------------------------------------------------------------------------------
(***************************************************************************)
(* The log.                                                                *)
(***************************************************************************)
IsLog(rows) == \E S : rows \in Seq(S)

\* Recorded, of a given log.
RecordedIn(rows, m) ==
    \E k \in DOMAIN rows :
        /\ rows[k].event_type = "SCHEMA_CHANGE_DETECTED"
        /\ rows[k].dedup_key = KeyOf[m.content]
        /\ rows[k].event_id = m.event_id => rows[k].payload.content = m.content

\* A row that has a key is a detection.
Keyed(rows) ==
    \A k \in DOMAIN rows :
        rows[k].dedup_key # None => rows[k].event_type = "SCHEMA_CHANGE_DETECTED"

\* One more row leaves what is on record there.
LEMMA OneMoreRow ==
  ASSUME NEW rows, IsLog(rows), NEW row
  PROVE  LET new == Append(rows, row)
         IN  /\ IsLog(new) /\ Len(rows) \in Nat
             /\ DOMAIN new = 1 .. Len(rows) + 1 /\ DOMAIN rows = 1 .. Len(rows)
             /\ new[Len(rows) + 1] = row
             /\ \A k \in DOMAIN rows : new[k] = rows[k]
  <1>1. PICK S : rows \in Seq(S)
    BY DEF IsLog
  <1> DEFINE T == S \cup {row}
             new == Append(rows, row)
  <1>2. rows \in Seq(T) /\ row \in T
    BY <1>1
  <1> HIDE DEF T
  <1>3. new \in Seq(T) /\ Len(new) = Len(rows) + 1 /\ new[Len(rows) + 1] = row
        /\ \A k \in 1 .. Len(rows) : new[k] = rows[k]
    BY <1>2
  <1>4. /\ Len(rows) \in Nat /\ DOMAIN rows = 1 .. Len(rows)
        /\ DOMAIN new = 1 .. Len(rows) + 1
    BY <1>2, <1>3
  <1>5. IsLog(new)
    BY <1>3 DEF IsLog
  <1> HIDE DEF new
  <1>6. QED BY <1>3, <1>4, <1>5 DEF new

\* What one ingest does to the log: nothing, or one well formed row.
LEMMA IngestRecords ==
  ASSUME NEW m \in Message, NEW r \in Responses, Ingest(m, r), IsLog(log), Keyed(log)
  PROVE  /\ log' = log \/ log' = Append(log, NewRow(log, Call(m)))
         /\ r \notin {"none", "pending", "error"}
         /\ r = "202" => m.kind = "drift" /\ RecordedIn(log', m)
         /\ r = "403" => m.kind = "not_allowed"
         /\ Keyed(log')
  <1> DEFINE d == KeyOf[m.content]
             row == NewRow(log, Call(m))
  <1>d. d \in DedupKeys /\ m.event_id \in EventIds
    BY DeliveryConstants DEF Message
  <1>0. /\ d # None /\ m.event_id # None /\ Call(m).event_id = m.event_id
        /\ Call(m).dedup_key = d /\ Call(m).event_type = "SCHEMA_CHANGE_DETECTED"
        /\ Call(m).payload.content = m.content
    BY <1>d, DeliveryConstants DEF Call, DetectionCall
  <1>1. CASE m.kind = "not_allowed" /\ r = "403" /\ UNCHANGED log
    BY <1>1
  <1>2. CASE m.kind = "drift" /\ Conflict(log, Call(m)) /\ r = "409" /\ UNCHANGED log
    BY <1>2
  <1>3. CASE m.kind = "drift" /\ Duplicate(log, Call(m)) /\ r = "202" /\ UNCHANGED log
    <2>1. CASE IdTaken(log, Call(m))
      <3>1. PICK k \in HoldersOfId(log, m.event_id) : TRUE
        BY <1>0, <2>1 DEF IdTaken
      <3>2. Matches(log[k], Call(m))
        BY <1>0, <1>3, <2>1, <3>1 DEF Duplicate, Conflict
      <3>3. /\ k \in DOMAIN log /\ log[k].event_type = "SCHEMA_CHANGE_DETECTED"
            /\ log[k].dedup_key = d /\ log[k].payload.content = m.content
        BY <1>0, <3>1, <3>2 DEF HoldersOfId, InScope, Matches, SamePayload
      <3>4. QED BY <1>3, <3>3 DEF RecordedIn
    <2>2. CASE ~IdTaken(log, Call(m))
      <3>1. PICK k \in HoldersOfKey(log, d) : TRUE
        BY <1>0, <1>3, <2>2 DEF Duplicate, KeyTaken
      <3>2. k \in DOMAIN log /\ log[k].dedup_key = d /\ k \in InScope(log)
        BY <3>1 DEF HoldersOfKey, InScope
      <3>3. log[k].event_id # m.event_id
        BY <1>0, <2>2, <3>2 DEF IdTaken, HoldersOfId
      <3>4. log[k].event_type = "SCHEMA_CHANGE_DETECTED"
        BY <1>0, <3>2 DEF Keyed
      <3>5. QED BY <1>3, <3>2, <3>3, <3>4 DEF RecordedIn
    <2>3. QED BY <2>1, <2>2
  <1>4. CASE /\ m.kind = "drift" /\ Accepted(log, Call(m)) /\ r = "202"
             /\ log' = Append(log, NewRow(log, Call(m)))
    <2>1. /\ row.event_type = "SCHEMA_CHANGE_DETECTED" /\ row.dedup_key = d
          /\ row.payload.content = m.content
      BY <1>0 DEF NewRow
    <2> HIDE DEF row
    <2>2. /\ Len(log) \in Nat /\ DOMAIN log' = 1 .. Len(log) + 1
          /\ DOMAIN log = 1 .. Len(log) /\ log'[Len(log) + 1] = row
          /\ \A k \in DOMAIN log : log'[k] = log[k]
      BY <1>4, OneMoreRow DEF row
    <2>3. Len(log) + 1 \in DOMAIN log'
      BY <2>2
    <2>4. RecordedIn(log', m)
      BY <2>1, <2>2, <2>3 DEF RecordedIn
    <2>5. Keyed(log')
      BY <2>1, <2>2 DEF Keyed
    <2>6. QED BY <1>4, <2>4, <2>5
  <1> QED
    BY <1>1, <1>2, <1>3, <1>4 DEF Ingest

-------------------------------------------------------------------------------
(***************************************************************************)
(* The inductive invariant: what the pipeline is about to acknowledge, and *)
(* what it has acknowledged since it last began to count, is on record.    *)
(***************************************************************************)
Kept(k) == topic[k].kind = "drift" => RecordedIn(log, topic[k])

DeliveryInv ==
    /\ TypeOK /\ IsLog(log) /\ Keyed(log)
    /\ committed # None => \A k \in begin + 1 .. committed : Kept(k)
    /\ consumer # "stopped" => \A k \in begin + 1 .. position : Kept(k)
    /\ response = "202" => Current.kind = "drift" /\ RecordedIn(log, Current)
    /\ response = "403" => Current.kind = "not_allowed"
    /\ consumer = "done" => Kept(position + 1)

\* The log after any step: the same, or with one row more.
LEMMA LogGrows ==
  ASSUME DeliveryInv, [Next]_vars
  PROVE  /\ IsLog(log') /\ Keyed(log')
         /\ \A m : RecordedIn(log, m) => RecordedIn(log', m)
         /\ \A k \in DOMAIN log' : log'[k].dedup_key \in DedupKeys \cup {None}
  <1> USE DEF DeliveryInv
  <1>1. ASSUME NEW row, log' = Append(log, row), Keyed(log'),
               row.dedup_key \in DedupKeys \cup {None}
        PROVE  /\ IsLog(log')
               /\ \A m : RecordedIn(log, m) => RecordedIn(log', m)
               /\ \A k \in DOMAIN log' : log'[k].dedup_key \in DedupKeys \cup {None}
    <2>1. /\ IsLog(log') /\ Len(log) \in Nat /\ DOMAIN log' = 1 .. Len(log) + 1
          /\ DOMAIN log = 1 .. Len(log) /\ log'[Len(log) + 1] = row
          /\ \A k \in DOMAIN log : log'[k] = log[k]
      BY <1>1, OneMoreRow
    <2>2. \A k \in DOMAIN log : k \in DOMAIN log'
      BY <2>1
    <2>3. \A m : RecordedIn(log, m) => RecordedIn(log', m)
      BY <2>1, <2>2 DEF RecordedIn
    <2>4. \A k \in DOMAIN log' : log'[k].dedup_key \in DedupKeys \cup {None}
      BY <1>1, <2>1 DEF TypeOK
    <2>5. QED BY <2>1, <2>3, <2>4
  <1>2. ASSUME NEW m \in Message, NEW r \in Responses, Ingest(m, r)
        PROVE  /\ IsLog(log') /\ Keyed(log')
               /\ \A n : RecordedIn(log, n) => RecordedIn(log', n)
               /\ \A k \in DOMAIN log' : log'[k].dedup_key \in DedupKeys \cup {None}
    <2>1. /\ log' = log \/ log' = Append(log, NewRow(log, Call(m)))
          /\ Keyed(log')
      BY <1>2, IngestRecords
    <2>2. NewRow(log, Call(m)).dedup_key \in DedupKeys
      BY RowColumns, DeliveryConstants DEF Message
    <2>3. QED BY <1>1, <2>1, <2>2 DEF TypeOK
  <1>3. CASE DemoReset
    <2>1. log' = Append(log, ResetRow(log)) /\ ResetRow(log).dedup_key = None
      BY <1>3, RowColumns DEF DemoReset
    <2>2. Keyed(log')
      BY <2>1, OneMoreRow DEF Keyed
    <2>3. QED BY <1>1, <2>1, <2>2
  <1>4. CASE Respond
    <2>1. response = "pending" /\ Current \in Message
      BY <1>4, DeliveryConstants DEF Respond, TypeOK, Current
    <2>2. QED BY <1>2, <1>4, <2>1 DEF Respond
  <1>5. CASE RespondLate
    <2>1. PICK k \in abandoned : \E r \in Responses : Ingest(topic[k + 1], r)
      BY <1>5 DEF RespondLate
    <2>2. topic[k + 1] \in Message
      BY DeliveryConstants DEF TypeOK
    <2>3. QED BY <1>2, <2>1, <2>2
  <1>6. CASE Publish \/ Watcher \/ Crash \/ Restore \/ Timeout \/ ApiCrash \/ UNCHANGED vars
    <2>1. log' = log
      BY <1>6 DEF Publish, Watcher, Start, Poll, Handle, Reply, Retry, Throw, Ack, Crash,
                  Restore, Timeout, ApiCrash, vars
    <2>2. QED BY <2>1 DEF TypeOK
  <1> QED
    BY <1>3, <1>4, <1>5, <1>6 DEF Next, Api, Faults

\* What is kept stays kept while the messages stay.
LEMMA KeptStays ==
  ASSUME DeliveryInv, [Next]_vars
  PROVE  /\ Len(topic) \in Nat /\ Len(topic)' \in Nat /\ Len(topic) <= Len(topic)'
         /\ topic' \in Seq(Messages)
         /\ \A k \in 1 .. Len(topic) : topic'[k] = topic[k] /\ (Kept(k) => Kept(k)')
  <1>1. /\ topic' \in Seq(Messages) /\ Len(topic) \in Nat /\ Len(topic)' \in Nat
        /\ Len(topic) <= Len(topic)' /\ \A k \in 1 .. Len(topic) : topic'[k] = topic[k]
    <2>1. CASE Publish
      <3>1. PICK m \in Messages : topic' = Append(topic, m)
        BY <2>1 DEF Publish
      <3>2. topic \in Seq(Messages)
        BY DEF DeliveryInv, TypeOK
      <3>3. QED BY <3>1, <3>2
    <2>2. CASE topic' = topic
      BY <2>2 DEF DeliveryInv, TypeOK
    <2>3. QED
      BY <2>1, <2>2 DEF Next, Watcher, Start, Poll, Handle, Reply, Retry, Throw, Ack, Api,
         Respond, RespondLate, Faults, Crash, Restore, Timeout, ApiCrash, DemoReset, vars
  <1>2. \A m : RecordedIn(log, m) => RecordedIn(log', m)
    BY LogGrows
  <1>3. ASSUME NEW k \in 1 .. Len(topic), Kept(k) PROVE Kept(k)'
    BY <1>1, <1>2, <1>3 DEF Kept
  <1> QED BY <1>1, <1>3

\* The types after a step.
LEMMA TypeStep ==
  ASSUME DeliveryInv, [Next]_vars
  PROVE  TypeOK'
  <1> DEFINE n == Len(topic)
  <1>0. /\ TypeOK /\ topic' \in Seq(Messages) /\ n \in Nat /\ n' \in Nat /\ n <= n'
        /\ RetryCount \in Nat
        /\ \A k \in DOMAIN log' : log'[k].dedup_key \in DedupKeys \cup {None}
    BY KeptStays, LogGrows, DeliveryConstants DEF DeliveryInv
  <1> USE DEF TypeOK, ConsumerState, Responses
  <1>1. CASE Publish
    BY <1>0, <1>1 DEF Publish, pipeline
  <1>2. CASE Start
    <2>1. n' = n /\ UNCHANGED topic /\ position' \in 0 .. n /\ begin' \in 0 .. n
      BY <1>0, <1>2 DEF Start
    <2> HIDE DEF n
    <2>2. consumer' = "polling" /\ response = "none"
      BY <1>0, <1>2 DEF Start
    <2>3. QED BY <1>0, <1>2, <2>1, <2>2 DEF Start, n
  <1>3. CASE Poll
    <2>1. 1 \in 0 .. RetryCount + 1
      BY <1>0
    <2>2. QED BY <1>0, <1>3, <2>1 DEF Poll
  <1>4. CASE Retry \/ Throw
    <2>1. attempt <= RetryCount => attempt + 1 \in 0 .. RetryCount + 1
      BY <1>0
    <2>2. QED BY <1>0, <1>4, <2>1 DEF Retry, Throw
  <1>5. CASE Ack
    <2>1. n' = n /\ position \in 0 .. n - 1 /\ UNCHANGED topic
      BY <1>0, <1>5 DEF Ack
    <2>2. position' \in 0 .. n' /\ committed' \in 0 .. n'
      BY <1>0, <1>5, <2>1 DEF Ack
    <2> HIDE DEF n
    <2>3. QED BY <1>0, <1>5, <2>1, <2>2 DEF Ack, n
  <1>6. CASE Handle \/ Reply
    BY <1>0, <1>6 DEF Handle, Reply
  <1>7. CASE Crash \/ Timeout
    <2>1. response = "pending" => position \in 0 .. n - 1
      BY <1>0
    <2>2. LeftBehind \subseteq 0 .. n - 1
      BY <2>1 DEF LeftBehind
    <2>3. abandoned' \subseteq 0 .. n' - 1
      BY <1>0, <1>7, <2>2 DEF Crash, Timeout
    <2>4. QED BY <1>0, <1>7, <2>3 DEF Crash, Timeout
  <1>8. CASE Restore
    BY <1>0, <1>8 DEF Restore
  <1>9. CASE Respond \/ ApiCrash
    BY <1>0, <1>9 DEF Respond, ApiCrash, pipeline
  <1>10. CASE RespondLate \/ DemoReset \/ UNCHANGED vars
    BY <1>0, <1>10 DEF RespondLate, DemoReset, pipeline, vars
  <1> QED
    BY <1>1, <1>2, <1>3, <1>4, <1>5, <1>6, <1>7, <1>8, <1>9, <1>10
       DEF Next, Watcher, Api, Faults

\* What the group has committed or is about to is on record after the step too.
LEMMA OffsetsStep ==
  ASSUME DeliveryInv, [Next]_vars
  PROVE  /\ committed' # None => \A k \in (begin + 1 .. committed)' : Kept(k)'
         /\ consumer' # "stopped" => \A k \in (begin + 1 .. position)' : Kept(k)'
  <1>0. /\ Len(topic) \in Nat /\ \A k \in 1 .. Len(topic) : Kept(k) => Kept(k)'
        /\ begin \in 0 .. Len(topic) /\ position \in 0 .. Len(topic)
        /\ committed # None => committed \in 0 .. Len(topic)
    BY KeptStays DEF DeliveryInv, TypeOK
  <1>1. ASSUME UNCHANGED <<committed, begin, position>>,
               consumer' # "stopped" => consumer # "stopped"
        PROVE  /\ committed' # None => \A k \in (begin + 1 .. committed)' : Kept(k)'
               /\ consumer' # "stopped" => \A k \in (begin + 1 .. position)' : Kept(k)'
    BY <1>0, <1>1 DEF DeliveryInv
  <1>2. CASE Start
    <2>1. CASE committed = None
      BY <1>0, <1>2, <2>1 DEF Start
    <2>2. CASE committed # None
      BY <1>0, <1>2, <2>2 DEF Start, DeliveryInv
    <2>3. QED BY <2>1, <2>2
  <1>3. CASE Ack
    <2>1. position < Len(topic) /\ Kept(position + 1)
          /\ \A k \in begin + 1 .. position : Kept(k)
      BY <1>3 DEF Ack, DeliveryInv, TypeOK
    <2>2. \A k \in begin + 1 .. position + 1 : Kept(k)
      BY <1>0, <2>1
    <2>3. \A k \in begin + 1 .. position + 1 : Kept(k)'
      BY <1>0, <2>1, <2>2
    <2>4. QED BY <1>3, <2>3 DEF Ack
  <1>4. CASE Restore
    <2>1. PICK o \in 0 .. (IF committed = None THEN begin ELSE committed) :
              committed' = o /\ begin' = IF o < begin THEN o ELSE begin
      BY <1>4 DEF Restore
    <2>2. consumer' = "stopped"
      BY <1>4 DEF Restore
    <2>3. ASSUME NEW k \in (begin + 1 .. committed)' PROVE Kept(k)'
      <3>1. committed # None /\ k \in begin + 1 .. committed
        BY <1>0, <2>1
      <3>2. Kept(k) /\ k \in 1 .. Len(topic)
        BY <1>0, <3>1 DEF DeliveryInv
      <3>3. QED BY <1>0, <3>2
    <2>4. QED BY <2>2, <2>3
  <1>5. CASE \/ Publish \/ Poll \/ Handle \/ Reply \/ Retry \/ Throw \/ Crash \/ Timeout
             \/ Respond \/ RespondLate \/ ApiCrash \/ DemoReset \/ UNCHANGED vars
    <2>1. UNCHANGED <<committed, begin, position>>
          /\ (consumer' # "stopped" => consumer # "stopped")
      BY <1>5 DEF Publish, Poll, Handle, Reply, Retry, Throw, Crash, Timeout, Respond,
                  RespondLate, ApiCrash, DemoReset, vars, pipeline, DeliveryInv, TypeOK
    <2>2. QED BY <1>1, <2>1
  <1> QED
    BY <1>2, <1>3, <1>4, <1>5 DEF Next, Watcher, Api, Faults

\* The answer in flight, and the acknowledgement due, speak of the message read.
LEMMA AnswersStep ==
  ASSUME DeliveryInv, [Next]_vars
  PROVE  /\ response' = "202" => Current'.kind = "drift" /\ RecordedIn(log, Current)'
         /\ response' = "403" => Current'.kind = "not_allowed"
         /\ consumer' = "done" => Kept(position + 1)'
  <1>0. /\ \A k \in 1 .. Len(topic) : topic'[k] = topic[k] /\ (Kept(k) => Kept(k)')
        /\ \A m : RecordedIn(log, m) => RecordedIn(log', m)
        /\ Len(topic) \in Nat /\ position \in 0 .. Len(topic)
    BY KeptStays, LogGrows DEF DeliveryInv, TypeOK
  <1>1. consumer \notin {"stopped", "polling"} =>
            position + 1 \in 1 .. Len(topic) /\ Current \in Message
    BY <1>0, DeliveryConstants DEF DeliveryInv, TypeOK, Current
  <1>2. response # "none" => consumer = "waiting"
    BY DEF DeliveryInv, TypeOK
  <1>3. ASSUME UNCHANGED <<position, response, consumer>>
        PROVE  /\ response' = "202" => Current'.kind = "drift" /\ RecordedIn(log, Current)'
               /\ response' = "403" => Current'.kind = "not_allowed"
               /\ consumer' = "done" => Kept(position + 1)'
    <2>1. consumer \notin {"stopped", "polling"} =>
              /\ Current' = Current /\ (Kept(position + 1) => Kept(position + 1)')
              /\ (RecordedIn(log, Current) => RecordedIn(log, Current)')
      BY <1>0, <1>1, <1>3 DEF Current, Kept
    <2>2. QED BY <1>2, <1>3, <2>1 DEF DeliveryInv
  <1>4. CASE Respond
    <2>1. /\ response = "pending" /\ UNCHANGED <<topic, position, consumer>>
          /\ Current \in Message /\ Current' = Current /\ consumer = "waiting"
      BY <1>1, <1>2, <1>4 DEF Respond, pipeline, Current
    <2>2. PICK r \in Responses : Ingest(Current, r) /\ response' = r
      BY <1>4 DEF Respond
    <2>3. /\ r = "202" => Current.kind = "drift" /\ RecordedIn(log', Current)
          /\ r = "403" => Current.kind = "not_allowed"
      BY <2>1, <2>2, IngestRecords DEF DeliveryInv
    <2>4. QED BY <2>1, <2>2, <2>3
  <1>5. CASE Reply
    <2>1. /\ response' = "none" /\ UNCHANGED <<topic, position, log>>
          /\ consumer' = "done" => response \in {"202", "403"}
      BY <1>5 DEF Reply, Settles
    <2>2. response \in {"202", "403"} => Kept(position + 1)
      BY DEF DeliveryInv, Kept, Current
    <2>3. Kept(position + 1)' <=> Kept(position + 1)
      BY <2>1 DEF Kept
    <2>4. QED BY <2>1, <2>2, <2>3
  <1>6. CASE Handle
    <2>1. /\ UNCHANGED <<topic, position, log>> /\ response' \in {"pending", response}
          /\ consumer' = "done" => Current.kind = "no_drift"
          /\ consumer = "handling"
      BY <1>6 DEF Handle
    <2>2. consumer' = "done" => Kept(position + 1)'
      BY <2>1 DEF Kept, Current
    <2>3. response = "none"
      BY <1>2, <2>1
    <2>4. QED BY <2>1, <2>2, <2>3
  <1>7. CASE Start \/ Poll \/ Retry \/ Throw \/ Ack \/ Crash \/ Restore \/ Timeout
    <2>1. consumer' # "done" /\ response' = "none"
      BY <1>2, <1>7 DEF Start, Poll, Retry, Throw, Ack, Crash, Restore, Timeout
    <2>2. QED BY <2>1
  <1>8. CASE ApiCrash
    <2>1. CASE response = "pending"
      <3>1. response' = "error" /\ consumer' = "waiting"
        BY <1>2, <1>8, <2>1 DEF ApiCrash, pipeline
      <3>2. QED BY <3>1
    <2>2. CASE response # "pending"
      BY <1>3, <1>8, <2>2 DEF ApiCrash, pipeline
    <2>3. QED BY <2>1, <2>2
  <1>9. CASE Publish \/ RespondLate \/ DemoReset \/ UNCHANGED vars
    BY <1>3, <1>9 DEF Publish, RespondLate, DemoReset, vars, pipeline
  <1> QED
    BY <1>4, <1>5, <1>6, <1>7, <1>8, <1>9 DEF Next, Watcher, Api, Faults

\* The invariant is preserved by every step.
LEMMA DeliveryInvInductive == DeliveryInv /\ [Next]_vars => DeliveryInv'
  <1> SUFFICES ASSUME DeliveryInv, [Next]_vars PROVE DeliveryInv'
    OBVIOUS
  <1>1. TypeOK' /\ IsLog(log)' /\ Keyed(log)'
    BY TypeStep, LogGrows
  <1> QED
    BY <1>1, OffsetsStep, AnswersStep DEF DeliveryInv

\* An empty topic and an empty log satisfy it.
LEMMA DeliveryInvInit == Init => DeliveryInv
  <1> SUFFICES ASSUME Init PROVE DeliveryInv
    OBVIOUS
  <1>1. IsLog(log) /\ DOMAIN log = {}
    <2>1. log \in Seq({}) /\ DOMAIN log = {}
      BY DEF Init
    <2>2. QED BY <2>1 DEF IsLog
  <1> QED
    BY <1>1, TypeInit DEF Init, DeliveryInv, Keyed

\* It holds in every reachable state.
LEMMA DeliveryInvariant == Spec => []DeliveryInv
  BY DeliveryInvInit, DeliveryInvInductive, PTL DEF Spec

\* The pipeline's and the requests' state stays well formed.
THEOREM DeliveryTypeCorrect == Spec => []TypeOK
  <1>1. DeliveryInv => TypeOK
    BY DEF DeliveryInv
  <1> QED
    BY <1>1, DeliveryInvariant, PTL

\* Whatever the group has committed since it began to count is on record
\* (actions.py 96-119, 206-220), for any messages, retries and mishaps.
THEOREM NoCommittedDriftIsLost == Spec => []CommittedIsRecorded
  <1>1. DeliveryInv => CommittedIsRecorded
    BY DEF DeliveryInv, CommittedIsRecorded, Kept, Recorded, RecordedIn
  <1> QED
    BY <1>1, DeliveryInvariant, PTL
===============================================================================
