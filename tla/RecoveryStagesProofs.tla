------------------------ MODULE RecoveryStagesProofs ------------------------
(***************************************************************************)
(* What the stages of an ingest, an advance and a verification guarantee   *)
(* about the log, the remote systems and the sender, for every value of    *)
(* the constants.                                                          *)
(***************************************************************************)
EXTENDS RecoveryWorkflowProofs

-------------------------------------------------------------------------------
(***************************************************************************)
(* What a step does to the record of its thread, field by field.           *)
(***************************************************************************)

\* The request stays the same.
Keeps(t) ==
    /\ Others(t) /\ IsThread(thread'[t])
    /\ thread'[t].op = thread[t].op /\ thread'[t].case_id = thread[t].case_id
    /\ thread'[t].event = thread[t].event

\* It goes on at pc, or at the append of calls and then at next.
Goes(t, pc) ==
    /\ Keeps(t) /\ thread'[t].pc = pc
    /\ thread'[t].incident = thread[t].incident
    /\ thread'[t].pending = thread[t].pending
Puts(t, calls, next) ==
    /\ Keeps(t) /\ thread'[t].pc = "append"
    /\ thread'[t].pending = calls /\ thread'[t].next = next

\* What it has found out about the proposals.
Remembers(t) ==
    thread'[t].proposals = thread[t].proposals /\ thread'[t].assessed = thread[t].assessed

\* A step that sets the record of one thread.
LEMMA Set ==
    ASSUME ThreadsOK, NEW t \in Threads, NEW r, thread' = [thread EXCEPT ![t] = r]
    PROVE  thread'[t] = r /\ Others(t)
  BY DEF ThreadsOK, Others

\* Goto.
LEMMA GotoGoes ==
    ASSUME ThreadsOK, NEW t \in Threads, NEW pc, Goto(t, pc)
    PROVE  Goes(t, pc) /\ Remembers(t) /\ thread'[t].attempt = thread[t].attempt
<1> DEFINE r == [thread[t] EXCEPT !.pc = pc]
<1>1. thread' = [thread EXCEPT ![t] = r]
  BY DEF Goto
<1>2. IsThread(thread[t]) /\ r = [thread[t] EXCEPT !.pc = pc]
  BY DEF ThreadsOK, ThreadOK
<1> HIDE DEF r
<1>3. /\ r.pc = pc /\ r.op = thread[t].op /\ r.event = thread[t].event
      /\ r.case_id = thread[t].case_id /\ r.incident = thread[t].incident
      /\ r.assessed = thread[t].assessed /\ r.proposals = thread[t].proposals
      /\ r.pending = thread[t].pending /\ r.next = thread[t].next
      /\ r.attempt = thread[t].attempt
  BY <1>2 DEF IsThread
<1>4. IsThread(r)
  BY <1>2, <1>3 DEF IsThread
<1>5. thread'[t] = r /\ Others(t)
  BY <1>1, Set
<1> QED
  BY <1>3, <1>4, <1>5 DEF Goes, Keeps, Remembers

\* Queue.
LEMMA QueuePuts ==
    ASSUME ThreadsOK, NEW t \in Threads, NEW calls, NEW next, Queue(t, calls, next)
    PROVE  Puts(t, calls, next) /\ Remembers(t) /\ thread'[t].incident = thread[t].incident
<1> DEFINE q == Queued(t, calls, next)
<1>1. thread' = [thread EXCEPT ![t] = q]
  BY DEF Queue
<1>2. /\ IsThread(q) /\ q.pc = "append" /\ q.pending = calls /\ q.next = next
      /\ q.op = thread[t].op /\ q.case_id = thread[t].case_id
      /\ q.incident = thread[t].incident /\ q.proposals = thread[t].proposals
      /\ q.assessed = thread[t].assessed /\ q.event = thread[t].event
  BY QueuedFields
<1> HIDE DEF q
<1>3. thread'[t] = q /\ Others(t)
  BY <1>1, Set
<1> QED
  BY <1>2, <1>3 DEF Puts, Keeps, Remembers

\* The two ways on from the candidates, which the thread remembers.
Finds(t, found) ==
    thread' = [thread EXCEPT ![t].pc = "validate", ![t].proposals = found]

\* The fields it sets in the record of the request, and those it leaves alone.
LEMMA CandidatesGoes ==
    ASSUME ThreadsOK, NEW t \in Threads, NEW found, Finds(t, found)
    PROVE  /\ Goes(t, "validate") /\ thread'[t].proposals = found
           /\ thread'[t].assessed = thread[t].assessed
<1> DEFINE r == [thread[t] EXCEPT !.pc = "validate", !.proposals = found]
<1>1. thread' = [thread EXCEPT ![t] = r]
  BY DEF Finds
<1>2. IsThread(thread[t]) /\ r = [thread[t] EXCEPT !.pc = "validate", !.proposals = found]
  BY DEF ThreadsOK, ThreadOK
<1> HIDE DEF r
<1>3. /\ r.pc = "validate" /\ r.op = thread[t].op /\ r.event = thread[t].event
      /\ r.case_id = thread[t].case_id /\ r.incident = thread[t].incident
      /\ r.assessed = thread[t].assessed /\ r.proposals = found
      /\ r.pending = thread[t].pending /\ r.next = thread[t].next
      /\ r.attempt = thread[t].attempt
  BY <1>2 DEF IsThread
<1>4. IsThread(r)
  BY <1>2, <1>3 DEF IsThread
<1>5. thread'[t] = r /\ Others(t)
  BY <1>1, Set
<1> QED
  BY <1>3, <1>4, <1>5 DEF Goes, Keeps

\* The events it queues with them.
Proposes(t, calls, next, found) ==
    thread' = [thread EXCEPT ![t] = [Queued(t, calls, next) EXCEPT !.proposals = found]]

\* The fields it sets in the record of the request, and those it leaves alone.
LEMMA CandidatesPuts ==
    ASSUME ThreadsOK, NEW t \in Threads, NEW calls, NEW next, NEW found, Proposes(t, calls, next, found)
    PROVE  /\ Puts(t, calls, next) /\ thread'[t].proposals = found
           /\ thread'[t].assessed = thread[t].assessed
           /\ thread'[t].incident = thread[t].incident
<1> DEFINE q == Queued(t, calls, next)
           r == [q EXCEPT !.proposals = found]
<1>1. thread' = [thread EXCEPT ![t] = r]
  BY DEF Proposes
<1>2. /\ IsThread(q) /\ q.pc = "append" /\ q.pending = calls /\ q.next = next
      /\ q.op = thread[t].op /\ q.case_id = thread[t].case_id
      /\ q.incident = thread[t].incident /\ q.proposals = thread[t].proposals
      /\ q.assessed = thread[t].assessed /\ q.event = thread[t].event
  BY QueuedFields
<1> HIDE DEF q
<1>3. r = [q EXCEPT !.proposals = found]
  OBVIOUS
<1> HIDE DEF r
<1>4. /\ r.pc = q.pc /\ r.op = q.op /\ r.event = q.event /\ r.case_id = q.case_id
      /\ r.incident = q.incident /\ r.assessed = q.assessed /\ r.proposals = found
      /\ r.pending = q.pending /\ r.next = q.next /\ r.attempt = q.attempt
  BY <1>2, <1>3 DEF IsThread
<1>5. IsThread(r)
  BY <1>2, <1>3, <1>4 DEF IsThread
<1>6. thread'[t] = r /\ Others(t)
  BY <1>1, Set
<1> QED
  BY <1>2, <1>4, <1>5, <1>6 DEF Puts, Keeps

\* What was assessed before is loaded.
Loads(t, known) ==
    thread' = [thread EXCEPT ![t].pc = "assess", ![t].assessed = known]

\* The fields it sets in the record of the request, and those it leaves alone.
LEMMA LoadGoes ==
    ASSUME ThreadsOK, NEW t \in Threads, NEW known, Loads(t, known)
    PROVE  /\ Goes(t, "assess") /\ thread'[t].assessed = known
           /\ thread'[t].proposals = thread[t].proposals
<1> DEFINE r == [thread[t] EXCEPT !.pc = "assess", !.assessed = known]
<1>1. thread' = [thread EXCEPT ![t] = r]
  BY DEF Loads
<1>2. IsThread(thread[t]) /\ r = [thread[t] EXCEPT !.pc = "assess", !.assessed = known]
  BY DEF ThreadsOK, ThreadOK
<1> HIDE DEF r
<1>3. /\ r.pc = "assess" /\ r.op = thread[t].op /\ r.event = thread[t].event
      /\ r.case_id = thread[t].case_id /\ r.incident = thread[t].incident
      /\ r.assessed = known /\ r.proposals = thread[t].proposals
      /\ r.pending = thread[t].pending /\ r.next = thread[t].next
      /\ r.attempt = thread[t].attempt
  BY <1>2 DEF IsThread
<1>4. IsThread(r)
  BY <1>2, <1>3 DEF IsThread
<1>5. thread'[t] = r /\ Others(t)
  BY <1>1, Set
<1> QED
  BY <1>3, <1>4, <1>5 DEF Goes, Keeps

\* An assessment is remembered and queued.
Assesses(t, calls, next, p, outcome) ==
    thread' = [thread EXCEPT ![t] = [Queued(t, calls, next) EXCEPT !.assessed[p] = outcome]]

\* The fields it sets in the record of the request, and those it leaves alone.
LEMMA AssessPuts ==
    ASSUME ThreadsOK, NEW t \in Threads, NEW calls, NEW next, NEW p, NEW outcome, Assesses(t, calls, next, p, outcome)
    PROVE  /\ Puts(t, calls, next)
           /\ thread'[t].assessed = [thread[t].assessed EXCEPT ![p] = outcome]
           /\ thread'[t].proposals = thread[t].proposals
           /\ thread'[t].incident = thread[t].incident
<1> DEFINE q == Queued(t, calls, next)
           known == [q.assessed EXCEPT ![p] = outcome]
           r == [q EXCEPT !.assessed[p] = outcome]
<1>1. thread' = [thread EXCEPT ![t] = r]
  BY DEF Assesses
<1>2. /\ IsThread(q) /\ q.pc = "append" /\ q.pending = calls /\ q.next = next
      /\ q.op = thread[t].op /\ q.case_id = thread[t].case_id
      /\ q.incident = thread[t].incident /\ q.proposals = thread[t].proposals
      /\ q.assessed = thread[t].assessed /\ q.event = thread[t].event
  BY QueuedFields
<1>3. r = [q EXCEPT !.assessed = known] /\ known = [q.assessed EXCEPT ![p] = outcome]
  OBVIOUS
<1> HIDE DEF q, known, r
<1>4. /\ r.pc = q.pc /\ r.op = q.op /\ r.event = q.event /\ r.case_id = q.case_id
      /\ r.incident = q.incident /\ r.assessed = known /\ r.proposals = q.proposals
      /\ r.pending = q.pending /\ r.next = q.next /\ r.attempt = q.attempt
  BY <1>2, <1>3 DEF IsThread
<1>5. IsThread(r)
  BY <1>2, <1>3, <1>4 DEF IsThread
<1>6. thread'[t] = r /\ Others(t)
  BY <1>1, Set
<1>7. known = [thread[t].assessed EXCEPT ![p] = outcome]
  BY <1>2, <1>3
<1> QED
  BY <1>2, <1>4, <1>5, <1>6, <1>7 DEF Puts, Keeps

\* A verification queues its events and remembers the incident.
Takes(t, calls, next, incident) ==
    thread' = [thread EXCEPT ![t] = [Queued(t, calls, next) EXCEPT !.incident = incident]]

\* The fields it sets in the record of the request, and those it leaves alone.
LEMMA VerifyPuts ==
    ASSUME ThreadsOK, NEW t \in Threads, NEW calls, NEW next, NEW incident, Takes(t, calls, next, incident)
    PROVE  Puts(t, calls, next) /\ thread'[t].incident = incident
<1> DEFINE q == Queued(t, calls, next)
           r == [q EXCEPT !.incident = incident]
<1>1. thread' = [thread EXCEPT ![t] = r]
  BY DEF Takes
<1>2. /\ IsThread(q) /\ q.pc = "append" /\ q.pending = calls /\ q.next = next
      /\ q.op = thread[t].op /\ q.case_id = thread[t].case_id
      /\ q.incident = thread[t].incident /\ q.proposals = thread[t].proposals
      /\ q.assessed = thread[t].assessed /\ q.event = thread[t].event
  BY QueuedFields
<1> HIDE DEF q
<1>3. r = [q EXCEPT !.incident = incident]
  OBVIOUS
<1> HIDE DEF r
<1>4. /\ r.pc = q.pc /\ r.op = q.op /\ r.event = q.event /\ r.case_id = q.case_id
      /\ r.incident = incident /\ r.assessed = q.assessed /\ r.proposals = q.proposals
      /\ r.pending = q.pending /\ r.next = q.next /\ r.attempt = q.attempt
  BY <1>2, <1>3 DEF IsThread
<1>5. IsThread(r)
  BY <1>2, <1>3, <1>4 DEF IsThread
<1>6. thread'[t] = r /\ Others(t)
  BY <1>1, Set
<1> QED
  BY <1>2, <1>4, <1>5, <1>6 DEF Puts, Keeps

\* A place and a case: Lookup, Recheck, Allocate.
Visits(t, pc, c) ==
    thread' = [thread EXCEPT ![t].pc = pc, ![t].case_id = c]

\* The fields it sets in the record of the request, and those it leaves alone.
LEMMA CaseGoes ==
    ASSUME ThreadsOK, NEW t \in Threads, NEW pc, NEW c, Visits(t, pc, c)
    PROVE  /\ Others(t) /\ thread'[t].pc = pc /\ thread'[t].case_id = c
           /\ thread'[t].op = thread[t].op /\ thread'[t].event = thread[t].event
           /\ thread'[t].pending = thread[t].pending
<1> DEFINE r == [thread[t] EXCEPT !.pc = pc, !.case_id = c]
<1>1. thread' = [thread EXCEPT ![t] = r]
  BY DEF Visits
<1>2. IsThread(thread[t]) /\ r = [thread[t] EXCEPT !.pc = pc, !.case_id = c]
  BY DEF ThreadsOK, ThreadOK
<1> HIDE DEF r
<1>3. /\ r.pc = pc /\ r.op = thread[t].op
      /\ r.event = thread[t].event /\ r.case_id = c
      /\ r.attempt = thread[t].attempt /\ r.incident = thread[t].incident
      /\ r.proposals = thread[t].proposals /\ r.assessed = thread[t].assessed
      /\ r.pending = thread[t].pending /\ r.next = thread[t].next
  BY <1>2 DEF IsThread
<1>4. IsThread(r)
  BY <1>2, <1>3 DEF IsThread
<1>5. thread'[t] = r /\ Others(t)
  BY <1>1, Set
<1> QED
  BY <1>3, <1>4, <1>5 DEF Keeps, Remembers

\* Another attempt to find a free id.
Retries(t, n) ==
    thread' = [thread EXCEPT ![t].pc = "allocate", ![t].attempt = n]

\* The fields it sets in the record of the request, and those it leaves alone.
LEMMA RetryGoes ==
    ASSUME ThreadsOK, NEW t \in Threads, NEW n, Retries(t, n)
    PROVE  Keeps(t) /\ thread'[t].pc = "allocate" /\ thread'[t].pending = thread[t].pending
<1> DEFINE r == [thread[t] EXCEPT !.pc = "allocate", !.attempt = n]
<1>1. thread' = [thread EXCEPT ![t] = r]
  BY DEF Retries
<1>2. IsThread(thread[t]) /\ r = [thread[t] EXCEPT !.pc = "allocate", !.attempt = n]
  BY DEF ThreadsOK, ThreadOK
<1> HIDE DEF r
<1>3. /\ r.pc = "allocate" /\ r.op = thread[t].op
      /\ r.event = thread[t].event /\ r.case_id = thread[t].case_id
      /\ r.attempt = n /\ r.incident = thread[t].incident
      /\ r.proposals = thread[t].proposals /\ r.assessed = thread[t].assessed
      /\ r.pending = thread[t].pending /\ r.next = thread[t].next
  BY <1>2 DEF IsThread
<1>4. IsThread(r)
  BY <1>2, <1>3 DEF IsThread
<1>5. thread'[t] = r /\ Others(t)
  BY <1>1, Set
<1> QED
  BY <1>3, <1>4, <1>5 DEF Keeps, Remembers

\* The advance begins.
LEMMA BeginGoes ==
    ASSUME ThreadsOK, NEW t \in Threads,
           thread' = [thread EXCEPT ![t].pc = "incident", ![t].op = "advance"]
    PROVE  /\ Others(t) /\ thread'[t].pc = "incident" /\ thread'[t].op = "advance"
           /\ thread'[t].event = thread[t].event /\ thread'[t].case_id = thread[t].case_id
           /\ thread'[t].pending = thread[t].pending
<1> DEFINE r == [thread[t] EXCEPT !.pc = "incident", !.op = "advance"]
<1>1. thread' = [thread EXCEPT ![t] = r]
  OBVIOUS
<1>2. IsThread(thread[t]) /\ r = [thread[t] EXCEPT !.pc = "incident", !.op = "advance"]
  BY DEF ThreadsOK, ThreadOK
<1> HIDE DEF r
<1>3. /\ r.pc = "incident" /\ r.op = "advance"
      /\ r.event = thread[t].event /\ r.case_id = thread[t].case_id
      /\ r.attempt = thread[t].attempt /\ r.incident = thread[t].incident
      /\ r.proposals = thread[t].proposals /\ r.assessed = thread[t].assessed
      /\ r.pending = thread[t].pending /\ r.next = thread[t].next
  BY <1>2 DEF IsThread
<1>4. IsThread(r)
  BY <1>2, <1>3 DEF IsThread
<1>5. thread'[t] = r /\ Others(t)
  BY <1>1, Set
<1> QED
  BY <1>3, <1>4, <1>5 DEF Keeps, Remembers

\* An exception is caught.
LEMMA HandlerGoes ==
    ASSUME ThreadsOK, NEW t \in Threads,
           thread' = [thread EXCEPT ![t].pc = "handler", ![t].op = "handler", ![t].pending = <<>>]
    PROVE  /\ Others(t) /\ thread'[t].pc = "handler" /\ thread'[t].op = "handler"
           /\ thread'[t].event = thread[t].event /\ thread'[t].case_id = thread[t].case_id
           /\ thread'[t].pending = <<>>
<1> DEFINE r == [thread[t] EXCEPT !.pc = "handler", !.op = "handler", !.pending = <<>>]
<1>1. thread' = [thread EXCEPT ![t] = r]
  OBVIOUS
<1>2. IsThread(thread[t]) /\ r = [thread[t] EXCEPT !.pc = "handler", !.op = "handler", !.pending = <<>>]
  BY DEF ThreadsOK, ThreadOK
<1> HIDE DEF r
<1>3. /\ r.pc = "handler" /\ r.op = "handler"
      /\ r.event = thread[t].event /\ r.case_id = thread[t].case_id
      /\ r.attempt = thread[t].attempt /\ r.incident = thread[t].incident
      /\ r.proposals = thread[t].proposals /\ r.assessed = thread[t].assessed
      /\ r.pending = <<>> /\ r.next = thread[t].next
  BY <1>2 DEF IsThread
<1>4. IsThread(r)
  BY <1>2, <1>3 DEF IsThread
<1>5. thread'[t] = r /\ Others(t)
  BY <1>1, Set
<1> QED
  BY <1>3, <1>4, <1>5 DEF Keeps, Remembers

\* A schema change arrives.
Receives(t, e) ==
    thread' = [thread EXCEPT ![t].pc = "lookup", ![t].op = "ingest", ![t].event = e]

\* The fields it sets in the record of the request, and those it leaves alone.
LEMMA DeliverGoes ==
    ASSUME ThreadsOK, NEW t \in Threads, NEW e, Receives(t, e)
    PROVE  /\ Others(t) /\ thread'[t].pc = "lookup" /\ thread'[t].op = "ingest"
           /\ thread'[t].event = e
<1> DEFINE r == [thread[t] EXCEPT !.pc = "lookup", !.op = "ingest", !.event = e]
<1>1. thread' = [thread EXCEPT ![t] = r]
  BY DEF Receives
<1>2. IsThread(thread[t]) /\ r = [thread[t] EXCEPT !.pc = "lookup", !.op = "ingest", !.event = e]
  BY DEF ThreadsOK, ThreadOK
<1> HIDE DEF r
<1>3. /\ r.pc = "lookup" /\ r.op = "ingest"
      /\ r.event = e /\ r.case_id = thread[t].case_id
      /\ r.attempt = thread[t].attempt /\ r.incident = thread[t].incident
      /\ r.proposals = thread[t].proposals /\ r.assessed = thread[t].assessed
      /\ r.pending = thread[t].pending /\ r.next = thread[t].next
  BY <1>2 DEF IsThread
<1>4. IsThread(r)
  BY <1>2, <1>3 DEF IsThread
<1>5. thread'[t] = r /\ Others(t)
  BY <1>1, Set
<1> QED
  BY <1>3, <1>4, <1>5 DEF Keeps, Remembers

\* A verification is asked for.
Queries(t, c) ==
    thread' = [thread EXCEPT ![t].pc = "lock", ![t].op = "verify", ![t].case_id = c]

\* The fields it sets in the record of the request, and those it leaves alone.
LEMMA StartGoes ==
    ASSUME ThreadsOK, NEW t \in Threads, NEW c, Queries(t, c)
    PROVE  /\ Others(t) /\ thread'[t].pc = "lock" /\ thread'[t].op = "verify"
           /\ thread'[t].event = thread[t].event /\ thread'[t].case_id = c
<1> DEFINE r == [thread[t] EXCEPT !.pc = "lock", !.op = "verify", !.case_id = c]
<1>1. thread' = [thread EXCEPT ![t] = r]
  BY DEF Queries
<1>2. IsThread(thread[t]) /\ r = [thread[t] EXCEPT !.pc = "lock", !.op = "verify", !.case_id = c]
  BY DEF ThreadsOK, ThreadOK
<1> HIDE DEF r
<1>3. /\ r.pc = "lock" /\ r.op = "verify"
      /\ r.event = thread[t].event /\ r.case_id = c
      /\ r.attempt = thread[t].attempt /\ r.incident = thread[t].incident
      /\ r.proposals = thread[t].proposals /\ r.assessed = thread[t].assessed
      /\ r.pending = thread[t].pending /\ r.next = thread[t].next
  BY <1>2 DEF IsThread
<1>4. IsThread(r)
  BY <1>2, <1>3 DEF IsThread
<1>5. thread'[t] = r /\ Others(t)
  BY <1>1, Set
<1> QED
  BY <1>3, <1>4, <1>5 DEF Keeps, Remembers

\* An append leaves the rest of the events, and the place, as given.
Advances(t, rest, pc) ==
    thread' = [thread EXCEPT ![t].pending = rest, ![t].pc = pc]

\* The fields it sets in the record of the request, and those it leaves alone.
LEMMA AppendGoes ==
    ASSUME ThreadsOK, NEW t \in Threads, NEW rest, NEW pc, Advances(t, rest, pc)
    PROVE  /\ Keeps(t) /\ Remembers(t) /\ thread'[t].pc = pc /\ thread'[t].pending = rest
           /\ thread'[t].next = thread[t].next /\ thread'[t].incident = thread[t].incident
<1> DEFINE r == [thread[t] EXCEPT !.pending = rest, !.pc = pc]
<1>1. thread' = [thread EXCEPT ![t] = r]
  BY DEF Advances
<1>2. IsThread(thread[t]) /\ r = [thread[t] EXCEPT !.pending = rest, !.pc = pc]
  BY DEF ThreadsOK, ThreadOK
<1> HIDE DEF r
<1>3. /\ r.pc = pc /\ r.op = thread[t].op
      /\ r.event = thread[t].event /\ r.case_id = thread[t].case_id
      /\ r.attempt = thread[t].attempt /\ r.incident = thread[t].incident
      /\ r.proposals = thread[t].proposals /\ r.assessed = thread[t].assessed
      /\ r.pending = rest /\ r.next = thread[t].next
  BY <1>2 DEF IsThread
<1>4. IsThread(r)
  BY <1>2, <1>3 DEF IsThread
<1>5. thread'[t] = r /\ Others(t)
  BY <1>1, Set
<1> QED
  BY <1>3, <1>4, <1>5 DEF Keeps, Remembers

\* An answer empties the record.
LEMMA RespondClears ==
    ASSUME ThreadsOK, NEW t \in Threads, NEW ok, Respond(t, ok)
    PROVE  /\ Others(t) /\ thread'[t] = IdleThread
           /\ unacked' = IF ok THEN unacked \ {thread[t].event} ELSE unacked
  BY Set DEF Respond

-------------------------------------------------------------------------------
(***************************************************************************)
(* What a sender was told.                                                 *)
(***************************************************************************)
\* The row says that e was received.
Tells(row, e) ==
    /\ row.event_type = "SCHEMA_CHANGE_DETECTED"
    /\ row.dedup_key = KeyOf[e.content]
    /\ e.event_id # None /\ e.event_id = row.event_id => row.payload.content = e.content
Recorded(e)  == \E i \in DOMAIN log : Tells(log[i], e)

\* The drift of e has opened the case c, before the last reset or after it.
Opened(e, c) ==
    \E i \in DOMAIN log :
        /\ log[i].event_type = "SCHEMA_CHANGE_DETECTED"
        /\ log[i].dedup_key = KeyOf[e.content] /\ log[i].case_id = c

\* c is one of the ids the drift d may be shown under.
Shown(c, d) == \E k \in DOMAIN DisplayIds[d] : c = DisplayIds[d][k]

\* Where a detection comes from: some event that was sent.
DriftRow(row) ==
    row.event_type = "SCHEMA_CHANGE_DETECTED" =>
        /\ \E f \in Events : /\ row.dedup_key = KeyOf[f.content]
                             /\ row.payload.content = f.content
                             /\ row.event_id = f.event_id \/ row.event_id \in Nat
        /\ Shown(row.case_id, row.dedup_key)

\* The code has found the event of this request on record, or put it there.
Sure(t) ==
    thread[t].pc = "owned" \/ (thread[t].pc \in Working /\ thread[t].op # "verify")
RequestOK(t) ==
    /\ thread[t].pc = "idle" \/ thread[t].op = "verify" => thread[t].event = None
    /\ thread[t].pc = "verify" => thread[t].op = "verify"
    /\ Sure(t) => Recorded(thread[t].event)
    /\ thread[t].pc = "duplicate" => Opened(thread[t].event, thread[t].case_id)
    /\ thread[t].pc = "detect" => Shown(thread[t].case_id, KeyOfReq(t))

AckInv ==
    /\ ScopesAgree
    /\ \A i \in DOMAIN log : DriftRow(log[i])
    /\ \A t \in Threads : RequestOK(t)
    /\ AcknowledgedIsRecorded

\* An event id is given to two different changes of one drift only if that drift
\* shares none of its display ids with another.
ReusedIdsStandAlone ==
    \A e, f \in Events :
        /\ e.event_id # None /\ e.event_id = f.event_id
        /\ KeyOf[e.content] = KeyOf[f.content] /\ e.content # f.content
        => \A d \in DedupKeys, c \in CaseIds :
              Shown(c, KeyOf[e.content]) /\ Shown(c, d) => d = KeyOf[e.content]

\* What is on record stays there.
LEMMA RecordsStay ==
    ASSUME DOMAIN log \subseteq DOMAIN log', \A i \in DOMAIN log : log'[i] = log[i]
    PROVE  /\ \A e : Recorded(e) => Recorded(e)'
           /\ \A e, c : Opened(e, c) => Opened(e, c)'
  BY DEF Recorded, Opened

\* So a request that does not move is still served rightly.
LEMMA RequestStays ==
    ASSUME DOMAIN log \subseteq DOMAIN log', \A i \in DOMAIN log : log'[i] = log[i],
           NEW u, RequestOK(u), thread'[u] = thread[u]
    PROVE  RequestOK(u)'
  BY RecordsStay DEF RequestOK, Sure, KeyOfReq

\* The rows that a request's detection is compared with.
LEMMA HoldersTell ==
    ASSUME Typed, NEW t \in Threads, NEW c, ~Conflict(log, DetectionOf(t, c)),
           NEW e, e = thread[t].event, e.event_id # None,
           NEW i \in HoldersOfId(log, e.event_id)
    PROVE  /\ i \in DOMAIN log /\ Tells(log[i], e)
           /\ log[i].case_id = c /\ log[i].payload.content = e.content
<1> DEFINE call == DetectionOf(t, c)
<1>1. /\ call.event_id = e.event_id /\ call.event_type = "SCHEMA_CHANGE_DETECTED"
      /\ call.case_id = c /\ call.dedup_key = KeyOf[e.content]
      /\ call.payload = [content |-> e.content, observed_at |-> 0]
  BY DEF DetectionOf, DetectionCall, KeyOfReq
<1> HIDE DEF call
<1>2. IdTaken(log, call)
  BY <1>1 DEF IdTaken
<1>3. Matches(log[i], call)
  BY <1>1, <1>2 DEF Conflict, call
<1>4. call.payload.content = e.content
  BY <1>1
<1>5. log[i].payload.content = e.content
  BY <1>3, <1>4 DEF Matches, SamePayload
<1>6. i \in DOMAIN log
  BY DEF HoldersOfId, InScope
<1> QED
  BY <1>1, <1>3, <1>5, <1>6 DEF Matches, Tells

\* A row with the drift's key in the current scope says that the event was
\* received, unless the event conflicts with it.
LEMMA KeyTells ==
    ASSUME Typed, NEW t \in Threads, NEW c, ~Conflict(log, DetectionOf(t, c)),
           NEW e \in Events, e = thread[t].event, NEW i \in HoldersOfKey(log, KeyOf[e.content])
    PROVE  i \in DOMAIN log /\ Tells(log[i], e)
<1>1. i \in DOMAIN log /\ i \in InScope(log) /\ log[i].dedup_key = KeyOf[e.content]
  BY DEF HoldersOfKey, InScope
<1>2. log[i].dedup_key # None
  BY <1>1, KeyOfEvent, NoneIsNothingElse
<1>3. log[i].event_type = "SCHEMA_CHANGE_DETECTED"
  BY <1>1, <1>2 DEF Typed, LogOK, RowOK
<1>4. CASE e.event_id # None /\ e.event_id = log[i].event_id
  <2>1. i \in HoldersOfId(log, e.event_id)
    BY <1>1, <1>4 DEF HoldersOfId
  <2> QED
    BY <1>4, <2>1, HoldersTell
<1>5. CASE ~(e.event_id # None /\ e.event_id = log[i].event_id)
  BY <1>1, <1>3, <1>5 DEF Tells
<1> QED
  BY <1>4, <1>5

\* An accepted id, or an accepted key, means that the event was received.
LEMMA TakenIsRecorded ==
    ASSUME Typed, NEW t \in Threads, NEW c, thread[t].event \in Events,
           ~Conflict(log, DetectionOf(t, c)),
           \/ IdTaken(log, DetectionOf(t, c)) \/ KeyTaken(log, DetectionOf(t, c))
           \/ CaseForDedup(log, KeyOfReq(t)) # None
    PROVE  Recorded(thread[t].event)
<1> DEFINE e == thread[t].event
           call == DetectionOf(t, c)
<1>1. call.event_id = e.event_id /\ call.dedup_key = KeyOf[e.content] /\ KeyOfReq(t) = KeyOf[e.content]
  BY DEF DetectionOf, DetectionCall, KeyOfReq
<1>2. CASE IdTaken(log, call)
  <2>1. e.event_id # None /\ HoldersOfId(log, e.event_id) # {}
    BY <1>1, <1>2 DEF IdTaken
  <2>2. PICK i \in HoldersOfId(log, e.event_id) : TRUE
    BY <2>1
  <2> QED
    BY <2>1, <2>2, HoldersTell DEF Recorded
<1>3. CASE HoldersOfKey(log, KeyOf[e.content]) # {}
  BY <1>3, KeyTells DEF Recorded
<1>4. KeyTaken(log, call) => HoldersOfKey(log, KeyOf[e.content]) # {}
  BY <1>1 DEF KeyTaken
<1>5. CaseForDedup(log, KeyOfReq(t)) # None => HoldersOfKey(log, KeyOf[e.content]) # {}
  BY <1>1 DEF CaseForDedup
<1> QED
  BY <1>2, <1>3, <1>4, <1>5

\* What the first look found is still true of the event when the fast path
\* answers, unless a reset, a shared display id and a reused event id meet.
LEMMA FastAnswerIsTrue ==
    ASSUME ReusedIdsStandAlone, Typed, AckInv, NEW t \in Threads, thread[t].pc = "duplicate",
           ~Conflict(log, DetectionOf(t, thread[t].case_id)), Readable(thread[t].case_id)
    PROVE  Recorded(thread[t].event)
<1> DEFINE e == thread[t].event
           c == thread[t].case_id
           d == KeyOf[e.content]
<1>1. e \in Events /\ c \in CaseIds /\ d \in DedupKeys
  BY NotAtWork DEF Asking, Empty
<1>2. PICK i \in DOMAIN log : /\ log[i].event_type = "SCHEMA_CHANGE_DETECTED"
                              /\ log[i].dedup_key = d /\ log[i].case_id = c
  BY DEF AckInv, RequestOK, Opened
<1>3. CASE ~(e.event_id # None /\ e.event_id = log[i].event_id) \/ log[i].payload.content = e.content
  BY <1>2, <1>3 DEF Recorded, Tells
<1>4. CASE /\ e.event_id # None /\ e.event_id = log[i].event_id
           /\ log[i].payload.content # e.content
  <2>1. PICK f \in Events : /\ log[i].dedup_key = KeyOf[f.content]
                            /\ log[i].payload.content = f.content
                            /\ log[i].event_id = f.event_id \/ log[i].event_id \in Nat
    BY <1>2 DEF AckInv, DriftRow
  <2>2. e.event_id = f.event_id
    BY <1>1, <1>4, <2>1, NoneIsNothingElse
  <2>3. \A d2 \in DedupKeys : Shown(c, d) /\ Shown(c, d2) => d2 = d
    BY <1>1, <1>2, <1>4, <2>1, <2>2 DEF ReusedIdsStandAlone
  <2> DEFINE j == Min(ActiveRows(log, c))
  <2>4. j \in ActiveRows(log, c) /\ log[j].event_type = "SCHEMA_CHANGE_DETECTED"
    <3>1. ActiveRows(log, c) \in SUBSET Nat /\ ActiveRows(log, c) # {}
      BY ScopeIsLastReset DEF Typed, LogOK, ActiveRows, Readable
    <3> QED
      BY <3>1, MinIsLeast DEF Readable
  <2> HIDE DEF j
  <2>5. j \in InScope(log) /\ j \in DOMAIN log /\ log[j].case_id = c
    BY <2>4 DEF ActiveRows, InScope, AckInv, ScopesAgree
  <2>6. PICK g \in Events : log[j].dedup_key = KeyOf[g.content]
    BY <2>4, <2>5 DEF AckInv, DriftRow
  <2>7. log[j].dedup_key = d
    <3>1. Shown(c, d) /\ Shown(c, log[j].dedup_key)
      BY <1>2, <2>4, <2>5 DEF AckInv, DriftRow
    <3>2. log[j].dedup_key \in DedupKeys
      BY <2>6, KeyOfEvent
    <3> QED
      BY <3>1, <3>2, <2>3
  <2>8. j \in HoldersOfKey(log, d)
    BY <2>5, <2>7 DEF HoldersOfKey
  <2> QED
    BY <1>1, <2>8, KeyTells DEF Recorded
<1> QED
  BY <1>3, <1>4

\* The record of a request that goes on is as it should be, given where it goes.
LEMMA AckFrame ==
    ASSUME Typed, AckInv, [Next]_vars, NEW t \in Threads, Others(t), RequestOK(t)',
           \A i \in DOMAIN log' : DriftRow(log'[i]),
           \/ unacked' = unacked
           \/ /\ unacked' = unacked \ {thread[t].event}
              /\ thread[t].event = None \/ Recorded(thread[t].event)
    PROVE  AckInv'
<1>1. DOMAIN log \subseteq DOMAIN log' /\ \A i \in DOMAIN log : log'[i] = log[i]
  BY LogKept
<1>2. ScopesAgree'
  BY ScopesAgreeStep DEF AckInv
<1>3. ASSUME NEW u \in Threads PROVE RequestOK(u)'
  <2>1. CASE u = t
    BY <2>1
  <2>2. CASE u # t
    BY <1>1, <2>2, RequestStays DEF Others, AckInv
  <2> QED
    BY <2>1, <2>2
<1>4. ASSUME NEW e \in Events, e \notin unacked' PROVE Recorded(e)'
  <2>1. Recorded(e)
    BY <1>4, NoneIsNothingElse DEF AckInv, AcknowledgedIsRecorded, Recorded, Tells
  <2> QED
    BY <1>1, <2>1, RecordsStay
<1>5. AcknowledgedIsRecorded'
  BY <1>4 DEF AcknowledgedIsRecorded, Recorded, Tells
<1> QED
  BY <1>2, <1>3, <1>5 DEF AckInv

\* A request that goes on, with its event, the log as it was.
Bears(t) ==
    /\ Others(t) /\ UNCHANGED <<log, unacked>>
    /\ thread'[t].event = thread[t].event
    /\ thread'[t].pc # "idle" /\ (thread'[t].op = "verify" <=> thread[t].op = "verify")
LEMMA BearsOn ==
    ASSUME Typed, AckInv, [Next]_vars, NEW t \in Threads, Bears(t), thread[t].pc # "idle",
           Sure(t)' => Sure(t) \/ Recorded(thread[t].event),
           thread'[t].pc = "verify" => thread[t].op = "verify",
           thread'[t].pc = "duplicate" => Opened(thread[t].event, thread'[t].case_id),
           thread'[t].pc = "detect" => Shown(thread'[t].case_id, KeyOfReq(t))
    PROVE  AckInv'
<1>1. RequestOK(t)
  BY DEF AckInv
<1>2. Sure(t)' => Recorded(thread[t].event)
  BY <1>1 DEF RequestOK
<1>3. Recorded(thread[t].event)' <=> Recorded(thread[t].event)
  BY DEF Recorded, Bears
<1>4. RequestOK(t)'
  BY <1>1, <1>2 DEF RequestOK, Bears, Recorded, Opened, KeyOfReq
<1> QED
  BY <1>4, AckFrame DEF Bears, AckInv

\* A thread at work that goes on with the same request.
LEMMA WorkersBear ==
    ASSUME Typed, AckInv, [Next]_vars, NEW t \in Threads, Bears(t),
           thread[t].pc \in Working \cup {"verify"}, thread'[t].pc \in Working
    PROVE  AckInv'
<1>1. thread[t].pc # "idle" /\ thread'[t].pc \notin {"duplicate", "detect", "owned", "verify"}
  BY DEF Working, Middle
<1>2. thread[t].pc = "verify" => thread[t].op = "verify"
  BY DEF AckInv, RequestOK
<1>3. Sure(t)' => Sure(t)
  BY <1>1, <1>2 DEF Sure, Bears
<1> QED
  BY <1>1, <1>3, BearsOn

\* A request is answered; whoever is told that it was accepted may forget it.
LEMMA AnswersAreTrue ==
    ASSUME Typed, AckInv, [Next]_vars, NEW t \in Threads, NEW ok, Respond(t, ok), UNCHANGED log,
           ok => thread[t].event = None \/ Recorded(thread[t].event)
    PROVE  AckInv'
<1>1. ThreadsOK
  BY DEF Typed
<1>2. /\ Others(t) /\ thread'[t] = IdleThread
      /\ unacked' = IF ok THEN unacked \ {thread[t].event} ELSE unacked
  BY <1>1, RespondClears
<1>3. RequestOK(t)'
  <2>1. /\ thread'[t].event = None /\ thread'[t].pc = "idle" /\ thread'[t].op = None
    BY <1>2 DEF IdleThread
  <2>2. ~Sure(t)'
    BY <2>1 DEF Sure, Working, Middle
  <2> QED
    BY <2>1, <2>2 DEF RequestOK
<1>4. \A i \in DOMAIN log' : DriftRow(log'[i])
  BY DEF AckInv
<1> QED
  BY <1>2, <1>3, <1>4, AckFrame

\* An exception is caught by the handler, or becomes an error answer.
LEMMA ExceptionsKeepAcks ==
    ASSUME Typed, AckInv, [Next]_vars, NEW t \in Threads, Exception(t)
    PROVE  AckInv'
<1>1. ThreadsOK /\ ThreadOK(thread[t]) /\ UNCHANGED log
  BY DEF Typed, ThreadsOK, Exception
<1>2. CASE Respond(t, FALSE)
  BY <1>1, <1>2, AnswersAreTrue
<1>3. CASE /\ thread[t].op = "advance" /\ UNCHANGED unacked
           /\ thread' = [thread EXCEPT ![t].pc = "handler", ![t].op = "handler",
                                       ![t].pending = <<>>]
  <2>1. /\ Others(t) /\ thread'[t].pc = "handler" /\ thread'[t].op = "handler"
        /\ thread'[t].event = thread[t].event
    BY <1>1, <1>3, HandlerGoes
  <2>2. thread[t].pc \in Working
    BY <1>1, <1>3 DEF ThreadOK
  <2>3. Bears(t) /\ thread'[t].pc \in Working
    BY <1>1, <1>3, <2>1 DEF Bears, Working, Middle
  <2> QED
    BY <2>2, <2>3, WorkersBear
<1> QED
  BY <1>2, <1>3 DEF Exception

\* A request at its beginning: which drift, and is it ours.
LEMMA AskingKeepsAcks ==
    ASSUME ReusedIdsStandAlone, Typed, AckInv, [Next]_vars, NEW t \in Threads,
           Lookup(t) \/ FastDuplicate(t) \/ FastOwned(t) \/ Acquire(t)
    PROVE  AckInv'
<1>1. thread[t].pc \in {"lookup", "duplicate", "owned", "lock"}
  BY DEF Lookup, FastDuplicate, FastOwned, Acquire, At
<1>2. ThreadsOK /\ ThreadOK(thread[t])
  BY DEF Typed, ThreadsOK
<1>3. ASSUME NEW pc \in {"lock", "recheck", "verify"}, Goto(t, pc), UNCHANGED <<log, unacked>>,
             thread[t].op # "verify" => pc # "verify"
      PROVE  AckInv'
  <2>1. Goes(t, pc)
    BY <1>2, <1>3, GotoGoes
  <2>2. Bears(t) /\ ~Sure(t)'
    BY <1>3, <2>1 DEF Bears, Goes, Keeps, Sure, Working, Middle
  <2> QED
    BY <1>1, <1>3, <2>1, <2>2, BearsOn DEF Goes
<1>3a. ASSUME Goto(t, "lock"), UNCHANGED <<log, unacked>> PROVE AckInv'
  BY <1>3, <1>3a
<1>4. CASE Lookup(t)
  <2>1. UNCHANGED <<log, unacked>> /\ thread[t].pc = "lookup"
    BY <1>4 DEF Lookup, At
  <2>2. CASE Goto(t, "lock")
    BY <1>3a, <2>1, <2>2
  <2>3. ASSUME NEW c, c = CaseForDedup(log, KeyOfReq(t)), c # None,
               thread' = [thread EXCEPT ![t].pc = "duplicate", ![t].case_id = c]
        PROVE  AckInv'
    <3>0. Visits(t, "duplicate", c)
      BY <2>3 DEF Visits
    <3>1. /\ Others(t) /\ thread'[t].pc = "duplicate" /\ thread'[t].case_id = c
          /\ thread'[t].op = thread[t].op /\ thread'[t].event = thread[t].event
      BY <1>2, <3>0, CaseGoes
    <3>2. Bears(t) /\ ~Sure(t)'
      BY <2>1, <3>1 DEF Bears, Sure, Working, Middle
    <3>3. HoldersOfKey(log, KeyOfReq(t)) # {}
      BY <2>3 DEF CaseForDedup
    <3>4. PICK i \in HoldersOfKey(log, KeyOfReq(t)) : c = log[i].case_id
      BY <2>3, <3>3 DEF CaseForDedup
    <3>5. thread[t].event \in Events /\ KeyOfReq(t) = KeyOf[thread[t].event.content]
      BY <1>2, <2>1 DEF ThreadOK, Asking, KeyOfReq
    <3>6. i \in DOMAIN log /\ log[i].dedup_key = KeyOfReq(t) /\ log[i].dedup_key # None
      BY <3>4, <3>5, KeyOfEvent, NoneIsNothingElse DEF HoldersOfKey, InScope
    <3>7. log[i].event_type = "SCHEMA_CHANGE_DETECTED"
      BY <3>6 DEF Typed, LogOK, RowOK
    <3>8. Opened(thread[t].event, c)
      BY <3>4, <3>5, <3>6, <3>7 DEF Opened
    <3> QED
      BY <2>1, <3>1, <3>2, <3>8, BearsOn
  <2> QED
    BY <1>4, <2>2, <2>3 DEF Lookup
<1>5. CASE FastDuplicate(t)
  <2> DEFINE c == thread[t].case_id
  <2>1. UNCHANGED log /\ thread[t].pc = "duplicate"
    BY <1>5 DEF FastDuplicate, At
  <2>2. CASE Exception(t)
    BY <2>2, ExceptionsKeepAcks
  <2>3. CASE Goto(t, "lock") /\ UNCHANGED <<process, unacked>>
    BY <1>3a, <2>1, <2>3
  <2>4. CASE ~Conflict(log, DetectionOf(t, c)) /\ Readable(c)
             /\ (Respond(t, TRUE) \/ (Goto(t, "owned") /\ UNCHANGED <<process, unacked>>))
    <3>1. Recorded(thread[t].event)
      BY <2>1, <2>4, FastAnswerIsTrue
    <3>2. CASE Respond(t, TRUE)
      BY <2>1, <3>1, <3>2, AnswersAreTrue
    <3>3. CASE Goto(t, "owned") /\ UNCHANGED <<process, unacked>>
      <4>1. Goes(t, "owned")
        BY <1>2, <3>3, GotoGoes
      <4>2. Bears(t)
        BY <2>1, <3>3, <4>1 DEF Bears, Goes, Keeps
      <4> QED
        BY <2>1, <3>1, <4>1, <4>2, BearsOn DEF Goes
    <3> QED
      BY <2>4, <3>2, <3>3
  <2> QED
    BY <1>5, <2>2, <2>3, <2>4 DEF FastDuplicate, CaseOf
<1>6. CASE FastOwned(t)
  <2>1. UNCHANGED log /\ thread[t].pc = "owned"
    BY <1>6 DEF FastOwned, At
  <2>2. CASE Respond(t, TRUE)
    <3>1. Recorded(thread[t].event)
      BY <2>1 DEF AckInv, RequestOK, Sure
    <3> QED
      BY <2>1, <2>2, <3>1, AnswersAreTrue
  <2>3. CASE Goto(t, "lock") /\ UNCHANGED <<process, unacked>>
    BY <1>3a, <2>1, <2>3
  <2> QED
    BY <1>6, <2>2, <2>3 DEF FastOwned
<1>7. CASE Acquire(t)
  <2>1. UNCHANGED <<log, unacked>>
    BY <1>7 DEF Acquire
  <2>2. CASE thread[t].op = "verify"
    BY <1>3, <1>7, <2>1, <2>2 DEF Acquire
  <2>3. CASE thread[t].op # "verify"
    BY <1>3, <1>7, <2>1, <2>3 DEF Acquire
  <2> QED
    BY <2>2, <2>3
<1> QED
  BY <1>4, <1>5, <1>6, <1>7

\* Every stage of _advance, and of the end of a verification, goes on with the
\* request it has.
LEMMA StagesKeep ==
    ASSUME ThreadsOK, NEW t \in Threads,
           \/ Incident(t) \/ Context(t) \/ Candidates(t) \/ Validate(t) \/ Load(t)
           \/ Assess(t) \/ AllAssessed(t) \/ Select(t) \/ Evidence(t) \/ PullRequest(t)
           \/ Contain(t) \/ Handler(t) \/ FinalEvidence(t) \/ Resolve(t)
    PROVE  Keeps(t) /\ UNCHANGED <<log, process, unacked, budget>>
<1>1. UNCHANGED <<log, process, unacked, budget>>
  BY DEF Incident, Context, Candidates, Validate, Load, Assess, AllAssessed, Select, Evidence,
         PullRequest, Contain, Handler, FinalEvidence, Resolve, StepOnly
<1> SUFFICES Keeps(t)
  BY <1>1
<1>2. ASSUME NEW pc, Goto(t, pc) PROVE Keeps(t)
  BY <1>2, GotoGoes DEF Goes
<1>3. ASSUME NEW calls, NEW next, Queue(t, calls, next) PROVE Keeps(t)
  BY <1>3, QueuePuts DEF Puts
<1>4. CASE Incident(t) \/ Context(t) \/ Validate(t)
  BY <1>2, <1>3, <1>4 DEF Incident, Context, Validate
<1>5. CASE Candidates(t)
  <2>1. ASSUME NEW found, thread' = [thread EXCEPT ![t].pc = "validate", ![t].proposals = found]
        PROVE  Keeps(t)
    <3>1. Finds(t, found)
      BY <2>1 DEF Finds
    <3> QED
      BY <3>1, CandidatesGoes DEF Goes
  <2>2. ASSUME NEW calls, NEW found,
               thread' = [thread EXCEPT ![t] =
                             [Queued(t, calls, "validate") EXCEPT !.proposals = found]]
        PROVE  Keeps(t)
    <3>1. Proposes(t, calls, "validate", found)
      BY <2>2 DEF Proposes
    <3> QED
      BY <3>1, CandidatesPuts DEF Puts
  <2> QED
    BY <1>2, <1>3, <1>5, <2>1, <2>2 DEF Candidates
<1>6. CASE Load(t)
  <2>1. Loads(t, Project(CaseOf(t)).assessed)
    BY <1>6 DEF Load, Loads
  <2> QED
    BY <2>1, LoadGoes DEF Goes
<1>7. CASE Assess(t)
  <2>1. PICK p \in thread[t].proposals, outcome \in {"ELIGIBLE", "REJECTED"} :
          Assesses(t, <<Call(t, "CANDIDATE_ASSESSED", [id |-> p, outcome |-> outcome])>>,
                   "assess", p, outcome)
    BY <1>7 DEF Assess, Assesses
  <2> QED
    BY <2>1, AssessPuts DEF Puts
<1>8. CASE AllAssessed(t) \/ Select(t) \/ Contain(t) \/ Handler(t)
  BY <1>2, <1>3, <1>8 DEF AllAssessed, Select, Contain, Handler
<1>9. CASE Evidence(t) \/ PullRequest(t)
  BY <1>2, <1>3, <1>9 DEF Evidence, PullRequest
<1>10. CASE FinalEvidence(t) \/ Resolve(t)
  BY <1>2, <1>3, <1>10 DEF FinalEvidence, Resolve
<1> QED
  BY <1>4, <1>5, <1>6, <1>7, <1>8, <1>9, <1>10

\* So it keeps what its sender may have been told.
LEMMA StagesKeepAcks ==
    ASSUME Typed, AckInv, [Next]_vars, NEW t \in Threads,
           \/ Incident(t) \/ Context(t) \/ Candidates(t) \/ Validate(t) \/ Load(t)
           \/ Assess(t) \/ AllAssessed(t) \/ Select(t) \/ Evidence(t) \/ PullRequest(t)
           \/ Contain(t) \/ Handler(t) \/ FinalEvidence(t) \/ Resolve(t)
    PROVE  AckInv'
<1>1. Moves(t)
  BY AdvanceMoves
<1>2. Keeps(t) /\ UNCHANGED <<log, process, unacked, budget>>
  BY StagesKeep DEF Typed
<1>3. thread[t].pc \in Working /\ thread'[t].pc \in Working
  BY <1>1 DEF Moves
<1>4. "idle" \notin Working /\ "verify" \notin Working
  BY DEF Working, Middle
<1>5. Bears(t)
  BY <1>2, <1>3, <1>4 DEF Bears, Keeps
<1> QED
  BY <1>3, <1>4, <1>5, WorkersBear

\* The second look, under the lock.
LEMMA RecheckKeepsAcks ==
    ASSUME Typed, AckInv, [Next]_vars, NEW t \in Threads, Recheck(t)
    PROVE  AckInv'
<1> DEFINE c == CaseForDedup(log, KeyOfReq(t))
<1>1. thread[t].pc = "recheck" /\ UNCHANGED log /\ ThreadsOK
  BY DEF Recheck, At, Typed
<1>2. thread[t].event \in Events
  BY <1>1, NotAtWork DEF Empty, Asking
<1>3. CASE Exception(t)
  BY <1>3, ExceptionsKeepAcks
<1>4. CASE Goto(t, "allocate") /\ UNCHANGED <<process, unacked>>
  <2>1. Goes(t, "allocate")
    BY <1>1, <1>4, GotoGoes
  <2>2. Bears(t) /\ ~Sure(t)'
    BY <1>1, <1>4, <2>1 DEF Bears, Goes, Keeps, Sure, Working, Middle
  <2> QED
    BY <1>1, <2>1, <2>2, BearsOn DEF Goes
<1>5. CASE c # None /\ ~Conflict(log, DetectionOf(t, c))
  <2>1. Recorded(thread[t].event)
    BY <1>2, <1>5, TakenIsRecorded
  <2>2. CASE Respond(t, TRUE)
    BY <1>1, <2>1, <2>2, AnswersAreTrue
  <2>3. CASE thread' = [thread EXCEPT ![t].pc = "begin", ![t].case_id = c]
             /\ UNCHANGED <<process, unacked>>
    <3>1. Visits(t, "begin", c)
      BY <2>3 DEF Visits
    <3>2. /\ Others(t) /\ thread'[t].pc = "begin"
          /\ thread'[t].op = thread[t].op /\ thread'[t].event = thread[t].event
      BY <1>1, <3>1, CaseGoes
    <3>3. Bears(t)
      BY <1>1, <2>3, <3>2 DEF Bears
    <3> QED
      BY <1>1, <2>1, <3>2, <3>3, BearsOn
  <2> QED
    BY <1>3, <1>5, <2>2, <2>3 DEF Recheck
<1> QED
  BY <1>3, <1>4, <1>5 DEF Recheck

\* A display id: one of the drift's own.
LEMMA AvailableIdIsShown ==
    ASSUME Typed, AckInv, NEW d \in DedupKeys, AvailableId(d) # None
    PROVE  Shown(AvailableId(d), d)
<1>1. CASE CaseForDedup(log, d) # None
  <2>1. HoldersOfKey(log, d) # {}
    BY <1>1 DEF CaseForDedup
  <2>2. PICK i \in HoldersOfKey(log, d) : CaseForDedup(log, d) = log[i].case_id
    BY <2>1 DEF CaseForDedup
  <2>3. i \in DOMAIN log /\ log[i].dedup_key = d /\ log[i].dedup_key # None
    BY <2>2, NoneIsNothingElse DEF HoldersOfKey, InScope
  <2>4. log[i].event_type = "SCHEMA_CHANGE_DETECTED"
    BY <2>3 DEF Typed, LogOK, RowOK
  <2>5. Shown(log[i].case_id, d)
    BY <2>3, <2>4 DEF AckInv, DriftRow
  <2> QED
    BY <1>1, <2>2, <2>5 DEF AvailableId
<1>2. CASE CaseForDedup(log, d) = None
  <2>1. FreeIds(d) # {} /\ AvailableId(d) = DisplayIds[d][Min(FreeIds(d))]
    BY <1>2 DEF AvailableId
  <2>2. DisplayIds[d] \in Seq(CaseIds)
    BY WorkflowConstants
  <2>3. FreeIds(d) \in SUBSET Nat /\ FreeIds(d) \subseteq DOMAIN DisplayIds[d]
    BY <2>2 DEF FreeIds
  <2>4. Min(FreeIds(d)) \in DOMAIN DisplayIds[d]
    BY <2>1, <2>3, MinIsLeast
  <2> QED
    BY <2>1, <2>4 DEF Shown
<1> QED
  BY <1>1, <1>2

\* The choice of a display id.
LEMMA AllocateKeepsAcks ==
    ASSUME Typed, AckInv, [Next]_vars, NEW t \in Threads, Allocate(t)
    PROVE  AckInv'
<1> DEFINE c == AvailableId(KeyOfReq(t))
<1>1. thread[t].pc = "allocate" /\ UNCHANGED log /\ ThreadsOK
  BY DEF Allocate, At, Typed
<1>2. thread[t].event \in Events /\ KeyOfReq(t) \in DedupKeys
  BY <1>1, NotAtWork DEF Empty, Asking, KeyOfReq
<1>3. CASE Exception(t)
  BY <1>3, ExceptionsKeepAcks
<1>4. CASE ~Conflict(log, DetectionOf(t, c)) /\ IdTaken(log, DetectionOf(t, c))
           /\ Respond(t, Readable(c))
  <2>1. Recorded(thread[t].event)
    BY <1>2, <1>4, TakenIsRecorded
  <2> QED
    BY <1>1, <1>4, <2>1, AnswersAreTrue
<1>5. CASE /\ c # None /\ UNCHANGED <<process, unacked>>
           /\ thread' = [thread EXCEPT ![t].pc = "detect", ![t].case_id = c]
  <2>1. Visits(t, "detect", c)
    BY <1>5 DEF Visits
  <2>2. /\ Others(t) /\ thread'[t].pc = "detect" /\ thread'[t].case_id = c
        /\ thread'[t].op = thread[t].op /\ thread'[t].event = thread[t].event
    BY <1>1, <2>1, CaseGoes
  <2>3. Bears(t) /\ ~Sure(t)'
    BY <1>1, <1>5, <2>2 DEF Bears, Sure, Working, Middle
  <2>4. Shown(c, KeyOfReq(t))
    BY <1>2, <1>5, AvailableIdIsShown
  <2> QED
    BY <1>1, <2>2, <2>3, <2>4, BearsOn
<1> QED
  BY <1>3, <1>4, <1>5 DEF Allocate

\* The detection is recorded, or was recorded before.
LEMMA DetectKeepsAcks ==
    ASSUME Typed, AckInv, [Next]_vars, NEW t \in Threads, Detect(t)
    PROVE  AckInv'
<1> DEFINE call == DetectionOf(t, CaseOf(t))
           e == thread[t].event
<1>1. thread[t].pc = "detect" /\ ThreadsOK
  BY DEF Detect, At, Typed
<1>2. e \in Events /\ IsSeq(log) /\ Shown(CaseOf(t), KeyOfReq(t))
  BY <1>1, NotAtWork DEF Empty, Asking, Typed, LogOK, AckInv, RequestOK, CaseOf
<1>3. CASE Exception(t)
  BY <1>3, ExceptionsKeepAcks
<1>4. CASE Accepted(log, call) /\ log' = Append(log, NewRow(log, call)) /\ Goto(t, "begin")
           /\ UNCHANGED <<process, unacked, remote>>
  <2> DEFINE row == NewRow(log, call)
  <2>1. /\ row.event_type = "SCHEMA_CHANGE_DETECTED" /\ row.case_id = CaseOf(t)
        /\ row.dedup_key = KeyOf[e.content]
        /\ row.payload = [content |-> e.content, observed_at |-> 0]
        /\ row.event_id = e.event_id \/ (e.event_id = None /\ row.event_id = Len(log) + 1)
    BY DEF NewRow, DetectionOf, DetectionCall, KeyOfReq
  <2> HIDE DEF row
  <2>2. log' = Append(log, row)
    BY <1>4 DEF row
  <2>3. /\ Len(log) \in Nat /\ DOMAIN log = 1 .. Len(log) /\ DOMAIN log' = 1 .. Len(log) + 1
        /\ log'[Len(log) + 1] = row /\ \A k \in DOMAIN log : log'[k] = log[k]
    BY <1>2, <2>2, Appended
  <2>4. row.payload.content = e.content
    BY <2>1
  <2>5. DriftRow(row)
    BY <1>2, <2>1, <2>3, <2>4 DEF DriftRow, KeyOfReq
  <2>6. \A k \in DOMAIN log' : DriftRow(log'[k])
    <3>1. \A k \in DOMAIN log' : k \in DOMAIN log \/ k = Len(log) + 1
      BY <2>3
    <3> QED
      BY <2>3, <2>5, <3>1 DEF AckInv
  <2>7. Tells(row, e) /\ Len(log) + 1 \in DOMAIN log'
    BY <2>1, <2>3, <2>4 DEF Tells
  <2>8. Goes(t, "begin")
    BY <1>1, <1>4, GotoGoes
  <2>9. thread'[t].event = e /\ thread'[t].pc = "begin" /\ Others(t)
        /\ thread'[t].op = thread[t].op
    BY <2>8 DEF Goes, Keeps
  <2>10. Recorded(thread[t].event)'
    BY <2>3, <2>7, <2>9 DEF Recorded
  <2>11. thread[t].op # "verify"
    BY <1>1, <1>2, NoneIsNothingElse DEF AckInv, RequestOK
  <2>12. RequestOK(t)'
    BY <2>9, <2>10, <2>11 DEF RequestOK
  <2> QED
    BY <1>4, <2>6, <2>9, <2>12, AckFrame
<1>5. CASE Duplicate(log, call) /\ UNCHANGED log
           /\ Respond(t, Readable(DuplicateOf(log, call)))
  <2>1. Recorded(e)
    BY <1>2, <1>5, TakenIsRecorded DEF Duplicate
  <2> QED
    BY <1>5, <2>1, AnswersAreTrue
<1>6. CASE thread' = [thread EXCEPT ![t].pc = "allocate", ![t].attempt = @ + 1]
           /\ UNCHANGED <<log, process, unacked, remote>>
  <2>1. Retries(t, thread[t].attempt + 1)
    BY <1>6 DEF Retries
  <2>2. Keeps(t) /\ thread'[t].pc = "allocate"
    BY <1>1, <2>1, RetryGoes
  <2>3. Bears(t) /\ ~Sure(t)'
    BY <1>6, <2>2 DEF Bears, Keeps, Sure, Working, Middle
  <2> QED
    BY <1>1, <2>2, <2>3, BearsOn
<1> QED
  BY <1>3, <1>4, <1>5, <1>6 DEF Detect

\* The advance begins, and goes from append to append.
LEMMA WorkKeepsAcks ==
    ASSUME Typed, AckInv, [Next]_vars, NEW t \in Threads, Begin(t) \/ AppendEvent(t) \/ Finish(t)
    PROVE  AckInv'
<1>1. ThreadsOK /\ ThreadOK(thread[t]) /\ IsSeq(log)
  BY DEF Typed, ThreadsOK, LogOK
<1>2. CASE Begin(t)
  <2>1. thread[t].pc = "begin" /\ UNCHANGED <<log, unacked>>
    BY <1>2 DEF Begin, At
  <2>2. /\ Others(t) /\ thread'[t].pc = "incident" /\ thread'[t].op = "advance"
        /\ thread'[t].event = thread[t].event
    BY <1>1, <1>2, BeginGoes DEF Begin
  <2>3. thread[t].op # "verify"
    BY <1>1, <2>1, NoneIsNothingElse DEF AckInv, RequestOK, ThreadOK, Asking
  <2>4. Bears(t) /\ thread[t].pc \in Working /\ thread'[t].pc \in Working
    BY <2>1, <2>2, <2>3 DEF Bears, Working, Middle
  <2> QED
    BY <2>4, WorkersBear
<1>3. CASE AppendEvent(t)
  <2>1. CASE Exception(t)
    BY <2>1, ExceptionsKeepAcks
  <2>2. CASE ~Exception(t)
    <3> DEFINE pc == IF Len(thread[t].pending) = 1 THEN thread[t].next ELSE "append"
               row == NewRow(log, Head(thread[t].pending))
    <3>1. /\ thread[t].pc = "append" /\ UNCHANGED <<process, unacked, remote>>
          /\ log' = Append(log, row)
          /\ thread' = [thread EXCEPT ![t].pending = Tail(@), ![t].pc = pc]
      BY <1>3, <2>2 DEF AppendEvent, At
    <3>2. Advances(t, Tail(thread[t].pending), pc)
      BY <3>1 DEF Advances
    <3> HIDE DEF pc
    <3>3. Keeps(t) /\ thread'[t].pc = pc
      BY <1>1, <3>2, AppendGoes
    <3>4. pc \in Working /\ thread[t].pc \in Working
      BY <1>1, <3>1 DEF ThreadOK, pc, Working
    <3>5. row.event_type # "SCHEMA_CHANGE_DETECTED"
      <4>1. thread[t].pending # <<>> /\ IsSeq(thread[t].pending)
        BY <1>1, <3>1 DEF ThreadOK
      <4>2. Head(thread[t].pending) = thread[t].pending[1] /\ 1 \in DOMAIN thread[t].pending
        BY <4>1, Tailed
      <4>3. CallOK(Head(thread[t].pending))
        BY <1>1, <4>2 DEF ThreadOK
      <4> QED
        BY <4>3 DEF NewRow, CallOK
    <3> HIDE DEF row
    <3>6. /\ Len(log) \in Nat /\ DOMAIN log = 1 .. Len(log) /\ DOMAIN log' = 1 .. Len(log) + 1
          /\ log'[Len(log) + 1] = row /\ \A k \in DOMAIN log : log'[k] = log[k]
      BY <1>1, <3>1, Appended
    <3>7. \A k \in DOMAIN log' : DriftRow(log'[k])
      <4>1. \A k \in DOMAIN log' : k \in DOMAIN log \/ k = Len(log) + 1
        BY <3>6
      <4> QED
        BY <3>5, <3>6, <4>1 DEF AckInv, DriftRow
    <3>8. Sure(t)' <=> Sure(t)
      BY <3>3, <3>4 DEF Sure, Keeps, Working, Middle
    <3>9. RequestOK(t) /\ pc \notin {"idle", "verify", "duplicate", "detect"}
      BY <3>4 DEF AckInv, Working, Middle
    <3>10. DOMAIN log \subseteq DOMAIN log'
      BY <3>6
    <3>11. Recorded(thread[t].event) => Recorded(thread[t].event)'
      BY <3>3, <3>6, <3>10 DEF Recorded, Keeps
    <3>12. RequestOK(t)'
      BY <3>3, <3>8, <3>9, <3>11 DEF RequestOK, Keeps
    <3> QED
      BY <3>1, <3>3, <3>7, <3>12, AckFrame DEF Keeps
  <2> QED
    BY <2>1, <2>2
<1>4. CASE Finish(t)
  <2>1. thread[t].pc = "finish" /\ UNCHANGED log /\ Respond(t, Readable(CaseOf(t)))
    BY <1>4 DEF Finish, At
  <2>2. thread[t].event = None \/ Recorded(thread[t].event)
    BY <2>1 DEF AckInv, RequestOK, Sure, Working, Middle
  <2> QED
    BY <2>1, <2>2, AnswersAreTrue
<1> QED
  BY <1>2, <1>3, <1>4

\* A verification stands for no schema change.
LEMMA VerifyKeepsAcks ==
    ASSUME Typed, AckInv, [Next]_vars, NEW t \in Threads, Verify(t)
    PROVE  AckInv'
<1>1. ThreadsOK /\ thread[t].pc = "verify"
  BY DEF Typed, Verify, At_, At
<1>2. CASE Exception(t)
  BY <1>2, ExceptionsKeepAcks
<1>3. CASE \E calls, next, incident : Takes(t, calls, next, incident) /\ UNCHANGED <<log, unacked>>
  <2>1. PICK calls, next, incident : Takes(t, calls, next, incident) /\ UNCHANGED <<log, unacked>>
    BY <1>3
  <2>2. Puts(t, calls, next)
    BY <1>1, <2>1, VerifyPuts
  <2>3. Bears(t) /\ thread'[t].pc \in Working
    BY <2>1, <2>2 DEF Bears, Puts, Keeps, Working
  <2> QED
    BY <1>1, <2>3, WorkersBear
<1>4. Exception(t) \/ \E calls, next, incident :
                        Takes(t, calls, next, incident) /\ UNCHANGED <<log, unacked>>
  <2> DEFINE case     == Project(CaseOf(t))
             deployed == Call(t, "DEPLOYMENT_RECORDED", [mode |-> EvidenceMode])
             verified == Call(t, "POST_DEPLOY_VERIFIED", [mode |-> EvidenceMode])
  <2> SUFFICES ASSUME ~Exception(t)
               PROVE  \E calls, next, incident :
                        Takes(t, calls, next, incident) /\ UNCHANGED <<log, unacked>>
    OBVIOUS
  <2>1. PICK verdict \in Verdicts(case.incident) :
          /\ thread' = [thread EXCEPT ![t] =
                          [(IF verdict = "accepted"
                            THEN Queued(t, <<deployed, verified>>, "final_evidence")
                            ELSE Queued(t, <<deployed>>, "contain"))
                           EXCEPT !.incident = case.incident]]
          /\ UNCHANGED <<log, process, remote, unacked>>
    BY DEF Verify
  <2>2. CASE verdict = "accepted"
    BY <2>1, <2>2 DEF Takes
  <2>3. CASE verdict # "accepted"
    BY <2>1, <2>3 DEF Takes
  <2> QED
    BY <2>2, <2>3
<1> QED
  BY <1>2, <1>3, <1>4

\* Requests that arrive.
LEMMA ArrivalsKeepAcks ==
    ASSUME Typed, AckInv, [Next]_vars, NEW t \in Threads,
           \/ \E e \in Events : Deliver(t, e)
           \/ \E c \in CaseIds : StartVerify(t, c)
    PROVE  AckInv'
<1>1. ThreadsOK /\ thread[t].pc = "idle" /\ UNCHANGED <<log, unacked>>
  BY DEF Typed, Deliver, StartVerify, At
<1>2. \A i \in DOMAIN log' : DriftRow(log'[i])
  BY <1>1 DEF AckInv
<1>3. ASSUME NEW e \in Events, Deliver(t, e) PROVE AckInv'
  <2>1. Receives(t, e)
    BY <1>3 DEF Deliver, Receives
  <2>2. Others(t) /\ thread'[t].pc = "lookup" /\ thread'[t].op = "ingest"
    BY <1>1, <2>1, DeliverGoes
  <2>3. RequestOK(t)'
    BY <2>2 DEF RequestOK, Sure, Working, Middle
  <2> QED
    BY <1>1, <1>2, <2>2, <2>3, AckFrame
<1>4. ASSUME NEW c \in CaseIds, StartVerify(t, c) PROVE AckInv'
  <2>1. Queries(t, c)
    BY <1>4 DEF StartVerify, Queries
  <2>2. Others(t) /\ thread'[t].pc = "lock" /\ thread'[t].op = "verify"
        /\ thread'[t].event = thread[t].event
    BY <1>1, <2>1, StartGoes
  <2>3. RequestOK(t)'
    BY <1>1, <2>2 DEF RequestOK, Sure, Working, Middle, AckInv
  <2> QED
    BY <1>1, <1>2, <2>2, <2>3, AckFrame
<1> QED
  BY <1>3, <1>4

\* Resets and restarts take back nothing a sender was told.
LEMMA ResetsKeepAcks ==
    ASSUME Typed, AckInv, [Next]_vars,
           \/ \E p \in Processes : ResetDemo(p) \/ Crash(p)
           \/ UNCHANGED vars
    PROVE  AckInv'
<1>1. DOMAIN log \subseteq DOMAIN log' /\ \A i \in DOMAIN log : log'[i] = log[i]
  BY LogKept
<1>2. ScopesAgree' /\ UNCHANGED unacked
  BY ScopesAgreeStep DEF AckInv, ResetDemo, Crash, vars
<1>3. AcknowledgedIsRecorded'
  BY <1>1, <1>2, RecordsStay DEF AckInv, AcknowledgedIsRecorded, Recorded, Tells
<1>4. \A i \in DOMAIN log' : DriftRow(log'[i])
  <2>1. CASE UNCHANGED log
    BY <2>1 DEF AckInv
  <2>2. CASE log' = Append(log, ResetRow(log))
    <3>1. /\ Len(log) \in Nat /\ DOMAIN log = 1 .. Len(log) /\ DOMAIN log' = 1 .. Len(log) + 1
          /\ log'[Len(log) + 1] = ResetRow(log)
      BY <2>2, Appended DEF Typed, LogOK
    <3>2. DriftRow(ResetRow(log))
      BY DEF DriftRow, ResetRow
    <3>3. \A k \in DOMAIN log' : k \in DOMAIN log \/ k = Len(log) + 1
      BY <3>1
    <3> QED
      BY <1>1, <3>1, <3>2, <3>3 DEF AckInv
  <2> QED
    BY <2>1, <2>2 DEF ResetDemo, Crash, vars
<1>5. ASSUME NEW u \in Threads PROVE RequestOK(u)'
  <2>1. CASE thread'[u] = thread[u]
    BY <1>1, <2>1, RequestStays DEF AckInv
  <2>2. CASE thread'[u] = IdleThread
    <3>1. thread'[u].event = None /\ thread'[u].pc = "idle" /\ thread'[u].op = None
      BY <2>2 DEF IdleThread
    <3> QED
      BY <3>1 DEF RequestOK, Sure, Working, Middle
  <2> QED
    BY <2>1, <2>2 DEF ResetDemo, Crash, vars
<1> QED
  BY <1>2, <1>3, <1>4, <1>5 DEF AckInv

\* Every step keeps what the senders were told.
LEMMA AcksStep ==
    ASSUME ReusedIdsStandAlone, Typed, AckInv, [Next]_vars
    PROVE  AckInv'
<1>1. ASSUME NEW t \in Threads, IngestStep(t) PROVE AckInv'
  BY <1>1, AskingKeepsAcks, RecheckKeepsAcks, AllocateKeepsAcks, DetectKeepsAcks, WorkKeepsAcks
     DEF IngestStep
<1>2. ASSUME NEW t \in Threads, AdvanceStep(t) PROVE AckInv'
  BY <1>2, StagesKeepAcks, WorkKeepsAcks DEF AdvanceStep
<1>3. ASSUME NEW t \in Threads, VerifyStep(t) PROVE AckInv'
  BY <1>3, StagesKeepAcks, VerifyKeepsAcks DEF VerifyStep
<1>4. ASSUME NEW t \in Threads, Unreadable(t) \/ Fault(t) PROVE AckInv'
  BY <1>4, ExceptionsKeepAcks DEF Unreadable, Fault
<1>5. ASSUME NEW t \in Threads, NEW e \in Events, Deliver(t, e) PROVE AckInv'
  BY <1>5, ArrivalsKeepAcks
<1>6. ASSUME NEW t \in Threads, NEW c \in CaseIds, StartVerify(t, c) PROVE AckInv'
  BY <1>6, ArrivalsKeepAcks
<1>7. ASSUME NEW p \in Processes, ResetDemo(p) \/ Crash(p) PROVE AckInv'
  BY <1>7, ResetsKeepAcks
<1>8. CASE UNCHANGED vars
  BY <1>8, ResetsKeepAcks
<1> QED
  BY <1>1, <1>2, <1>3, <1>4, <1>5, <1>6, <1>7, <1>8 DEF Next, Step, Quiescent

\* Initially nobody was told anything.
LEMMA AcksInit == Init => AckInv
<1> SUFFICES ASSUME Init PROVE AckInv
  OBVIOUS
<1>1. log = <<>> /\ unacked = Events /\ \A t \in Threads : thread[t] = IdleThread
  BY DEF Init
<1>2. DOMAIN log = {}
  BY <1>1, ShortSeqs
<1>3. ASSUME NEW t \in Threads PROVE RequestOK(t)
  <2>1. thread[t].event = None /\ thread[t].pc = "idle" /\ thread[t].op = None
    BY <1>1 DEF IdleThread
  <2> QED
    BY <2>1 DEF RequestOK, Sure, Working, Middle
<1> QED
  BY <1>1, <1>2, <1>3 DEF AckInv, ScopesAgree, AcknowledgedIsRecorded

\* Whoever is told that a schema change is accepted may forget it: it is on
\* record, exactly as it was sent.  For any number of processes, threads, faults,
\* crashes, resets and duplicates; only an event id that is reused for another
\* change of a drift whose display id another drift has taken over is excepted.
THEOREM AcknowledgedChangesAreRecorded ==
    ASSUME ReusedIdsStandAlone
    PROVE  Spec => []AcknowledgedIsRecorded
<1>1. Typed /\ AckInv /\ [Next]_vars => Typed' /\ AckInv'
  BY AcksStep, TypedStep
<1>2. Init => Typed /\ AckInv
  BY AcksInit, TypedInit
<1>3. AckInv => AcknowledgedIsRecorded
  BY DEF AckInv
<1> QED
  BY <1>1, <1>2, <1>3, PTL DEF Spec


-------------------------------------------------------------------------------
(***************************************************************************)
(* The stages of an advance and of a verification.                         *)
(***************************************************************************)
\* How far a case has come; a step never goes back, and there is no step from
\* one end of a case to another.
Rank == [DETECTED |-> 0, CONTEXT_GATHERED |-> 1, CANDIDATES_READY |-> 2, VALIDATING |-> 3,
         PATCH_READY |-> 4, PR_OPEN |-> 5, DEPLOYED |-> 6, POST_DEPLOY_VERIFIED |-> 7,
         RESOLVED |-> 8, CONTAINED |-> 8, FAILED |-> 8]
Before(s, u) == s = u \/ Rank[s] < Rank[u]

\* What the rows of a case say, for any rows: RowsOf(c, type) is RowsIn(log, c, type).
RowsIn(rows, c, type) == {i \in ActiveRows(rows, c) : rows[i].event_type = type}
Standing(rows, c) == CurrentState(rows, c) \notin TerminalStates
Passed(p) == [id |-> p, outcome |-> "ELIGIBLE"]
Eligibly(rows, c, p) ==
    \E i \in RowsIn(rows, c, "CANDIDATE_ASSESSED") : rows[i].payload = Passed(p)

\* What can be said of a row, or of a call, by itself.
Sound(row) ==
    /\ row.event_type = "CANDIDATES_READY" => row.payload.proposals # {}
    /\ row.event_type = "CANDIDATE_ASSESSED" => row.payload.outcome # "NONE"
    /\ row.event_type = "EVIDENCE_WRITTEN" => row.payload \in [status : Status]

\* The case has not recorded this yet, and has what it rests on.
Fresh(rows, c, call) ==
    \A i \in RowsIn(rows, c, call.event_type) :
        \/ call.event_type = "PR_ATTEMPTED"
        \/ call.event_type = "CANDIDATE_ASSESSED" /\ rows[i].payload.id # call.payload.id
Due(rows, c, call) ==
    /\ Fresh(rows, c, call) /\ Sound(call)
    /\ call.event_type = "PATCH_READY" => Eligibly(rows, c, call.payload.selected)
    /\ call.event_type = "EVIDENCE_WRITTEN" => RowsIn(rows, c, "PATCH_READY") # {}

\* The places from which a case is still to be ended or moved.
Underway == {"context", "candidates", "validate", "load", "assess", "select", "evidence",
             "pull_request", "contain", "final_evidence", "resolve"}

\* A thread knows every assessment that is recorded, or in done, and takes no
\* other proposal for eligible.
Known(rows, r, done) ==
    \A p \in Proposals :
        /\ \/ \E i \in RowsIn(rows, r.case_id, "CANDIDATE_ASSESSED") : rows[i].payload.id = p
           \/ \E d \in done : d.id = p
           => r.assessed[p] # "NONE"
        /\ r.assessed[p] = "ELIGIBLE" => Eligibly(rows, r.case_id, p) \/ Passed(p) \in done

\* What the last of the queued events is for.
Leads(rows, r, call) ==
    /\ r.next # "select"
    /\ r.next = "assess" =>
          call.event_type = "CANDIDATE_ASSESSED" /\ Known(rows, r, {call.payload})
    /\ r.next = "evidence" => call.event_type = "PATCH_READY"
    /\ r.next = "pull_request" =>
          call.event_type = "EVIDENCE_WRITTEN" /\ Ready(call.payload.status)

\* The queued events: one, or one and then the end it leads to.
FirstTypes  == {"INCIDENT_RAISED", "EVIDENCE_WRITTEN", "DEPLOYMENT_RECORDED"}
SecondTypes == {"FAILED", "POST_DEPLOY_VERIFIED"}
Goal(r, call) ==
    r.next = "finish" \/ (r.next \in Underway /\ call.state \notin TerminalStates)
PlanOne(rows, r, call) ==
    /\ r.pending = <<call>> /\ Due(rows, r.case_id, call)
    /\ Leads(rows, r, call) /\ Goal(r, call)
PlanTwo(rows, r, call, second) ==
    /\ r.pending = <<call, second>>
    /\ Due(rows, r.case_id, call) /\ Due(rows, r.case_id, second)
    /\ call.event_type \in FirstTypes /\ second.event_type \in SecondTypes
    /\ r.next \in {"finish", "final_evidence"} /\ Goal(r, second)

\* What holds of a thread where it is.
StageOf(rows, r) ==
    /\ r.pc \in Underway \cup {"append"} => Standing(rows, r.case_id)
    /\ r.pc \in {"assess", "select"} => Known(rows, r, {})
    /\ r.pc = "evidence" => RowsIn(rows, r.case_id, "PATCH_READY") # {}
    /\ r.pc = "pull_request" =>
          \E k \in RowsIn(rows, r.case_id, "EVIDENCE_WRITTEN") : Ready(rows[k].payload.status)
    /\ r.pc = "append" =>
          \/ \E call : PlanOne(rows, r, call)
          \/ \E call, second : PlanTwo(rows, r, call, second)

\* A patch rests on an eligible proposal, an evidence report on a patch.
Backed(rows, c) ==
    /\ \A j \in RowsIn(rows, c, "PATCH_READY") :
          \E i \in RowsIn(rows, c, "CANDIDATE_ASSESSED") :
              i < j /\ rows[i].payload = Passed(rows[j].payload.selected)
    /\ \A k \in RowsIn(rows, c, "EVIDENCE_WRITTEN") :
          \E j \in RowsIn(rows, c, "PATCH_READY") : j < k

\* The rows of a case in the order of their states.
Ordered(rows, c) ==
    \A i, j \in ActiveRows(rows, c) : i < j => Before(rows[i].state, rows[j].state)

LogInv ==
    /\ ScopesAgree
    /\ \A i \in DOMAIN log : log[i].reset_scope \in 0 .. i - 1
    /\ \A i \in DOMAIN log : Sound(log[i])
    /\ \A c \in CaseIds : Ordered(log, c) /\ Backed(log, c)
    /\ CheckpointsOnce
StagesInv == LogInv /\ \A t \in Threads : StageOf(log, thread[t])

\* A thread elsewhere has nothing to keep.
LEMMA StageElsewhere ==
    ASSUME NEW rows, NEW r, r.pc \notin Underway \cup {"append"}
    PROVE  StageOf(rows, r)
  BY DEF StageOf, Underway

\* The places where there is something to keep are behind the lock.
LEMMA UnderwayIsLocked == Underway \cup {"append"} \subseteq Working \cap Locked
  BY DEF Underway, Working, Middle, Locked

\* With one process one request at a time is behind the lock.
LEMMA OneAtWork ==
    ASSUME OneProcess, Typed, LockHeld, NEW t \in Threads, thread[t].pc \in Locked,
           NEW u \in Threads \ {t}
    PROVE  thread[u].pc \notin Locked
<1>1. ProcessOf[t] = ProcessOf[u]
  BY WorkflowConstants DEF OneProcess
<1> QED
  BY <1>1 DEF LockHeld

\* The rank of a state, and the ends of a case.
LEMMA Ranks ==
    /\ \A s \in CaseState : Rank[s] \in Nat /\ Rank[s] <= 8
    /\ \A s \in CaseState : Rank[s] = 8 <=> s \in TerminalStates
    /\ \A s \in CaseState : \A u \in ALLOWED_TRANSITIONS[s] : u \in CaseState /\ Rank[s] < Rank[u]
<1>1. ASSUME NEW s \in CaseState
      PROVE  /\ Rank[s] \in Nat /\ Rank[s] <= 8 /\ (Rank[s] = 8 <=> s \in TerminalStates)
  BY DEF CaseState, Rank, TerminalStates
<1>2. ASSUME NEW s \in CaseState, NEW u \in ALLOWED_TRANSITIONS[s]
      PROVE  u \in CaseState /\ Rank[s] < Rank[u]
  <2>1. CASE s = "DETECTED"
    BY <1>2, <2>1 DEF CaseState, Rank, ALLOWED_TRANSITIONS, Refusals
  <2>2. CASE s = "CONTEXT_GATHERED"
    BY <1>2, <2>2 DEF CaseState, Rank, ALLOWED_TRANSITIONS, Refusals
  <2>3. CASE s = "CANDIDATES_READY"
    BY <1>2, <2>3 DEF CaseState, Rank, ALLOWED_TRANSITIONS, Refusals
  <2>4. CASE s = "VALIDATING"
    BY <1>2, <2>4 DEF CaseState, Rank, ALLOWED_TRANSITIONS, Refusals
  <2>5. CASE s = "PATCH_READY"
    BY <1>2, <2>5 DEF CaseState, Rank, ALLOWED_TRANSITIONS, Refusals
  <2>6. CASE s = "PR_OPEN"
    BY <1>2, <2>6 DEF CaseState, Rank, ALLOWED_TRANSITIONS, Refusals
  <2>7. CASE s = "DEPLOYED"
    BY <1>2, <2>7 DEF CaseState, Rank, ALLOWED_TRANSITIONS, Refusals
  <2>8. CASE s = "POST_DEPLOY_VERIFIED"
    BY <1>2, <2>8 DEF CaseState, Rank, ALLOWED_TRANSITIONS, Refusals
  <2>9. CASE s \in TerminalStates
    BY <1>2, <2>9 DEF TerminalStates, ALLOWED_TRANSITIONS
  <2> QED
    BY <2>1, <2>2, <2>3, <2>4, <2>5, <2>6, <2>7, <2>8, <2>9 DEF CaseState, TerminalStates
<1> QED
  BY <1>1, <1>2

\* Every event is recorded in a state.
LEMMA EventStates == \A type \in CaseEvents : EventState[type] \in CaseState
  BY DEF CaseEvents, EventState, CaseState

\* The state of a case is that of its last row, and no row is beyond it.
LEMMA StateIsLast ==
    ASSUME LogOK, NEW c \in CaseIds, Ordered(log, c), ActiveRows(log, c) # {}
    PROVE  /\ CurrentState(log, c) \in CaseState
           /\ \A i \in ActiveRows(log, c) :
                 log[i].state \in CaseState /\ Before(log[i].state, CurrentState(log, c))
<1> DEFINE S == ActiveRows(log, c)
           m == Max(S)
<1>1. Len(log) \in Nat /\ S \in SUBSET (0 .. Len(log)) /\ S \subseteq DOMAIN log
  BY ScopeIsLastReset DEF LogOK, ActiveRows
<1>2. m \in S /\ \A i \in S : i <= m
  BY <1>1, MaxIsGreatest
<1>3. CurrentState(log, c) = log[m].state
  BY DEF CurrentState
<1>4. \A i \in S : log[i].case_id = c
  BY DEF ActiveRows
<1> HIDE DEF m
<1>5. ASSUME NEW i \in S PROVE log[i].state \in CaseState
  <2>1. RowOK(log[i]) /\ log[i].case_id = c
    BY <1>1, <1>4, <1>5 DEF LogOK
  <2>2. log[i].event_type # "SYSTEM_RESET"
    BY <2>1, NoneIsNothingElse DEF RowOK
  <2>3. log[i].event_type \in CaseEvents
    BY <2>1, <2>2 DEF RowOK, EventType
  <2> QED
    BY <2>1, <2>2, <2>3, EventStates DEF RowOK
<1>6. ASSUME NEW i \in S PROVE Before(log[i].state, log[m].state)
  <2>1. i = m \/ i < m
    BY <1>1, <1>2
  <2> QED
    BY <1>2, <2>1 DEF Ordered, Before
<1> QED
  BY <1>2, <1>3, <1>5, <1>6

\* So a case that is short of a state has recorded no event of that state.
LEMMA NotYet ==
    ASSUME LogOK, NEW c \in CaseIds, Ordered(log, c), NEW type \in CaseEvents,
           ~Before(EventState[type], CurrentState(log, c))
    PROVE  RowsIn(log, c, type) = {}
<1> SUFFICES ASSUME NEW i \in RowsIn(log, c, type) PROVE FALSE
  OBVIOUS
<1>1. i \in ActiveRows(log, c) /\ log[i].event_type = type /\ i \in DOMAIN log
  BY DEF RowsIn, ActiveRows
<1>2. type # "SYSTEM_RESET"
  BY DEF CaseEvents, EventState
<1>3. log[i].state = EventState[type]
  BY <1>1, <1>2 DEF LogOK, RowOK
<1> QED
  BY <1>1, <1>3, StateIsLast

\* In particular nothing final, while the case stands.
LEMMA NothingFinal ==
    ASSUME LogOK, NEW c \in CaseIds, Ordered(log, c), Standing(log, c),
           NEW type \in {"CONTAINED", "FAILED", "INCIDENT_RESOLVED"}
    PROVE  RowsIn(log, c, type) = {}
<1>1. type \in CaseEvents /\ EventState[type] \in TerminalStates
  BY DEF CaseEvents, EventState, TerminalStates
<1>2. CASE ActiveRows(log, c) = {}
  BY <1>2 DEF RowsIn
<1>3. CASE ActiveRows(log, c) # {}
  <2>1. CurrentState(log, c) \in CaseState /\ CurrentState(log, c) \notin TerminalStates
    BY <1>3, StateIsLast DEF Standing
  <2>2. EventState[type] \in CaseState
    BY <1>1, EventStates
  <2>3. ~Before(EventState[type], CurrentState(log, c))
    BY <1>1, <2>1, <2>2, Ranks DEF Before
  <2> QED
    BY <1>1, <2>3, NotYet
<1> QED
  BY <1>2, <1>3

\* An append adds its row to those of its case and type, and sets the state of the
\* case; other rows and other cases stay as they are.
LEMMA RowsGrow ==
    ASSUME LogOK, NEW row, row.event_type # "SYSTEM_RESET", log' = Append(log, row)
    PROVE  /\ Len(log) + 1 \notin DOMAIN log /\ log'[Len(log) + 1] = row
           /\ \A i \in DOMAIN log : log'[i] = log[i] /\ i < Len(log) + 1
           /\ \A c, type : RowsIn(log, c, type) \subseteq DOMAIN log
           /\ \A c, type : c # row.case_id \/ type # row.event_type =>
                 RowsIn(log', c, type) = RowsIn(log, c, type)
           /\ \A c, type : c = row.case_id /\ type = row.event_type =>
                 RowsIn(log', c, type) = RowsIn(log, c, type) \cup {Len(log) + 1}
           /\ \A c : c = row.case_id => CurrentState(log', c) = row.state
<1> DEFINE n == Len(log) + 1
<1>1. /\ Len(log) \in Nat /\ DOMAIN log = 1 .. Len(log) /\ DOMAIN log' = 1 .. Len(log) + 1
      /\ log'[n] = row /\ \A i \in DOMAIN log : log'[i] = log[i]
      /\ \A c : ActiveRows(log, c) \subseteq DOMAIN log
      /\ \A c : c # row.case_id => ActiveRows(log', c) = ActiveRows(log, c)
      /\ \A c : c = row.case_id => ActiveRows(log', c) = ActiveRows(log, c) \cup {n}
  BY RowAdded
<1>2. n \notin DOMAIN log /\ n \in Nat /\ \A i \in DOMAIN log : i < n /\ i \in Nat
  BY <1>1
<1> HIDE DEF n
<1>3. \A c, type : RowsIn(log, c, type) \subseteq DOMAIN log
  BY <1>1 DEF RowsIn
<1>4. ASSUME NEW c, NEW type, c # row.case_id
      PROVE  RowsIn(log', c, type) = RowsIn(log, c, type)
  BY <1>1, <1>4 DEF RowsIn
<1>5. ASSUME NEW c, NEW type, c = row.case_id, type # row.event_type
      PROVE  RowsIn(log', c, type) = RowsIn(log, c, type)
  <2>1. \A i \in ActiveRows(log', c) : i \in ActiveRows(log, c) \/ i = n
    BY <1>1, <1>5
  <2>2. ActiveRows(log, c) \subseteq ActiveRows(log', c)
    BY <1>1, <1>5
  <2>3. \A i \in ActiveRows(log, c) : log'[i] = log[i]
    BY <1>1
  <2> QED
    BY <1>1, <1>5, <2>1, <2>2, <2>3 DEF RowsIn
<1>6. ASSUME NEW c, NEW type, c = row.case_id, type = row.event_type
      PROVE  RowsIn(log', c, type) = RowsIn(log, c, type) \cup {n}
  BY <1>1, <1>6 DEF RowsIn
<1>7. ASSUME NEW c, c = row.case_id PROVE CurrentState(log', c) = row.state
  <2> DEFINE S == ActiveRows(log', c)
  <2>1. S = ActiveRows(log, c) \cup {n} /\ S \in SUBSET (0 .. n) /\ n \in S
    BY <1>1, <1>2, <1>7
  <2> HIDE DEF S
  <2>2. Max(S) \in S /\ \A i \in S : i <= Max(S)
    BY <1>2, <2>1, MaxIsGreatest
  <2>3. Max(S) = n
    <3> DEFINE m == Max(S)
    <3>1. m \in S /\ n <= m
      BY <2>1, <2>2
    <3> HIDE DEF m
    <3>2. m \in 0 .. n
      BY <2>1, <3>1
    <3>3. m = n
      BY <1>2, <3>1, <3>2
    <3> QED
      BY <3>3 DEF m
  <2>4. S # {}
    BY <2>1
  <2> QED
    BY <1>1, <2>3, <2>4 DEF CurrentState, S
<1> QED
  BY <1>1, <1>2, <1>3, <1>4, <1>5, <1>6, <1>7 DEF n

\* An accepted event keeps what is known of the log.
LEMMA AppendKeepsLog ==
    ASSUME Typed, LogInv, [Next]_vars, NEW call, NEW row, NEW c \in CaseIds,
           c = call.case_id, Accepted(log, call), Due(log, c, call),
           call.event_type \in CaseEvents, call.state = EventState[call.event_type],
           row = NewRow(log, call), log' = Append(log, row)
    PROVE  LogInv'
<1> DEFINE n == Len(log) + 1
           type == call.event_type
<1>1. /\ row.event_type = type /\ row.case_id = c /\ row.state = call.state
      /\ row.payload = call.payload /\ row.reset_scope = CurrentScope(log)
      /\ row.event_type # "SYSTEM_RESET"
  BY DEF NewRow, CaseEvents, EventState
<1>2. LogOK
  BY DEF Typed
<1>3. /\ n \notin DOMAIN log /\ log'[n] = row
      /\ \A i \in DOMAIN log : log'[i] = log[i] /\ i < n
      /\ \A b, k : RowsIn(log, b, k) \subseteq DOMAIN log
      /\ \A b, k : b # c \/ k # type => RowsIn(log', b, k) = RowsIn(log, b, k)
      /\ RowsIn(log', c, type) = RowsIn(log, c, type) \cup {n}
  BY <1>1, <1>2, RowsGrow
<1>4. /\ Len(log) \in Nat /\ DOMAIN log = 1 .. Len(log) /\ DOMAIN log' = 1 .. n
      /\ CurrentScope(log) \in 0 .. Len(log)
      /\ \A b : ActiveRows(log, b) \subseteq DOMAIN log
      /\ \A b : b # c => ActiveRows(log', b) = ActiveRows(log, b)
      /\ ActiveRows(log', c) = ActiveRows(log, c) \cup {n}
  BY <1>1, <1>2, RowAdded
<1>5. \A i \in DOMAIN log' : i \in DOMAIN log \/ i = n
  BY <1>4
<1>6. row.reset_scope \in 0 .. n - 1
  BY <1>1, <1>4
<1> HIDE DEF n
<1>7. \A i \in DOMAIN log' : log'[i].reset_scope \in 0 .. i - 1
  BY <1>3, <1>5, <1>6 DEF LogInv
<1>8. Sound(row)
  BY <1>1 DEF Due, Sound
<1>9. \A i \in DOMAIN log' : Sound(log'[i])
  BY <1>3, <1>5, <1>8 DEF LogInv
<1>10. ScopesAgree'
  BY ScopesAgreeStep DEF LogInv
<1>11. ASSUME NEW b \in CaseIds PROVE Ordered(log', b)
  <2>1. CASE b # c
    BY <1>3, <1>4, <2>1 DEF LogInv, Ordered
  <2>2. CASE b = c
    <3>1. ASSUME NEW i \in ActiveRows(log, c) PROVE Before(log[i].state, row.state)
      <4> DEFINE s == CurrentState(log, c)
      <4>1. s \in CaseState /\ log[i].state \in CaseState /\ Before(log[i].state, s)
        BY <1>2, <3>1, StateIsLast DEF LogInv
      <4>2. ValidTransition(s, row.state) /\ s # None
        BY <1>1, <4>1, NoneIsNoState DEF Accepted
      <4> HIDE DEF s
      <4>3. row.state = s \/ (row.state \in CaseState /\ Rank[s] < Rank[row.state])
        BY <4>1, <4>2, Ranks DEF ValidTransition
      <4>4. CASE row.state = s
        BY <4>1, <4>4
      <4>5. CASE row.state \in CaseState /\ Rank[s] < Rank[row.state]
        <5>1. Rank[s] \in Nat /\ Rank[log[i].state] \in Nat /\ Rank[row.state] \in Nat
          BY <4>1, <4>5, Ranks
        <5> QED
          BY <4>1, <4>5, <5>1 DEF Before
      <4> QED
        BY <4>3, <4>4, <4>5
    <3>2. ASSUME NEW i \in ActiveRows(log', c), NEW j \in ActiveRows(log', c), i < j
          PROVE  Before(log'[i].state, log'[j].state)
      <4>1. (i \in ActiveRows(log, c) /\ i \in DOMAIN log) \/ i = n
        BY <1>4
      <4>2. (j \in ActiveRows(log, c) /\ j \in DOMAIN log) \/ j = n
        BY <1>4
      <4>3. i # n
        <5>1. \A x \in DOMAIN log : x \in Nat /\ x < n
          BY <1>3, <1>4
        <5>2. n \in Nat
          BY <1>4 DEF n
        <5> QED
          BY <3>2, <4>2, <5>1, <5>2
      <4>4. CASE j = n
        BY <1>3, <3>1, <4>1, <4>3, <4>4
      <4>5. CASE j # n
        BY <1>3, <3>2, <4>1, <4>2, <4>3, <4>5 DEF LogInv, Ordered
      <4> QED
        BY <4>4, <4>5
    <3> QED
      BY <2>2, <3>2 DEF Ordered
  <2> QED
    BY <2>1, <2>2
<1>12. ASSUME NEW b \in CaseIds PROVE Backed(log', b)
  <2>1. Backed(log, b)
    BY DEF LogInv
  <2>2. ASSUME NEW j \in RowsIn(log', b, "PATCH_READY")
        PROVE  \E i \in RowsIn(log', b, "CANDIDATE_ASSESSED") :
                   i < j /\ log'[i].payload = Passed(log'[j].payload.selected)
    <3>1. CASE j \in RowsIn(log, b, "PATCH_READY")
      <4>1. PICK i \in RowsIn(log, b, "CANDIDATE_ASSESSED") :
              i < j /\ log[i].payload = Passed(log[j].payload.selected)
        BY <2>1, <3>1 DEF Backed
      <4>2. i \in RowsIn(log', b, "CANDIDATE_ASSESSED") /\ log'[i] = log[i] /\ log'[j] = log[j]
        BY <1>3, <3>1
      <4> QED
        BY <4>1, <4>2
    <3>2. CASE j \notin RowsIn(log, b, "PATCH_READY")
      <4>1. b = c /\ type = "PATCH_READY" /\ j = n
        BY <1>3, <2>2, <3>2
      <4>2. PICK i \in RowsIn(log, c, "CANDIDATE_ASSESSED") :
              log[i].payload = Passed(row.payload.selected)
        BY <1>1, <4>1 DEF Due, Eligibly
      <4>3. i \in RowsIn(log', c, "CANDIDATE_ASSESSED") /\ log'[i] = log[i] /\ i < n
        BY <1>3
      <4> QED
        BY <1>3, <4>1, <4>2, <4>3
    <3> QED
      BY <3>1, <3>2
  <2>3. ASSUME NEW k \in RowsIn(log', b, "EVIDENCE_WRITTEN")
        PROVE  \E j \in RowsIn(log', b, "PATCH_READY") : j < k
    <3>1. CASE k \in RowsIn(log, b, "EVIDENCE_WRITTEN")
      <4>1. PICK j \in RowsIn(log, b, "PATCH_READY") : j < k
        BY <2>1, <3>1 DEF Backed
      <4>2. j \in RowsIn(log', b, "PATCH_READY")
        BY <1>3
      <4> QED
        BY <4>1, <4>2
    <3>2. CASE k \notin RowsIn(log, b, "EVIDENCE_WRITTEN")
      <4>1. b = c /\ type = "EVIDENCE_WRITTEN" /\ k = n
        BY <1>3, <2>3, <3>2
      <4>2. PICK j \in RowsIn(log, c, "PATCH_READY") : TRUE
        BY <4>1 DEF Due
      <4>3. j \in RowsIn(log', c, "PATCH_READY") /\ j < n
        BY <1>3
      <4> QED
        BY <4>1, <4>3
    <3> QED
      BY <3>1, <3>2
  <2> QED
    BY <2>2, <2>3 DEF Backed
<1>13. CheckpointsOnce'
  <2> SUFFICES ASSUME NEW i \in DOMAIN log', NEW j \in DOMAIN log', i < j,
                      log'[i].case_id = log'[j].case_id,
                      log'[i].reset_scope = log'[j].reset_scope,
                      log'[i].event_type = log'[j].event_type
               PROVE  \/ log'[i].event_type \in {"PR_ATTEMPTED", "SYSTEM_RESET"}
                      \/ /\ log'[i].event_type = "CANDIDATE_ASSESSED"
                         /\ log'[i].payload.id # log'[j].payload.id
    BY DEF CheckpointsOnce, SameStream
  <2>1. i \in DOMAIN log
    <3>1. j <= n /\ n \in Nat /\ j \in Nat /\ i \in Nat
      BY <1>4 DEF n
    <3> QED
      BY <1>5, <3>1
  <2>2. CASE j \in DOMAIN log
    <3>1. log'[i] = log[i] /\ log'[j] = log[j]
      BY <1>3, <2>1, <2>2
    <3> QED
      BY <2>1, <2>2, <3>1 DEF LogInv, CheckpointsOnce, SameStream
  <2>3. CASE j = n
    <3>1. log[i].case_id = c /\ log[i].reset_scope = CurrentScope(log) /\ log[i].event_type = type
          /\ log'[i] = log[i]
      BY <1>1, <1>3, <2>1, <2>3
    <3>2. i > CurrentScope(log)
      <4>1. CurrentScope(log) \in 0 .. i - 1 /\ i \in Nat
        BY <1>4, <2>1, <3>1 DEF LogInv
      <4> QED
        BY <4>1
    <3>3. i \in RowsIn(log, c, type)
      BY <2>1, <3>1, <3>2 DEF RowsIn, ActiveRows
    <3> QED
      BY <1>1, <1>3, <2>3, <3>1, <3>3 DEF Due, Fresh
  <2> QED
    BY <1>5, <2>2, <2>3
<1> QED
  BY <1>7, <1>9, <1>10, <1>11, <1>12, <1>13 DEF LogInv

\* The append of a queued event takes its thread to the place it leads to.
LEMMA AppendedStage ==
    ASSUME Typed, LogInv, NEW t \in Threads, thread[t].pc = "append", StageOf(log, thread[t]),
           NEW r, r = thread'[t], Keeps(t), Remembers(t),
           r.pc = IF Len(thread[t].pending) = 1 THEN thread[t].next ELSE "append",
           r.pending = Tail(thread[t].pending), r.next = thread[t].next,
           NEW row, row = NewRow(log, Head(thread[t].pending)), log' = Append(log, row)
    PROVE  StageOf(log', r) /\ Due(log, thread[t].case_id, Head(thread[t].pending))
<1> DEFINE n == Len(log) + 1
<1>0. PICK q : q = thread[t]
  OBVIOUS
<1>00. PICK c : c = q.case_id
  OBVIOUS
<1>1. /\ c = thread[t].case_id /\ c \in CaseIds /\ r.case_id = c
      /\ r.assessed = q.assessed /\ r.next = q.next
  <2>1. ThreadOK(thread[t])
    BY DEF Typed, ThreadsOK
  <2>2. c \in CaseIds
    BY <1>0, <1>00, <2>1 DEF ThreadOK, Working
  <2> QED
    BY <1>0, <1>00, <2>2 DEF Keeps, Remembers
<1>2. LogOK
  BY DEF Typed
<1>3. PICK call : call = Head(q.pending)
  OBVIOUS
<1>4. CallOK(call) /\ call.case_id = c
  <2>1. ThreadOK(q)
    BY <1>0 DEF Typed, ThreadsOK
  <2>2. IsSeq(q.pending) /\ q.pending # <<>>
    BY <1>0, <2>1 DEF ThreadOK
  <2>3. 1 \in DOMAIN q.pending /\ call = q.pending[1]
    BY <1>3, <2>2, Tailed
  <2> QED
    BY <1>00, <2>1, <2>3 DEF ThreadOK
<1>5. /\ row.event_type = call.event_type /\ row.case_id = c /\ row.state = call.state
      /\ row.payload = call.payload /\ row.event_type # "SYSTEM_RESET"
  <2>1. call.event_type # "SYSTEM_RESET"
    BY <1>4 DEF CallOK, CaseEvents, EventState
  <2> QED
    BY <1>0, <1>3, <1>4, <2>1 DEF NewRow
<1>6. /\ log'[n] = row
      /\ \A i \in DOMAIN log : log'[i] = log[i]
      /\ \A b, k : RowsIn(log, b, k) \subseteq DOMAIN log
      /\ \A k : k # call.event_type => RowsIn(log', c, k) = RowsIn(log, c, k)
      /\ \A k : k = call.event_type => RowsIn(log', c, k) = RowsIn(log, c, k) \cup {n}
      /\ CurrentState(log', c) = call.state
  BY <1>2, <1>5, RowsGrow
<1> HIDE DEF n
<1>7. ASSUME NEW one, PlanOne(log, q, one)
      PROVE  StageOf(log', r) /\ Due(log, c, call)
  <2>1. one = call /\ Len(q.pending) = 1
    BY <1>3, <1>7 DEF PlanOne
  <2>2. /\ Due(log, c, call) /\ Leads(log, q, call) /\ Goal(q, call) /\ r.pc = q.next
    BY <1>0, <1>00, <1>7, <2>1 DEF PlanOne
  <2>3. CASE q.next = "finish"
    BY <2>2, <2>3, StageElsewhere DEF Underway
  <2>4. CASE q.next # "finish"
    <3>1. r.pc \in Underway /\ Standing(log', c) /\ r.pc # "append" /\ r.pc # "select"
      BY <1>6, <2>2, <2>4 DEF Goal, Standing, Underway, Leads
    <3>2. r.pc = "assess" => Known(log', r, {})
      <4> SUFFICES ASSUME q.next = "assess" PROVE Known(log', r, {})
        BY <2>2
      <4>1. call.event_type = "CANDIDATE_ASSESSED" /\ Known(log, q, {call.payload})
        BY <2>2 DEF Leads
      <4>2. RowsIn(log', c, "CANDIDATE_ASSESSED") = RowsIn(log, c, "CANDIDATE_ASSESSED") \cup {n}
        BY <1>6, <4>1
      <4>3. ASSUME NEW p \in Proposals, NEW i \in RowsIn(log', c, "CANDIDATE_ASSESSED"),
                   log'[i].payload.id = p
            PROVE  r.assessed[p] # "NONE"
        <5>1. CASE i = n
          BY <1>1, <1>5, <1>6, <4>1, <4>3, <5>1 DEF Known
        <5>2. CASE i \in RowsIn(log, c, "CANDIDATE_ASSESSED")
          BY <1>00, <1>1, <1>6, <4>1, <4>3, <5>2 DEF Known
        <5> QED
          BY <4>2, <5>1, <5>2
      <4>4. ASSUME NEW p \in Proposals, r.assessed[p] = "ELIGIBLE"
            PROVE  Eligibly(log', c, p)
        <5>1. Eligibly(log, c, p) \/ Passed(p) = call.payload
          BY <1>00, <1>1, <4>1, <4>4 DEF Known
        <5>2. CASE Passed(p) = call.payload
          BY <1>5, <1>6, <4>2, <5>2 DEF Eligibly
        <5>3. CASE Eligibly(log, c, p)
          BY <1>6, <4>2, <5>3 DEF Eligibly
        <5> QED
          BY <5>1, <5>2, <5>3
      <4> QED
        BY <1>1, <4>3, <4>4 DEF Known
    <3>3. r.pc = "evidence" => RowsIn(log', c, "PATCH_READY") # {}
      BY <1>6, <2>2 DEF Leads
    <3>4. r.pc = "pull_request" =>
             \E k \in RowsIn(log', c, "EVIDENCE_WRITTEN") : Ready(log'[k].payload.status)
      <4> SUFFICES ASSUME q.next = "pull_request"
                   PROVE  \E k \in RowsIn(log', c, "EVIDENCE_WRITTEN") :
                              Ready(log'[k].payload.status)
        BY <2>2
      <4>1. call.event_type = "EVIDENCE_WRITTEN" /\ Ready(call.payload.status)
        BY <2>2 DEF Leads
      <4>2. n \in RowsIn(log', c, "EVIDENCE_WRITTEN")
        BY <1>6, <4>1
      <4>3. Ready(log'[n].payload.status)
        BY <1>5, <1>6, <4>1
      <4> QED
        BY <4>2, <4>3
    <3> QED
      BY <1>1, <2>2, <3>1, <3>2, <3>3, <3>4 DEF StageOf
  <2> QED
    BY <2>2, <2>3, <2>4
<1>8. ASSUME NEW first, NEW second, PlanTwo(log, q, first, second)
      PROVE  StageOf(log', r) /\ Due(log, c, call)
  <2>1. first = call /\ Len(q.pending) = 2 /\ Tail(q.pending) = <<second>>
    BY <1>3, <1>8 DEF PlanTwo
  <2>2. /\ Due(log, c, call) /\ Due(log, c, second)
        /\ call.event_type \in FirstTypes /\ second.event_type \in SecondTypes
        /\ q.next \in {"finish", "final_evidence"} /\ Goal(q, second)
    BY <1>00, <1>8, <2>1 DEF PlanTwo
  <2>3. r.pc = "append" /\ r.pending = <<second>>
    BY <1>0, <2>1
  <2>4. Standing(log', c)
    <3>1. call.state = EventState[call.event_type]
      BY <1>4 DEF CallOK
    <3>2. call.state \notin TerminalStates
      BY <2>2, <3>1 DEF FirstTypes, EventState, TerminalStates
    <3> QED
      BY <1>6, <3>2 DEF Standing
  <2>5. second.event_type # call.event_type
    BY <2>2 DEF FirstTypes, SecondTypes
  <2>6. Due(log', c, second)
    <3>1. RowsIn(log', c, second.event_type) = RowsIn(log, c, second.event_type)
      BY <1>6, <2>5
    <3>2. Fresh(log', c, second)
      BY <1>6, <2>2, <3>1 DEF Due, Fresh
    <3> QED
      BY <2>2, <3>2 DEF Due, SecondTypes
  <2>7. Leads(log', r, second) /\ Goal(r, second)
    BY <1>1, <2>2 DEF Leads, Goal
  <2>8. PlanOne(log', r, second)
    BY <1>1, <2>3, <2>6, <2>7 DEF PlanOne
  <2> QED
    BY <1>1, <2>2, <2>3, <2>4, <2>8 DEF StageOf, Underway
<1>9. (\E one : PlanOne(log, q, one)) \/ (\E one, second : PlanTwo(log, q, one, second))
  BY <1>0 DEF StageOf
<1> QED
  BY <1>0, <1>1, <1>3, <1>7, <1>8, <1>9

\* A call of a thread, field by field.
LEMMA CallFields ==
    ASSUME NEW t \in Threads, NEW type, NEW payload
    PROVE  /\ Call(t, type, payload).event_type = type
           /\ Call(t, type, payload).payload = payload
           /\ Call(t, type, payload).state = EventState[type]
  BY DEF Call, ProgressCall

\* A thread that goes on elsewhere, or queues one event, or two.
LEMMA GoesStage ==
    ASSUME NEW t \in Threads, NEW pc, Goes(t, pc), pc # "append",
           pc \in Underway => Standing(log, thread[t].case_id),
           pc \in {"assess", "select"} => Known(log, thread'[t], {}),
           pc = "evidence" => RowsIn(log, thread[t].case_id, "PATCH_READY") # {},
           pc = "pull_request" =>
              \E k \in RowsIn(log, thread[t].case_id, "EVIDENCE_WRITTEN") :
                  Ready(log[k].payload.status)
    PROVE  StageOf(log, thread'[t])
  BY DEF Goes, Keeps, StageOf

\* One event.
LEMMA PutsOne ==
    ASSUME NEW t \in Threads, NEW call, NEW next, Puts(t, <<call>>, next),
           Standing(log, thread[t].case_id), Due(log, thread[t].case_id, call),
           next = "finish" \/ (next \in Underway /\ call.state \notin TerminalStates),
           next # "select",
           next = "assess" => call.event_type = "CANDIDATE_ASSESSED"
                              /\ Known(log, thread'[t], {call.payload}),
           next = "evidence" => call.event_type = "PATCH_READY",
           next = "pull_request" =>
              call.event_type = "EVIDENCE_WRITTEN" /\ Ready(call.payload.status)
    PROVE  StageOf(log, thread'[t])
<1>1. PlanOne(log, thread'[t], call)
  BY DEF Puts, Keeps, PlanOne, Leads, Goal
<1> QED
  BY <1>1 DEF Puts, Keeps, StageOf, Underway

\* Two events.
LEMMA PutsTwo ==
    ASSUME NEW t \in Threads, NEW call, NEW second, NEW next, Puts(t, <<call, second>>, next),
           Standing(log, thread[t].case_id),
           Due(log, thread[t].case_id, call), Due(log, thread[t].case_id, second),
           call.event_type \in FirstTypes, second.event_type \in SecondTypes,
           \/ next = "finish"
           \/ next = "final_evidence" /\ second.state \notin TerminalStates
    PROVE  StageOf(log, thread'[t])
<1>1. PlanTwo(log, thread'[t], call, second)
  BY DEF Puts, Keeps, PlanTwo, Goal, Underway
<1> QED
  BY <1>1 DEF Puts, Keeps, StageOf, Underway

\* The failure of a case that stands, and most other events that it has no row of.
LEMMA DueCalls ==
    ASSUME LogOK, NEW c \in CaseIds, Ordered(log, c), Standing(log, c), NEW t \in Threads,
           NEW payload
    PROVE  /\ \A type \in {"FAILED", "CONTAINED", "INCIDENT_RESOLVED"} :
                 Due(log, c, Call(t, type, payload))
           /\ \A type \in {"INCIDENT_RAISED", "CONTEXT_GATHERED", "VALIDATION_STARTED",
                           "PR_OPENED", "DEPLOYMENT_RECORDED", "POST_DEPLOY_VERIFIED"} :
                 RowsIn(log, c, type) = {} => Due(log, c, Call(t, type, payload))
           /\ Due(log, c, Call(t, "PR_ATTEMPTED", payload))
<1>1. ASSUME NEW type, RowsIn(log, c, type) = {},
             type \notin {"CANDIDATES_READY", "CANDIDATE_ASSESSED", "PATCH_READY",
                          "EVIDENCE_WRITTEN"}
      PROVE  Due(log, c, Call(t, type, payload))
  <2> DEFINE call == Call(t, type, payload)
  <2>1. call.event_type = type
    BY CallFields
  <2> HIDE DEF call
  <2>2. Due(log, c, call)
    BY <1>1, <2>1 DEF Due, Fresh, Sound
  <2> QED
    BY <2>2 DEF call
<1>2. \A type \in {"FAILED", "CONTAINED", "INCIDENT_RESOLVED"} : RowsIn(log, c, type) = {}
  BY NothingFinal
<1>3. Due(log, c, Call(t, "PR_ATTEMPTED", payload))
  <2> DEFINE call == Call(t, "PR_ATTEMPTED", payload)
  <2>1. call.event_type = "PR_ATTEMPTED"
    BY CallFields
  <2> HIDE DEF call
  <2>2. Due(log, c, call)
    BY <2>1 DEF Due, Fresh, Sound
  <2> QED
    BY <2>2 DEF call
<1> QED
  BY <1>1, <1>2, <1>3

\* What a stage reads back of its case.
LEMMA ReadsBack ==
    ASSUME Typed, LogInv, NEW c
    PROVE  /\ Project(c).state = CurrentState(log, c)
           /\ Project(c).incident = None => RowsIn(log, c, "INCIDENT_RAISED") = {}
           /\ ~Project(c).hasContext => RowsIn(log, c, "CONTEXT_GATHERED") = {}
           /\ Project(c).proposals = {} => RowsIn(log, c, "CANDIDATES_READY") = {}
           /\ Project(c).hasPatch <=> RowsIn(log, c, "PATCH_READY") # {}
           /\ Project(c).writeback = None => RowsIn(log, c, "EVIDENCE_WRITTEN") = {}
           /\ Project(c).writeback # None =>
                 \E k \in RowsIn(log, c, "EVIDENCE_WRITTEN") :
                     log[k].payload = Project(c).writeback
           /\ ~Project(c).hasDraft => RowsIn(log, c, "PR_OPENED") = {}
<1>1. IsSeq(log) /\ \A i \in DOMAIN log : PayloadOK(log[i].event_type, log[i].payload)
  BY DEF Typed, LogOK, RowOK
<1>2. \A type : RowsOf(c, type) = RowsIn(log, c, type)
  BY DEF RowsOf, RowsIn
<1>3. \A type : \A i \in RowsIn(log, c, type) :
          i \in DOMAIN log /\ log[i].event_type = type /\ Sound(log[i])
  BY DEF RowsIn, ActiveRows, LogInv
<1>4. /\ Project(c).state = CurrentState(log, c)
      /\ Project(c).incident = LastOf(c, "INCIDENT_RAISED")
      /\ Project(c).writeback = LastOf(c, "EVIDENCE_WRITTEN")
      /\ Project(c).hasContext <=> RowsIn(log, c, "CONTEXT_GATHERED") # {}
      /\ Project(c).hasPatch <=> RowsIn(log, c, "PATCH_READY") # {}
      /\ Project(c).hasDraft <=> RowsIn(log, c, "PR_OPENED") # {}
      /\ RowsIn(log, c, "CANDIDATES_READY") # {} =>
            Project(c).proposals = LastOf(c, "CANDIDATES_READY").proposals
  <2>1. /\ Project(c).state = CurrentState(log, c)
        /\ Project(c).incident = LastOf(c, "INCIDENT_RAISED")
        /\ Project(c).writeback = LastOf(c, "EVIDENCE_WRITTEN")
    BY DEF Project
  <2>2. Project(c).hasContext <=> RowsIn(log, c, "CONTEXT_GATHERED") # {}
    <3>1. Project(c).hasContext <=> RowsOf(c, "CONTEXT_GATHERED") # {}
      BY DEF Project
    <3> QED
      BY <1>2, <3>1
  <2>3. Project(c).hasPatch <=> RowsIn(log, c, "PATCH_READY") # {}
    <3>1. Project(c).hasPatch <=> RowsOf(c, "PATCH_READY") # {}
      BY DEF Project
    <3> QED
      BY <1>2, <3>1
  <2>4. Project(c).hasDraft <=> RowsIn(log, c, "PR_OPENED") # {}
    <3>1. Project(c).hasDraft <=> RowsOf(c, "PR_OPENED") # {}
      BY DEF Project
    <3> QED
      BY <1>2, <3>1
  <2>5. RowsOf(c, "CANDIDATES_READY") # {} =>
           Project(c).proposals = LastOf(c, "CANDIDATES_READY").proposals
    BY DEF Project
  <2>6. RowsOf(c, "CANDIDATES_READY") = RowsIn(log, c, "CANDIDATES_READY")
    BY <1>2
  <2> QED
    BY <2>1, <2>2, <2>3, <2>4, <2>5, <2>6
<1>5. ASSUME RowsIn(log, c, "INCIDENT_RAISED") # {} PROVE LastOf(c, "INCIDENT_RAISED") # None
  <2>1. PICK i \in RowsIn(log, c, "INCIDENT_RAISED") : LastOf(c, "INCIDENT_RAISED") = log[i].payload
    BY <1>1, <1>2, <1>5, LastIsARow
  <2>2. IncidentOK(log[i].payload)
    BY <1>1, <1>3 DEF PayloadOK
  <2> QED
    BY <2>1, <2>2, NoneIsNoPayload DEF IncidentOK, Incidents
<1>6. ASSUME RowsIn(log, c, "CANDIDATES_READY") # {}
      PROVE  LastOf(c, "CANDIDATES_READY").proposals # {}
  <2>1. PICK i \in RowsIn(log, c, "CANDIDATES_READY") :
            LastOf(c, "CANDIDATES_READY") = log[i].payload
    BY <1>1, <1>2, <1>6, LastIsARow
  <2> QED
    BY <1>3, <2>1 DEF Sound
<1>7. ASSUME RowsIn(log, c, "EVIDENCE_WRITTEN") # {}
      PROVE  /\ LastOf(c, "EVIDENCE_WRITTEN") # None
             /\ \E k \in RowsIn(log, c, "EVIDENCE_WRITTEN") :
                    log[k].payload = LastOf(c, "EVIDENCE_WRITTEN")
  <2>1. PICK i \in RowsIn(log, c, "EVIDENCE_WRITTEN") :
            LastOf(c, "EVIDENCE_WRITTEN") = log[i].payload
    BY <1>1, <1>2, <1>7, LastIsARow
  <2>2. log[i].payload \in [status : Status]
    BY <1>3 DEF Sound
  <2> QED
    BY <2>1, <2>2, NoneIsNoPayload
<1>8. RowsIn(log, c, "EVIDENCE_WRITTEN") = {} => LastOf(c, "EVIDENCE_WRITTEN") = None
  BY <1>2 DEF LastOf
<1> QED
  BY <1>4, <1>5, <1>6, <1>7, <1>8

\* The assessments read back are all there are, and those of its last run.
LEMMA KnowsAll ==
    ASSUME Typed, LogInv, NEW c, NEW r, r.case_id = c, r.assessed = Project(c).assessed
    PROVE  Known(log, r, {})
<1>1. IsSeq(log) /\ \A i \in DOMAIN log : PayloadOK(log[i].event_type, log[i].payload)
  BY DEF Typed, LogOK, RowOK
<1>2. RowsOf(c, "CANDIDATE_ASSESSED") = RowsIn(log, c, "CANDIDATE_ASSESSED")
  BY DEF RowsOf, RowsIn
<1>3. \A i \in RowsIn(log, c, "CANDIDATE_ASSESSED") :
          /\ i \in DOMAIN log /\ log[i].payload.outcome # "NONE"
          /\ log[i].payload \in [id : Proposals, outcome : Outcomes]
  BY <1>1 DEF RowsIn, ActiveRows, LogInv, Sound, PayloadOK
<1>4. \A p \in Proposals : r.assessed[p] = OutcomeOf(c, p)
  BY DEF Project
<1> SUFFICES ASSUME NEW p \in Proposals
             PROVE  /\ (\E i \in RowsIn(log, c, "CANDIDATE_ASSESSED") : log[i].payload.id = p)
                       => OutcomeOf(c, p) # "NONE"
                    /\ OutcomeOf(c, p) = "ELIGIBLE" => Eligibly(log, c, p)
  BY <1>4 DEF Known
<1> DEFINE rows == {i \in RowsIn(log, c, "CANDIDATE_ASSESSED") : log[i].payload.id = p}
<1>5. CASE rows = {}
  <2>1. OutcomeOf(c, p) = "NONE"
    BY <1>2, <1>5 DEF OutcomeOf
  <2> QED
    BY <1>5, <2>1
<1>6. CASE rows # {}
  <2>1. Len(log) \in Nat /\ rows \in SUBSET (0 .. Len(log))
    BY <1>1, <1>3, ScopeIsLastReset
  <2>2. Max(rows) \in rows
    BY <1>6, <2>1, MaxIsGreatest
  <2>3. OutcomeOf(c, p) = log[Max(rows)].payload.outcome
    BY <1>2, <1>6 DEF OutcomeOf
  <2>4. PICK m : m = Max(rows)
    OBVIOUS
  <2>5. PICK payload : payload = log[m].payload
    OBVIOUS
  <2>6. /\ payload \in [id : Proposals, outcome : Outcomes]
        /\ payload.id = p /\ payload.outcome = OutcomeOf(c, p) /\ payload.outcome # "NONE"
        /\ m \in RowsIn(log, c, "CANDIDATE_ASSESSED")
    BY <1>3, <2>2, <2>3, <2>4, <2>5
  <2>7. payload = [id |-> p, outcome |-> OutcomeOf(c, p)]
    BY <2>6
  <2> QED
    BY <2>5, <2>6, <2>7 DEF Eligibly, Passed
<1> QED
  BY <1>5, <1>6

\* What the stages of a thread at work start from.
LEMMA StageStarts ==
    ASSUME Typed, StagesInv, NEW t \in Threads, thread[t].pc \in Working
    PROVE  /\ ThreadsOK /\ LogOK /\ LogInv /\ thread[t].case_id \in CaseIds
           /\ Ordered(log, thread[t].case_id) /\ StageOf(log, thread[t])
  BY AtWork DEF StagesInv, LogInv, Typed

\* An unfinished case stands.
LEMMA ResumableStands ==
    ASSUME NEW c, CurrentState(log, c) \in ResumableStates
    PROVE  Standing(log, c)
  BY DEF Standing, ResumableStates, TerminalStates

\* The incident: raised at most once.
LEMMA IncidentStage ==
    ASSUME Typed, StagesInv, NEW t \in Threads, Incident(t)
    PROVE  StageOf(log, thread'[t])
<1> DEFINE c == thread[t].case_id
           failed == Call(t, "FAILED", [reason |-> "incident"])
<1>1. thread[t].pc = "incident" /\ thread[t].pc \in Working /\ CaseOf(t) = c
  BY DEF Incident, At_, At, Working, Middle, CaseOf
<1>2. ThreadsOK /\ LogOK /\ LogInv /\ c \in CaseIds /\ Ordered(log, c)
  BY <1>1, StageStarts
<1>3. PICK case : case = Project(c)
  OBVIOUS
<1>4. case.state = CurrentState(log, c)
      /\ (case.incident = None => RowsIn(log, c, "INCIDENT_RAISED") = {})
  BY <1>2, <1>3, ReadsBack
<1>5. CASE Goto(t, "finish")
  <2>1. Goes(t, "finish")
    BY <1>2, <1>5, GotoGoes
  <2> QED
    BY <2>1, StageElsewhere DEF Goes, Underway
<1>6. CASE case.state \in ResumableStates
  <2>1. Standing(log, c)
    BY <1>4, <1>6, ResumableStands
  <2>2. Due(log, c, failed) /\ failed.event_type = "FAILED"
    BY <1>2, <2>1, DueCalls, CallFields
  <2>3. CASE Goto(t, "context")
    <3>1. Goes(t, "context")
      BY <1>2, <2>3, GotoGoes
    <3> QED
      BY <2>1, <3>1, GoesStage
  <2>4. CASE Queue(t, <<failed>>, "finish")
    <3>1. Puts(t, <<failed>>, "finish")
      BY <1>2, <2>4, QueuePuts
    <3> HIDE DEF failed
    <3> QED
      BY <2>1, <2>2, <3>1, PutsOne
  <2>5. ASSUME case.incident = None, NEW payload,
               \/ Queue(t, <<Call(t, "INCIDENT_RAISED", payload)>>, "context")
               \/ Queue(t, <<Call(t, "INCIDENT_RAISED", payload), failed>>, "finish")
        PROVE  StageOf(log, thread'[t])
    <3>1. PICK raised : raised = Call(t, "INCIDENT_RAISED", payload)
      OBVIOUS
    <3>2. raised.event_type = "INCIDENT_RAISED" /\ raised.state = "DETECTED"
          /\ Due(log, c, raised)
      BY <1>2, <1>4, <2>1, <2>5, <3>1, DueCalls, CallFields DEF EventState
    <3>3. raised.state \notin TerminalStates
      BY <3>2 DEF TerminalStates
    <3> HIDE DEF failed
    <3>4. CASE Queue(t, <<raised>>, "context")
      <4>1. Puts(t, <<raised>>, "context")
        BY <1>2, <3>4, QueuePuts
      <4> QED
        BY <2>1, <3>2, <3>3, <4>1, PutsOne DEF Underway
    <3>5. CASE Queue(t, <<raised, failed>>, "finish")
      <4>1. Puts(t, <<raised, failed>>, "finish")
        BY <1>2, <3>5, QueuePuts
      <4> QED
        BY <2>1, <2>2, <3>2, <4>1, PutsTwo DEF FirstTypes, SecondTypes
    <3> QED
      BY <2>5, <3>1, <3>4, <3>5
  <2>6. \/ Goto(t, "finish") \/ Goto(t, "context") \/ Queue(t, <<failed>>, "finish")
        \/ /\ case.incident = None
           /\ \E payload :
                 \/ Queue(t, <<Call(t, "INCIDENT_RAISED", payload)>>, "context")
                 \/ Queue(t, <<Call(t, "INCIDENT_RAISED", payload), failed>>, "finish")
    BY <1>1, <1>3 DEF Incident
  <2> QED
    BY <1>5, <2>3, <2>4, <2>5, <2>6
<1> QED
  BY <1>1, <1>3, <1>5, <1>6 DEF Incident

\* The context and the validation: gathered and started at most once.
LEMMA ContextStage ==
    ASSUME Typed, StagesInv, NEW t \in Threads, Context(t) \/ Validate(t)
    PROVE  StageOf(log, thread'[t])
<1> DEFINE c == thread[t].case_id
<1>1. thread[t].pc \in {"context", "validate"} /\ thread[t].pc \in Working /\ CaseOf(t) = c
  BY DEF Context, Validate, At_, At, Working, Middle, CaseOf
<1>2. ThreadsOK /\ LogOK /\ LogInv /\ c \in CaseIds /\ Ordered(log, c) /\ Standing(log, c)
  BY <1>1, StageStarts DEF StageOf, Underway
<1>3. ASSUME NEW pc \in {"candidates", "contain", "load"}, Goto(t, pc)
      PROVE  StageOf(log, thread'[t])
  <2>1. Goes(t, pc)
    BY <1>2, <1>3, GotoGoes
  <2> QED
    BY <1>2, <2>1, GoesStage
<1>4. ASSUME NEW type \in {"CONTEXT_GATHERED", "VALIDATION_STARTED"}, RowsIn(log, c, type) = {},
             NEW next \in {"candidates", "load"}, Queue(t, <<Call(t, type, None)>>, next)
      PROVE  StageOf(log, thread'[t])
  <2>1. PICK call : call = Call(t, type, None)
    OBVIOUS
  <2>2. Due(log, c, call) /\ call.state = EventState[type]
    BY <1>2, <1>4, <2>1, DueCalls, CallFields
  <2>3. call.state \notin TerminalStates
    BY <2>2 DEF EventState, TerminalStates
  <2>4. Puts(t, <<call>>, next)
    BY <1>2, <1>4, <2>1, QueuePuts
  <2> QED
    BY <1>2, <2>2, <2>3, <2>4, PutsOne DEF Underway
<1>5. CASE Context(t)
  <2>1. ~Project(c).hasContext => RowsIn(log, c, "CONTEXT_GATHERED") = {}
    BY <1>2, ReadsBack
  <2> QED
    BY <1>1, <1>3, <1>4, <1>5, <2>1 DEF Context
<1>6. CASE Validate(t)
  <2>1. ASSUME CurrentState(log, c) = "CANDIDATES_READY"
        PROVE  RowsIn(log, c, "VALIDATION_STARTED") = {}
    <3>1. "VALIDATION_STARTED" \in CaseEvents
          /\ ~Before(EventState["VALIDATION_STARTED"], CurrentState(log, c))
      BY <2>1 DEF CaseEvents, EventState, Before, Rank
    <3> QED
      BY <1>2, <3>1, NotYet
  <2> QED
    BY <1>1, <1>3, <1>4, <1>6, <2>1 DEF Validate
<1> QED
  BY <1>5, <1>6

\* The candidates: recorded at most once, and never none.
LEMMA CandidatesStage ==
    ASSUME Typed, StagesInv, NEW t \in Threads, Candidates(t)
    PROVE  StageOf(log, thread'[t])
<1> DEFINE c == thread[t].case_id
           failed == Call(t, "FAILED", [reason |-> "generation"])
<1>1. thread[t].pc = "candidates" /\ thread[t].pc \in Working /\ CaseOf(t) = c
  BY DEF Candidates, At_, At, Working, Middle, CaseOf
<1>2. ThreadsOK /\ LogOK /\ LogInv /\ c \in CaseIds /\ Ordered(log, c) /\ Standing(log, c)
  BY <1>1, StageStarts DEF StageOf, Underway
<1>3. ASSUME NEW found, Finds(t, found) PROVE StageOf(log, thread'[t])
  <2>1. Goes(t, "validate")
    BY <1>2, <1>3, CandidatesGoes
  <2> QED
    BY <1>2, <2>1, GoesStage
<1>4. CASE Goto(t, "contain")
  <2>1. Goes(t, "contain")
    BY <1>2, <1>4, GotoGoes
  <2> QED
    BY <1>2, <2>1, GoesStage
<1>5. CASE Queue(t, <<failed>>, "finish")
  <2>1. Puts(t, <<failed>>, "finish")
    BY <1>2, <1>5, QueuePuts
  <2>2. Due(log, c, failed)
    BY <1>2, DueCalls
  <2> HIDE DEF failed
  <2> QED
    BY <1>2, <2>1, <2>2, PutsOne
<1>6. ASSUME NEW found, found # {}, Project(c).proposals = {},
             Proposes(t, <<Call(t, "CANDIDATES_READY", [proposals |-> found])>>, "validate", found)
      PROVE  StageOf(log, thread'[t])
  <2>1. PICK call : call = Call(t, "CANDIDATES_READY", [proposals |-> found])
    OBVIOUS
  <2>2. /\ call.event_type = "CANDIDATES_READY" /\ call.payload = [proposals |-> found]
        /\ call.state = "CANDIDATES_READY"
    BY <2>1, CallFields DEF EventState
  <2>3. Due(log, c, call)
    <3>1. RowsIn(log, c, "CANDIDATES_READY") = {}
      BY <1>2, <1>6, ReadsBack
    <3> QED
      BY <1>6, <2>2, <3>1 DEF Due, Fresh, Sound
  <2>4. Puts(t, <<call>>, "validate")
    BY <1>2, <1>6, <2>1, CandidatesPuts
  <2>5. call.state \notin TerminalStates
    BY <2>2 DEF TerminalStates
  <2> QED
    BY <1>2, <2>3, <2>4, <2>5, PutsOne DEF Underway
<1>7. \/ \E found : Finds(t, found)
      \/ Goto(t, "contain") \/ Queue(t, <<failed>>, "finish")
      \/ /\ Project(c).proposals = {}
         /\ \E found : found # {} /\
               Proposes(t, <<Call(t, "CANDIDATES_READY", [proposals |-> found])>>, "validate", found)
  BY <1>1 DEF Candidates, Finds, Proposes
<1> QED
  BY <1>3, <1>4, <1>5, <1>6, <1>7

\* The assessments: each proposal at most once.
LEMMA AssessStage ==
    ASSUME Typed, StagesInv, NEW t \in Threads, Load(t) \/ Assess(t) \/ AllAssessed(t)
    PROVE  StageOf(log, thread'[t])
<1> DEFINE c == thread[t].case_id
<1>1. thread[t].pc \in {"load", "assess"} /\ thread[t].pc \in Working /\ CaseOf(t) = c
  BY DEF Load, Assess, AllAssessed, At_, At, Working, Middle, CaseOf
<1>2. ThreadsOK /\ LogOK /\ LogInv /\ c \in CaseIds /\ Ordered(log, c) /\ Standing(log, c)
      /\ (thread[t].pc = "assess" => Known(log, thread[t], {}))
  BY <1>1, StageStarts DEF StageOf, Underway
<1>3. CASE Load(t)
  <2>1. Loads(t, Project(c).assessed)
    BY <1>1, <1>3 DEF Load, Loads
  <2>2. Goes(t, "assess") /\ thread'[t].assessed = Project(c).assessed
    BY <1>2, <2>1, LoadGoes
  <2>3. PICK r : r = thread'[t]
    OBVIOUS
  <2>4. r.case_id = c /\ r.assessed = Project(c).assessed
    BY <2>2, <2>3 DEF Goes, Keeps
  <2>5. Known(log, r, {})
    BY <1>2, <2>4, KnowsAll
  <2> QED
    BY <1>2, <2>2, <2>3, <2>5, GoesStage
<1>4. CASE Assess(t)
  <2>1. PICK p \in thread[t].proposals, outcome \in {"ELIGIBLE", "REJECTED"} :
            /\ thread[t].assessed[p] = "NONE"
            /\ Assesses(t, <<Call(t, "CANDIDATE_ASSESSED", [id |-> p, outcome |-> outcome])>>,
                        "assess", p, outcome)
    BY <1>4 DEF Assess, Assesses
  <2>2. p \in Proposals /\ thread[t].assessed \in [Proposals -> Outcomes]
        /\ thread[t].pc = "assess"
    BY <1>2, <1>4 DEF ThreadsOK, ThreadOK, Assess, At
  <2>3. PICK payload : payload = [id |-> p, outcome |-> outcome]
    OBVIOUS
  <2>4. PICK call : call = Call(t, "CANDIDATE_ASSESSED", payload)
    OBVIOUS
  <2>5. /\ call.event_type = "CANDIDATE_ASSESSED" /\ call.payload = payload
        /\ call.state = "VALIDATING" /\ payload.id = p /\ payload.outcome = outcome
    BY <2>3, <2>4, CallFields DEF EventState
  <2>6. Puts(t, <<call>>, "assess")
        /\ thread'[t].assessed = [thread[t].assessed EXCEPT ![p] = outcome]
    BY <1>2, <2>1, <2>3, <2>4, AssessPuts
  <2>7. Due(log, c, call)
    <3>1. \A i \in RowsIn(log, c, "CANDIDATE_ASSESSED") : log[i].payload.id # p
      BY <1>2, <2>1, <2>2 DEF Known
    <3> QED
      BY <2>5, <3>1 DEF Due, Fresh, Sound
  <2>8. PICK r : r = thread'[t]
    OBVIOUS
  <2>9. Known(log, r, {payload})
    <3>1. r.case_id = c /\ r.assessed = [thread[t].assessed EXCEPT ![p] = outcome]
      BY <2>6, <2>8 DEF Puts, Keeps
    <3>2. Known(log, thread[t], {})
      BY <1>2, <2>2
    <3>3. r.assessed[p] = outcome /\ \A x \in Proposals : x # p => r.assessed[x] = thread[t].assessed[x]
      BY <2>2, <3>1
    <3>4. outcome = "ELIGIBLE" => Passed(p) = payload
      BY <2>3 DEF Passed
    <3>5. ASSUME NEW x \in Proposals, x = p
          PROVE  /\ r.assessed[x] # "NONE"
                 /\ r.assessed[x] = "ELIGIBLE" => Passed(x) \in {payload}
      BY <3>3, <3>4, <3>5
    <3>6. ASSUME NEW x \in Proposals, x # p
          PROVE  /\ \/ \E i \in RowsIn(log, c, "CANDIDATE_ASSESSED") : log[i].payload.id = x
                    \/ \E d \in {payload} : d.id = x
                    => r.assessed[x] # "NONE"
                 /\ r.assessed[x] = "ELIGIBLE" => Eligibly(log, c, x)
      BY <2>5, <3>2, <3>3, <3>6 DEF Known
    <3> QED
      BY <3>1, <3>5, <3>6 DEF Known
  <2>10. call.state \notin TerminalStates
    BY <2>5 DEF TerminalStates
  <2> QED
    BY <1>2, <2>5, <2>6, <2>7, <2>8, <2>9, <2>10, PutsOne DEF Underway
<1>5. CASE AllAssessed(t)
  <2>1. PICK pc \in {"contain", "select"} : Goto(t, pc)
    BY <1>5 DEF AllAssessed
  <2>2. Goes(t, pc) /\ Remembers(t)
    BY <1>2, <2>1, GotoGoes
  <2>3. Known(log, thread[t], {})
    BY <1>2, <1>5 DEF AllAssessed, At
  <2>4. Known(log, thread'[t], {})
    BY <2>2, <2>3 DEF Known, Goes, Keeps, Remembers
  <2> QED
    BY <1>2, <2>2, <2>4, GoesStage
<1> QED
  BY <1>3, <1>4, <1>5

\* The patch, for an eligible proposal, and its evidence report, for a patch: each
\* recorded at most once.
LEMMA SelectStage ==
    ASSUME Typed, StagesInv, NEW t \in Threads, Select(t)
    PROVE  StageOf(log, thread'[t])
<1> DEFINE c == thread[t].case_id
<1>1. thread[t].pc = "select" /\ thread[t].pc \in Working /\ CaseOf(t) = c
  BY DEF Select, At_, At, Working, Middle, CaseOf
<1>2. ThreadsOK /\ LogOK /\ LogInv /\ c \in CaseIds /\ Ordered(log, c) /\ Standing(log, c)
      /\ Known(log, thread[t], {})
  BY <1>1, StageStarts DEF StageOf, Underway
<1>3. CASE Project(c).hasPatch /\ Goto(t, "evidence")
  <2>1. Goes(t, "evidence") /\ RowsIn(log, c, "PATCH_READY") # {}
    BY <1>2, <1>3, GotoGoes, ReadsBack
  <2> QED
    BY <1>2, <2>1, GoesStage
<1>4. ASSUME ~Project(c).hasPatch, NEW p \in Eligible(t),
             Queue(t, <<Call(t, "PATCH_READY", [selected |-> p])>>, "evidence")
      PROVE  StageOf(log, thread'[t])
  <2>1. PICK call : call = Call(t, "PATCH_READY", [selected |-> p])
    OBVIOUS
  <2>2. /\ call.event_type = "PATCH_READY" /\ call.payload.selected = p
        /\ call.state = "PATCH_READY"
    BY <2>1, CallFields DEF EventState
  <2>3. Due(log, c, call)
    <3>1. RowsIn(log, c, "PATCH_READY") = {}
      BY <1>2, <1>4, ReadsBack
    <3>2. p \in Proposals /\ thread[t].assessed[p] = "ELIGIBLE"
      BY <1>2 DEF Eligible, ThreadsOK, ThreadOK
    <3>3. Eligibly(log, c, p)
      BY <1>2, <3>2 DEF Known
    <3> QED
      BY <2>2, <3>1, <3>3 DEF Due, Fresh, Sound
  <2>4. Puts(t, <<call>>, "evidence")
    BY <1>2, <1>4, <2>1, QueuePuts
  <2>5. call.state \notin TerminalStates
    BY <2>2 DEF TerminalStates
  <2> QED
    BY <1>2, <2>2, <2>3, <2>4, <2>5, PutsOne DEF Underway
<1> QED
  BY <1>1, <1>3, <1>4 DEF Select

\* The evidence report: recorded at most once, whether it was confirmed or not.
LEMMA EvidenceStage ==
    ASSUME Typed, StagesInv, NEW t \in Threads, Evidence(t)
    PROVE  StageOf(log, thread'[t])
<1> DEFINE c == thread[t].case_id
           failed == Call(t, "FAILED", [reason |-> "evidence"])
<1>1. thread[t].pc = "evidence" /\ thread[t].pc \in Working /\ CaseOf(t) = c
  BY DEF Evidence, At_, At, Working, Middle, CaseOf
<1>2. ThreadsOK /\ LogOK /\ LogInv /\ c \in CaseIds /\ Ordered(log, c) /\ Standing(log, c)
      /\ RowsIn(log, c, "PATCH_READY") # {}
  BY <1>1, StageStarts DEF StageOf, Underway
<1>3. PICK written : written = Project(c).writeback
  OBVIOUS
<1>4. /\ written = None => RowsIn(log, c, "EVIDENCE_WRITTEN") = {}
      /\ written # None =>
            \E k \in RowsIn(log, c, "EVIDENCE_WRITTEN") : log[k].payload = written
  BY <1>2, <1>3, ReadsBack
<1>5. Due(log, c, failed) /\ failed.event_type = "FAILED"
  BY <1>2, DueCalls, CallFields
<1>6. CASE written # None /\ Ready(written.status) /\ Goto(t, "pull_request")
  <2>1. Goes(t, "pull_request")
    BY <1>2, <1>6, GotoGoes
  <2>2. \E k \in RowsIn(log, c, "EVIDENCE_WRITTEN") : Ready(log[k].payload.status)
    BY <1>4, <1>6
  <2> QED
    BY <1>2, <2>1, <2>2, GoesStage
<1>7. CASE Queue(t, <<failed>>, "finish")
  <2>1. Puts(t, <<failed>>, "finish")
    BY <1>2, <1>7, QueuePuts
  <2> HIDE DEF failed
  <2> QED
    BY <1>2, <1>5, <2>1, PutsOne
<1>8. ASSUME written = None, NEW s \in Status,
             \/ /\ Ready(s)
                /\ Queue(t, <<Call(t, "EVIDENCE_WRITTEN", [status |-> s])>>, "pull_request")
             \/ Queue(t, <<Call(t, "EVIDENCE_WRITTEN", [status |-> s]), failed>>, "finish")
      PROVE  StageOf(log, thread'[t])
  <2>1. PICK call : call = Call(t, "EVIDENCE_WRITTEN", [status |-> s])
    OBVIOUS
  <2>2. /\ call.event_type = "EVIDENCE_WRITTEN" /\ call.payload = [status |-> s]
        /\ call.state = "PATCH_READY"
    BY <2>1, CallFields DEF EventState
  <2>3. Due(log, c, call)
    BY <1>2, <1>4, <1>8, <2>2 DEF Due, Fresh, Sound
  <2>4. call.state \notin TerminalStates /\ call.payload.status = s
    BY <2>2 DEF TerminalStates
  <2> HIDE DEF failed
  <2>5. CASE Ready(s) /\ Queue(t, <<call>>, "pull_request")
    <3>1. Puts(t, <<call>>, "pull_request")
      BY <1>2, <2>5, QueuePuts
    <3> QED
      BY <1>2, <2>2, <2>3, <2>4, <2>5, <3>1, PutsOne DEF Underway
  <2>6. CASE Queue(t, <<call, failed>>, "finish")
    <3>1. Puts(t, <<call, failed>>, "finish")
      BY <1>2, <2>6, QueuePuts
    <3> QED
      BY <1>2, <1>5, <2>2, <2>3, <3>1, PutsTwo DEF FirstTypes, SecondTypes
  <2> QED
    BY <1>8, <2>1, <2>5, <2>6
<1>9. \/ written # None /\ Ready(written.status) /\ Goto(t, "pull_request")
      \/ Queue(t, <<failed>>, "finish")
      \/ /\ written = None
         /\ \E a \in DataHubAnswers :
               \/ /\ Ready(a[1])
                  /\ Queue(t, <<Call(t, "EVIDENCE_WRITTEN", [status |-> a[1]])>>, "pull_request")
               \/ Queue(t, <<Call(t, "EVIDENCE_WRITTEN", [status |-> a[1]]), failed>>, "finish")
  BY <1>1, <1>3 DEF Evidence
<1> HIDE DEF failed
<1> QED
  BY <1>6, <1>7, <1>8, <1>9, AnswerStatus

\* The draft, opened at most once, and the refusal.
LEMMA EndStage ==
    ASSUME Typed, StagesInv, NEW t \in Threads, PullRequest(t) \/ Contain(t)
    PROVE  StageOf(log, thread'[t])
<1> DEFINE c == thread[t].case_id
<1>1. thread[t].pc \in {"pull_request", "contain"} /\ thread[t].pc \in Working /\ CaseOf(t) = c
  BY DEF PullRequest, Contain, At_, At, Working, Middle, CaseOf
<1>2. ThreadsOK /\ LogOK /\ LogInv /\ c \in CaseIds /\ Ordered(log, c) /\ Standing(log, c)
  BY <1>1, StageStarts DEF StageOf, Underway
<1>3. CASE Goto(t, "finish")
  <2>1. Goes(t, "finish")
    BY <1>2, <1>3, GotoGoes
  <2> QED
    BY <2>1, StageElsewhere DEF Goes, Underway
<1>4. ASSUME NEW call, Due(log, c, call), Queue(t, <<call>>, "finish")
      PROVE  StageOf(log, thread'[t])
  <2>1. Puts(t, <<call>>, "finish")
    BY <1>2, <1>4, QueuePuts
  <2> QED
    BY <1>2, <1>4, <2>1, PutsOne
<1>5. CASE PullRequest(t)
  <2>1. \/ Goto(t, "finish")
        \/ ~Project(c).hasDraft /\ \E payload :
              \/ Queue(t, <<Call(t, "PR_OPENED", payload)>>, "finish")
              \/ Queue(t, <<Call(t, "PR_ATTEMPTED", payload)>>, "finish")
    BY <1>1, <1>5 DEF PullRequest
  <2>2. \A payload : Due(log, c, Call(t, "PR_ATTEMPTED", payload))
    BY <1>2, DueCalls
  <2>3. ~Project(c).hasDraft => \A payload : Due(log, c, Call(t, "PR_OPENED", payload))
    BY <1>2, DueCalls, ReadsBack
  <2> QED
    BY <1>3, <1>4, <2>1, <2>2, <2>3
<1>6. CASE Contain(t)
  <2>1. \E payload : Queue(t, <<Call(t, "CONTAINED", payload)>>, "finish")
    BY <1>6 DEF Contain
  <2>2. \A payload : Due(log, c, Call(t, "CONTAINED", payload))
    BY <1>2, DueCalls
  <2> QED
    BY <1>4, <2>1, <2>2
<1> QED
  BY <1>5, <1>6

\* The handler fails a case that is not over.
LEMMA HandlerStage ==
    ASSUME Typed, StagesInv, NEW t \in Threads, Handler(t)
    PROVE  StageOf(log, thread'[t])
<1> DEFINE c == thread[t].case_id
           failed == Call(t, "FAILED", [reason |-> "exception"])
<1>1. thread[t].pc = "handler" /\ thread[t].pc \in Working /\ CaseOf(t) = c
  BY DEF Handler, At_, At, Working, Middle, CaseOf
<1>2. ThreadsOK /\ LogOK /\ LogInv /\ c \in CaseIds /\ Ordered(log, c)
  BY <1>1, StageStarts
<1>3. CASE Goto(t, "finish")
  <2>1. Goes(t, "finish")
    BY <1>2, <1>3, GotoGoes
  <2> QED
    BY <2>1, StageElsewhere DEF Goes, Underway
<1>4. CASE Standing(log, c) /\ Queue(t, <<failed>>, "finish")
  <2>1. Puts(t, <<failed>>, "finish")
    BY <1>2, <1>4, QueuePuts
  <2>2. Due(log, c, failed)
    BY <1>2, <1>4, DueCalls
  <2> HIDE DEF failed
  <2> QED
    BY <1>4, <2>1, <2>2, PutsOne
<1> QED
  BY <1>1, <1>3, <1>4 DEF Handler, Standing

\* A verification records a deployment and its proof at most once.
LEMMA VerifyStage ==
    ASSUME Typed, StagesInv, NEW t \in Threads, Verify(t), ~Exception(t)
    PROVE  StageOf(log, thread'[t])
<1> DEFINE c == thread[t].case_id
           deployed == Call(t, "DEPLOYMENT_RECORDED", [mode |-> EvidenceMode])
           verified == Call(t, "POST_DEPLOY_VERIFIED", [mode |-> EvidenceMode])
<1>1. thread[t].pc = "verify" /\ CaseOf(t) = c
  BY DEF Verify, At_, At, CaseOf
<1>2. ThreadsOK /\ LogOK /\ LogInv /\ c \in CaseIds /\ Ordered(log, c)
  BY <1>1 DEF StagesInv, LogInv, Typed, ThreadsOK, ThreadOK
<1>3. CurrentState(log, c) = "PR_OPEN"
  <2>1. Project(c).state = "PR_OPEN"
    BY <1>1 DEF Verify
  <2> QED
    BY <1>2, <2>1, ReadsBack
<1>4. Standing(log, c)
  BY <1>3 DEF Standing, TerminalStates
<1>5. RowsIn(log, c, "DEPLOYMENT_RECORDED") = {} /\ RowsIn(log, c, "POST_DEPLOY_VERIFIED") = {}
  <2>1. /\ "DEPLOYMENT_RECORDED" \in CaseEvents /\ "POST_DEPLOY_VERIFIED" \in CaseEvents
        /\ ~Before(EventState["DEPLOYMENT_RECORDED"], CurrentState(log, c))
        /\ ~Before(EventState["POST_DEPLOY_VERIFIED"], CurrentState(log, c))
    BY <1>3 DEF CaseEvents, EventState, Before, Rank
  <2> QED
    BY <1>2, <2>1, NotYet
<1>6. /\ Due(log, c, deployed) /\ deployed.event_type = "DEPLOYMENT_RECORDED"
      /\ Due(log, c, verified) /\ verified.event_type = "POST_DEPLOY_VERIFIED"
      /\ deployed.state \notin TerminalStates /\ verified.state \notin TerminalStates
  BY <1>2, <1>4, <1>5, DueCalls, CallFields DEF EventState, TerminalStates
<1>7. \E incident : \/ Takes(t, <<deployed, verified>>, "final_evidence", incident)
                    \/ Takes(t, <<deployed>>, "contain", incident)
  <2>1. PICK verdict \in Verdicts(Project(c).incident) :
            thread' = [thread EXCEPT ![t] =
                          [(IF verdict = "accepted"
                            THEN Queued(t, <<deployed, verified>>, "final_evidence")
                            ELSE Queued(t, <<deployed>>, "contain"))
                           EXCEPT !.incident = Project(c).incident]]
    BY <1>1 DEF Verify
  <2>2. CASE verdict = "accepted"
    BY <2>1, <2>2 DEF Takes
  <2>3. CASE verdict # "accepted"
    BY <2>1, <2>3 DEF Takes
  <2> QED
    BY <2>2, <2>3
<1>8. Puts(t, <<deployed, verified>>, "final_evidence") \/ Puts(t, <<deployed>>, "contain")
  BY <1>2, <1>7, VerifyPuts
<1> HIDE DEF deployed, verified
<1>9. CASE Puts(t, <<deployed, verified>>, "final_evidence")
  BY <1>4, <1>6, <1>9, PutsTwo DEF FirstTypes, SecondTypes
<1>10. CASE Puts(t, <<deployed>>, "contain")
  BY <1>4, <1>6, <1>10, PutsOne DEF Underway
<1> QED
  BY <1>8, <1>9, <1>10

\* The closing report and the closing call.
LEMMA ClosingStage ==
    ASSUME Typed, StagesInv, NEW t \in Threads, FinalEvidence(t) \/ Resolve(t)
    PROVE  StageOf(log, thread'[t])
<1> DEFINE c == thread[t].case_id
<1>1. thread[t].pc \in {"final_evidence", "resolve"} /\ thread[t].pc \in Working /\ CaseOf(t) = c
  BY DEF FinalEvidence, Resolve, At, Working, Middle, CaseOf
<1>2. ThreadsOK /\ LogOK /\ LogInv /\ c \in CaseIds /\ Ordered(log, c) /\ Standing(log, c)
  BY <1>1, StageStarts DEF StageOf, Underway
<1>3. CASE Goto(t, "resolve")
  <2>1. Goes(t, "resolve")
    BY <1>2, <1>3, GotoGoes
  <2> QED
    BY <1>2, <2>1, GoesStage
<1>4. ASSUME NEW type \in {"FAILED", "INCIDENT_RESOLVED"}, NEW payload,
             Queue(t, <<Call(t, type, payload)>>, "finish")
      PROVE  StageOf(log, thread'[t])
  <2>1. PICK call : call = Call(t, type, payload)
    OBVIOUS
  <2>2. Due(log, c, call)
    BY <1>2, <2>1, DueCalls
  <2>3. Puts(t, <<call>>, "finish")
    BY <1>2, <1>4, <2>1, QueuePuts
  <2> QED
    BY <1>2, <2>2, <2>3, PutsOne
<1>5. \/ Goto(t, "resolve")
      \/ \E payload : Queue(t, <<Call(t, "FAILED", payload)>>, "finish")
      \/ \E payload : Queue(t, <<Call(t, "INCIDENT_RESOLVED", payload)>>, "finish")
  BY DEF FinalEvidence, Resolve
<1> QED
  BY <1>3, <1>4, <1>5

\* A step that leaves the log alone and takes its thread to a place in its plan.
LEMMA StagesStay ==
    ASSUME StagesInv, NEW t \in Threads, Others(t), UNCHANGED log, StageOf(log, thread'[t])
    PROVE  StagesInv'
<1>1. LogInv'
  BY DEF StagesInv, LogInv, ScopesAgree, CheckpointsOnce, SameStream
<1>2. \A u \in Threads : StageOf(log', thread'[u])
  BY DEF Others, StagesInv
<1> QED
  BY <1>1, <1>2 DEF StagesInv

\* One that is elsewhere afterwards.
LEMMA StagesLeft ==
    ASSUME StagesInv, NEW t \in Threads, Others(t), UNCHANGED log,
           thread'[t].pc \notin Underway \cup {"append"}
    PROVE  StagesInv'
  BY StageElsewhere, StagesStay

\* One that appends, behind the lock.
LEMMA StagesGrow ==
    ASSUME OneProcess, Typed, LockHeld, LogInv', NEW t \in Threads, Others(t),
           thread[t].pc \in Locked, StageOf(log', thread'[t])
    PROVE  StagesInv'
<1>1. ASSUME NEW u \in Threads \ {t} PROVE StageOf(log', thread'[u])
  <2>1. thread[u].pc \notin Locked
    BY OneAtWork
  <2>2. thread'[u].pc \notin Underway \cup {"append"}
    BY <2>1, UnderwayIsLocked DEF Others
  <2> QED
    BY <2>2, StageElsewhere
<1> QED
  BY <1>1 DEF StagesInv

\* An exception, an answer and a look for the case leave the plan.
LEMMA ExceptionLeaves ==
    ASSUME Typed, StagesInv, NEW t \in Threads, Exception(t)
    PROVE  StagesInv'
<1>1. ThreadsOK /\ UNCHANGED log
  BY DEF Typed, Exception
<1>2. CASE thread' = [thread EXCEPT ![t].pc = "handler", ![t].op = "handler", ![t].pending = <<>>]
  <2>1. Others(t) /\ thread'[t].pc = "handler"
    BY <1>1, <1>2, HandlerGoes
  <2> QED
    BY <1>1, <2>1, StagesLeft DEF Underway
<1>3. CASE Respond(t, FALSE)
  <2>1. Others(t) /\ thread'[t] = IdleThread
    BY <1>1, <1>3, RespondClears
  <2>2. thread'[t].pc = "idle"
    BY <2>1 DEF IdleThread
  <2> QED
    BY <1>1, <2>1, <2>2, StagesLeft DEF Underway
<1> QED
  BY <1>2, <1>3 DEF Exception

\* So do the requests before the advance begins, and after it has ended.
LEMMA AskingKeepsStages ==
    ASSUME Typed, StagesInv, NEW t \in Threads,
           \/ Lookup(t) \/ FastDuplicate(t) \/ FastOwned(t) \/ Acquire(t)
           \/ Recheck(t) \/ Allocate(t) \/ Begin(t) \/ Finish(t)
           \/ \E e \in Events : Deliver(t, e)
           \/ \E c \in CaseIds : StartVerify(t, c)
    PROVE  StagesInv'
<1>1. ASSUME Asks(t) \/ Rests(t) \/ Acquires(t) PROVE StagesInv'
  <2>1. Others(t) /\ UNCHANGED log
        /\ thread'[t].pc \in {"lookup", "duplicate", "owned", "lock", "allocate", "detect",
                              "begin", "idle", "verify", "recheck"}
    BY <1>1 DEF Asks, Rests, Acquires
  <2> QED
    BY <2>1, StagesLeft DEF Underway
<1>2. CASE Begin(t)
  <2>1. Others(t) /\ thread'[t].pc = "incident" /\ UNCHANGED log
    BY <1>2, BeginGoes DEF Begin, Typed
  <2> QED
    BY <2>1, StagesLeft DEF Underway
<1>3. CASE \/ Lookup(t) \/ FastDuplicate(t) \/ FastOwned(t) \/ Recheck(t) \/ Allocate(t)
  <2>1. thread[t].pc \notin Working
    BY <1>3 DEF Lookup, FastDuplicate, FastOwned, Recheck, Allocate, At, Working, Middle
  <2>2. ~Moves(t)
    BY <2>1 DEF Moves
  <2> QED
    BY <1>1, <1>3, <2>2, FastPathAsks, RecheckAsks
<1> QED
  BY <1>1, <1>2, <1>3, AcquireAcquires, FinishRests, DeliverAsks, StartVerifyAsks

\* A new case has nothing recorded.
LEMMA DetectKeepsStages ==
    ASSUME OneProcess, Typed, LockHeld, StagesInv, [Next]_vars, NEW t \in Threads, Detect(t)
    PROVE  StagesInv'
<1> DEFINE call == DetectionOf(t, CaseOf(t))
<1>1. thread[t].pc = "detect" /\ ThreadsOK /\ LogOK /\ LogInv
  BY DEF Detect, At, Typed, StagesInv
<1>2. CASE Accepted(log, call) /\ log' = Append(log, NewRow(log, call)) /\ Goto(t, "begin")
  <2>1. PICK c : c = CaseOf(t)
    OBVIOUS
  <2>2. c \in CaseIds /\ Ordered(log, c)
    BY <1>1, <2>1 DEF ThreadsOK, ThreadOK, CaseOf, LogInv
  <2>3. PICK new : new = call
    OBVIOUS
  <2>4. /\ new.case_id = c /\ new.event_type = "SCHEMA_CHANGE_DETECTED"
        /\ new.state = "DETECTED"
    BY <2>1, <2>3 DEF DetectionOf, DetectionCall
  <2>5. CurrentState(log, c) = None
    BY <1>2, <2>3, <2>4 DEF Accepted, SecondDetection
  <2>6. ActiveRows(log, c) = {}
    BY <1>1, <2>2, <2>5, StateIsLast, NoneIsNoState
  <2>7. Due(log, c, new)
    BY <2>4, <2>6 DEF Due, Fresh, Sound, RowsIn
  <2>8. PICK row : row = NewRow(log, new)
    OBVIOUS
  <2>9. new.event_type \in CaseEvents /\ new.state = EventState[new.event_type]
    BY <2>4 DEF CaseEvents, EventState
  <2>10. Accepted(log, new) /\ log' = Append(log, row)
    BY <1>2, <2>3, <2>8
  <2>11. LogInv'
    BY <1>1, <2>2, <2>4, <2>7, <2>8, <2>9, <2>10, AppendKeepsLog
  <2>12. Goes(t, "begin")
    BY <1>1, <1>2, GotoGoes
  <2>13. Others(t) /\ thread'[t].pc = "begin"
    BY <2>12 DEF Goes, Keeps
  <2>14. StageOf(log', thread'[t])
    BY <2>13, StageElsewhere DEF Underway
  <2> QED
    BY <1>1, <2>11, <2>13, <2>14, StagesGrow DEF Locked
<1>3. CASE Exception(t)
  BY <1>3, ExceptionLeaves
<1>4. ASSUME NEW ok, Respond(t, ok), UNCHANGED log PROVE StagesInv'
  <2>1. Others(t) /\ thread'[t] = IdleThread
    BY <1>1, <1>4, RespondClears
  <2>2. thread'[t].pc = "idle"
    BY <2>1 DEF IdleThread
  <2> QED
    BY <1>4, <2>1, <2>2, StagesLeft DEF Underway
<1>5. ASSUME NEW n, Retries(t, n), UNCHANGED log PROVE StagesInv'
  <2>1. Keeps(t) /\ thread'[t].pc = "allocate"
    BY <1>1, <1>5, RetryGoes
  <2> QED
    BY <1>5, <2>1, StagesLeft DEF Keeps, Underway
<1>6. \/ Accepted(log, call) /\ log' = Append(log, NewRow(log, call)) /\ Goto(t, "begin")
      \/ Exception(t)
      \/ \E ok : Respond(t, ok) /\ UNCHANGED log
      \/ \E n : Retries(t, n) /\ UNCHANGED log
  BY DEF Detect, Retries
<1> QED
  BY <1>2, <1>3, <1>4, <1>5, <1>6

\* The append of a queued event.
LEMMA AppendKeepsStages ==
    ASSUME OneProcess, Typed, LockHeld, StagesInv, [Next]_vars, NEW t \in Threads, AppendEvent(t)
    PROVE  StagesInv'
<1>1. /\ thread[t].pc = "append" /\ ThreadsOK /\ LogInv /\ ThreadOK(thread[t])
      /\ StageOf(log, thread[t])
  BY DEF AppendEvent, At, Typed, StagesInv, ThreadsOK
<1>2. CASE Exception(t)
  BY <1>2, ExceptionLeaves
<1>3. CASE ~Exception(t)
  <2>1. PICK q : q = thread[t]
    OBVIOUS
  <2>2. PICK call : call = Head(q.pending)
    OBVIOUS
  <2>3. PICK row : row = NewRow(log, call)
    OBVIOUS
  <2>4. PICK c : c = q.case_id
    OBVIOUS
  <2>5. CallOK(call) /\ call.case_id = c /\ c \in CaseIds
    <3>1. ThreadOK(q) /\ q.pc = "append"
      BY <1>1, <2>1
    <3>2. IsSeq(q.pending) /\ q.pending # <<>> /\ c \in CaseIds
      BY <2>4, <3>1 DEF ThreadOK, Working
    <3>3. 1 \in DOMAIN q.pending /\ call = q.pending[1]
      BY <2>2, <3>2, Tailed
    <3> QED
      BY <2>4, <3>1, <3>2, <3>3 DEF ThreadOK
  <2>6. /\ Accepted(log, call) /\ log' = Append(log, row)
        /\ thread' = [thread EXCEPT ![t].pending = Tail(@),
              ![t].pc = IF Len(thread[t].pending) = 1 THEN thread[t].next ELSE "append"]
    BY <1>3, <2>1, <2>2, <2>3 DEF AppendEvent
  <2>7. PICK pc : pc = IF Len(q.pending) = 1 THEN q.next ELSE "append"
    OBVIOUS
  <2>8. Advances(t, Tail(thread[t].pending), pc)
    BY <2>1, <2>6, <2>7 DEF Advances
  <2>9. /\ Keeps(t) /\ Remembers(t) /\ thread'[t].pc = pc
        /\ thread'[t].pending = Tail(thread[t].pending) /\ thread'[t].next = thread[t].next
    BY <1>1, <2>8, AppendGoes
  <2>10. PICK r : r = thread'[t]
    OBVIOUS
  <2>11. /\ r.pc = IF Len(thread[t].pending) = 1 THEN thread[t].next ELSE "append"
         /\ r.pending = Tail(thread[t].pending) /\ r.next = thread[t].next
         /\ row = NewRow(log, Head(thread[t].pending)) /\ call = Head(thread[t].pending)
         /\ c = thread[t].case_id
    BY <2>1, <2>2, <2>3, <2>4, <2>7, <2>9, <2>10
  <2>12. StageOf(log', r) /\ Due(log, thread[t].case_id, Head(thread[t].pending))
    BY <1>1, <2>6, <2>9, <2>10, <2>11, AppendedStage
  <2>13. StageOf(log', thread'[t]) /\ Due(log, c, call)
    BY <2>10, <2>11, <2>12
  <2>14. LogInv'
    BY <1>1, <2>3, <2>5, <2>6, <2>13, AppendKeepsLog DEF CallOK
  <2> QED
    BY <1>1, <2>9, <2>13, <2>14, StagesGrow DEF Keeps, Locked, Working
<1> QED
  BY <1>2, <1>3

\* The stages: each stays with its plan.
LEMMA StageKeeps ==
    ASSUME Typed, StagesInv, NEW t \in Threads,
           \/ Incident(t) \/ Context(t) \/ Candidates(t) \/ Validate(t) \/ Load(t)
           \/ Assess(t) \/ AllAssessed(t) \/ Select(t) \/ Evidence(t) \/ PullRequest(t)
           \/ Contain(t) \/ Handler(t) \/ FinalEvidence(t) \/ Resolve(t)
    PROVE  StagesInv'
<1>1. StageOf(log, thread'[t])
  BY IncidentStage, ContextStage, CandidatesStage, AssessStage, SelectStage, EvidenceStage,
     EndStage, HandlerStage, ClosingStage
<1>2. Works(t)
  BY IncidentWorks, StagesWork, CandidatesWorks, LoadWorks, AssessWorks, PublishingWorks,
     ClosingWorks
<1> QED
  BY <1>1, <1>2, StagesStay DEF Works

\* A verification.
LEMMA VerifyKeepsStages ==
    ASSUME Typed, StagesInv, NEW t \in Threads, Verify(t)
    PROVE  StagesInv'
<1>1. CASE Exception(t)
  BY <1>1, ExceptionLeaves
<1>2. CASE ~Exception(t)
  <2>1. StageOf(log, thread'[t])
    BY <1>2, VerifyStage
  <2>2. Judges(t) \/ Moves(t) \/ Rests(t)
    BY VerifyKinds
  <2> QED
    BY <2>1, <2>2, StagesStay DEF Judges, Moves, Rests
<1> QED
  BY <1>1, <1>2

\* Resets and restarts.
LEMMA ResetsKeepStages ==
    ASSUME OneProcess, Typed, LockHeld, StagesInv, [Next]_vars,
           \/ \E p \in Processes : ResetDemo(p) \/ Crash(p)
           \/ UNCHANGED vars
    PROVE  StagesInv'
<1>1. CASE \E p \in Processes : ResetDemo(p)
  <2>1. log' = Append(log, ResetRow(log)) /\ UNCHANGED thread /\ \E p \in Processes : lock[p] = None
    BY <1>1 DEF ResetDemo
  <2>2. \A t \in Threads : thread[t].pc \notin Locked
    <3>1. ProcessOK' /\ UNCHANGED <<lock, remote>>
      BY <1>1 DEF ResetDemo, process, Typed, ProcessOK
    <3>2. Resets
      BY <2>1, <3>1 DEF Resets
    <3> QED
      BY <3>2, ResetFindsNobody
  <2>3. \A t \in Threads : StageOf(log', thread'[t])
    <3>1. \A t \in Threads : thread'[t].pc \notin Underway \cup {"append"}
      BY <2>1, <2>2, UnderwayIsLocked
    <3> QED
      BY <3>1, StageElsewhere
  <2> DEFINE n == Len(log) + 1
             row == ResetRow(log)
  <2>4. /\ Len(log) \in Nat /\ DOMAIN log = 1 .. Len(log) /\ DOMAIN log' = 1 .. n
        /\ \A i \in DOMAIN log : log'[i] = log[i]
        /\ \A c : ActiveRows(log', c) = {}
    BY <2>1, ResetAdded DEF Typed
  <2>5. log'[n] = row
    BY <2>1, Appended DEF Typed, LogOK
  <2>6. row.event_type = "SYSTEM_RESET" /\ row.reset_scope \in 0 .. n - 1
    <3>1. CurrentScope(log) \in 0 .. Len(log)
      BY ScopeIsLastReset DEF Typed, LogOK
    <3> QED
      BY <2>4, <3>1 DEF ResetRow
  <2>7. \A i \in DOMAIN log' : i \in DOMAIN log \/ (i = n /\ i \notin DOMAIN log)
    BY <2>4
  <2>8. n \in Nat /\ \A i \in DOMAIN log' : i \in Nat /\ i <= n
    BY <2>4
  <2> HIDE DEF n, row
  <2>9. \A i \in DOMAIN log' : log'[i].reset_scope \in 0 .. i - 1 /\ Sound(log'[i])
    <3>1. Sound(row)
      BY <2>6 DEF Sound
    <3> QED
      BY <2>4, <2>5, <2>6, <2>7, <3>1 DEF StagesInv, LogInv
  <2>10. \A c \in CaseIds : Ordered(log', c) /\ Backed(log', c)
    BY <2>4 DEF Ordered, Backed, RowsIn
  <2>11. ScopesAgree'
    BY ScopesAgreeStep DEF StagesInv, LogInv
  <2>12. CheckpointsOnce'
    <3> SUFFICES ASSUME NEW i \in DOMAIN log', NEW j \in DOMAIN log', i < j,
                        log'[i].case_id = log'[j].case_id,
                        log'[i].reset_scope = log'[j].reset_scope,
                        log'[i].event_type = log'[j].event_type
                 PROVE  \/ log'[i].event_type \in {"PR_ATTEMPTED", "SYSTEM_RESET"}
                        \/ /\ log'[i].event_type = "CANDIDATE_ASSESSED"
                           /\ log'[i].payload.id # log'[j].payload.id
      BY DEF CheckpointsOnce, SameStream
    <3>1. CASE j = n
      BY <2>5, <2>6, <3>1
    <3>2. CASE j \in DOMAIN log
      <4>1. i \in DOMAIN log
        BY <2>7, <2>8, <3>2
      <4>2. log'[i] = log[i] /\ log'[j] = log[j]
        BY <2>4, <3>2, <4>1
      <4> QED
        BY <3>2, <4>1, <4>2 DEF StagesInv, LogInv, CheckpointsOnce, SameStream
    <3> QED
      BY <2>7, <3>1, <3>2
  <2>13. LogInv'
    BY <2>9, <2>10, <2>11, <2>12 DEF LogInv
  <2> QED
    BY <2>3, <2>13 DEF StagesInv
<1>2. ASSUME UNCHANGED log, \A t \in Threads : thread'[t] \in {IdleThread, thread[t]}
      PROVE  StagesInv'
  <2>1. LogInv'
    BY <1>2 DEF StagesInv, LogInv, ScopesAgree, CheckpointsOnce, SameStream
  <2>2. StageOf(log, IdleThread)
    BY StageElsewhere DEF IdleThread, Underway
  <2> QED
    BY <1>2, <2>1, <2>2 DEF StagesInv
<1>3. CASE \E p \in Processes : Crash(p)
  BY <1>2, <1>3 DEF Crash
<1>4. CASE UNCHANGED vars
  BY <1>2, <1>4 DEF vars
<1> QED
  BY <1>1, <1>3, <1>4

\* Every step.
LEMMA StagesStep ==
    ASSUME OneProcess, Typed, LockHeld, StagesInv, [Next]_vars
    PROVE  StagesInv'
<1>1. ASSUME NEW t \in Threads, IngestStep(t) PROVE StagesInv'
  BY <1>1, AskingKeepsStages, DetectKeepsStages DEF IngestStep
<1>2. ASSUME NEW t \in Threads, AdvanceStep(t) PROVE StagesInv'
  BY <1>2, StageKeeps, AppendKeepsStages, AskingKeepsStages DEF AdvanceStep
<1>3. ASSUME NEW t \in Threads, VerifyStep(t) PROVE StagesInv'
  BY <1>3, StageKeeps, VerifyKeepsStages DEF VerifyStep
<1>4. ASSUME NEW t \in Threads, Unreadable(t) \/ Fault(t) PROVE StagesInv'
  BY <1>4, ExceptionLeaves DEF Unreadable, Fault
<1>5. ASSUME NEW t \in Threads, NEW e \in Events, Deliver(t, e) PROVE StagesInv'
  BY <1>5, AskingKeepsStages
<1>6. ASSUME NEW t \in Threads, NEW c \in CaseIds, StartVerify(t, c) PROVE StagesInv'
  BY <1>6, AskingKeepsStages
<1>7. ASSUME NEW p \in Processes, ResetDemo(p) \/ Crash(p) PROVE StagesInv'
  BY <1>7, ResetsKeepStages
<1>8. CASE UNCHANGED vars
  BY <1>8, ResetsKeepStages
<1> QED
  BY <1>1, <1>2, <1>3, <1>4, <1>5, <1>6, <1>7, <1>8 DEF Next, Step, Quiescent

\* Initially nothing is recorded and nobody is at work.
LEMMA StagesInit == Init => StagesInv
<1> SUFFICES ASSUME Init PROVE StagesInv
  OBVIOUS
<1>1. log = <<>> /\ \A t \in Threads : thread[t].pc = "idle"
  BY IdleOK DEF Init
<1>2. DOMAIN log = {}
  BY <1>1, ShortSeqs
<1>3. \A c : ActiveRows(log, c) = {}
  BY <1>2 DEF ActiveRows
<1>4. LogInv
  BY <1>2, <1>3 DEF LogInv, ScopesAgree, CheckpointsOnce, Ordered, Backed, RowsIn
<1>5. \A t \in Threads : StageOf(log, thread[t])
  BY <1>1, StageElsewhere DEF Underway
<1> QED
  BY <1>4, <1>5 DEF StagesInv

\* The stages hold at all times.
LEMMA StagesAlways ==
    ASSUME OneProcess
    PROVE  Spec => [](Typed /\ LockHeld /\ StagesInv)
<1>1. Typed /\ LockHeld /\ StagesInv /\ [Next]_vars => StagesInv'
  BY StagesStep
<1> QED
  BY <1>1, LockAlwaysHeld, StagesInit, PTL DEF Spec

\* With one API process a resumed case repeats no checkpoint: whatever crashes,
\* faults, resets and concurrent requests come between the steps of an advance,
\* each step of a case is recorded once, and each proposal is assessed once.
THEOREM CheckpointsAreRecordedOnce ==
    ASSUME OneProcess
    PROVE  Spec => []CheckpointsOnce
<1>1. StagesInv => CheckpointsOnce
  BY DEF StagesInv, LogInv
<1> QED
  BY <1>1, StagesAlways, PTL

-------------------------------------------------------------------------------
(***************************************************************************)
(* What a draft pull request rests on.                                     *)
(***************************************************************************)

\* Only the draft stage opens one.
LEMMA DraftsGrow ==
    ASSUME [Next]_vars
    PROVE  \/ UNCHANGED drafts
           \/ \E t \in Threads : PullRequest(t) /\ drafts' \subseteq drafts \cup {CaseOf(t)}
<1>1. ASSUME NEW t \in Threads, Exception(t) PROVE UNCHANGED drafts
  BY <1>1 DEF Exception, remote
<1>2. ASSUME NEW t \in Threads, IngestStep(t) PROVE UNCHANGED drafts
  BY <1>2, <1>1
     DEF IngestStep, Lookup, FastDuplicate, FastOwned, Acquire, Recheck, Allocate, Detect, Begin,
         remote
<1>3. ASSUME NEW t \in Threads, AdvanceStep(t), ~PullRequest(t) PROVE UNCHANGED drafts
  BY <1>3, <1>1
     DEF AdvanceStep, Incident, Context, Candidates, Validate, Load, Assess, AllAssessed, Select,
         Evidence, Contain, AppendEvent, Handler, Finish, remote
<1>4. ASSUME NEW t \in Threads, VerifyStep(t) PROVE UNCHANGED drafts
  BY <1>4, <1>1 DEF VerifyStep, Verify, FinalEvidence, Resolve, remote
<1>5. ASSUME NEW t \in Threads, PullRequest(t) PROVE drafts' \subseteq drafts \cup {CaseOf(t)}
  BY <1>5 DEF PullRequest
<1>6. ASSUME NEW t \in Threads, Unreadable(t) \/ Fault(t) PROVE UNCHANGED drafts
  BY <1>6, <1>1 DEF Unreadable, Fault
<1>7. ASSUME \/ \E t \in Threads, e \in Events : Deliver(t, e)
             \/ \E t \in Threads, c \in CaseIds : StartVerify(t, c)
             \/ \E p \in Processes : ResetDemo(p) \/ Crash(p)
             \/ UNCHANGED vars
      PROVE  UNCHANGED drafts
  BY <1>7 DEF Deliver, StartVerify, ResetDemo, Crash, remote, vars
<1> QED
  BY <1>2, <1>3, <1>4, <1>5, <1>6, <1>7 DEF Next, Step, Quiescent

\* Every step keeps the drafts backed.
LEMMA DraftsStep ==
    ASSUME Typed, StagesInv, DraftIsBacked, [Next]_vars
    PROVE  DraftIsBacked'
<1> DEFINE Rests3(c, i, j, k) ==
             /\ i < j /\ j < k /\ SameStream(i, j) /\ SameStream(j, k)
             /\ log[i].case_id = c
             /\ log[i].event_type = "CANDIDATE_ASSESSED"
             /\ log[j].event_type = "PATCH_READY"
             /\ log[i].payload = [id |-> log[j].payload.selected, outcome |-> "ELIGIBLE"]
             /\ log[k].event_type = "EVIDENCE_WRITTEN"
             /\ ReplayMode \/ log[k].payload.status = "SUCCEEDED"
<1>1. DOMAIN log \subseteq DOMAIN log' /\ \A i \in DOMAIN log : log'[i] = log[i]
  BY LogKept
<1>2. ASSUME NEW c, NEW i \in DOMAIN log, NEW j \in DOMAIN log, NEW k \in DOMAIN log,
             Rests3(c, i, j, k)
      PROVE  \E a, b, d \in DOMAIN log' : Rests3(c, a, b, d)'
  <2>1. i \in DOMAIN log' /\ j \in DOMAIN log' /\ k \in DOMAIN log'
        /\ log'[i] = log[i] /\ log'[j] = log[j] /\ log'[k] = log[k]
    BY <1>1
  <2> QED
    BY <1>2, <2>1 DEF SameStream
<1>3. ASSUME NEW c \in drafts PROVE \E i, j, k \in DOMAIN log : Rests3(c, i, j, k)
  BY DEF DraftIsBacked
<1>4. ASSUME NEW t \in Threads, PullRequest(t)
      PROVE  \E i, j, k \in DOMAIN log : Rests3(CaseOf(t), i, j, k)
  <2> DEFINE c == CaseOf(t)
  <2>1. thread[t].pc = "pull_request" /\ thread[t].pc \in Working /\ c = thread[t].case_id
    BY <1>4 DEF PullRequest, At_, At, Working, Middle, CaseOf
  <2>2. StageOf(log, thread[t]) /\ LogInv /\ c \in CaseIds
    BY <2>1, StageStarts
  <2>3. Backed(log, c)
    BY <2>2 DEF LogInv
  <2>4. PICK k \in RowsIn(log, c, "EVIDENCE_WRITTEN") : Ready(log[k].payload.status)
    BY <2>1, <2>2 DEF StageOf
  <2>5. PICK j \in RowsIn(log, c, "PATCH_READY") : j < k
    BY <2>3, <2>4 DEF Backed
  <2>6. PICK i \in RowsIn(log, c, "CANDIDATE_ASSESSED") :
            i < j /\ log[i].payload = Passed(log[j].payload.selected)
    BY <2>3, <2>5 DEF Backed
  <2>7. ASSUME NEW type, NEW x \in RowsIn(log, c, type)
        PROVE  /\ x \in DOMAIN log /\ log[x].event_type = type /\ log[x].case_id = c
               /\ log[x].reset_scope = CurrentScope(log)
    BY <2>2, <2>7 DEF RowsIn, ActiveRows, LogInv, ScopesAgree
  <2>8. Rests3(c, i, j, k)
    BY <2>4, <2>5, <2>6, <2>7 DEF SameStream, Passed, Ready
  <2> QED
    BY <2>7, <2>8
<1>5. ASSUME NEW c \in drafts' PROVE \E i, j, k \in DOMAIN log : Rests3(c, i, j, k)
  BY <1>3, <1>4, DraftsGrow
<1>6. ASSUME NEW c \in drafts' PROVE \E a, b, d \in DOMAIN log' : Rests3(c, a, b, d)'
  <2>1. PICK i, j, k \in DOMAIN log : Rests3(c, i, j, k)
    BY <1>5
  <2> HIDE DEF Rests3
  <2> QED
    BY <1>2, <2>1
<1> QED
  BY <1>6 DEF DraftIsBacked

\* With one API process a draft pull request exists only for a patch that was
\* assessed eligible and, in connected mode, whose evidence report DataHub
\* confirmed, whatever crashes and resets come between these steps.
THEOREM DraftsAreBacked ==
    ASSUME OneProcess
    PROVE  Spec => []DraftIsBacked
<1>1. Typed /\ LockHeld /\ StagesInv /\ DraftIsBacked /\ [Next]_vars => DraftIsBacked'
  BY DraftsStep
<1>2. Init => DraftIsBacked
  BY DEF Init, DraftIsBacked
<1> QED
  BY <1>1, <1>2, StagesAlways, PTL DEF Spec

-------------------------------------------------------------------------------
(***************************************************************************)
(* How a case and its live incident end.                                   *)
(***************************************************************************)
\* The incidents of a case that DataHub confirmed, and whether one is closed.
IsLiveRow(row) == row.event_type = "INCIDENT_RAISED" /\ row.payload.status = "SUCCEEDED"
Live(rows, c)  == {i \in RowsIn(rows, c, "INCIDENT_RAISED") : rows[i].payload.status = "SUCCEEDED"}
Shut(rows, incs, c) == \E i \in Live(rows, c) : incs[rows[i].payload.urn].status = "RESOLVED"

\* A row, or a call, names an incident its case has raised, or one still open.
Confirmed(incs, row) ==
    IsLiveRow(row) => /\ row.payload.urn \in DOMAIN incs
                      /\ incs[row.payload.urn].case_id = row.case_id
Unclosed(incs, row) == IsLiveRow(row) => incs[row.payload.urn].status # "RESOLVED"

\* The closing call that was not confirmed, recorded; and the two ways to end a
\* case after it.
Lost == [reason |-> "resolution"]
Excused(rows, c) == \E i \in RowsIn(rows, c, "FAILED") : rows[i].payload = Lost
Closes(call) ==
    call.event_type = "INCIDENT_RESOLVED" \/ (call.event_type = "FAILED" /\ call.payload = Lost)

\* Every live incident of the case is closed and its final report published.
Recovered(rows, incs, docs, c) ==
    \A i \in Live(rows, c) :
        incs[rows[i].payload.urn].status = "RESOLVED" /\ "RECOVERED" \in docs[c]

\* A verification holds the one incident of its case.
Held(rows, r) ==
    /\ \A i \in RowsIn(rows, r.case_id, "INCIDENT_RAISED") : rows[i].payload = r.incident
    /\ IsLive(r.incident) => RowsIn(rows, r.case_id, "INCIDENT_RAISED") # {}

\* What a thread knows of the end of its case.  Until the closing call was made
\* the incident is not closed; after it only its outcome is left to record.
CloseOf(rows, incs, docs, r) ==
    /\ r.pc \in Working \ {"finish", "append"} => ~Shut(rows, incs, r.case_id)
    /\ r.pc = "verify" => r.op = "verify"
    /\ r.pc \in {"final_evidence", "resolve"} =>
          /\ r.op = "verify" /\ Held(rows, r)
          /\ CurrentState(rows, r.case_id) = "POST_DEPLOY_VERIFIED"
    /\ r.pc = "resolve" /\ Live(rows, r.case_id) # {} => "RECOVERED" \in docs[r.case_id]
    /\ r.pc = "append" =>
          /\ r.next # "resolve"
          /\ \A i \in DOMAIN r.pending :
                /\ Confirmed(incs, r.pending[i]) /\ Unclosed(incs, r.pending[i])
                /\ r.pending[i].event_type = "INCIDENT_RESOLVED" =>
                      Recovered(rows, incs, docs, r.case_id)
          /\ Shut(rows, incs, r.case_id) =>
                /\ r.op = "verify" /\ r.next = "finish"
                /\ CurrentState(rows, r.case_id) = "POST_DEPLOY_VERIFIED"
                /\ \E call : r.pending = <<call>> /\ Closes(call)
          /\ r.next = "final_evidence" =>
                /\ r.op = "verify" /\ Held(rows, r)
                /\ \A i \in DOMAIN r.pending : r.pending[i].event_type # "INCIDENT_RAISED"
                /\ \A call : r.pending = <<call>> => call.event_type = "POST_DEPLOY_VERIFIED"
                /\ \A call, second : r.pending = <<call, second>> =>
                      second.event_type = "POST_DEPLOY_VERIFIED"

\* What the log says of the end of a case.
EndOf(rows, incs, docs, c) ==
    /\ Shut(rows, incs, c) =>
          CurrentState(rows, c) \in {"POST_DEPLOY_VERIFIED", "RESOLVED"} \/ Excused(rows, c)
    /\ CurrentState(rows, c) = "RESOLVED" => Recovered(rows, incs, docs, c)
EndsInv ==
    /\ \A i \in DOMAIN log : Confirmed(incidents, log[i])
    /\ \A c \in CaseIds : EndOf(log, incidents, documents, c)
CloseInv == EndsInv /\ \A t \in Threads : CloseOf(log, incidents, documents, thread[t])

\* Of most events a case has one row.
LEMMA OneOfAKind ==
    ASSUME LogOK, LogInv, NEW c, NEW type,
           type \notin {"PR_ATTEMPTED", "CANDIDATE_ASSESSED", "SYSTEM_RESET"},
           NEW i \in RowsIn(log, c, type), NEW j \in RowsIn(log, c, type)
    PROVE  i = j
<1>1. /\ i \in DOMAIN log /\ j \in DOMAIN log /\ i > CurrentScope(log) /\ j > CurrentScope(log)
      /\ log[i].case_id = c /\ log[j].case_id = c
      /\ log[i].event_type = type /\ log[j].event_type = type
  BY DEF RowsIn, ActiveRows
<1>2. SameStream(i, j) /\ SameStream(j, i)
  BY <1>1 DEF LogInv, ScopesAgree, SameStream
<1>3. ~(i < j) /\ ~(j < i)
  BY <1>1, <1>2 DEF LogInv, CheckpointsOnce
<1>4. DOMAIN log = 1 .. Len(log) /\ Len(log) \in Nat
  BY ScopeIsLastReset DEF LogOK
<1> QED
  BY <1>1, <1>3, <1>4

\* So what is read back of it is what that row says.
LEMMA LastIsTheOne ==
    ASSUME LogOK, LogInv, NEW c, NEW type,
           type \notin {"PR_ATTEMPTED", "CANDIDATE_ASSESSED", "SYSTEM_RESET"},
           NEW i \in RowsIn(log, c, type)
    PROVE  LastOf(c, type) = log[i].payload
<1>1. RowsOf(c, type) = RowsIn(log, c, type)
  BY DEF RowsOf, RowsIn
<1>2. PICK j \in RowsOf(c, type) : LastOf(c, type) = log[j].payload
  BY <1>1, LastIsARow DEF LogOK
<1> QED
  BY <1>1, <1>2, OneOfAKind

\* The live incident of a case, as it is read back and as a row.
LEMMA LiveIsLast ==
    ASSUME LogOK, LogInv, NEW c
    PROVE  /\ IsLive(LastOf(c, "INCIDENT_RAISED")) <=> Live(log, c) # {}
           /\ \A i \in Live(log, c) : log[i].payload = LastOf(c, "INCIDENT_RAISED")
           /\ Shut(log, incidents, c) <=>
                 /\ IsLive(LastOf(c, "INCIDENT_RAISED"))
                 /\ incidents[LastOf(c, "INCIDENT_RAISED").urn].status = "RESOLVED"
<1> DEFINE last == LastOf(c, "INCIDENT_RAISED")
<1>1. \A i \in RowsIn(log, c, "INCIDENT_RAISED") : log[i].payload = last
  BY LastIsTheOne
<1>2. RowsIn(log, c, "INCIDENT_RAISED") = {} => last = None
  BY DEF RowsIn, RowsOf, LastOf
<1>3. ASSUME NEW i \in RowsIn(log, c, "INCIDENT_RAISED") PROVE last # None
  <2>1. i \in DOMAIN log /\ log[i].event_type = "INCIDENT_RAISED"
    BY <1>3 DEF RowsIn, ActiveRows
  <2>2. log[i].payload \in Incidents
    BY <2>1 DEF LogOK, RowOK, PayloadOK, IncidentOK
  <2> QED
    BY <1>1, <1>3, <2>2, NoneIsNoPayload DEF Incidents
<1> HIDE DEF last
<1>4. IsLive(last) <=> Live(log, c) # {}
  BY <1>1, <1>2, <1>3 DEF Live, IsLive
<1>5. \A i \in Live(log, c) : log[i].payload = last
  BY <1>1 DEF Live
<1> QED
  BY <1>4, <1>5 DEF Shut, last

\* A case short of its verification after deployment has not closed its incident.
LEMMA NotShutBefore ==
    ASSUME LogOK, EndsInv, NEW c \in CaseIds, Ordered(log, c), Standing(log, c),
           CurrentState(log, c) # "POST_DEPLOY_VERIFIED"
    PROVE  ~Shut(log, incidents, c)
<1>1. RowsIn(log, c, "FAILED") = {}
  BY NothingFinal
<1>2. ~Excused(log, c)
  BY <1>1 DEF Excused
<1> QED
  BY <1>2 DEF EndsInv, EndOf, Standing, TerminalStates

\* What a thread elsewhere has to keep: nothing.
LEMMA CloseElsewhere ==
    ASSUME NEW rows, NEW incs, NEW docs, NEW r, r.pc \notin (Working \ {"finish"}) \cup {"verify"}
    PROVE  CloseOf(rows, incs, docs, r)
  BY DEF CloseOf, Working, Middle

\* A step that leaves log, incidents and documents alone.
LEMMA ClosesStay ==
    ASSUME CloseInv, NEW t \in Threads, Others(t), UNCHANGED <<log, incidents, documents>>,
           CloseOf(log, incidents, documents, thread'[t])
    PROVE  CloseInv'
<1>1. EndsInv'
  BY DEF CloseInv, EndsInv
<1>2. \A u \in Threads : CloseOf(log', incidents', documents', thread'[u])
  BY DEF Others, CloseInv
<1> QED
  BY <1>1, <1>2 DEF CloseInv

\* A step that changes them, behind the lock.
LEMMA ClosesGrow ==
    ASSUME OneProcess, Typed, LockHeld, EndsInv', NEW t \in Threads, Others(t),
           thread[t].pc \in Locked, CloseOf(log', incidents', documents', thread'[t])
    PROVE  CloseInv'
<1>1. ASSUME NEW u \in Threads \ {t} PROVE CloseOf(log', incidents', documents', thread'[u])
  <2>1. thread[u].pc \notin Locked
    BY OneAtWork
  <2>2. thread'[u].pc \notin Working \cup {"verify"}
    BY <2>1 DEF Others, Locked
  <2> QED
    BY <2>2, CloseElsewhere
<1> QED
  BY <1>1 DEF CloseInv

\* More incidents and more documents end no case.
GrowsRemote ==
    /\ DOMAIN incidents \subseteq DOMAIN incidents'
    /\ \A n \in DOMAIN incidents : incidents'[n] = incidents[n]
    /\ \A c \in CaseIds : documents[c] \subseteq documents'[c]

\* What the log says stays true.
LEMMA RemoteGrows ==
    ASSUME LogOK, EndsInv, UNCHANGED log, GrowsRemote
    PROVE  /\ EndsInv'
           /\ \A c \in CaseIds : Shut(log, incidents', c) <=> Shut(log, incidents, c)
<1>1. ASSUME NEW c \in CaseIds, NEW i \in Live(log, c)
      PROVE  incidents'[log[i].payload.urn] = incidents[log[i].payload.urn]
             /\ log[i].payload.urn \in DOMAIN incidents
  <2>1. i \in DOMAIN log /\ IsLiveRow(log[i])
    BY <1>1 DEF Live, RowsIn, ActiveRows, IsLiveRow
  <2>2. log[i].payload.urn \in DOMAIN incidents
    BY <2>1 DEF EndsInv, Confirmed
  <2> QED
    BY <2>2 DEF GrowsRemote
<1>2. ASSUME NEW c \in CaseIds PROVE Shut(log, incidents', c) <=> Shut(log, incidents, c)
  BY <1>1 DEF Shut
<1>3. \A i \in DOMAIN log : Confirmed(incidents', log[i])
  BY DEF EndsInv, Confirmed, GrowsRemote
<1>4. ASSUME NEW c \in CaseIds PROVE EndOf(log, incidents', documents', c)
  <2>1. EndOf(log, incidents, documents, c)
    BY DEF EndsInv
  <2>2. Recovered(log, incidents, documents, c) => Recovered(log, incidents', documents', c)
    BY <1>1 DEF Recovered, GrowsRemote
  <2> QED
    BY <1>2, <2>1, <2>2 DEF EndOf
<1> QED
  BY <1>2, <1>3, <1>4 DEF EndsInv

\* A stage that queues nothing about an incident, and does not end a verification.
Ordinarily(t) ==
    /\ Keeps(t) /\ thread'[t].pc \notin {"verify", "final_evidence", "resolve"}
    /\ thread'[t].pc = "append" =>
          /\ thread'[t].next \notin {"final_evidence", "resolve"}
          /\ \A i \in DOMAIN thread'[t].pending :
                thread'[t].pending[i].event_type \notin {"INCIDENT_RAISED", "INCIDENT_RESOLVED"}

\* It goes on elsewhere, or queues one event, or two.
LEMMA OrdinaryQueues ==
    ASSUME NEW t \in Threads, NEW next, next \notin {"final_evidence", "resolve"},
           NEW call, call.event_type \notin {"INCIDENT_RAISED", "INCIDENT_RESOLVED"},
           \/ Puts(t, <<call>>, next)
           \/ \E second : /\ second.event_type \notin {"INCIDENT_RAISED", "INCIDENT_RESOLVED"}
                          /\ Puts(t, <<call, second>>, next)
    PROVE  Ordinarily(t)
<1>1. CASE Puts(t, <<call>>, next)
  BY <1>1, ShortSeqs DEF Puts, Ordinarily
<1>2. ASSUME NEW second, second.event_type \notin {"INCIDENT_RAISED", "INCIDENT_RESOLVED"},
             Puts(t, <<call, second>>, next)
      PROVE  Ordinarily(t)
  <2>1. /\ DOMAIN <<call, second>> = {1, 2}
        /\ <<call, second>>[1] = call /\ <<call, second>>[2] = second
    BY ShortSeqs
  <2> QED
    BY <1>2, <2>1 DEF Puts, Ordinarily
<1> QED
  BY <1>1, <1>2

\* The stages of an advance but the first, and the handler.
LEMMA StagesAreOrdinary ==
    ASSUME Typed, NEW t \in Threads,
           \/ Context(t) \/ Candidates(t) \/ Validate(t) \/ Load(t)
           \/ Assess(t) \/ AllAssessed(t) \/ Select(t) \/ Evidence(t) \/ PullRequest(t)
           \/ Contain(t) \/ Handler(t)
    PROVE  Ordinarily(t)
<1>1. ThreadsOK
  BY DEF Typed
<1>2. ASSUME NEW pc, pc \notin {"verify", "final_evidence", "resolve", "append"}, Goes(t, pc)
      PROVE  Ordinarily(t)
  BY <1>2 DEF Goes, Ordinarily
<1>3. ASSUME NEW pc, pc \notin {"verify", "final_evidence", "resolve", "append"}, Goto(t, pc)
      PROVE  Ordinarily(t)
  BY <1>1, <1>2, <1>3, GotoGoes
<1>4. ASSUME NEW type, type \notin {"INCIDENT_RAISED", "INCIDENT_RESOLVED"}, NEW payload,
             NEW next, next \notin {"final_evidence", "resolve"},
             Puts(t, <<Call(t, type, payload)>>, next)
      PROVE  Ordinarily(t)
  <2>1. PICK call : call = Call(t, type, payload)
    OBVIOUS
  <2>2. call.event_type = type
    BY <2>1, CallFields
  <2> QED
    BY <1>4, <2>1, <2>2, OrdinaryQueues
<1>5. ASSUME NEW type, type \notin {"INCIDENT_RAISED", "INCIDENT_RESOLVED"}, NEW payload,
             NEW next, next \notin {"final_evidence", "resolve"},
             Queue(t, <<Call(t, type, payload)>>, next)
      PROVE  Ordinarily(t)
  BY <1>1, <1>4, <1>5, QueuePuts
<1>6. CASE Context(t) \/ Validate(t)
  BY <1>3, <1>5, <1>6 DEF Context, Validate
<1>7. CASE Candidates(t)
  <2>1. \/ \E found : Finds(t, found)
        \/ Goto(t, "contain")
        \/ Queue(t, <<Call(t, "FAILED", [reason |-> "generation"])>>, "finish")
        \/ \E found :
             Proposes(t, <<Call(t, "CANDIDATES_READY", [proposals |-> found])>>, "validate", found)
    BY <1>7 DEF Candidates, Finds, Proposes
  <2>2. ASSUME NEW found,
               Proposes(t, <<Call(t, "CANDIDATES_READY", [proposals |-> found])>>, "validate", found)
        PROVE  Ordinarily(t)
    BY <1>1, <1>4, <2>2, CandidatesPuts
  <2>3. ASSUME NEW found, Finds(t, found) PROVE Ordinarily(t)
    BY <1>1, <1>2, <2>3, CandidatesGoes
  <2>4. CASE Goto(t, "contain")
    BY <1>3, <2>4
  <2>5. CASE Queue(t, <<Call(t, "FAILED", [reason |-> "generation"])>>, "finish")
    BY <1>5, <2>5
  <2> QED
    BY <2>1, <2>2, <2>3, <2>4, <2>5
<1>8. CASE Load(t)
  <2>1. Loads(t, Project(CaseOf(t)).assessed)
    BY <1>8 DEF Load, Loads
  <2> QED
    BY <1>1, <1>2, <2>1, LoadGoes
<1>9. CASE Assess(t)
  <2>1. PICK p \in thread[t].proposals, outcome \in {"ELIGIBLE", "REJECTED"} :
            Assesses(t, <<Call(t, "CANDIDATE_ASSESSED", [id |-> p, outcome |-> outcome])>>,
                     "assess", p, outcome)
    BY <1>9 DEF Assess, Assesses
  <2>2. Puts(t, <<Call(t, "CANDIDATE_ASSESSED", [id |-> p, outcome |-> outcome])>>, "assess")
    BY <1>1, <2>1, AssessPuts
  <2> QED
    BY <1>4, <2>2
<1>10. CASE AllAssessed(t) \/ Select(t) \/ Handler(t)
  <2>1. \/ \E pc \in {"contain", "select", "evidence", "finish"} : Goto(t, pc)
        \/ \E payload : Queue(t, <<Call(t, "PATCH_READY", payload)>>, "evidence")
        \/ \E payload : Queue(t, <<Call(t, "FAILED", payload)>>, "finish")
    BY <1>10 DEF AllAssessed, Select, Handler
  <2>2. CASE \E pc \in {"contain", "select", "evidence", "finish"} : Goto(t, pc)
    BY <1>3, <2>2
  <2>3. CASE \E payload : Queue(t, <<Call(t, "PATCH_READY", payload)>>, "evidence")
    BY <1>5, <2>3
  <2>4. CASE \E payload : Queue(t, <<Call(t, "FAILED", payload)>>, "finish")
    BY <1>5, <2>4
  <2> QED
    BY <2>1, <2>2, <2>3, <2>4
<1>11. CASE Evidence(t)
  <2>1. ASSUME NEW payload,
               Queue(t, <<Call(t, "EVIDENCE_WRITTEN", payload),
                          Call(t, "FAILED", [reason |-> "evidence"])>>, "finish")
        PROVE  Ordinarily(t)
    <3>1. PICK call : call = Call(t, "EVIDENCE_WRITTEN", payload)
      OBVIOUS
    <3>2. PICK second : second = Call(t, "FAILED", [reason |-> "evidence"])
      OBVIOUS
    <3>3. call.event_type = "EVIDENCE_WRITTEN" /\ second.event_type = "FAILED"
      BY <3>1, <3>2, CallFields
    <3>4. Puts(t, <<call, second>>, "finish")
      BY <1>1, <2>1, <3>1, <3>2, QueuePuts
    <3> QED
      BY <3>3, <3>4, OrdinaryQueues
  <2>2. \/ Goto(t, "pull_request")
        \/ Queue(t, <<Call(t, "FAILED", [reason |-> "evidence"])>>, "finish")
        \/ \E payload :
              \/ Queue(t, <<Call(t, "EVIDENCE_WRITTEN", payload)>>, "pull_request")
              \/ Queue(t, <<Call(t, "EVIDENCE_WRITTEN", payload),
                            Call(t, "FAILED", [reason |-> "evidence"])>>, "finish")
    BY <1>11 DEF Evidence
  <2>3. CASE Goto(t, "pull_request")
    BY <1>3, <2>3
  <2>4. CASE Queue(t, <<Call(t, "FAILED", [reason |-> "evidence"])>>, "finish")
    BY <1>5, <2>4
  <2>5. ASSUME NEW payload, Queue(t, <<Call(t, "EVIDENCE_WRITTEN", payload)>>, "pull_request")
        PROVE  Ordinarily(t)
    BY <1>5, <2>5
  <2> QED
    BY <2>1, <2>2, <2>3, <2>4, <2>5
<1>12. CASE PullRequest(t)
  <2>1. \/ Goto(t, "finish")
        \/ \E payload : \/ Queue(t, <<Call(t, "PR_OPENED", payload)>>, "finish")
                        \/ Queue(t, <<Call(t, "PR_ATTEMPTED", payload)>>, "finish")
    BY <1>12 DEF PullRequest
  <2>2. CASE Goto(t, "finish")
    BY <1>3, <2>2
  <2>3. CASE \E payload : Queue(t, <<Call(t, "PR_OPENED", payload)>>, "finish")
    BY <1>5, <2>3
  <2>4. CASE \E payload : Queue(t, <<Call(t, "PR_ATTEMPTED", payload)>>, "finish")
    BY <1>5, <2>4
  <2> QED
    BY <2>1, <2>2, <2>3, <2>4
<1>13. CASE Contain(t)
  <2>1. \E payload : Queue(t, <<Call(t, "CONTAINED", payload)>>, "finish")
    BY <1>13 DEF Contain
  <2> QED
    BY <1>5, <2>1
<1> QED
  BY <1>6, <1>7, <1>8, <1>9, <1>10, <1>11, <1>12, <1>13

\* Such a stage of a case whose incident is not closed leaves it so.
LEMMA OrdinaryCloses ==
    ASSUME NEW rows, NEW incs, NEW docs, NEW t \in Threads, Ordinarily(t),
           ~Shut(rows, incs, thread[t].case_id)
    PROVE  CloseOf(rows, incs, docs, thread'[t])
<1> DEFINE r == thread'[t]
<1>1. /\ r.case_id = thread[t].case_id /\ r.pc \notin {"verify", "final_evidence", "resolve"}
      /\ r.pc = "append" =>
            /\ r.next \notin {"final_evidence", "resolve"}
            /\ \A i \in DOMAIN r.pending :
                  r.pending[i].event_type \notin {"INCIDENT_RAISED", "INCIDENT_RESOLVED"}
  BY DEF Ordinarily, Keeps
<1> HIDE DEF r
<1>2. ~Shut(rows, incs, r.case_id)
  BY <1>1
<1>3. r.pc = "append" =>
         \A i \in DOMAIN r.pending :
            /\ Confirmed(incs, r.pending[i]) /\ Unclosed(incs, r.pending[i])
            /\ r.pending[i].event_type # "INCIDENT_RESOLVED"
  BY <1>1 DEF Confirmed, Unclosed, IsLiveRow
<1>4. CloseOf(rows, incs, docs, r)
  BY <1>1, <1>2, <1>3 DEF CloseOf
<1> QED
  BY <1>4 DEF r

\* Evidence documents are only added.
LEMMA DocumentsGrow ==
    ASSUME Typed, NEW c, NEW decision, NEW applied, WriteDocument(c, decision, applied)
    PROVE  \A b \in CaseIds : documents[b] \subseteq documents'[b]
<1>1. documents = [b \in CaseIds |-> documents[b]]
  BY DEF Typed, RemoteOK
<1> QED
  BY <1>1 DEF WriteDocument

\* The steps of these stages.
LEMMA OrdinaryKeepsCloses ==
    ASSUME OneProcess, Typed, LockHeld, CloseInv, NEW t \in Threads,
           \/ Context(t) \/ Candidates(t) \/ Validate(t) \/ Load(t)
           \/ Assess(t) \/ AllAssessed(t) \/ Select(t) \/ Evidence(t) \/ PullRequest(t)
           \/ Contain(t) \/ Handler(t)
    PROVE  CloseInv'
<1>1. thread[t].pc \in Middle \ {"finish"} /\ UNCHANGED <<log, incidents>>
  BY DEF Context, Candidates, Validate, Load, Assess, AllAssessed, Select, Evidence, PullRequest,
         Contain, Handler, At_, At, Middle, StepOnly, remote
<1>2. \A b \in CaseIds : documents[b] \subseteq documents'[b]
  <2>1. UNCHANGED documents \/ \E c, decision, applied : WriteDocument(c, decision, applied)
    BY DEF Context, Candidates, Validate, Load, Assess, AllAssessed, Select, Evidence,
           PullRequest, Contain, Handler, remote
  <2> QED
    BY <2>1, DocumentsGrow
<1>3. LogOK /\ thread[t].pc \in Working \ {"finish", "append"} /\ thread[t].pc \in Locked
      /\ thread[t].case_id \in CaseIds
  <2>1. thread[t].pc \in Working /\ thread[t].pc # "append" /\ thread[t].pc # "finish"
    BY <1>1 DEF Working, Middle
  <2> QED
    BY <2>1, AtWork DEF Locked, Typed
<1>4. ~Shut(log, incidents, thread[t].case_id) /\ EndsInv
  BY <1>3 DEF CloseInv, CloseOf
<1>5. EndsInv'
  BY <1>1, <1>2, <1>3, <1>4, RemoteGrows DEF GrowsRemote
<1>6. Ordinarily(t) /\ Others(t)
  BY StagesAreOrdinary DEF Ordinarily, Keeps
<1>7. CloseOf(log', incidents', documents', thread'[t])
  BY <1>1, <1>4, <1>6, OrdinaryCloses
<1> QED
  BY <1>3, <1>5, <1>6, <1>7, ClosesGrow

\* The state of a case stays when another case gets a row.
LEMMA OtherStates ==
    ASSUME LogOK, NEW row, row.event_type # "SYSTEM_RESET", log' = Append(log, row), NEW c,
           c # row.case_id
    PROVE  CurrentState(log', c) = CurrentState(log, c)
<1>1. /\ Len(log) \in Nat /\ DOMAIN log = 1 .. Len(log)
      /\ \A i \in DOMAIN log : log'[i] = log[i]
      /\ ActiveRows(log, c) \subseteq DOMAIN log
      /\ ActiveRows(log', c) = ActiveRows(log, c)
  BY RowAdded
<1>2. CASE ActiveRows(log, c) = {}
  BY <1>1, <1>2 DEF CurrentState
<1>3. CASE ActiveRows(log, c) # {}
  <2>1. ActiveRows(log, c) \in SUBSET (0 .. Len(log))
    BY <1>1
  <2>2. Max(ActiveRows(log, c)) \in ActiveRows(log, c)
    BY <1>1, <1>3, <2>1, MaxIsGreatest
  <2> QED
    BY <1>1, <1>3, <2>2 DEF CurrentState
<1> QED
  BY <1>2, <1>3

\* The live incidents of a case after an append.
LEMMA LiveGrows ==
    ASSUME LogOK, NEW row, row.event_type # "SYSTEM_RESET", log' = Append(log, row), NEW c
    PROVE  /\ Live(log, c) \subseteq DOMAIN log
           /\ ~(c = row.case_id /\ IsLiveRow(row)) => Live(log', c) = Live(log, c)
           /\ c = row.case_id /\ IsLiveRow(row) => Live(log', c) = Live(log, c) \cup {Len(log) + 1}
           /\ \A i \in Live(log, c) : log'[i] = log[i]
           /\ log'[Len(log) + 1] = row
<1> DEFINE n == Len(log) + 1
           type == "INCIDENT_RAISED"
<1>1. /\ n \notin DOMAIN log /\ log'[n] = row
      /\ \A i \in DOMAIN log : log'[i] = log[i]
      /\ RowsIn(log, c, type) \subseteq DOMAIN log
      /\ c # row.case_id \/ type # row.event_type => RowsIn(log', c, type) = RowsIn(log, c, type)
      /\ c = row.case_id /\ type = row.event_type =>
            RowsIn(log', c, type) = RowsIn(log, c, type) \cup {n}
  BY RowsGrow
<1> HIDE DEF n
<1>2. Live(log, c) \subseteq DOMAIN log
  BY <1>1 DEF Live
<1>3. ASSUME c # row.case_id \/ type # row.event_type PROVE Live(log', c) = Live(log, c)
  BY <1>1, <1>3 DEF Live
<1>4. ASSUME c = row.case_id, type = row.event_type
      PROVE  /\ row.payload.status # "SUCCEEDED" => Live(log', c) = Live(log, c)
             /\ row.payload.status = "SUCCEEDED" => Live(log', c) = Live(log, c) \cup {n}
  BY <1>1, <1>4 DEF Live
<1> QED
  BY <1>1, <1>2, <1>3, <1>4 DEF IsLiveRow, n

\* The row of an incident that is not closed closes none.
LEMMA ShutStays ==
    ASSUME LogOK, NEW row, row.event_type # "SYSTEM_RESET", log' = Append(log, row),
           Unclosed(incidents, row), NEW c
    PROVE  Shut(log', incidents, c) <=> Shut(log, incidents, c)
<1>1. CASE ~(c = row.case_id /\ IsLiveRow(row))
  BY <1>1, LiveGrows DEF Shut
<1>2. CASE c = row.case_id /\ IsLiveRow(row)
  <2> DEFINE n == Len(log) + 1
  <2>1. /\ Live(log', c) = Live(log, c) \cup {n} /\ log'[n] = row
        /\ \A i \in Live(log, c) : log'[i] = log[i]
    BY <1>2, LiveGrows
  <2>2. incidents[row.payload.urn].status # "RESOLVED"
    BY <1>2 DEF Unclosed
  <2> HIDE DEF n
  <2> QED
    BY <2>1, <2>2 DEF Shut
<1> QED
  BY <1>1, <1>2

\* An append concerns the end of its own case only.
LEMMA AppendEnds ==
    ASSUME LogOK, EndsInv, UNCHANGED <<incidents, documents>>,
           NEW row, row.event_type # "SYSTEM_RESET", log' = Append(log, row),
           Confirmed(incidents, row), Unclosed(incidents, row),
           EndOf(log', incidents, documents, row.case_id)
    PROVE  EndsInv'
<1>1. ASSUME NEW i \in DOMAIN log' PROVE Confirmed(incidents, log'[i])
  <2>1. (i \in DOMAIN log /\ log'[i] = log[i]) \/ log'[i] = row
    BY RowAdded
  <2> QED
    BY <2>1 DEF EndsInv
<1>2. ASSUME NEW c \in CaseIds, c # row.case_id PROVE EndOf(log', incidents, documents, c)
  <2>1. CurrentState(log', c) = CurrentState(log, c)
    BY <1>2, OtherStates
  <2>2. /\ Live(log', c) = Live(log, c) /\ \A i \in Live(log, c) : log'[i] = log[i]
        /\ Shut(log', incidents, c) <=> Shut(log, incidents, c)
    BY <1>2, LiveGrows, ShutStays
  <2>3. Excused(log, c) <=> Excused(log', c)
    <3>1. /\ RowsIn(log', c, "FAILED") = RowsIn(log, c, "FAILED")
          /\ RowsIn(log, c, "FAILED") \subseteq DOMAIN log
          /\ \A i \in DOMAIN log : log'[i] = log[i]
      BY <1>2, RowsGrow
    <3> QED
      BY <3>1 DEF Excused
  <2>4. EndOf(log, incidents, documents, c)
    BY DEF EndsInv
  <2> QED
    BY <2>1, <2>2, <2>3, <2>4 DEF EndOf, Recovered
<1> QED
  BY <1>1, <1>2 DEF EndsInv

\* A confirmed answer of DataHub was applied.
LEMMA ConfirmedIsApplied == \A a \in DataHubAnswers : a[1] = "SUCCEEDED" => a[2]
<1> SUFFICES ASSUME NEW a \in DataHubAnswers, a[1] = "SUCCEEDED" PROVE a[2]
  OBVIOUS
<1>1. CASE DataHubConfigured
  <2>1. a \in {<<"SUCCEEDED", TRUE>>, <<"FAILED", TRUE>>, <<"FAILED", FALSE>>}
    BY <1>1 DEF DataHubAnswers, Answers
  <2>2. CASE a = <<"SUCCEEDED", TRUE>>
    BY <2>2
  <2>3. CASE a = <<"FAILED", TRUE>>
    <3>1. a[1] = "FAILED"
      BY <2>3
    <3> QED
      BY <3>1
  <2>4. CASE a = <<"FAILED", FALSE>>
    <3>1. a[1] = "FAILED"
      BY <2>4
    <3> QED
      BY <3>1
  <2> QED
    BY <2>1, <2>2, <2>3, <2>4
<1>2. CASE ~DataHubConfigured
  <2>1. a = <<"NOT_CONFIGURED", FALSE>>
    BY <1>2 DEF DataHubAnswers, Answers
  <2>2. a[1] = "NOT_CONFIGURED"
    BY <2>1
  <2> QED
    BY <2>2
<1> QED
  BY <1>1, <1>2

\* Queued events that close nothing, of a case whose incident is not closed.
LEMMA QueueCloses ==
    ASSUME NEW rows, NEW incs, NEW docs, NEW t \in Threads, Keeps(t), thread'[t].pc = "append",
           thread'[t].next \notin {"final_evidence", "resolve"},
           ~Shut(rows, incs, thread[t].case_id),
           \A i \in DOMAIN thread'[t].pending :
              /\ Confirmed(incs, thread'[t].pending[i]) /\ Unclosed(incs, thread'[t].pending[i])
              /\ thread'[t].pending[i].event_type # "INCIDENT_RESOLVED"
    PROVE  CloseOf(rows, incs, docs, thread'[t])
<1>1. PICK r : r = thread'[t]
  OBVIOUS
<1>2. /\ r.case_id = thread[t].case_id /\ r.pc = "append"
      /\ r.next \notin {"final_evidence", "resolve"}
      /\ \A i \in DOMAIN r.pending :
            /\ Confirmed(incs, r.pending[i]) /\ Unclosed(incs, r.pending[i])
            /\ r.pending[i].event_type # "INCIDENT_RESOLVED"
  BY <1>1 DEF Keeps
<1>3. ~Shut(rows, incs, r.case_id)
  BY <1>2
<1>4. CloseOf(rows, incs, docs, r)
  BY <1>2, <1>3 DEF CloseOf
<1> QED
  BY <1>1, <1>4

\* What a stage of a case whose incident is not closed starts from.
LEMMA StillOpen ==
    ASSUME Typed, CloseInv, NEW t \in Threads, thread[t].pc \in Working \ {"finish", "append"}
    PROVE  /\ ~Shut(log, incidents, thread[t].case_id) /\ EndsInv /\ LogOK /\ ThreadsOK
           /\ thread[t].pc \in Locked /\ thread[t].case_id \in CaseIds
<1>1. CloseOf(log, incidents, documents, thread[t]) /\ EndsInv
  BY DEF CloseInv
<1>2. ~Shut(log, incidents, thread[t].case_id)
  BY <1>1 DEF CloseOf
<1> QED
  BY <1>1, <1>2, AtWork DEF Locked, Typed

\* A new incident is open.
LEMMA IncidentKeepsCloses ==
    ASSUME OneProcess, Typed, LockHeld, CloseInv, NEW t \in Threads, Incident(t)
    PROVE  CloseInv'
<1> DEFINE c == thread[t].case_id
<1>0. PICK failed : failed = Call(t, "FAILED", [reason |-> "incident"])
  OBVIOUS
<1>1. /\ thread[t].pc \in Working \ {"finish", "append"} /\ CaseOf(t) = c
      /\ UNCHANGED <<log, documents>>
  BY DEF Incident, At_, At, Working, Middle, CaseOf, StepOnly
<1>2. /\ ~Shut(log, incidents, c) /\ EndsInv /\ LogOK /\ ThreadsOK
      /\ thread[t].pc \in Locked /\ c \in CaseIds
  BY <1>1, StillOpen
<1>3. failed.event_type = "FAILED"
  BY <1>0 DEF Call, ProgressCall
<1>4. ASSUME Ordinarily(t), UNCHANGED incidents PROVE CloseInv'
  <2>1. CloseOf(log, incidents, documents, thread'[t])
    BY <1>2, <1>4, OrdinaryCloses
  <2> QED
    BY <1>1, <1>4, <2>1, ClosesStay DEF Ordinarily, Keeps
<1>5. ASSUME NEW pc \in {"finish", "context"}, Goto(t, pc), UNCHANGED incidents PROVE CloseInv'
  <2>1. Goes(t, pc)
    BY <1>2, <1>5, GotoGoes
  <2>2. Ordinarily(t)
    BY <2>1 DEF Goes, Ordinarily
  <2> QED
    BY <1>4, <1>5, <2>2
<1>6. ASSUME Queue(t, <<failed>>, "finish"), UNCHANGED incidents PROVE CloseInv'
  <2>1. Puts(t, <<failed>>, "finish")
    BY <1>2, <1>6, QueuePuts
  <2>2. Ordinarily(t)
    BY <1>3, <2>1, OrdinaryQueues
  <2> QED
    BY <1>4, <1>6, <2>2
<1>7. ASSUME NEW a \in DataHubAnswers, RaiseIncident(c, a[2]), NEW urn, NEW payload,
             urn = IF a[1] = "SUCCEEDED" THEN Len(incidents) + 1 ELSE 0,
             payload = [status |-> a[1], urn |-> urn],
             \/ Queue(t, <<Call(t, "INCIDENT_RAISED", payload)>>, "context")
             \/ Queue(t, <<Call(t, "INCIDENT_RAISED", payload), failed>>, "finish")
      PROVE  CloseInv'
  <2>1. PICK raised : raised = Call(t, "INCIDENT_RAISED", payload)
    OBVIOUS
  <2>2. /\ raised.event_type = "INCIDENT_RAISED" /\ raised.payload = payload
        /\ raised.case_id = c
    BY <1>1, <2>1 DEF Call, ProgressCall
  <2>3. PICK new : new = [case_id |-> c, status |-> "ACTIVE"]
    OBVIOUS
  <2>4. IsSeq(incidents) /\ incidents' = IF a[2] THEN Append(incidents, new) ELSE incidents
    BY <1>7, <2>3 DEF RaiseIncident, Typed, RemoteOK
  <2>5. /\ DOMAIN incidents \subseteq DOMAIN incidents'
        /\ \A n \in DOMAIN incidents : incidents'[n] = incidents[n]
        /\ a[2] => /\ Len(incidents) + 1 \in DOMAIN incidents'
                   /\ incidents'[Len(incidents) + 1] = new
    <3>1. CASE a[2]
      <4>1. incidents' = Append(incidents, new)
        BY <2>4, <3>1
      <4> QED
        BY <2>4, <4>1, Appended
    <3>2. CASE ~a[2]
      BY <2>4, <3>2
    <3> QED
      BY <3>1, <3>2
  <2>6. GrowsRemote
    BY <1>1, <2>5 DEF GrowsRemote
  <2>7. EndsInv' /\ ~Shut(log, incidents', c)
    BY <1>1, <1>2, <2>6, RemoteGrows
  <2>8. Confirmed(incidents', raised) /\ Unclosed(incidents', raised)
    <3> SUFFICES ASSUME IsLiveRow(raised)
                 PROVE  /\ raised.payload.urn \in DOMAIN incidents'
                        /\ incidents'[raised.payload.urn].case_id = raised.case_id
                        /\ incidents'[raised.payload.urn].status # "RESOLVED"
      BY DEF Confirmed, Unclosed
    <3>1. a[1] = "SUCCEEDED"
      BY <1>7, <2>2 DEF IsLiveRow
    <3>2. a[2]
      BY <3>1, ConfirmedIsApplied
    <3>3. raised.payload.urn = Len(incidents) + 1
      BY <1>7, <2>2, <3>1
    <3>4. new.case_id = c /\ new.status # "RESOLVED"
      BY <2>3
    <3> QED
      BY <2>2, <2>5, <3>2, <3>3, <3>4
  <2>9. Confirmed(incidents', failed) /\ Unclosed(incidents', failed)
    BY <1>3 DEF Confirmed, Unclosed, IsLiveRow
  <2>10. ASSUME Keeps(t), thread'[t].pc = "append",
                thread'[t].next \in {"context", "finish"},
                \A i \in DOMAIN thread'[t].pending : thread'[t].pending[i] \in {raised, failed}
         PROVE  CloseInv'
    <3>1. \A i \in DOMAIN thread'[t].pending :
             /\ Confirmed(incidents', thread'[t].pending[i])
             /\ Unclosed(incidents', thread'[t].pending[i])
             /\ thread'[t].pending[i].event_type # "INCIDENT_RESOLVED"
      BY <1>3, <2>2, <2>8, <2>9, <2>10
    <3>2. CloseOf(log, incidents', documents', thread'[t])
      BY <2>7, <2>10, <3>1, QueueCloses
    <3> QED
      BY <1>1, <1>2, <2>7, <2>10, <3>2, ClosesGrow DEF Keeps
  <2>11. CASE Queue(t, <<raised>>, "context")
    <3>1. Puts(t, <<raised>>, "context")
      BY <1>2, <2>11, QueuePuts
    <3> QED
      BY <2>10, <3>1, ShortSeqs DEF Puts
  <2>12. CASE Queue(t, <<raised, failed>>, "finish")
    <3>1. Puts(t, <<raised, failed>>, "finish")
      BY <1>2, <2>12, QueuePuts
    <3>2. \A i \in DOMAIN <<raised, failed>> : <<raised, failed>>[i] \in {raised, failed}
      <4>1. /\ DOMAIN <<raised, failed>> = {1, 2}
            /\ <<raised, failed>>[1] = raised /\ <<raised, failed>>[2] = failed
        BY ShortSeqs
      <4> QED
        BY <4>1
    <3> QED
      BY <2>10, <3>1, <3>2 DEF Puts
  <2> QED
    BY <1>7, <2>1, <2>11, <2>12
<1>8. \/ UNCHANGED incidents /\ \E pc \in {"finish", "context"} : Goto(t, pc)
      \/ UNCHANGED incidents /\ Queue(t, <<failed>>, "finish")
      \/ \E a \in DataHubAnswers :
            LET urn == IF a[1] = "SUCCEEDED" THEN Len(incidents) + 1 ELSE 0
                payload == [status |-> a[1], urn |-> urn]
            IN  /\ RaiseIncident(c, a[2])
                /\ \/ Queue(t, <<Call(t, "INCIDENT_RAISED", payload)>>, "context")
                   \/ Queue(t, <<Call(t, "INCIDENT_RAISED", payload), failed>>, "finish")
  BY <1>0, <1>1 DEF Incident
<1> QED
  BY <1>5, <1>6, <1>7, <1>8

\* An exception closes nothing, and the closing call is not part of an advance.
LEMMA ExceptionKeepsCloses ==
    ASSUME Typed, CloseInv, NEW t \in Threads, Exception(t), thread[t].pc # "finish"
    PROVE  CloseInv'
<1>1. ThreadsOK /\ UNCHANGED <<log, incidents, documents>>
  BY DEF Typed, Exception, remote
<1>2. CASE thread[t].op = "advance" /\
           thread' = [thread EXCEPT ![t].pc = "handler", ![t].op = "handler", ![t].pending = <<>>]
  <2>1. /\ Others(t) /\ thread'[t].pc = "handler"
        /\ thread'[t].case_id = thread[t].case_id
    BY <1>1, <1>2, HandlerGoes
  <2>2. thread[t].pc \in Working
    BY <1>1, <1>2 DEF ThreadsOK, ThreadOK
  <2>3. ~Shut(log, incidents, thread[t].case_id)
    <3>1. CloseOf(log, incidents, documents, thread[t])
      BY DEF CloseInv
    <3>2. thread[t].op # "verify"
      BY <1>2
    <3> QED
      BY <2>2, <3>1, <3>2 DEF CloseOf
  <2>4. PICK r : r = thread'[t]
    OBVIOUS
  <2>5. r.pc = "handler" /\ ~Shut(log, incidents, r.case_id)
    BY <2>1, <2>3, <2>4
  <2>6. CloseOf(log, incidents, documents, r)
    BY <2>5 DEF CloseOf
  <2> QED
    BY <1>1, <2>1, <2>4, <2>6, ClosesStay
<1>3. CASE Respond(t, FALSE)
  <2>1. Others(t) /\ thread'[t] = IdleThread
    BY <1>1, <1>3, RespondClears
  <2>2. thread'[t].pc = "idle"
    BY <2>1 DEF IdleThread
  <2>3. CloseOf(log, incidents, documents, thread'[t])
    BY <2>2, CloseElsewhere DEF Working, Middle
  <2> QED
    BY <1>1, <2>1, <2>3, ClosesStay
<1> QED
  BY <1>2, <1>3 DEF Exception

\* A step that leaves log and remote systems alone and takes its thread elsewhere.
LEMMA ClosesLeft ==
    ASSUME CloseInv, NEW t \in Threads, Others(t), UNCHANGED <<log, remote>>,
           thread'[t].pc \notin (Working \ {"finish"}) \cup {"verify"}
    PROVE  CloseInv'
<1>1. CloseOf(log, incidents, documents, thread'[t])
  BY CloseElsewhere
<1> QED
  BY <1>1, ClosesStay DEF remote

\* A case that is resumed has not closed its incident.
LEMMA ResumedIsOpen ==
    ASSUME LogOK, LogInv, EndsInv, NEW c \in CaseIds, CurrentState(log, c) \in ResumableStates
    PROVE  ~Shut(log, incidents, c)
<1>1. Standing(log, c) /\ CurrentState(log, c) # "POST_DEPLOY_VERIFIED" /\ Ordered(log, c)
  BY ResumableStands DEF ResumableStates, LogInv
<1> QED
  BY <1>1, NotShutBefore

\* The requests before the advance begins, and after it has ended.
LEMMA AskingKeepsCloses ==
    ASSUME Typed, StagesInv, CloseInv, NEW t \in Threads,
           \/ Lookup(t) \/ FastDuplicate(t) \/ FastOwned(t) \/ Acquire(t)
           \/ Recheck(t) \/ Allocate(t) \/ Begin(t) \/ Finish(t)
           \/ \E e \in Events : Deliver(t, e)
           \/ \E c \in CaseIds : StartVerify(t, c)
    PROVE  CloseInv'
<1>1. ThreadsOK /\ LogOK /\ LogInv /\ EndsInv
  BY DEF Typed, StagesInv, CloseInv
<1>2. CASE Rests(t)
  BY <1>2, ClosesLeft DEF Rests, Working, Middle
<1>3. CASE Lookup(t) \/ FastDuplicate(t) \/ FastOwned(t)
  <2>1. thread[t].pc \in {"lookup", "duplicate", "owned"}
    BY <1>3 DEF Lookup, FastDuplicate, FastOwned, At
  <2>2. ~Moves(t)
    BY <2>1 DEF Moves, Working, Middle
  <2>3. CASE Asks(t)
    <3>1. thread'[t].pc \in {"lookup", "duplicate", "owned", "lock"}
      BY <2>1, <2>3 DEF Asks
    <3> QED
      BY <2>3, <3>1, ClosesLeft DEF Asks, Working, Middle
  <2> QED
    BY <1>2, <1>3, <2>2, <2>3, FastPathAsks
<1>4. CASE Acquire(t)
  <2>1. Acquires(t)
    BY <1>4, AcquireAcquires
  <2>2. PICK pc : Goto(t, pc) /\ (pc = "verify" => thread[t].op = "verify")
    BY <1>4 DEF Acquire
  <2>3. PICK r : r = thread'[t]
    OBVIOUS
  <2>4. r.pc \in {"verify", "recheck"} /\ (r.pc = "verify" => r.op = "verify")
    <3>1. Goes(t, pc)
      BY <1>1, <2>2, GotoGoes
    <3> QED
      BY <2>1, <2>2, <2>3, <3>1 DEF Goes, Keeps, Acquires
  <2>5. CloseOf(log, incidents, documents, r)
    BY <2>4 DEF CloseOf, Working, Middle
  <2> QED
    BY <2>1, <2>3, <2>5, ClosesStay DEF Acquires, remote
<1>5. CASE Recheck(t) \/ Allocate(t)
  <2>1. thread[t].pc \in {"recheck", "allocate"}
    BY <1>5 DEF Recheck, Allocate, At
  <2>2. ~Moves(t)
    BY <2>1 DEF Moves, Working, Middle
  <2>3. CASE Asks(t) /\ thread'[t].pc # "begin"
    <3>1. thread'[t].pc \in {"lookup", "duplicate", "owned", "lock", "allocate", "detect"}
      BY <2>3 DEF Asks
    <3> QED
      BY <2>3, <3>1, ClosesLeft DEF Asks, Working, Middle
  <2>4. CASE Asks(t) /\ thread'[t].pc = "begin"
    <3>1. PICK c, pc : Visits(t, pc, c)
             /\ (pc = "detect" \/ CurrentState(log, c) \in ResumableStates)
      <4>1. \/ Exception(t) \/ Goto(t, "allocate") \/ \E ok : Respond(t, ok)
            \/ \E c, pc : Visits(t, pc, c)
                 /\ (pc = "detect" \/ CurrentState(log, c) \in ResumableStates)
        BY <1>5 DEF Recheck, Allocate, Visits
      <4>2. ~Exception(t)
        <5>1. ASSUME thread' = [thread EXCEPT ![t].pc = "handler", ![t].op = "handler",
                                              ![t].pending = <<>>]
              PROVE  FALSE
          BY <1>1, <2>4, <5>1, HandlerGoes
        <5>2. ASSUME Respond(t, FALSE) PROVE FALSE
          <6>1. thread'[t] = IdleThread
            BY <1>1, <5>2, RespondClears
          <6> QED
            BY <2>4, <6>1, IdleOK
        <5> QED
          BY <5>1, <5>2 DEF Exception
      <4>3. ~Goto(t, "allocate")
        BY <1>1, <2>4, GotoGoes DEF Goes
      <4>4. ASSUME NEW ok, Respond(t, ok) PROVE FALSE
        <5>1. thread'[t] = IdleThread
          BY <1>1, <4>4, RespondClears
        <5> QED
          BY <2>4, <5>1, IdleOK
      <4> QED
        BY <4>1, <4>2, <4>3, <4>4
    <3>2. thread'[t].pc = pc /\ thread'[t].case_id = c
      BY <1>1, <3>1, CaseGoes
    <3>3. CurrentState(log, c) \in ResumableStates
      BY <2>4, <3>1, <3>2
    <3>4. ThreadOK(thread'[t])
      BY <2>4 DEF Asks, ThreadsOK
    <3>5. c \in CaseIds
      BY <2>4, <3>2, <3>4 DEF ThreadOK, Working
    <3>6. ~Shut(log, incidents, c)
      BY <1>1, <3>3, <3>5, ResumedIsOpen
    <3>7. PICK r : r = thread'[t]
      OBVIOUS
    <3>8. r.pc = "begin" /\ ~Shut(log, incidents, r.case_id)
      BY <2>4, <3>2, <3>6, <3>7
    <3>9. CloseOf(log, incidents, documents, r)
      BY <3>8 DEF CloseOf
    <3> QED
      BY <2>4, <3>7, <3>9, ClosesStay DEF Asks, remote
  <2> QED
    BY <1>2, <1>5, <2>2, <2>3, <2>4, RecheckAsks
<1>6. CASE Begin(t)
  <2>1. /\ Others(t) /\ thread'[t].pc = "incident" /\ thread'[t].case_id = thread[t].case_id
        /\ UNCHANGED <<log, remote>> /\ thread[t].pc = "begin"
    BY <1>1, <1>6, BeginGoes DEF Begin, At
  <2>2. ~Shut(log, incidents, thread[t].case_id)
    BY <2>1, StillOpen DEF Working
  <2>3. PICK r : r = thread'[t]
    OBVIOUS
  <2>4. r.pc = "incident" /\ ~Shut(log, incidents, r.case_id)
    BY <2>1, <2>2, <2>3
  <2>5. CloseOf(log, incidents, documents, r)
    BY <2>4 DEF CloseOf
  <2> QED
    BY <2>1, <2>3, <2>5, ClosesStay DEF remote
<1>7. CASE Finish(t)
  BY <1>2, <1>7, FinishRests
<1>8. ASSUME NEW e \in Events, Deliver(t, e) PROVE CloseInv'
  <2>1. Receives(t, e) /\ UNCHANGED <<log, remote>>
    BY <1>8 DEF Deliver, Receives
  <2>2. Others(t) /\ thread'[t].pc = "lookup"
    BY <1>1, <2>1, DeliverGoes
  <2> QED
    BY <2>1, <2>2, ClosesLeft DEF Working, Middle
<1>9. ASSUME NEW c \in CaseIds, StartVerify(t, c) PROVE CloseInv'
  <2>1. Queries(t, c) /\ UNCHANGED <<log, remote>>
    BY <1>9 DEF StartVerify, Queries
  <2>2. Others(t) /\ thread'[t].pc = "lock"
    BY <1>1, <2>1, StartGoes
  <2> QED
    BY <2>1, <2>2, ClosesLeft DEF Working, Middle
<1> QED
  BY <1>3, <1>4, <1>5, <1>6, <1>7, <1>8, <1>9

\* A new case has no incident.
LEMMA DetectKeepsCloses ==
    ASSUME OneProcess, Typed, LockHeld, StagesInv, CloseInv, NEW t \in Threads, Detect(t)
    PROVE  CloseInv'
<1> DEFINE call == DetectionOf(t, CaseOf(t))
<1>1. thread[t].pc = "detect" /\ ThreadsOK /\ LogOK /\ LogInv /\ EndsInv
  BY DEF Detect, At, Typed, StagesInv, CloseInv
<1>2. CASE /\ Accepted(log, call) /\ log' = Append(log, NewRow(log, call)) /\ Goto(t, "begin")
           /\ UNCHANGED remote
  <2>1. PICK c : c = CaseOf(t)
    OBVIOUS
  <2>2. c \in CaseIds /\ Ordered(log, c) /\ c = thread[t].case_id
    BY <1>1, <2>1 DEF ThreadsOK, ThreadOK, CaseOf, LogInv
  <2>3. PICK new : new = call
    OBVIOUS
  <2>4. /\ new.case_id = c /\ new.event_type = "SCHEMA_CHANGE_DETECTED"
        /\ new.state = "DETECTED"
    BY <2>1, <2>3 DEF DetectionOf, DetectionCall
  <2>5. CurrentState(log, c) = None
    BY <1>2, <2>3, <2>4 DEF Accepted, SecondDetection
  <2>6. ActiveRows(log, c) = {}
    BY <1>1, <2>2, <2>5, StateIsLast, NoneIsNoState
  <2>7. PICK row : row = NewRow(log, new)
    OBVIOUS
  <2>8. /\ row.event_type = "SCHEMA_CHANGE_DETECTED" /\ row.case_id = c
        /\ row.state = "DETECTED" /\ log' = Append(log, row)
    BY <1>2, <2>3, <2>4, <2>7 DEF NewRow
  <2>9. Confirmed(incidents, row) /\ Unclosed(incidents, row) /\ ~IsLiveRow(row)
    BY <2>8 DEF Confirmed, Unclosed, IsLiveRow
  <2>10. Live(log', c) = {} /\ CurrentState(log', c) = "DETECTED"
    <3>1. Live(log', c) = Live(log, c)
      BY <1>1, <2>8, <2>9, LiveGrows
    <3>2. Live(log, c) = {}
      BY <2>6 DEF Live, RowsIn
    <3> QED
      BY <1>1, <2>8, <3>1, <3>2, RowsGrow
  <2>11. ~Shut(log', incidents, c) /\ EndOf(log', incidents, documents, c)
    BY <2>10 DEF Shut, EndOf
  <2>12. EndsInv'
    BY <1>1, <1>2, <2>8, <2>9, <2>11, AppendEnds DEF remote
  <2>13. Goes(t, "begin")
    BY <1>1, <1>2, GotoGoes
  <2>14. PICK r : r = thread'[t]
    OBVIOUS
  <2>15. r.pc = "begin" /\ ~Shut(log', incidents, r.case_id)
    BY <2>2, <2>11, <2>13, <2>14 DEF Goes, Keeps
  <2>16. CloseOf(log', incidents, documents, r)
    BY <2>15 DEF CloseOf
  <2>17. CloseOf(log', incidents', documents', thread'[t])
    BY <1>2, <2>14, <2>16 DEF remote
  <2> QED
    BY <1>1, <2>12, <2>13, <2>17, ClosesGrow DEF Goes, Keeps, Locked
<1>3. CASE Exception(t)
  BY <1>1, <1>3, ExceptionKeepsCloses
<1>4. ASSUME NEW ok, Respond(t, ok), UNCHANGED <<log, remote>> PROVE CloseInv'
  <2>1. Others(t) /\ thread'[t] = IdleThread
    BY <1>1, <1>4, RespondClears
  <2>2. thread'[t].pc = "idle"
    BY <2>1 DEF IdleThread
  <2> QED
    BY <1>4, <2>1, <2>2, ClosesLeft DEF Working, Middle
<1>5. ASSUME NEW n, Retries(t, n), UNCHANGED <<log, remote>> PROVE CloseInv'
  <2>1. Keeps(t) /\ thread'[t].pc = "allocate"
    BY <1>1, <1>5, RetryGoes
  <2> QED
    BY <1>5, <2>1, ClosesLeft DEF Keeps, Working, Middle
<1>6. \/ /\ Accepted(log, call) /\ log' = Append(log, NewRow(log, call)) /\ Goto(t, "begin")
         /\ UNCHANGED remote
      \/ Exception(t)
      \/ \E ok : Respond(t, ok) /\ UNCHANGED <<log, remote>>
      \/ \E n : Retries(t, n) /\ UNCHANGED <<log, remote>>
  BY DEF Detect, Retries
<1> QED
  BY <1>2, <1>3, <1>4, <1>5, <1>6

\* A verification starts with the incident open, and keeps the one it read.
LEMMA VerifyKeepsCloses ==
    ASSUME OneProcess, Typed, LockHeld, StagesInv, CloseInv, NEW t \in Threads, Verify(t)
    PROVE  CloseInv'
<1> DEFINE c == thread[t].case_id
           incident == LastOf(c, "INCIDENT_RAISED")
<1>0. PICK deployed, verified : /\ deployed = Call(t, "DEPLOYMENT_RECORDED", [mode |-> EvidenceMode])
                                /\ verified = Call(t, "POST_DEPLOY_VERIFIED", [mode |-> EvidenceMode])
  OBVIOUS
<1>1. thread[t].pc = "verify" /\ CaseOf(t) = c
  BY DEF Verify, At_, At, CaseOf
<1>2. ThreadsOK /\ LogOK /\ LogInv /\ EndsInv /\ c \in CaseIds /\ Ordered(log, c)
  BY <1>1 DEF StagesInv, LogInv, Typed, ThreadsOK, ThreadOK, CloseInv
<1>3. thread[t].op = "verify"
  BY <1>1 DEF CloseInv, CloseOf
<1>4. CASE Exception(t)
  BY <1>1, <1>4, ExceptionKeepsCloses
<1>5. CASE ~Exception(t)
  <2>1. UNCHANGED <<log, remote>> /\ CurrentState(log, c) = "PR_OPEN"
    <3>1. Project(c).state = "PR_OPEN" /\ UNCHANGED <<log, remote>>
      BY <1>1, <1>5 DEF Verify
    <3> QED
      BY <1>2, <3>1, ReadsBack
  <2>2. ~Shut(log, incidents, c)
    <3>1. Standing(log, c) /\ CurrentState(log, c) # "POST_DEPLOY_VERIFIED"
      BY <2>1 DEF Standing, TerminalStates
    <3> QED
      BY <1>2, <3>1, NotShutBefore
  <2>3. /\ deployed.event_type = "DEPLOYMENT_RECORDED"
        /\ verified.event_type = "POST_DEPLOY_VERIFIED"
    BY <1>0 DEF Call, ProgressCall
  <2>4. \/ Takes(t, <<deployed, verified>>, "final_evidence", incident)
        \/ Takes(t, <<deployed>>, "contain", incident)
    <3>1. PICK verdict \in Verdicts(Project(c).incident) :
              thread' = [thread EXCEPT ![t] =
                            [(IF verdict = "accepted"
                              THEN Queued(t, <<deployed, verified>>, "final_evidence")
                              ELSE Queued(t, <<deployed>>, "contain"))
                             EXCEPT !.incident = Project(c).incident]]
      BY <1>0, <1>1, <1>5 DEF Verify
    <3>2. Project(c).incident = incident
      BY DEF Project
    <3>3. CASE verdict = "accepted"
      BY <3>1, <3>2, <3>3 DEF Takes
    <3>4. CASE verdict # "accepted"
      BY <3>1, <3>2, <3>4 DEF Takes
    <3> QED
      BY <3>3, <3>4
  <2> HIDE DEF incident
  <2>5. CASE Takes(t, <<deployed>>, "contain", incident)
    <3>1. Puts(t, <<deployed>>, "contain")
      BY <1>2, <2>5, VerifyPuts
    <3>2. Ordinarily(t)
      BY <2>3, <3>1, OrdinaryQueues
    <3>3. CloseOf(log, incidents, documents, thread'[t])
      BY <2>2, <3>2, OrdinaryCloses
    <3> QED
      BY <2>1, <3>2, <3>3, ClosesStay DEF Ordinarily, Keeps, remote
  <2>6. CASE Takes(t, <<deployed, verified>>, "final_evidence", incident)
    <3>1. Puts(t, <<deployed, verified>>, "final_evidence") /\ thread'[t].incident = incident
      BY <1>2, <2>6, VerifyPuts
    <3>2. PICK r : r = thread'[t]
      OBVIOUS
    <3>3. /\ r.pc = "append" /\ r.next = "final_evidence" /\ r.op = "verify"
          /\ r.case_id = c /\ r.incident = incident /\ r.pending = <<deployed, verified>>
      BY <1>3, <3>1, <3>2 DEF Puts, Keeps
    <3>4. Held(log, r)
      <4>1. \A i \in RowsIn(log, c, "INCIDENT_RAISED") : log[i].payload = incident
        BY <1>2, LastIsTheOne DEF incident
      <4>2. IsLive(incident) => RowsIn(log, c, "INCIDENT_RAISED") # {}
        BY <1>2, LiveIsLast DEF incident, Live
      <4> QED
        BY <3>3, <4>1, <4>2 DEF Held
    <3>5. /\ DOMAIN r.pending = {1, 2} /\ r.pending[1] = deployed /\ r.pending[2] = verified
      BY <3>3, ShortSeqs
    <3>6. \A i \in DOMAIN r.pending :
             /\ r.pending[i].event_type \notin {"INCIDENT_RAISED", "INCIDENT_RESOLVED"}
             /\ Confirmed(incidents, r.pending[i]) /\ Unclosed(incidents, r.pending[i])
      BY <2>3, <3>5 DEF Confirmed, Unclosed, IsLiveRow
    <3>7. /\ \A call : r.pending # <<call>>
          /\ \A call, second : r.pending = <<call, second>> => second = verified
      BY <3>3
    <3>8. ~Shut(log, incidents, r.case_id)
      BY <2>2, <3>3
    <3>9. CloseOf(log, incidents, documents, r)
      <4>1. r.next = "final_evidence" =>
               /\ r.op = "verify" /\ Held(log, r)
               /\ \A i \in DOMAIN r.pending : r.pending[i].event_type # "INCIDENT_RAISED"
               /\ \A call : r.pending = <<call>> => call.event_type = "POST_DEPLOY_VERIFIED"
               /\ \A call, second : r.pending = <<call, second>> =>
                     second.event_type = "POST_DEPLOY_VERIFIED"
        BY <2>3, <3>3, <3>4, <3>6, <3>7
      <4>2. /\ r.pc = "append" /\ r.next # "resolve"
            /\ \A i \in DOMAIN r.pending :
                /\ Confirmed(incidents, r.pending[i]) /\ Unclosed(incidents, r.pending[i])
                /\ r.pending[i].event_type # "INCIDENT_RESOLVED"
        BY <3>3, <3>6
      <4> HIDE DEF c
      <4> QED
        BY <3>8, <4>1, <4>2 DEF CloseOf
    <3> QED
      BY <2>1, <3>1, <3>2, <3>9, ClosesStay DEF Puts, Keeps, remote
  <2> QED
    BY <2>4, <2>5, <2>6
<1> QED
  BY <1>4, <1>5

\* The closing report is published before the closing call is made.
LEMMA FinalEvidenceKeepsCloses ==
    ASSUME OneProcess, Typed, LockHeld, StagesInv, CloseInv, NEW t \in Threads, FinalEvidence(t)
    PROVE  CloseInv'
<1> DEFINE c == thread[t].case_id
<1>0. PICK failed : failed = Call(t, "FAILED", [reason |-> "final evidence"])
  OBVIOUS
<1>1. /\ thread[t].pc = "final_evidence" /\ thread[t].pc \in Working \ {"finish", "append"}
      /\ CaseOf(t) = c /\ UNCHANGED <<log, incidents>>
  BY DEF FinalEvidence, At, Working, Middle, CaseOf, StepOnly
<1>2. /\ ~Shut(log, incidents, c) /\ EndsInv /\ LogOK /\ ThreadsOK
      /\ thread[t].pc \in Locked /\ c \in CaseIds
  BY <1>1, StillOpen
<1>3. thread[t].op = "verify" /\ Held(log, thread[t])
      /\ CurrentState(log, c) = "POST_DEPLOY_VERIFIED"
  BY <1>1 DEF CloseInv, CloseOf
<1>4. failed.event_type = "FAILED"
  BY <1>0 DEF Call, ProgressCall
<1>5. PICK a \in DataHubAnswers :
         /\ WriteDocument(c, "RECOVERED", a[2])
         /\ \/ Queue(t, <<failed>>, "finish")
            \/ Goto(t, "resolve") /\ ~(IsLive(thread[t].incident) /\ a[1] # "SUCCEEDED")
  BY <1>0, <1>1 DEF FinalEvidence
<1>6. EndsInv'
  <2>1. \A b \in CaseIds : documents[b] \subseteq documents'[b]
    BY <1>5, DocumentsGrow
  <2> QED
    BY <1>1, <1>2, <2>1, RemoteGrows DEF GrowsRemote
<1>7. CASE Queue(t, <<failed>>, "finish")
  <2>1. Puts(t, <<failed>>, "finish")
    BY <1>2, <1>7, QueuePuts
  <2>2. Ordinarily(t)
    BY <1>4, <2>1, OrdinaryQueues
  <2>3. CloseOf(log', incidents', documents', thread'[t])
    BY <1>1, <1>2, <2>2, OrdinaryCloses
  <2> QED
    BY <1>2, <1>6, <2>2, <2>3, ClosesGrow DEF Ordinarily, Keeps
<1>8. CASE Goto(t, "resolve") /\ ~(IsLive(thread[t].incident) /\ a[1] # "SUCCEEDED")
  <2>1. Goes(t, "resolve")
    BY <1>2, <1>8, GotoGoes
  <2>2. PICK r : r = thread'[t]
    OBVIOUS
  <2>3. /\ r.pc = "resolve" /\ r.op = "verify" /\ r.case_id = c
        /\ r.incident = thread[t].incident
    BY <1>3, <2>1, <2>2 DEF Goes, Keeps
  <2>4. Held(log, r)
    BY <1>3, <2>3 DEF Held
  <2>5. Live(log, c) # {} => "RECOVERED" \in documents'[c]
    <3> SUFFICES ASSUME NEW i \in Live(log, c) PROVE "RECOVERED" \in documents'[c]
      OBVIOUS
    <3>1. i \in RowsIn(log, c, "INCIDENT_RAISED") /\ log[i].payload.status = "SUCCEEDED"
      BY DEF Live
    <3>2. thread[t].incident = log[i].payload
      BY <1>3, <3>1 DEF Held
    <3>3. log[i].payload \in Incidents
      BY <1>2, <3>1 DEF RowsIn, ActiveRows, LogOK, RowOK, PayloadOK, IncidentOK
    <3>4. IsLive(thread[t].incident)
      BY <3>1, <3>2, <3>3, NoneIsNoPayload DEF IsLive, Incidents
    <3>5. a[2]
      BY <1>8, <3>4, ConfirmedIsApplied
    <3>6. documents' = [documents EXCEPT ![c] = @ \cup {"RECOVERED"}]
      BY <1>5, <3>5 DEF WriteDocument
    <3> QED
      BY <1>2, <3>6 DEF Typed, RemoteOK
  <2>6. ~Shut(log, incidents, r.case_id)
        /\ (Live(log, r.case_id) # {} => "RECOVERED" \in documents'[r.case_id])
        /\ CurrentState(log, r.case_id) = "POST_DEPLOY_VERIFIED"
    BY <1>2, <1>3, <2>3, <2>5
  <2> HIDE DEF c
  <2>7. CloseOf(log, incidents, documents', r)
    BY <2>3, <2>4, <2>6 DEF CloseOf
  <2>8. CloseOf(log', incidents', documents', thread'[t])
    BY <1>1, <2>2, <2>7
  <2> QED
    BY <1>2, <1>6, <2>1, <2>8, ClosesGrow DEF Goes, Keeps
<1> QED
  BY <1>5, <1>7, <1>8

\* An answer to the closing call, and that an applied one closed what it named.
LEMMA ResolveAnswered ==
    ASSUME NEW urn, NEW a \in ResolveAnswers(urn)
    PROVE  /\ a[1] = "SUCCEEDED" => a[2]
           /\ a[2] => urn # 0
<1>1. CASE DataHubConfigured /\ urn = 0
  <2>1. a = <<"FAILED", FALSE>>
    BY <1>1 DEF ResolveAnswers
  <2>2. a[1] = "FAILED" /\ a[2] = FALSE
    BY <2>1
  <2> QED
    BY <2>2
<1>2. CASE DataHubConfigured /\ urn # 0
  <2>1. a \in DataHubAnswers
    BY <1>2 DEF ResolveAnswers
  <2> QED
    BY <1>2, <2>1, ConfirmedIsApplied
<1>3. CASE ~DataHubConfigured
  <2>1. a = <<"NOT_CONFIGURED", FALSE>>
    BY <1>3 DEF ResolveAnswers, DataHubAnswers, Answers
  <2>2. a[1] = "NOT_CONFIGURED" /\ a[2] = FALSE
    BY <2>1
  <2> QED
    BY <2>2
<1> QED
  BY <1>1, <1>2, <1>3

\* Closing the live incident of a case ends no other.
LEMMA ClosingEnds ==
    ASSUME LogOK, EndsInv, NEW c \in CaseIds, NEW urn \in DOMAIN incidents,
           RemoteOK, incidents[urn].case_id = c, UNCHANGED <<log, documents>>,
           incidents' = [incidents EXCEPT ![urn].status = "RESOLVED"],
           CurrentState(log, c) = "POST_DEPLOY_VERIFIED"
    PROVE  /\ EndsInv' /\ incidents'[urn].status = "RESOLVED"
           /\ \A b \in CaseIds \ {c} : Shut(log, incidents', b) <=> Shut(log, incidents, b)
<1>1. /\ DOMAIN incidents' = DOMAIN incidents
      /\ \A n \in DOMAIN incidents : n # urn => incidents'[n] = incidents[n]
      /\ incidents'[urn].case_id = c /\ incidents'[urn].status = "RESOLVED"
  <2>1. PICK old : old = incidents[urn]
    OBVIOUS
  <2>2. old \in RemoteIncident /\ old.case_id = c
    BY <2>1 DEF RemoteOK
  <2>3. PICK new : new = [old EXCEPT !.status = "RESOLVED"]
    OBVIOUS
  <2>4. new.case_id = c /\ new.status = "RESOLVED"
    BY <2>2, <2>3 DEF RemoteIncident
  <2>5. incidents' = [incidents EXCEPT ![urn] = new]
    BY <2>1, <2>3
  <2>6. /\ DOMAIN incidents' = DOMAIN incidents
        /\ \A n \in DOMAIN incidents : n # urn => incidents'[n] = incidents[n]
        /\ incidents'[urn] = new
    BY <2>5
  <2> QED
    BY <2>4, <2>6
<1>2. ASSUME NEW i \in DOMAIN log PROVE Confirmed(incidents', log'[i])
  <2>1. Confirmed(incidents, log[i])
    BY DEF EndsInv
  <2> QED
    BY <1>1, <2>1 DEF Confirmed
<1>3. ASSUME NEW b \in CaseIds \ {c}
      PROVE  /\ EndOf(log, incidents', documents, b)
             /\ Shut(log, incidents', b) <=> Shut(log, incidents, b)
  <2>1. ASSUME NEW i \in Live(log, b)
        PROVE  incidents'[log[i].payload.urn] = incidents[log[i].payload.urn]
    <3>1. i \in DOMAIN log /\ log[i].case_id = b /\ IsLiveRow(log[i])
      BY <2>1 DEF Live, RowsIn, ActiveRows, IsLiveRow
    <3>2. log[i].payload.urn \in DOMAIN incidents /\ incidents[log[i].payload.urn].case_id = b
      BY <3>1 DEF EndsInv, Confirmed
    <3>3. log[i].payload.urn # urn
      BY <1>3, <3>2
    <3> QED
      BY <1>1, <3>2, <3>3
  <2>2. Shut(log, incidents', b) <=> Shut(log, incidents, b)
    BY <2>1 DEF Shut
  <2>3. Recovered(log, incidents, documents, b) => Recovered(log, incidents', documents, b)
    BY <2>1 DEF Recovered
  <2>4. EndOf(log, incidents, documents, b)
    BY DEF EndsInv
  <2> QED
    BY <2>2, <2>3, <2>4 DEF EndOf
<1>4. EndOf(log, incidents', documents, c)
  BY DEF EndOf
<1> QED
  BY <1>1, <1>2, <1>3, <1>4 DEF EndsInv

\* What a closing call that was applied has closed: the live incident of the case.
LEMMA ClosingCall ==
    ASSUME Typed, CloseInv, NEW t \in Threads, thread[t].pc = "resolve",
           NEW urn, urn = IF thread[t].incident = None THEN 0 ELSE thread[t].incident.urn,
           NEW a \in ResolveAnswers(urn), a[2]
    PROVE  /\ \E i \in Live(log, thread[t].case_id) : log[i].payload.urn = urn
           /\ urn \in DOMAIN incidents /\ incidents[urn].case_id = thread[t].case_id
           /\ thread[t].incident.urn = urn
<1>0. PICK c, it : c = thread[t].case_id /\ it = thread[t].incident
  OBVIOUS
<1>1. ThreadOK(thread[t]) /\ EndsInv /\ CloseOf(log, incidents, documents, thread[t])
  BY DEF Typed, ThreadsOK, CloseInv
<1>2. /\ \A i \in RowsIn(log, c, "INCIDENT_RAISED") : log[i].payload = it
      /\ IsLive(it) => RowsIn(log, c, "INCIDENT_RAISED") # {}
  BY <1>0, <1>1 DEF CloseOf, Held
<1>3. urn # 0
  BY ResolveAnswered
<1>4. it # None /\ it.urn = urn
  BY <1>0, <1>3
<1>5. IncidentOK(it)
  BY <1>0, <1>1, <1>4 DEF ThreadOK
<1>6. IsLive(it) /\ it.status = "SUCCEEDED"
  BY <1>3, <1>4, <1>5 DEF IncidentOK, IsLive
<1>7. PICK i \in RowsIn(log, c, "INCIDENT_RAISED") : log[i].payload = it
  BY <1>2, <1>6
<1>8. i \in Live(log, c) /\ i \in DOMAIN log /\ log[i].case_id = c /\ IsLiveRow(log[i])
  BY <1>6, <1>7 DEF Live, RowsIn, ActiveRows, IsLiveRow
<1>9. urn \in DOMAIN incidents /\ incidents[urn].case_id = c
  BY <1>1, <1>4, <1>7, <1>8 DEF EndsInv, Confirmed
<1> QED
  BY <1>0, <1>4, <1>7, <1>8, <1>9

\* The closing call: what is queued says how it went.
LEMMA ResolveKeepsCloses ==
    ASSUME OneProcess, Typed, LockHeld, StagesInv, CloseInv, NEW t \in Threads, Resolve(t)
    PROVE  CloseInv'
<1>0. PICK c, it : c = thread[t].case_id /\ it = thread[t].incident
  OBVIOUS
<1>1. /\ thread[t].pc = "resolve" /\ thread[t].pc \in Working \ {"finish", "append"}
      /\ CaseOf(t) = c /\ UNCHANGED <<log, documents>>
  BY <1>0 DEF Resolve, At, Working, Middle, CaseOf, StepOnly
<1>2. /\ ~Shut(log, incidents, c) /\ EndsInv /\ LogOK /\ ThreadsOK /\ RemoteOK
      /\ thread[t].pc \in Locked /\ c \in CaseIds
  BY <1>0, <1>1, StillOpen DEF Typed
<1>3. /\ thread[t].op = "verify"
      /\ \A i \in RowsIn(log, c, "INCIDENT_RAISED") : log[i].payload = it
      /\ IsLive(it) => RowsIn(log, c, "INCIDENT_RAISED") # {}
      /\ CurrentState(log, c) = "POST_DEPLOY_VERIFIED"
      /\ Live(log, c) # {} => "RECOVERED" \in documents[c]
  <2>1. CloseOf(log, incidents, documents, thread[t])
    BY DEF CloseInv
  <2> QED
    BY <1>0, <1>1, <2>1 DEF CloseOf, Held
<1>4. PICK urn : urn = IF it = None THEN 0 ELSE it.urn
  OBVIOUS
<1>13. PICK a \in ResolveAnswers(urn) : \E call :
         /\ incidents' = IF a[2] THEN [incidents EXCEPT ![urn].status = "RESOLVED"] ELSE incidents
         /\ Queue(t, <<call>>, "finish")
         /\ \/ /\ call = Call(t, "FAILED", [reason |-> "resolution"])
               /\ IsLive(it) /\ a[1] # "SUCCEEDED"
            \/ /\ call = Call(t, "INCIDENT_RESOLVED", [status |-> a[1]])
               /\ ~(IsLive(it) /\ a[1] # "SUCCEEDED")
  BY <1>0, <1>1, <1>4 DEF Resolve
<1>5. PICK call :
         /\ incidents' = IF a[2] THEN [incidents EXCEPT ![urn].status = "RESOLVED"] ELSE incidents
         /\ Queue(t, <<call>>, "finish")
         /\ \/ /\ call = Call(t, "FAILED", [reason |-> "resolution"])
               /\ IsLive(it) /\ a[1] # "SUCCEEDED"
            \/ /\ call = Call(t, "INCIDENT_RESOLVED", [status |-> a[1]])
               /\ ~(IsLive(it) /\ a[1] # "SUCCEEDED")
  BY <1>13
<1>6. \/ call.event_type = "FAILED" /\ call.payload = Lost
      \/ call.event_type = "INCIDENT_RESOLVED" /\ (IsLive(it) => a[1] = "SUCCEEDED")
  BY <1>5 DEF Call, ProgressCall, Lost
<1>7. \A i \in Live(log, c) : log[i].payload = it /\ IsLive(it)
  <2> SUFFICES ASSUME NEW i \in Live(log, c) PROVE log[i].payload = it /\ IsLive(it)
    OBVIOUS
  <2>1. i \in RowsIn(log, c, "INCIDENT_RAISED") /\ log[i].payload.status = "SUCCEEDED"
    BY DEF Live
  <2>2. log[i].payload \in Incidents
    BY <1>2, <2>1 DEF RowsIn, ActiveRows, LogOK, RowOK, PayloadOK, IncidentOK
  <2> QED
    BY <1>3, <2>1, <2>2, NoneIsNoPayload DEF IsLive, Incidents
<1>8. PICK r : r = thread'[t]
  OBVIOUS
<1>9. /\ Others(t) /\ r.pc = "append" /\ r.pending = <<call>> /\ r.next = "finish"
      /\ r.op = "verify" /\ r.case_id = c
  <2>1. Puts(t, <<call>>, "finish")
    BY <1>2, <1>5, QueuePuts
  <2> QED
    BY <1>0, <1>3, <1>8, <2>1 DEF Puts, Keeps
<1>10. ASSUME EndsInv', call.event_type = "INCIDENT_RESOLVED" =>
                            Recovered(log, incidents', documents, c),
              \A b : b = c => (Shut(log, incidents', b) => CurrentState(log, b) = "POST_DEPLOY_VERIFIED")
       PROVE  CloseInv'
  <2>1. \A i \in DOMAIN r.pending : r.pending[i] = call
    BY <1>9, ShortSeqs
  <2>2. Confirmed(incidents', call) /\ Unclosed(incidents', call)
    BY <1>6 DEF Confirmed, Unclosed, IsLiveRow
  <2>3. Closes(call)
    BY <1>6 DEF Closes
  <2>4. /\ \A i \in DOMAIN r.pending :
             /\ Confirmed(incidents', r.pending[i]) /\ Unclosed(incidents', r.pending[i])
             /\ r.pending[i].event_type = "INCIDENT_RESOLVED" =>
                   Recovered(log, incidents', documents, r.case_id)
        /\ \E x : r.pending = <<x>> /\ Closes(x)
        /\ CurrentState(log, r.case_id) = "POST_DEPLOY_VERIFIED"
    BY <1>3, <1>9, <1>10, <2>1, <2>2, <2>3
  <2>5. CloseOf(log, incidents', documents, r)
    BY <1>9, <2>4 DEF CloseOf
  <2>6. CloseOf(log', incidents', documents', thread'[t])
    BY <1>1, <1>8, <2>5
  <2> QED
    BY <1>2, <1>9, <1>10, <2>6, ClosesGrow
<1>11. CASE ~a[2]
  <2>1. UNCHANGED incidents
    BY <1>5, <1>11
  <2>2. EndsInv'
    BY <1>1, <1>2, <2>1 DEF EndsInv
  <2>3. ASSUME call.event_type = "INCIDENT_RESOLVED" PROVE Live(log, c) = {}
    <3>1. ~IsLive(it)
      BY <1>6, <1>11, <2>3, ResolveAnswered
    <3> QED
      BY <1>7, <3>1
  <2>4. Recovered(log, incidents', documents, c) \/ call.event_type # "INCIDENT_RESOLVED"
    BY <2>3 DEF Recovered
  <2> QED
    BY <1>3, <1>10, <2>2, <2>4
<1>12. CASE a[2]
  <2>7. /\ \E i \in Live(log, c) : log[i].payload.urn = urn
        /\ urn \in DOMAIN incidents /\ incidents[urn].case_id = c /\ it.urn = urn
    BY <1>0, <1>1, <1>4, <1>13, <1>12, ClosingCall
  <2>8. EndsInv' /\ incidents'[urn].status = "RESOLVED"
    <3>1. incidents' = [incidents EXCEPT ![urn].status = "RESOLVED"]
      BY <1>5, <1>12
    <3> QED
      BY <1>1, <1>2, <1>3, <2>7, <3>1, ClosingEnds
  <2>9. Recovered(log, incidents', documents, c)
    BY <1>3, <1>7, <2>7, <2>8 DEF Recovered
  <2> QED
    BY <1>3, <1>10, <2>8, <2>9
<1> QED
  BY <1>11, <1>12

\* The row of a queued event: what it leaves of the case's end.
LEMMA AppendedEnd ==
    ASSUME LogOK, EndsInv, NEW q, CloseOf(log, incidents, documents, q), q.pc = "append",
           NEW call, 1 \in DOMAIN q.pending, call = q.pending[1], CallOK(call),
           NEW row, row = NewRow(log, call), row.case_id = q.case_id, log' = Append(log, row)
    PROVE  EndOf(log', incidents, documents, q.case_id)
<1> DEFINE n == Len(log) + 1
<1>0. PICK c : c = q.case_id
  OBVIOUS
<1>1. /\ row.event_type = call.event_type /\ row.case_id = c /\ row.state = call.state
      /\ row.payload = call.payload /\ row.event_type # "SYSTEM_RESET"
      /\ call.event_type \in CaseEvents /\ call.state = EventState[call.event_type]
  <2>1. call.event_type # "SYSTEM_RESET"
    BY DEF CallOK, CaseEvents, EventState
  <2> QED
    BY <1>0, <2>1 DEF NewRow, CallOK
<1>2. /\ Unclosed(incidents, row)
      /\ Shut(log, incidents, c) => \E x : q.pending = <<x>> /\ Closes(x)
      /\ call.event_type = "INCIDENT_RESOLVED" => Recovered(log, incidents, documents, c)
  BY <1>0, <1>1 DEF CloseOf, Unclosed, IsLiveRow
<1>3. /\ log'[n] = row /\ CurrentState(log', c) = row.state
      /\ row.event_type = "FAILED" => n \in RowsIn(log', c, "FAILED")
  BY <1>1, RowsGrow
<1>4. Shut(log', incidents, c) <=> Shut(log, incidents, c)
  BY <1>1, <1>2, ShutStays
<1> HIDE DEF n
<1>5. ASSUME Shut(log', incidents, c)
      PROVE  CurrentState(log', c) \in {"POST_DEPLOY_VERIFIED", "RESOLVED"} \/ Excused(log', c)
  <2>1. PICK x : q.pending = <<x>> /\ Closes(x)
    BY <1>2, <1>4, <1>5
  <2>2. x = call
    BY <2>1, ShortSeqs
  <2>3. CASE call.event_type = "INCIDENT_RESOLVED"
    <3>1. row.state = "RESOLVED"
      BY <1>1, <2>3 DEF EventState
    <3> QED
      BY <1>3, <3>1
  <2>4. CASE call.event_type = "FAILED" /\ call.payload = Lost
    BY <1>1, <1>3, <2>4 DEF Excused
  <2> QED
    BY <2>1, <2>2, <2>3, <2>4 DEF Closes
<1>6. ASSUME CurrentState(log', c) = "RESOLVED" PROVE Recovered(log', incidents, documents, c)
  <2>1. call.event_type = "INCIDENT_RESOLVED"
    BY <1>1, <1>3, <1>6 DEF CaseEvents, EventState
  <2>2. ~IsLiveRow(row)
    BY <1>1, <2>1 DEF IsLiveRow
  <2>3. Live(log', c) = Live(log, c) /\ \A i \in Live(log, c) : log'[i] = log[i]
    BY <1>1, <2>2, LiveGrows
  <2>4. Recovered(log, incidents, documents, c)
    BY <1>2, <2>1
  <2>5. PICK rows : rows = log'
    OBVIOUS
  <2>6. Live(rows, c) = Live(log, c) /\ \A i \in Live(log, c) : rows[i] = log[i]
    BY <2>3, <2>5
  <2>7. Recovered(rows, incidents, documents, c)
    BY <2>4, <2>6 DEF Recovered
  <2> QED
    BY <2>5, <2>7
<1>7. EndOf(log', incidents, documents, c)
  BY <1>5, <1>6 DEF EndOf
<1> QED
  BY <1>0, <1>7

\* And of what its thread knows of it.
LEMMA AppendedClose ==
    ASSUME LogOK, NEW q, CloseOf(log, incidents, documents, q), q.pc = "append",
           StageOf(log, q), q.next \in Middle,
           NEW call, call = Head(q.pending), Unclosed(incidents, call), CallOK(call),
           NEW row, row = NewRow(log, call), row.case_id = q.case_id, log' = Append(log, row),
           NEW r, r.pc = IF Len(q.pending) = 1 THEN q.next ELSE "append",
           r.op = q.op, r.case_id = q.case_id, r.incident = q.incident,
           r.pending = Tail(q.pending), r.next = q.next
    PROVE  CloseOf(log', incidents, documents, r)
<1>0. PICK c : c = q.case_id
  OBVIOUS
<1>1. /\ row.event_type = call.event_type /\ row.case_id = c /\ row.state = call.state
      /\ row.payload = call.payload /\ row.event_type # "SYSTEM_RESET"
      /\ call.event_type \in CaseEvents /\ call.state = EventState[call.event_type]
  <2>1. call.event_type # "SYSTEM_RESET"
    BY DEF CallOK, CaseEvents, EventState
  <2> QED
    BY <1>0, <2>1 DEF NewRow, CallOK
<1>2. Shut(log', incidents, c) <=> Shut(log, incidents, c)
  <2>1. Unclosed(incidents, row)
    BY <1>1 DEF Unclosed, IsLiveRow
  <2> QED
    BY <1>1, <2>1, ShutStays
<1>3. CurrentState(log', c) = row.state
  BY <1>1, RowsGrow
<1>4. \/ q.pending = <<call>> /\ Len(q.pending) = 1
      \/ /\ Len(q.pending) # 1 /\ r.pc = "append" /\ q.next \in {"finish", "final_evidence"}
         /\ \E second : q.pending = <<call, second>> /\ r.pending = <<second>>
                        /\ second.event_type \in SecondTypes
  <2>1. ASSUME NEW one, PlanOne(log, q, one) PROVE q.pending = <<call>> /\ Len(q.pending) = 1
    BY <2>1 DEF PlanOne
  <2>2. ASSUME NEW first, NEW second, PlanTwo(log, q, first, second)
        PROVE  /\ Len(q.pending) # 1 /\ r.pc = "append" /\ q.next \in {"finish", "final_evidence"}
               /\ q.pending = <<call, second>> /\ r.pending = <<second>>
               /\ second.event_type \in SecondTypes
    <3>1. /\ q.pending = <<first, second>> /\ second.event_type \in SecondTypes
          /\ q.next \in {"finish", "final_evidence"}
      BY <2>2 DEF PlanTwo
    <3>2. Len(q.pending) = 2 /\ call = first /\ r.pending = <<second>>
      BY <3>1
    <3> QED
      BY <3>1, <3>2
  <2> QED
    BY <2>1, <2>2 DEF StageOf
<1>5. ASSUME q.next = "final_evidence", call.event_type # "INCIDENT_RAISED"
      PROVE  r.op = "verify" /\ Held(log', r)
  <2>1. q.op = "verify" /\ Held(log, q)
    BY <1>5 DEF CloseOf
  <2>2. /\ RowsIn(log', c, "INCIDENT_RAISED") = RowsIn(log, c, "INCIDENT_RAISED")
        /\ \A i \in RowsIn(log, c, "INCIDENT_RAISED") : log'[i] = log[i]
    BY <1>1, <1>5, RowsGrow
  <2>3. PICK it : it = q.incident
    OBVIOUS
  <2>4. /\ \A i \in RowsIn(log, c, "INCIDENT_RAISED") : log[i].payload = it
        /\ IsLive(it) => RowsIn(log, c, "INCIDENT_RAISED") # {}
    BY <1>0, <2>1, <2>3 DEF Held
  <2>5. r.case_id = c /\ r.incident = it /\ r.op = "verify"
    BY <1>0, <2>1, <2>3
  <2>6. PICK rows : rows = log'
    OBVIOUS
  <2>7. /\ \A i \in RowsIn(rows, c, "INCIDENT_RAISED") : rows[i].payload = it
        /\ IsLive(it) => RowsIn(rows, c, "INCIDENT_RAISED") # {}
    <3>1. PICK old : old = RowsIn(log, c, "INCIDENT_RAISED")
      OBVIOUS
    <3>2. RowsIn(rows, c, "INCIDENT_RAISED") = old /\ \A i \in old : rows[i] = log[i]
      BY <2>2, <2>6, <3>1
    <3>3. (\A i \in old : log[i].payload = it) /\ (IsLive(it) => old # {})
      BY <2>4, <3>1
    <3> QED
      BY <3>2, <3>3
  <2>8. Held(rows, r)
    BY <2>5, <2>7 DEF Held
  <2> QED
    BY <2>5, <2>6, <2>8
<1>6. CASE q.pending = <<call>> /\ Len(q.pending) = 1
  <2>1. r.pc = q.next /\ q.next # "resolve"
    BY <1>6 DEF CloseOf
  <2>2. CASE q.next = "finish"
    BY <2>1, <2>2, CloseElsewhere DEF Working, Middle
  <2>3. CASE q.next # "finish"
    <3>1. ~Shut(log, incidents, c)
      BY <1>0, <2>3 DEF CloseOf
    <3>2. ~Shut(log', incidents, r.case_id)
      BY <1>0, <1>2, <3>1
    <3>3. r.pc \notin {"verify", "append", "resolve"}
      BY <2>1 DEF Middle
    <3>4. CASE q.next # "final_evidence"
      BY <2>1, <3>2, <3>3, <3>4 DEF CloseOf
    <3>5. CASE q.next = "final_evidence"
      <4>1. call.event_type = "POST_DEPLOY_VERIFIED"
        BY <1>6, <3>5 DEF CloseOf
      <4>2. r.op = "verify" /\ Held(log', r)
        BY <1>5, <3>5, <4>1
      <4>3. CurrentState(log', r.case_id) = "POST_DEPLOY_VERIFIED"
        <5>1. row.state = "POST_DEPLOY_VERIFIED"
          BY <1>1, <4>1 DEF EventState
        <5> QED
          BY <1>0, <1>3, <5>1
      <4> QED
        BY <3>2, <3>3, <4>2, <4>3 DEF CloseOf
    <3> QED
      BY <3>4, <3>5
  <2> QED
    BY <2>2, <2>3
<1>7. ASSUME NEW second, Len(q.pending) # 1, r.pc = "append", q.next \in {"finish", "final_evidence"},
             q.pending = <<call, second>>, r.pending = <<second>>,
             second.event_type \in SecondTypes
      PROVE  CloseOf(log', incidents, documents, r)
  <2>1. \A x : q.pending # <<x>>
    BY <1>7
  <2>2. ~Shut(log, incidents, c)
    BY <1>0, <2>1 DEF CloseOf
  <2>3. ~Shut(log', incidents, r.case_id)
    BY <1>0, <1>2, <2>2
  <2>4. \A i \in DOMAIN r.pending : r.pending[i] = second
    BY <1>7, ShortSeqs
  <2>5. Confirmed(incidents, second) /\ Unclosed(incidents, second)
        /\ second.event_type \notin {"INCIDENT_RESOLVED", "INCIDENT_RAISED"}
    BY <1>7 DEF SecondTypes, Confirmed, Unclosed, IsLiveRow
  <2>6. \A i \in DOMAIN r.pending :
           /\ Confirmed(incidents, r.pending[i]) /\ Unclosed(incidents, r.pending[i])
           /\ r.pending[i].event_type \notin {"INCIDENT_RESOLVED", "INCIDENT_RAISED"}
    BY <2>4, <2>5
  <2>7. ASSUME r.next = "final_evidence"
        PROVE  /\ r.op = "verify" /\ Held(log', r)
               /\ \A x : r.pending = <<x>> => x.event_type = "POST_DEPLOY_VERIFIED"
               /\ \A x, y : r.pending # <<x, y>>
    <3>1. call.event_type # "INCIDENT_RAISED" /\ second.event_type = "POST_DEPLOY_VERIFIED"
      <4>1. 1 \in DOMAIN q.pending /\ q.pending[1] = call
        BY <1>7, ShortSeqs
      <4> QED
        BY <1>7, <2>7, <4>1 DEF CloseOf
    <3>2. r.op = "verify" /\ Held(log', r)
      BY <1>5, <2>7, <3>1
    <3>3. \A x : r.pending = <<x>> => x = second
      BY <1>7
    <3>4. \A x, y : r.pending # <<x, y>>
      BY <1>7
    <3> QED
      BY <3>1, <3>2, <3>3, <3>4
  <2>8. r.next # "resolve"
    BY <1>7
  <2> QED
    BY <1>7, <2>3, <2>6, <2>7, <2>8 DEF CloseOf
<1> QED
  BY <1>4, <1>6, <1>7

\* The append of a queued event.
LEMMA AppendKeepsCloses ==
    ASSUME OneProcess, Typed, LockHeld, StagesInv, CloseInv, NEW t \in Threads, AppendEvent(t)
    PROVE  CloseInv'
<1>1. /\ thread[t].pc = "append" /\ ThreadsOK /\ LogOK /\ EndsInv /\ ThreadOK(thread[t])
      /\ StageOf(log, thread[t]) /\ CloseOf(log, incidents, documents, thread[t])
  BY DEF AppendEvent, At, Typed, StagesInv, ThreadsOK, CloseInv
<1>2. CASE Exception(t)
  BY <1>1, <1>2, ExceptionKeepsCloses
<1>3. CASE ~Exception(t)
  <2>1. PICK q : q = thread[t]
    OBVIOUS
  <2>2. PICK call : call = Head(q.pending)
    OBVIOUS
  <2>3. PICK row : row = NewRow(log, call)
    OBVIOUS
  <2>4. PICK c : c = q.case_id
    OBVIOUS
  <2>5. /\ CallOK(call) /\ call.case_id = c /\ c \in CaseIds
        /\ 1 \in DOMAIN q.pending /\ call = q.pending[1] /\ q.next \in Middle
    <3>1. ThreadOK(q) /\ q.pc = "append"
      BY <1>1, <2>1
    <3>2. IsSeq(q.pending) /\ q.pending # <<>> /\ c \in CaseIds /\ q.next \in Middle
      BY <2>4, <3>1 DEF ThreadOK, Working
    <3>3. 1 \in DOMAIN q.pending /\ call = q.pending[1]
      BY <2>2, <3>2, Tailed
    <3> QED
      BY <2>4, <3>1, <3>2, <3>3 DEF ThreadOK
  <2>6. /\ log' = Append(log, row) /\ UNCHANGED <<incidents, documents>>
        /\ thread' = [thread EXCEPT ![t].pending = Tail(@),
              ![t].pc = IF Len(thread[t].pending) = 1 THEN thread[t].next ELSE "append"]
    BY <1>3, <2>1, <2>2, <2>3 DEF AppendEvent, remote
  <2>7. PICK pc : pc = IF Len(q.pending) = 1 THEN q.next ELSE "append"
    OBVIOUS
  <2>8. Advances(t, Tail(thread[t].pending), pc)
    BY <2>1, <2>6, <2>7 DEF Advances
  <2>9. PICK r : r = thread'[t]
    OBVIOUS
  <2>10. /\ Others(t) /\ r.pc = IF Len(q.pending) = 1 THEN q.next ELSE "append"
         /\ r.op = q.op /\ r.case_id = q.case_id /\ r.incident = q.incident
         /\ r.pending = Tail(q.pending) /\ r.next = q.next
    BY <1>1, <2>1, <2>7, <2>8, <2>9, AppendGoes DEF Keeps
  <2>11. /\ row.case_id = q.case_id /\ q.pc = "append" /\ StageOf(log, q)
         /\ CloseOf(log, incidents, documents, q)
         /\ Confirmed(incidents, call) /\ Unclosed(incidents, call)
    <3>1. CloseOf(log, incidents, documents, q) /\ q.pc = "append"
      BY <1>1, <2>1
    <3>2. Confirmed(incidents, call) /\ Unclosed(incidents, call)
      BY <2>5, <3>1 DEF CloseOf
    <3>3. row.case_id = q.case_id
      BY <2>3, <2>4, <2>5 DEF NewRow
    <3> QED
      BY <1>1, <2>1, <3>1, <3>2, <3>3
  <2>12. EndOf(log', incidents, documents, row.case_id)
    <3>1. EndOf(log', incidents, documents, q.case_id)
      BY <1>1, <2>3, <2>5, <2>6, <2>11, AppendedEnd
    <3> QED
      BY <2>11, <3>1
  <2>13. /\ row.event_type # "SYSTEM_RESET"
         /\ Confirmed(incidents, row) /\ Unclosed(incidents, row)
    <3>1. row.event_type = call.event_type /\ row.payload = call.payload /\ row.case_id = call.case_id
      BY <2>3 DEF NewRow
    <3>2. row.event_type # "SYSTEM_RESET"
      BY <2>5, <3>1 DEF CallOK, CaseEvents, EventState
    <3> QED
      BY <2>11, <3>1, <3>2 DEF Confirmed, Unclosed, IsLiveRow
  <2>14. EndsInv'
    BY <1>1, <2>6, <2>12, <2>13, AppendEnds
  <2>15. CloseOf(log', incidents, documents, r)
    BY <1>1, <2>2, <2>3, <2>5, <2>6, <2>10, <2>11, AppendedClose
  <2>16. CloseOf(log', incidents', documents', thread'[t])
    BY <2>6, <2>9, <2>15
  <2> QED
    BY <1>1, <2>10, <2>14, <2>16, ClosesGrow DEF Locked, Working
<1> QED
  BY <1>2, <1>3

\* Resets and restarts.
LEMMA ResetsKeepCloses ==
    ASSUME OneProcess, Typed, LockHeld, CloseInv,
           \/ \E p \in Processes : ResetDemo(p) \/ Crash(p)
           \/ UNCHANGED vars
    PROVE  CloseInv'
<1>0. EndsInv /\ LogOK
  BY DEF CloseInv, Typed
<1>1. CASE \E p \in Processes : ResetDemo(p)
  <2>1. /\ log' = Append(log, ResetRow(log)) /\ UNCHANGED <<thread, incidents, documents>>
        /\ \E p \in Processes : lock[p] = None
    BY <1>1 DEF ResetDemo, remote
  <2>2. \A t \in Threads : thread[t].pc \notin Locked
    <3>1. ProcessOK' /\ UNCHANGED <<lock, remote>>
      BY <1>1 DEF ResetDemo, process, Typed, ProcessOK
    <3>2. Resets
      BY <2>1, <3>1 DEF Resets
    <3> QED
      BY <3>2, ResetFindsNobody
  <2>3. \A t \in Threads : CloseOf(log', incidents', documents', thread'[t])
    <3>1. \A t \in Threads : thread'[t].pc \notin (Working \ {"finish"}) \cup {"verify"}
      BY <2>1, <2>2 DEF Locked
    <3> QED
      BY <3>1, CloseElsewhere
  <2>4. PICK row : row = ResetRow(log)
    OBVIOUS
  <2>5. row.event_type = "SYSTEM_RESET" /\ log' = Append(log, row)
    BY <2>1, <2>4 DEF ResetRow
  <2>6. \A i \in DOMAIN log' : (i \in DOMAIN log /\ log'[i] = log[i]) \/ log'[i] = row
    <3> DEFINE n == Len(log) + 1
    <3>1. /\ Len(log) \in Nat /\ DOMAIN log = 1 .. Len(log) /\ DOMAIN log' = 1 .. n
          /\ log'[n] = row /\ \A i \in DOMAIN log : log'[i] = log[i]
      BY <1>0, <2>5, Appended DEF LogOK
    <3>2. \A i \in DOMAIN log' : i \in DOMAIN log \/ i = n
      BY <3>1
    <3> HIDE DEF n
    <3> QED
      BY <3>1, <3>2
  <2>7. ASSUME NEW i \in DOMAIN log' PROVE Confirmed(incidents', log'[i])
    <3>1. CASE i \in DOMAIN log /\ log'[i] = log[i]
      BY <1>0, <2>1, <3>1 DEF EndsInv
    <3>2. CASE log'[i] = row
      BY <2>5, <3>2 DEF Confirmed, IsLiveRow
    <3> QED
      BY <2>6, <3>1, <3>2
  <2>8. ASSUME NEW c \in CaseIds PROVE EndOf(log', incidents', documents', c)
    <3>1. ActiveRows(log', c) = {}
      BY <1>0, <2>1, ResetAdded
    <3>2. Live(log', c) = {}
      BY <3>1 DEF Live, RowsIn
    <3> QED
      BY <3>2 DEF EndOf, Shut, Recovered
  <2>9. EndsInv'
    BY <2>7, <2>8 DEF EndsInv
  <2> QED
    BY <2>3, <2>9 DEF CloseInv
<1>2. ASSUME UNCHANGED <<log, incidents, documents>>,
             \A t \in Threads : thread'[t] \in {IdleThread, thread[t]}
      PROVE  CloseInv'
  <2>1. EndsInv'
    BY <1>0, <1>2 DEF EndsInv
  <2>2. CloseOf(log, incidents, documents, IdleThread)
    BY IdleOK, CloseElsewhere DEF Working, Middle
  <2>3. \A t \in Threads : CloseOf(log, incidents, documents, thread[t])
    BY DEF CloseInv
  <2>4. \A t \in Threads : CloseOf(log', incidents', documents', thread'[t])
    BY <1>2, <2>2, <2>3
  <2> QED
    BY <2>1, <2>4 DEF CloseInv
<1>3. CASE \E p \in Processes : Crash(p)
  <2>1. UNCHANGED <<log, incidents, documents>>
        /\ \A t \in Threads : thread'[t] \in {IdleThread, thread[t]}
    BY <1>3 DEF Crash, remote
  <2> QED
    BY <1>2, <2>1
<1>4. CASE UNCHANGED vars
  <2>1. UNCHANGED <<log, incidents, documents>> /\ UNCHANGED thread
    BY <1>4 DEF vars, remote
  <2> QED
    BY <1>2, <2>1
<1> QED
  BY <1>1, <1>3, <1>4

\* Every step.
LEMMA CloseStep ==
    ASSUME OneProcess, Typed, LockHeld, StagesInv, CloseInv, [Next]_vars
    PROVE  CloseInv'
<1>1. ASSUME NEW t \in Threads, IngestStep(t) PROVE CloseInv'
  BY <1>1, AskingKeepsCloses, DetectKeepsCloses DEF IngestStep
<1>2. ASSUME NEW t \in Threads, AdvanceStep(t) PROVE CloseInv'
  BY <1>2, IncidentKeepsCloses, OrdinaryKeepsCloses, AppendKeepsCloses, AskingKeepsCloses
     DEF AdvanceStep
<1>3. ASSUME NEW t \in Threads, VerifyStep(t) PROVE CloseInv'
  BY <1>3, VerifyKeepsCloses, FinalEvidenceKeepsCloses, ResolveKeepsCloses DEF VerifyStep
<1>4. ASSUME NEW t \in Threads, Unreadable(t) \/ Fault(t) PROVE CloseInv'
  <2>1. Exception(t) /\ thread[t].pc # "finish"
    BY <1>4 DEF Unreadable, Fault, BusyPcs, ReadingPcs
  <2> QED
    BY <2>1, ExceptionKeepsCloses
<1>5. ASSUME NEW t \in Threads, NEW e \in Events, Deliver(t, e) PROVE CloseInv'
  BY <1>5, AskingKeepsCloses
<1>6. ASSUME NEW t \in Threads, NEW c \in CaseIds, StartVerify(t, c) PROVE CloseInv'
  BY <1>6, AskingKeepsCloses
<1>7. ASSUME NEW p \in Processes, ResetDemo(p) \/ Crash(p) PROVE CloseInv'
  BY <1>7, ResetsKeepCloses
<1>8. CASE UNCHANGED vars
  BY <1>8, ResetsKeepCloses
<1> QED
  BY <1>1, <1>2, <1>3, <1>4, <1>5, <1>6, <1>7, <1>8 DEF Next, Step, Quiescent

\* Initially there is no incident and nobody is at work.
LEMMA CloseInit == Init => CloseInv
<1> SUFFICES ASSUME Init PROVE CloseInv
  OBVIOUS
<1>1. log = <<>> /\ \A t \in Threads : thread[t].pc = "idle"
  BY IdleOK DEF Init
<1>2. DOMAIN log = {}
  BY <1>1, ShortSeqs
<1>3. \A c : Live(log, c) = {}
  BY <1>2 DEF Live, RowsIn, ActiveRows
<1>4. EndsInv
  BY <1>2, <1>3 DEF EndsInv, EndOf, Shut, Recovered
<1>5. \A t \in Threads : CloseOf(log, incidents, documents, thread[t])
  BY <1>1, CloseElsewhere DEF Working, Middle
<1> QED
  BY <1>4, <1>5 DEF CloseInv

\* How cases end holds at all times.
LEMMA CloseAlways ==
    ASSUME OneProcess
    PROVE  Spec => [](Typed /\ LockHeld /\ StagesInv /\ CloseInv)
<1>1. Typed /\ LockHeld /\ StagesInv /\ CloseInv /\ [Next]_vars => CloseInv'
  BY CloseStep
<1> QED
  BY <1>1, StagesAlways, CloseInit, PTL DEF Spec

\* With one API process a case shown as RESOLVED whose incident is live in
\* DataHub has that incident resolved there and its RECOVERED report published:
\* the report is written before the closing call, and the row is appended only
\* after that call was confirmed.
THEOREM ResolvedHasClosedItsIncident ==
    ASSUME OneProcess
    PROVE  Spec => []ResolvedIsResolvedRemotely
<1>1. ASSUME Typed, StagesInv, CloseInv PROVE ResolvedIsResolvedRemotely
  <2> SUFFICES ASSUME NEW c \in CaseIds, CurrentState(log, c) = "RESOLVED",
                      IsLive(LastOf(c, "INCIDENT_RAISED"))
               PROVE  /\ incidents[LastOf(c, "INCIDENT_RAISED").urn].status = "RESOLVED"
                      /\ "RECOVERED" \in documents[c]
    BY DEF ResolvedIsResolvedRemotely
  <2>1. LogOK /\ LogInv /\ EndsInv
    BY <1>1 DEF Typed, StagesInv, CloseInv
  <2>2. Recovered(log, incidents, documents, c)
    BY <2>1 DEF EndsInv, EndOf
  <2>3. PICK i \in Live(log, c) : log[i].payload = LastOf(c, "INCIDENT_RAISED")
    BY <2>1, LiveIsLast
  <2> QED
    BY <2>2, <2>3 DEF Recovered
<1> QED
  BY <1>1, CloseAlways, PTL

\* With one API process the live incident of a case stays ACTIVE until the case
\* has been verified after deployment, also when the final evidence report could
\* not be published: only a case that reached the closing call finds it closed.
THEOREM IncidentsStayActive ==
    ASSUME OneProcess
    PROVE  Spec => []IncidentActiveUntilClosing
<1>1. ASSUME Typed, StagesInv, CloseInv PROVE IncidentActiveUntilClosing
  <2> SUFFICES ASSUME NEW c \in CaseIds, IsLive(LastOf(c, "INCIDENT_RAISED")),
                      incidents[LastOf(c, "INCIDENT_RAISED").urn].status = "RESOLVED"
               PROVE  \/ CurrentState(log, c) \in {"POST_DEPLOY_VERIFIED", "RESOLVED"}
                      \/ LastOf(c, "FAILED") = [reason |-> "resolution"]
    BY DEF IncidentActiveUntilClosing
  <2>1. LogOK /\ LogInv /\ EndsInv
    BY <1>1 DEF Typed, StagesInv, CloseInv
  <2>2. Shut(log, incidents, c)
    BY <2>1, LiveIsLast
  <2>3. CurrentState(log, c) \in {"POST_DEPLOY_VERIFIED", "RESOLVED"} \/ Excused(log, c)
    BY <2>1, <2>2 DEF EndsInv, EndOf
  <2>4. ASSUME NEW i \in RowsIn(log, c, "FAILED"), log[i].payload = Lost
        PROVE  LastOf(c, "FAILED") = [reason |-> "resolution"]
    BY <2>1, <2>4, LastIsTheOne DEF Lost
  <2> QED
    BY <2>3, <2>4 DEF Excused
<1> QED
  BY <1>1, CloseAlways, PTL

-------------------------------------------------------------------------------
(***************************************************************************)
(* The workflow keeps the promise of CaseLifecycle.                        *)
(***************************************************************************)
\* The stages of CaseLifecycle, and which of them the states are.
LEMMA Phases ==
    /\ PhaseOf(None) = "absent"
    /\ \A s \in ResumableStates : PhaseOf(s) = "repairing"
    /\ PhaseOf("PR_OPEN") = "proposed" /\ PhaseOf("DEPLOYED") = "deployed"
    /\ PhaseOf("POST_DEPLOY_VERIFIED") = "proven" /\ PhaseOf("RESOLVED") = "recovered"
    /\ PhaseOf("CONTAINED") = "stopped" /\ PhaseOf("FAILED") = "stopped"
<1>1. None \notin CaseState
  BY NoneIsNoState
<1>2. PhaseOf(None) = "absent"
  BY <1>1 DEF PhaseOf, ResumableStates, CaseState
<1>3. ASSUME NEW s \in CaseState
      PROVE  /\ s \in ResumableStates => PhaseOf(s) = "repairing"
             /\ s = "PR_OPEN" => PhaseOf(s) = "proposed"
             /\ s = "DEPLOYED" => PhaseOf(s) = "deployed"
             /\ s = "POST_DEPLOY_VERIFIED" => PhaseOf(s) = "proven"
             /\ s = "RESOLVED" => PhaseOf(s) = "recovered"
             /\ s \in {"CONTAINED", "FAILED"} => PhaseOf(s) = "stopped"
  BY <1>1, <1>3 DEF PhaseOf, ResumableStates, CaseState
<1>4. ResumableStates \subseteq CaseState
  BY DEF ResumableStates, CaseState
<1>5. "PR_OPEN" \in CaseState /\ "DEPLOYED" \in CaseState
      /\ "POST_DEPLOY_VERIFIED" \in CaseState /\ "RESOLVED" \in CaseState
      /\ "CONTAINED" \in CaseState /\ "FAILED" \in CaseState
  BY DEF CaseState
<1> QED
  BY <1>2, <1>3, <1>4, <1>5

\* The cases with a live incident, and those whose incident is closed, as rows.
Phase       == [c \in CaseIds |-> PhaseOf(CurrentState(log, c))]
ClosedCases == {c \in LiveCases : incidents[LastOf(c, "INCIDENT_RAISED").urn].status = "RESOLVED"}
LiveInRows   == {c \in CaseIds : Live(log, c) # {}}
ClosedInRows == {c \in CaseIds : Shut(log, incidents, c)}

\* They are the same.
LEMMA CasesInRows ==
    LogOK /\ LogInv => LiveCases = LiveInRows /\ ClosedCases = ClosedInRows
<1> SUFFICES ASSUME LogOK, LogInv PROVE LiveCases = LiveInRows /\ ClosedCases = ClosedInRows
  OBVIOUS
<1>1. \A c \in CaseIds :
         /\ IsLive(LastOf(c, "INCIDENT_RAISED")) <=> Live(log, c) # {}
         /\ Shut(log, incidents, c) <=>
               /\ IsLive(LastOf(c, "INCIDENT_RAISED"))
               /\ incidents[LastOf(c, "INCIDENT_RAISED").urn].status = "RESOLVED"
  BY LiveIsLast
<1> QED
  BY <1>1 DEF LiveCases, ClosedCases, LiveInRows, ClosedInRows

\* Five kinds of step: nothing CaseLifecycle speaks of; a closing call that was
\* applied; a row; a reset.
Idles == UNCHANGED log /\ \A c \in CaseIds : Shut(log, incidents', c) <=> Shut(log, incidents, c)
Closing(c) ==
    /\ UNCHANGED log /\ CurrentState(log, c) = "POST_DEPLOY_VERIFIED"
    /\ Live(log, c) # {} /\ Shut(log, incidents', c)
    /\ \A b \in CaseIds \ {c} : Shut(log, incidents', b) <=> Shut(log, incidents, b)
Records(row) ==
    /\ UNCHANGED incidents /\ log' = Append(log, row)
    /\ row.event_type \in CaseEvents /\ row.case_id \in CaseIds
    /\ row.state = EventState[row.event_type] /\ Unclosed(incidents, row)
    /\ ValidTransition(CurrentState(log, row.case_id), row.state)
    /\ IsLiveRow(row) => CurrentState(log, row.case_id) # None
Forgets == UNCHANGED incidents /\ log' = Append(log, ResetRow(log))

\* A step that leaves log and incidents alone.
LEMMA IdlesSo == UNCHANGED <<log, incidents>> => Idles
  BY DEF Idles

\* Most steps do.
LEMMA MostStepsIdle ==
    ASSUME Typed, NEW t \in Threads,
           \/ Lookup(t) \/ FastDuplicate(t) \/ FastOwned(t) \/ Acquire(t)
           \/ Recheck(t) \/ Allocate(t) \/ Begin(t) \/ Finish(t)
           \/ Context(t) \/ Candidates(t) \/ Validate(t) \/ Load(t)
           \/ Assess(t) \/ AllAssessed(t) \/ Select(t) \/ Evidence(t) \/ PullRequest(t)
           \/ Contain(t) \/ Handler(t) \/ Verify(t) \/ FinalEvidence(t)
           \/ Unreadable(t) \/ Fault(t)
    PROVE  Idles
<1>1. Exception(t) => UNCHANGED <<log, incidents>>
  BY DEF Exception, remote
<1>2. ASSUME Lookup(t) \/ FastDuplicate(t) \/ FastOwned(t) \/ Acquire(t)
             \/ Recheck(t) \/ Allocate(t) \/ Begin(t) \/ Finish(t)
      PROVE  UNCHANGED <<log, incidents>>
  BY <1>1, <1>2 DEF Lookup, FastDuplicate, FastOwned, Acquire, Recheck, Allocate, Begin, Finish, remote
<1>3. ASSUME Context(t) \/ Candidates(t) \/ Validate(t) \/ Load(t)
             \/ Assess(t) \/ AllAssessed(t) \/ Select(t) \/ Evidence(t) \/ PullRequest(t)
             \/ Contain(t) \/ Handler(t) \/ FinalEvidence(t)
      PROVE  UNCHANGED <<log, incidents>>
  BY <1>3 DEF Context, Candidates, Validate, Load, Assess, AllAssessed, Select, Evidence,
              PullRequest, Contain, Handler, FinalEvidence, StepOnly, remote
<1>4. ASSUME Verify(t) \/ Unreadable(t) \/ Fault(t) PROVE UNCHANGED <<log, incidents>>
  BY <1>1, <1>4 DEF Verify, Unreadable, Fault, remote
<1> QED
  BY <1>2, <1>3, <1>4, IdlesSo

\* A new incident is nothing CaseLifecycle speaks of before it is recorded.
LEMMA IncidentIdles ==
    ASSUME Typed, CloseInv, NEW t \in Threads, Incident(t)
    PROVE  Idles
<1>1. UNCHANGED <<log, documents>> /\ LogOK /\ EndsInv /\ IsSeq(incidents)
  BY DEF Incident, StepOnly, Typed, CloseInv, RemoteOK
<1>2. UNCHANGED incidents \/ \E new : incidents' = Append(incidents, new)
  BY DEF Incident, RaiseIncident
<1>3. CASE UNCHANGED incidents
  BY <1>1, <1>3, IdlesSo
<1>4. ASSUME NEW new, incidents' = Append(incidents, new) PROVE Idles
  <2>1. /\ DOMAIN incidents \subseteq DOMAIN incidents'
        /\ \A n \in DOMAIN incidents : incidents'[n] = incidents[n]
    BY <1>1, <1>4, Appended
  <2>2. GrowsRemote
    BY <1>1, <2>1 DEF GrowsRemote
  <2> QED
    BY <1>1, <2>2, RemoteGrows DEF Idles
<1> QED
  BY <1>2, <1>3, <1>4

\* The closing call closes, or not.
LEMMA ResolveCloses ==
    ASSUME Typed, CloseInv, NEW t \in Threads, Resolve(t)
    PROVE  Idles \/ \E c \in CaseIds : Closing(c)
<1>0. PICK c, urn : /\ c = thread[t].case_id
                    /\ urn = IF thread[t].incident = None THEN 0 ELSE thread[t].incident.urn
  OBVIOUS
<1>1. /\ thread[t].pc = "resolve" /\ thread[t].pc \in Working \ {"finish", "append"}
      /\ UNCHANGED <<log, documents>>
  BY DEF Resolve, At, Working, Middle, StepOnly
<1>2. EndsInv /\ LogOK /\ RemoteOK /\ c \in CaseIds
  BY <1>0, <1>1, StillOpen DEF Typed
<1>3. PICK a \in ResolveAnswers(urn) :
         incidents' = IF a[2] THEN [incidents EXCEPT ![urn].status = "RESOLVED"] ELSE incidents
  BY <1>0 DEF Resolve
<1>4. CASE ~a[2]
  BY <1>1, <1>3, <1>4, IdlesSo
<1>5. CASE a[2]
  <2>1. /\ \E i \in Live(log, c) : log[i].payload.urn = urn
        /\ urn \in DOMAIN incidents /\ incidents[urn].case_id = c
    BY <1>0, <1>1, <1>5, ClosingCall
  <2>2. CurrentState(log, c) = "POST_DEPLOY_VERIFIED"
    <3>1. CloseOf(log, incidents, documents, thread[t])
      BY DEF CloseInv
    <3> QED
      BY <1>0, <1>1, <3>1 DEF CloseOf
  <2>3. incidents' = [incidents EXCEPT ![urn].status = "RESOLVED"]
    BY <1>3, <1>5
  <2>4. /\ incidents'[urn].status = "RESOLVED"
        /\ \A b \in CaseIds \ {c} : Shut(log, incidents', b) <=> Shut(log, incidents, b)
    BY <1>1, <1>2, <2>1, <2>2, <2>3, ClosingEnds
  <2>5. Live(log, c) # {} /\ Shut(log, incidents', c)
    BY <2>1, <2>4 DEF Shut
  <2>6. Closing(c)
    BY <1>1, <2>2, <2>4, <2>5 DEF Closing
  <2> QED
    BY <1>2, <2>6
<1> QED
  BY <1>4, <1>5

\* Every step is of one of the five kinds.
LEMMA StepKinds ==
    ASSUME OneProcess, Typed, LockHeld, StagesInv, CloseInv, WorkersHaveCases, [Next]_vars
    PROVE  \/ Idles \/ Forgets
           \/ \E c \in CaseIds : Closing(c)
           \/ \E row : Records(row)
<1>0. LogOK /\ ThreadsOK /\ LogInv
  BY DEF Typed, StagesInv
<1>1. ASSUME NEW t \in Threads, Exception(t) PROVE Idles
  <2>1. UNCHANGED <<log, incidents>>
    BY <1>1 DEF Exception, remote
  <2> QED
    BY <2>1, IdlesSo
<1>2. ASSUME NEW t \in Threads, AppendEvent(t), ~Exception(t) PROVE \E row : Records(row)
  <2>1. PICK q : q = thread[t]
    OBVIOUS
  <2>2. PICK call : call = Head(q.pending)
    OBVIOUS
  <2>3. PICK row : row = NewRow(log, call)
    OBVIOUS
  <2>4. /\ Accepted(log, call) /\ log' = Append(log, row) /\ UNCHANGED incidents
        /\ q.pc = "append"
    BY <1>2, <2>1, <2>2, <2>3 DEF AppendEvent, At, remote
  <2>5. CloseOf(log, incidents, documents, q) /\ ThreadOK(q) /\ ActiveRows(log, q.case_id) # {}
    <3>1. q.pc \in Working
      BY <2>4 DEF Working
    <3> QED
      BY <1>0, <2>1, <3>1 DEF CloseInv, ThreadsOK, WorkersHaveCases
  <2>6. /\ CallOK(call) /\ call.case_id = q.case_id /\ q.case_id \in CaseIds
        /\ 1 \in DOMAIN q.pending /\ call = q.pending[1]
    <3>2. IsSeq(q.pending) /\ q.pending # <<>> /\ q.case_id \in CaseIds
      BY <2>4, <2>5 DEF ThreadOK, Working
    <3>3. 1 \in DOMAIN q.pending /\ call = q.pending[1]
      BY <2>2, <3>2, Tailed
    <3> QED
      BY <2>5, <3>2, <3>3 DEF ThreadOK
  <2>7. Unclosed(incidents, call)
    BY <2>4, <2>5, <2>6 DEF CloseOf
  <2>8. /\ row.event_type = call.event_type /\ row.payload = call.payload
        /\ row.case_id = call.case_id /\ row.state = call.state
    BY <2>3 DEF NewRow
  <2>9. /\ row.event_type \in CaseEvents /\ row.case_id \in CaseIds
        /\ row.state = EventState[row.event_type] /\ Unclosed(incidents, row)
    BY <2>6, <2>7, <2>8 DEF CallOK, Unclosed, IsLiveRow
  <2>10. ValidTransition(CurrentState(log, row.case_id), row.state)
    BY <2>4, <2>8 DEF Accepted
  <2>11. CurrentState(log, row.case_id) # None
    <3>1. Ordered(log, q.case_id)
      BY <1>0, <2>6 DEF LogInv
    <3>2. CurrentState(log, q.case_id) \in CaseState
      BY <1>0, <2>5, <2>6, <3>1, StateIsLast
    <3> QED
      BY <2>6, <2>8, <3>2, NoneIsNoState
  <2> QED
    BY <2>4, <2>9, <2>10, <2>11 DEF Records
<1>3. ASSUME NEW t \in Threads, Detect(t) PROVE Idles \/ \E row : Records(row)
  <2>1. PICK call : call = DetectionOf(t, CaseOf(t))
    OBVIOUS
  <2>2. PICK row : row = NewRow(log, call)
    OBVIOUS
  <2>3. \/ Accepted(log, call) /\ log' = Append(log, row) /\ UNCHANGED incidents
        \/ UNCHANGED <<log, incidents>>
    BY <1>3, <2>1, <2>2 DEF Detect, Exception, remote
  <2>4. CASE Accepted(log, call) /\ log' = Append(log, row) /\ UNCHANGED incidents
    <3>1. CaseOf(t) \in CaseIds
      BY <1>0, <1>3 DEF Detect, At, ThreadsOK, ThreadOK, CaseOf
    <3>2. /\ row.event_type = "SCHEMA_CHANGE_DETECTED" /\ row.case_id = CaseOf(t)
          /\ row.state = "DETECTED" /\ call.case_id = CaseOf(t) /\ call.state = "DETECTED"
      BY <2>1, <2>2 DEF NewRow, DetectionOf, DetectionCall
    <3>3. ValidTransition(CurrentState(log, row.case_id), row.state)
      BY <2>4, <3>2 DEF Accepted
    <3>4. row.event_type \in CaseEvents /\ row.state = EventState[row.event_type]
      BY <3>2 DEF CaseEvents, EventState
    <3>5. ~IsLiveRow(row) /\ Unclosed(incidents, row)
      BY <3>2 DEF IsLiveRow, Unclosed
    <3> QED
      BY <2>4, <3>1, <3>2, <3>3, <3>4, <3>5 DEF Records
  <2> QED
    BY <2>3, <2>4, IdlesSo
<1>4. ASSUME NEW t \in Threads, IngestStep(t) PROVE Idles \/ \E row : Records(row)
  BY <1>3, <1>4, MostStepsIdle DEF IngestStep
<1>5. ASSUME NEW t \in Threads, AdvanceStep(t) PROVE Idles \/ \E row : Records(row)
  <2>1. CASE Incident(t)
    BY <2>1, IncidentIdles
  <2>2. CASE AppendEvent(t)
    BY <1>1, <1>2, <2>2
  <2> QED
    BY <1>5, <2>1, <2>2, MostStepsIdle DEF AdvanceStep
<1>6. ASSUME NEW t \in Threads, VerifyStep(t) PROVE Idles \/ \E c \in CaseIds : Closing(c)
  BY <1>6, MostStepsIdle, ResolveCloses DEF VerifyStep
<1>7. ASSUME NEW t \in Threads, Unreadable(t) \/ Fault(t) PROVE Idles
  BY <1>7, MostStepsIdle
<1>8. ASSUME \/ \E t \in Threads, e \in Events : Deliver(t, e)
             \/ \E t \in Threads, c \in CaseIds : StartVerify(t, c)
             \/ \E p \in Processes : Crash(p)
             \/ UNCHANGED vars
      PROVE  Idles
  <2>1. UNCHANGED <<log, incidents>>
    BY <1>8 DEF Deliver, StartVerify, Crash, remote, vars
  <2> QED
    BY <2>1, IdlesSo
<1>9. ASSUME NEW p \in Processes, ResetDemo(p) PROVE Forgets
  BY <1>9 DEF ResetDemo, Forgets, remote
<1> QED
  BY <1>4, <1>5, <1>6, <1>7, <1>8, <1>9 DEF Next, Step, Quiescent

\* What a row changes of its case, and that it changes no other.
LEMMA RecordsOne ==
    ASSUME LogOK, NEW row, Records(row), NEW c, c = row.case_id
    PROVE  /\ CurrentState(log', c) = row.state
           /\ \A b \in CaseIds \ {c} : /\ CurrentState(log', b) = CurrentState(log, b)
                                       /\ Live(log', b) = Live(log, b)
           /\ \A b \in CaseIds : Shut(log', incidents', b) <=> Shut(log, incidents, b)
           /\ IF IsLiveRow(row) THEN Live(log', c) # {} ELSE Live(log', c) = Live(log, c)
<1>1. /\ row.event_type # "SYSTEM_RESET" /\ log' = Append(log, row) /\ UNCHANGED incidents
      /\ Unclosed(incidents, row)
  BY DEF Records, CaseEvents, EventState
<1>2. CurrentState(log', c) = row.state
  BY <1>1, RowsGrow
<1>3. ASSUME NEW b \in CaseIds \ {c}
      PROVE  CurrentState(log', b) = CurrentState(log, b) /\ Live(log', b) = Live(log, b)
  BY <1>1, <1>3, OtherStates, LiveGrows
<1>4. \A b \in CaseIds : Shut(log', incidents', b) <=> Shut(log, incidents, b)
  BY <1>1, ShutStays
<1>5. IF IsLiveRow(row) THEN Live(log', c) # {} ELSE Live(log', c) = Live(log, c)
  BY <1>1, LiveGrows
<1> QED
  BY <1>2, <1>3, <1>4, <1>5

\* The stage a case comes from and goes to with a row.
LEMMA RecordsPhase ==
    ASSUME NEW s, s \in CaseState \cup {None}, NEW target \in CaseState,
           ValidTransition(s, target)
    PROVE  \/ PhaseOf(target) = PhaseOf(s)
           \/ PhaseOf(s) = "absent" /\ PhaseOf(target) = "repairing"
           \/ PhaseOf(s) = "repairing" /\ PhaseOf(target) = "proposed"
           \/ PhaseOf(s) = "proposed" /\ PhaseOf(target) = "deployed"
           \/ PhaseOf(s) = "deployed" /\ PhaseOf(target) = "proven"
           \/ /\ PhaseOf(s) = "proven" /\ PhaseOf(target) = "recovered"
              /\ target = "RESOLVED"
           \/ PhaseOf(s) \in {"repairing", "proposed", "deployed", "proven"}
              /\ PhaseOf(target) = "stopped"
<1>1. CASE s = None
  BY <1>1, Phases, NoneIsNoState DEF ValidTransition, ResumableStates
<1>2. CASE s = target
  BY <1>2
<1>3. ASSUME s \in CaseState, target \in ALLOWED_TRANSITIONS[s]
      PROVE  \/ s \in ResumableStates /\ target \in ResumableStates
             \/ s \in ResumableStates /\ target = "PR_OPEN"
             \/ s = "PR_OPEN" /\ target = "DEPLOYED"
             \/ s = "DEPLOYED" /\ target = "POST_DEPLOY_VERIFIED"
             \/ s = "POST_DEPLOY_VERIFIED" /\ target = "RESOLVED"
             \/ /\ s \in ResumableStates \cup {"PR_OPEN", "DEPLOYED", "POST_DEPLOY_VERIFIED"}
                /\ target \in {"CONTAINED", "FAILED"}
  <2>1. CASE s = "DETECTED"
    BY <1>3, <2>1 DEF ALLOWED_TRANSITIONS, Refusals, ResumableStates
  <2>2. CASE s = "CONTEXT_GATHERED"
    BY <1>3, <2>2 DEF ALLOWED_TRANSITIONS, Refusals, ResumableStates
  <2>3. CASE s = "CANDIDATES_READY"
    BY <1>3, <2>3 DEF ALLOWED_TRANSITIONS, Refusals, ResumableStates
  <2>4. CASE s = "VALIDATING"
    BY <1>3, <2>4 DEF ALLOWED_TRANSITIONS, Refusals, ResumableStates
  <2>5. CASE s = "PATCH_READY"
    BY <1>3, <2>5 DEF ALLOWED_TRANSITIONS, Refusals, ResumableStates
  <2>6. CASE s = "PR_OPEN"
    BY <1>3, <2>6 DEF ALLOWED_TRANSITIONS, Refusals
  <2>7. CASE s = "DEPLOYED"
    BY <1>3, <2>7 DEF ALLOWED_TRANSITIONS, Refusals
  <2>8. CASE s = "POST_DEPLOY_VERIFIED"
    BY <1>3, <2>8 DEF ALLOWED_TRANSITIONS, Refusals
  <2>9. CASE s \in TerminalStates
    BY <1>3, <2>9 DEF TerminalStates, ALLOWED_TRANSITIONS
  <2> QED
    BY <1>3, <2>1, <2>2, <2>3, <2>4, <2>5, <2>6, <2>7, <2>8, <2>9 DEF CaseState, TerminalStates
<1>4. CASE s \in CaseState /\ target \in ALLOWED_TRANSITIONS[s]
  <2>1. CASE s \in ResumableStates /\ target \in ResumableStates
    BY <2>1, Phases
  <2>2. CASE s \in ResumableStates /\ target = "PR_OPEN"
    BY <2>2, Phases
  <2>3. CASE s = "PR_OPEN" /\ target = "DEPLOYED"
    BY <2>3, Phases
  <2>4. CASE s = "DEPLOYED" /\ target = "POST_DEPLOY_VERIFIED"
    BY <2>4, Phases
  <2>5. CASE s = "POST_DEPLOY_VERIFIED" /\ target = "RESOLVED"
    BY <2>5, Phases
  <2>6. CASE /\ s \in ResumableStates \cup {"PR_OPEN", "DEPLOYED", "POST_DEPLOY_VERIFIED"}
             /\ target \in {"CONTAINED", "FAILED"}
    BY <2>6, Phases
  <2> QED
    BY <1>3, <1>4, <2>1, <2>2, <2>3, <2>4, <2>5, <2>6
<1> QED
  BY <1>1, <1>2, <1>4 DEF ValidTransition

\* The steps of CaseLifecycle, of what the workflow shows of its cases.
SameCases == LiveCases' = LiveCases /\ ClosedCases' = ClosedCases
Turns(c, from, to) == Phase[c] = from /\ Phase' = [Phase EXCEPT ![c] = to]
Promised ==
    \/ Phase' = Phase /\ SameCases
    \/ \E c \in CaseIds :
        \/ /\ \/ Turns(c, "absent", "repairing") \/ Turns(c, "repairing", "proposed")
              \/ Turns(c, "proposed", "deployed") \/ Turns(c, "deployed", "proven")
              \/ \E from \in {"repairing", "proposed", "deployed", "proven"} :
                    Turns(c, from, "stopped")
              \/ Turns(c, "proven", "recovered") /\ (c \in LiveCases => c \in ClosedCases)
           /\ SameCases
        \/ /\ Phase[c] = "repairing" /\ Phase' = Phase
           /\ LiveCases' = LiveCases \cup {c} /\ ClosedCases' = ClosedCases
        \/ /\ Phase[c] = "proven" /\ Phase' = Phase /\ c \in LiveCases
           /\ LiveCases' = LiveCases /\ ClosedCases' = ClosedCases \cup {c}
    \/ Phase' = [c \in CaseIds |-> "absent"] /\ LiveCases' = {} /\ ClosedCases' = {}

\* They are its steps.
LEMMA PromisedIsLifecycle == Promised => [Lifecycle!Next]_(Lifecycle!vars)
<1> SUFFICES ASSUME Promised PROVE [Lifecycle!Next]_(Lifecycle!vars)
  OBVIOUS
<1> USE DEF Phase, ClosedCases
<1>1. CASE Phase' = Phase /\ SameCases
  BY <1>1 DEF SameCases, Lifecycle!vars
<1>2. ASSUME NEW c \in CaseIds, SameCases,
             \/ Turns(c, "absent", "repairing") \/ Turns(c, "repairing", "proposed")
             \/ Turns(c, "proposed", "deployed") \/ Turns(c, "deployed", "proven")
             \/ \E from \in {"repairing", "proposed", "deployed", "proven"} :
                   Turns(c, from, "stopped")
             \/ Turns(c, "proven", "recovered") /\ (c \in LiveCases => c \in ClosedCases)
      PROVE  Lifecycle!Next
  <2>1. CASE Turns(c, "absent", "repairing")
    <3>1. Lifecycle!Open(c)
      BY <1>2, <2>1 DEF SameCases, Turns, Lifecycle!Open, Lifecycle!Move
    <3> QED
      BY <3>1 DEF Lifecycle!Next
  <2>2. CASE Turns(c, "repairing", "proposed")
    <3>1. Lifecycle!Propose(c)
      BY <1>2, <2>2 DEF SameCases, Turns, Lifecycle!Propose, Lifecycle!Move
    <3> QED
      BY <3>1 DEF Lifecycle!Next
  <2>3. CASE Turns(c, "proposed", "deployed")
    <3>1. Lifecycle!Deploy(c)
      BY <1>2, <2>3 DEF SameCases, Turns, Lifecycle!Deploy, Lifecycle!Move
    <3> QED
      BY <3>1 DEF Lifecycle!Next
  <2>4. CASE Turns(c, "deployed", "proven")
    <3>1. Lifecycle!Prove(c)
      BY <1>2, <2>4 DEF SameCases, Turns, Lifecycle!Prove, Lifecycle!Move
    <3> QED
      BY <3>1 DEF Lifecycle!Next
  <2>5. CASE \E from \in {"repairing", "proposed", "deployed", "proven"} :
                Turns(c, from, "stopped")
    <3>1. Lifecycle!Stop(c)
      BY <1>2, <2>5 DEF SameCases, Turns, Lifecycle!Stop, Lifecycle!Working
    <3> QED
      BY <3>1 DEF Lifecycle!Next
  <2>6. CASE Turns(c, "proven", "recovered") /\ (c \in LiveCases => c \in ClosedCases)
    <3>1. Lifecycle!Recover(c)
      BY <1>2, <2>6 DEF SameCases, Turns, Lifecycle!Recover, Lifecycle!Move
    <3> QED
      BY <3>1 DEF Lifecycle!Next
  <2> QED
    BY <1>2, <2>1, <2>2, <2>3, <2>4, <2>5, <2>6
<1>3. ASSUME NEW c \in CaseIds, Phase[c] = "repairing", Phase' = Phase,
             LiveCases' = LiveCases \cup {c}, ClosedCases' = ClosedCases
      PROVE  Lifecycle!Next
  <2>1. Lifecycle!Raise(c)
    BY <1>3 DEF Lifecycle!Raise
  <2> QED
    BY <2>1 DEF Lifecycle!Next
<1>4. ASSUME NEW c \in CaseIds, Phase[c] = "proven", Phase' = Phase, c \in LiveCases,
             LiveCases' = LiveCases, ClosedCases' = ClosedCases \cup {c}
      PROVE  Lifecycle!Next
  <2>1. Lifecycle!Close(c)
    BY <1>4 DEF Lifecycle!Close
  <2> QED
    BY <2>1 DEF Lifecycle!Next
<1>5. CASE Phase' = [c \in CaseIds |-> "absent"] /\ LiveCases' = {} /\ ClosedCases' = {}
  <2>1. Lifecycle!Reset
    BY <1>5 DEF Lifecycle!Reset
  <2> QED
    BY <2>1 DEF Lifecycle!Next
<1> HIDE DEF Phase, ClosedCases
<1> QED
  BY <1>1, <1>2, <1>3, <1>4, <1>5 DEF Promised

\* A step that changes the state of one case, at most.
LEMMA PhaseTurns ==
    ASSUME NEW c \in CaseIds, \A b \in CaseIds \ {c} : CurrentState(log', b) = CurrentState(log, b),
           NEW to, PhaseOf(CurrentState(log', c)) = to
    PROVE  /\ Phase' = [Phase EXCEPT ![c] = to] /\ Phase[c] = PhaseOf(CurrentState(log, c))
           /\ to = Phase[c] => Phase' = Phase
<1>1. \A b \in CaseIds \ {c} : PhaseOf(CurrentState(log', b)) = PhaseOf(CurrentState(log, b))
  OBVIOUS
<1>2. Phase' = [b \in CaseIds |-> PhaseOf(CurrentState(log', b))]
  BY DEF Phase
<1>3. Phase' = [b \in CaseIds |-> IF b = c THEN to ELSE PhaseOf(CurrentState(log, b))]
  BY <1>1, <1>2
<1> QED
  BY <1>3 DEF Phase

\* A row is a step of CaseLifecycle, or none.
LEMMA RecordsPromised ==
    ASSUME LogOK, LogInv, EndsInv', NEW row, Records(row),
           LiveCases = LiveInRows, ClosedCases = ClosedInRows,
           LiveCases' = LiveInRows', ClosedCases' = ClosedInRows'
    PROVE  Promised
<1>1. PICK c : c = row.case_id
  OBVIOUS
<1>2. /\ CurrentState(log', c) = row.state
      /\ \A b \in CaseIds \ {c} : /\ CurrentState(log', b) = CurrentState(log, b)
                                  /\ Live(log', b) = Live(log, b)
      /\ \A b \in CaseIds : Shut(log', incidents', b) <=> Shut(log, incidents, b)
      /\ IF IsLiveRow(row) THEN Live(log', c) # {} ELSE Live(log', c) = Live(log, c)
  BY <1>1, RecordsOne
<1>3. c \in CaseIds /\ row.state \in CaseState /\ ValidTransition(CurrentState(log, c), row.state)
  BY <1>1, EventStates DEF Records
<1>4. PICK s : s = CurrentState(log, c)
  OBVIOUS
<1>5. s \in CaseState \cup {None}
  <2>1. CASE ActiveRows(log, c) = {}
    BY <1>4, <2>1 DEF CurrentState
  <2>2. CASE ActiveRows(log, c) # {}
    BY <1>3, <1>4, <2>2, StateIsLast DEF LogInv
  <2> QED
    BY <2>1, <2>2
<1>6. ClosedCases' = ClosedCases
  BY <1>2 DEF ClosedInRows
<1>7. PICK to : to = PhaseOf(row.state)
  OBVIOUS
<1>8. Phase' = [Phase EXCEPT ![c] = to] /\ Phase[c] = PhaseOf(s) /\ (to = Phase[c] => Phase' = Phase)
  BY <1>2, <1>3, <1>4, <1>7, PhaseTurns
<1>9. CASE IsLiveRow(row)
  <2>1. row.state = "DETECTED" /\ s # None
    BY <1>1, <1>4, <1>9 DEF IsLiveRow, Records, EventState
  <2>2. s = "DETECTED"
    <3>1. s \in CaseState /\ (row.state = s \/ row.state \in ALLOWED_TRANSITIONS[s])
      BY <1>3, <1>4, <1>5, <2>1 DEF ValidTransition
    <3>2. row.state = s \/ Rank[s] < Rank["DETECTED"]
      BY <2>1, <3>1, Ranks
    <3>3. Rank["DETECTED"] = 0 /\ Rank[s] \in Nat
      BY <3>1, Ranks DEF Rank
    <3> QED
      BY <2>1, <3>2, <3>3
  <2>3. Phase' = Phase /\ Phase[c] = "repairing"
    BY <1>7, <1>8, <2>1, <2>2, Phases DEF ResumableStates
  <2>4. LiveCases' = LiveCases \cup {c}
    <3>1. \A b \in CaseIds : Live(log', b) # {} <=> (Live(log, b) # {} \/ b = c)
      BY <1>2, <1>9
    <3> QED
      BY <1>3, <3>1 DEF LiveInRows
  <2> QED
    BY <1>3, <1>6, <2>3, <2>4 DEF Promised
<1>10. CASE ~IsLiveRow(row)
  <2>1. LiveCases' = LiveCases
    <3>1. \A b \in CaseIds : Live(log', b) = Live(log, b)
      BY <1>2, <1>10
    <3> QED
      BY <3>1 DEF LiveInRows
  <2>2. SameCases
    BY <1>6, <2>1 DEF SameCases
  <2>3. \/ to = PhaseOf(s)
        \/ PhaseOf(s) = "absent" /\ to = "repairing"
        \/ PhaseOf(s) = "repairing" /\ to = "proposed"
        \/ PhaseOf(s) = "proposed" /\ to = "deployed"
        \/ PhaseOf(s) = "deployed" /\ to = "proven"
        \/ PhaseOf(s) = "proven" /\ to = "recovered" /\ row.state = "RESOLVED"
        \/ PhaseOf(s) \in {"repairing", "proposed", "deployed", "proven"} /\ to = "stopped"
    BY <1>3, <1>4, <1>5, <1>7, RecordsPhase
  <2>4. ASSUME NEW from, PhaseOf(s) = from PROVE Turns(c, from, to)
    BY <1>8, <2>4 DEF Turns
  <2>5. CASE to = PhaseOf(s)
    BY <1>8, <2>2, <2>5 DEF Promised
  <2>6. CASE PhaseOf(s) = "absent" /\ to = "repairing"
    BY <1>3, <2>2, <2>4, <2>6 DEF Promised
  <2>7. CASE PhaseOf(s) = "repairing" /\ to = "proposed"
    BY <1>3, <2>2, <2>4, <2>7 DEF Promised
  <2>8. CASE PhaseOf(s) = "proposed" /\ to = "deployed"
    BY <1>3, <2>2, <2>4, <2>8 DEF Promised
  <2>9. CASE PhaseOf(s) = "deployed" /\ to = "proven"
    BY <1>3, <2>2, <2>4, <2>9 DEF Promised
  <2>10. CASE PhaseOf(s) = "proven" /\ to = "recovered" /\ row.state = "RESOLVED"
    <3>1. EndOf(log', incidents', documents', c)
      BY <1>3 DEF EndsInv
    <3>2. Recovered(log', incidents', documents', c)
      BY <1>2, <2>10, <3>1 DEF EndOf
    <3>3. Live(log', c) # {} => Shut(log', incidents', c)
      BY <3>2 DEF Recovered, Shut
    <3>4. c \in LiveCases => c \in ClosedCases
      BY <1>2, <1>3, <1>10, <3>3 DEF LiveInRows, ClosedInRows
    <3>5. Turns(c, "proven", "recovered")
      BY <2>4, <2>10
    <3> QED
      BY <1>3, <2>2, <3>4, <3>5 DEF Promised
  <2>11. CASE PhaseOf(s) \in {"repairing", "proposed", "deployed", "proven"} /\ to = "stopped"
    <3>1. \E from \in {"repairing", "proposed", "deployed", "proven"} : Turns(c, from, "stopped")
      BY <2>4, <2>11
    <3> QED
      BY <1>3, <2>2, <3>1 DEF Promised
  <2> QED
    BY <2>3, <2>5, <2>6, <2>7, <2>8, <2>9, <2>10, <2>11
<1> QED
  BY <1>9, <1>10

\* So is every step.
LEMMA StepPromised ==
    ASSUME LogOK, LogInv, EndsInv',
           \/ Idles \/ Forgets
           \/ \E c \in CaseIds : Closing(c)
           \/ \E row : Records(row),
           LiveCases = LiveInRows, ClosedCases = ClosedInRows,
           LiveCases' = LiveInRows', ClosedCases' = ClosedInRows'
    PROVE  Promised
<1>1. CASE Idles
  <2>1. Phase' = Phase /\ LiveInRows' = LiveInRows /\ ClosedInRows' = ClosedInRows
    BY <1>1 DEF Idles, Phase, LiveInRows, ClosedInRows
  <2> QED
    BY <2>1 DEF Promised, SameCases
<1>2. CASE Forgets
  <2>1. \A c : ActiveRows(log', c) = {}
    BY <1>2, ResetAdded DEF Forgets
  <2>2. \A c \in CaseIds : /\ CurrentState(log', c) = None
                           /\ Live(log', c) = {} /\ ~Shut(log', incidents', c)
    BY <2>1 DEF CurrentState, Live, RowsIn, Shut
  <2>3. Phase' = [c \in CaseIds |-> "absent"]
    BY <2>2, Phases DEF Phase
  <2>4. LiveInRows' = {} /\ ClosedInRows' = {}
    BY <2>2 DEF LiveInRows, ClosedInRows
  <2> QED
    BY <2>3, <2>4 DEF Promised
<1>3. ASSUME NEW c \in CaseIds, Closing(c) PROVE Promised
  <2>1. Phase' = Phase /\ LiveInRows' = LiveInRows /\ Phase[c] = "proven" /\ c \in LiveInRows
    BY <1>3, Phases DEF Closing, Phase, LiveInRows
  <2>2. ClosedInRows' = ClosedInRows \cup {c}
    BY <1>3 DEF Closing, ClosedInRows
  <2> QED
    BY <2>1, <2>2 DEF Promised
<1>4. ASSUME NEW row, Records(row) PROVE Promised
  BY <1>4, RecordsPromised
<1> QED
  BY <1>1, <1>2, <1>3, <1>4

\* The empty store shows no case.
LEMMA LifecycleInit == Init => Lifecycle!Init
<1> SUFFICES ASSUME Init PROVE Lifecycle!Init
  OBVIOUS
<1>1. log = <<>>
  BY DEF Init
<1>2. DOMAIN log = {}
  BY <1>1, ShortSeqs
<1>3. \A c : ActiveRows(log, c) = {}
  BY <1>2 DEF ActiveRows
<1>4. \A c \in CaseIds : CurrentState(log, c) = None /\ LastOf(c, "INCIDENT_RAISED") = None
  BY <1>3 DEF CurrentState, LastOf, RowsOf
<1>5. LiveCases = {}
  BY <1>4 DEF LiveCases, IsLive
<1>6. \A c \in CaseIds : PhaseOf(CurrentState(log, c)) = "absent"
  BY <1>4, Phases
<1> QED
  BY <1>5, <1>6 DEF Lifecycle!Init

\* With one API process the workflow implements CaseLifecycle: whatever crashes,
\* faults, resets and concurrent requests come between its steps, each of them
\* opens, moves, closes or stops one case the way CaseLifecycle allows, forgets
\* them all, or shows nothing.
THEOREM WorkflowKeepsItsPromise ==
    ASSUME OneProcess
    PROVE  Spec => ImplementsLifecycle
<1> DEFINE Inv == Typed /\ LockHeld /\ StagesInv /\ CloseInv /\ WorkersHaveCases
<1>1. Spec => []Inv
  <2>1. Typed /\ LockHeld /\ WorkersHaveCases /\ [Next]_vars => WorkersHaveCases'
    BY WorkersHaveCasesStep
  <2> QED
    BY <2>1, CloseAlways, CasesReadableInit, PTL DEF Spec
<1>2. (LogOK /\ LogInv => LiveCases = LiveInRows /\ ClosedCases = ClosedInRows)'
  BY CasesInRows, PTL
<1>3. ASSUME Inv, Inv', [Next]_vars PROVE [Lifecycle!Next]_(Lifecycle!vars)
  <2>1. LogOK /\ LogInv /\ LogOK' /\ LogInv' /\ EndsInv'
    BY <1>3 DEF Typed, StagesInv, CloseInv
  <2>2. /\ LiveCases = LiveInRows /\ ClosedCases = ClosedInRows
        /\ LiveCases' = LiveInRows' /\ ClosedCases' = ClosedInRows'
    BY <1>2, <2>1, CasesInRows
  <2>3. \/ Idles \/ Forgets
        \/ \E c \in CaseIds : Closing(c)
        \/ \E row : Records(row)
    BY <1>3, StepKinds
  <2>4. Promised
    BY <2>1, <2>2, <2>3, StepPromised
  <2> QED
    BY <2>4, PromisedIsLifecycle
<1> HIDE DEF Inv
<1> QED
  BY <1>1, <1>3, LifecycleInit, PTL DEF Spec, ImplementsLifecycle, Lifecycle!Spec

\* What CaseLifecycle promises, of the workflow: with one API process an incident
\* is closed only in a case proven in production, and a case with a live incident
\* counts as recovered only once it is closed.
THEOREM WorkflowClosesOnlyIfProven ==
    ASSUME OneProcess
    PROVE  Spec => []ClosedOnlyIfProven
<1>1. ASSUME Typed, StagesInv, CloseInv PROVE ClosedOnlyIfProven
  <2>1. LogOK /\ LogInv /\ EndsInv
    BY <1>1 DEF Typed, StagesInv, CloseInv
  <2>2. LiveCases = LiveInRows /\ ClosedCases = ClosedInRows
    BY <2>1, CasesInRows
  <2>3. ASSUME NEW c \in ClosedCases
        PROVE  c \in LiveCases /\ PhaseOf(CurrentState(log, c)) \in {"proven", "recovered", "stopped"}
    <3>1. c \in CaseIds /\ Shut(log, incidents, c) /\ c \in LiveCases
      BY <2>2, <2>3 DEF ClosedInRows, ClosedCases
    <3>2. CurrentState(log, c) \in {"POST_DEPLOY_VERIFIED", "RESOLVED"} \/ Excused(log, c)
      BY <2>1, <3>1 DEF EndsInv, EndOf
    <3>3. CASE CurrentState(log, c) \in {"POST_DEPLOY_VERIFIED", "RESOLVED"}
      BY <3>1, <3>3, Phases
    <3>4. CASE Excused(log, c)
      <4>1. PICK i \in RowsIn(log, c, "FAILED") : TRUE
        BY <3>4 DEF Excused
      <4>2. i \in ActiveRows(log, c) /\ i \in DOMAIN log /\ log[i].event_type = "FAILED"
        BY <4>1 DEF RowsIn, ActiveRows
      <4>3. log[i].state = "FAILED"
        BY <2>1, <4>2 DEF LogOK, RowOK, EventState
      <4>4. CurrentState(log, c) \in CaseState /\ Before("FAILED", CurrentState(log, c))
        BY <2>1, <3>1, <4>2, <4>3, StateIsLast DEF LogInv
      <4>5. Rank["FAILED"] = 8 /\ Rank[CurrentState(log, c)] \in Nat
            /\ Rank[CurrentState(log, c)] <= 8
        BY <4>4, Ranks DEF Rank
      <4>6. CurrentState(log, c) = "FAILED"
        BY <4>4, <4>5 DEF Before
      <4> QED
        BY <3>1, <4>6, Phases
    <3> QED
      BY <3>2, <3>3, <3>4
  <2>4. ASSUME NEW c \in LiveCases, PhaseOf(CurrentState(log, c)) = "recovered"
        PROVE  c \in ClosedCases
    <3>1. c \in CaseIds /\ Live(log, c) # {}
      BY <2>2, <2>4 DEF LiveInRows
    <3>2. CurrentState(log, c) = "RESOLVED"
      <4>1. CurrentState(log, c) \in CaseState \cup {None}
        <5>1. CASE ActiveRows(log, c) = {}
          BY <5>1 DEF CurrentState
        <5>2. CASE ActiveRows(log, c) # {}
          BY <2>1, <3>1, <5>2, StateIsLast DEF LogInv
        <5> QED
          BY <5>1, <5>2
      <4>2. \A s \in CaseState : s \in ResumableStates
               \/ s \in {"PR_OPEN", "DEPLOYED", "POST_DEPLOY_VERIFIED", "RESOLVED", "CONTAINED", "FAILED"}
        BY DEF CaseState, ResumableStates
      <4> QED
        BY <2>4, <4>1, <4>2, Phases
    <3>3. Recovered(log, incidents, documents, c)
      BY <2>1, <3>1, <3>2 DEF EndsInv, EndOf
    <3>4. Shut(log, incidents, c)
      BY <3>1, <3>3 DEF Recovered, Shut
    <3> QED
      BY <2>2, <3>1, <3>4 DEF ClosedInRows
  <2> QED
    BY <2>3, <2>4 DEF ClosedOnlyIfProven, Lifecycle!ClosedOnlyIfProven, ClosedCases, LiveCases
<1> QED
  BY <1>1, CloseAlways, PTL

-------------------------------------------------------------------------------
(***************************************************************************)
(* What the ownership sets of a process stand for.                         *)
(***************************************************************************)
\* The states a redelivery does not resume, and the cases there is nothing left to
\* do for: they are in such a state, or an attempt at a draft is on record.
Over == CaseState \ ResumableStates
Ended(rows, c) == CurrentState(rows, c) \in Over \/ RowsIn(rows, c, "PR_ATTEMPTED") # {}

\* The events that end a case.
EndTypes == {"FAILED", "CONTAINED", "INCIDENT_RESOLVED", "PR_OPENED", "PR_ATTEMPTED"}
EndCall(call) == call.event_type \in EndTypes

\* An advance finishes only after one of them: it is the last it has queued.
EndsWith(r) ==
    \/ \E call : EndCall(call) /\ r.pending = <<call>>
    \/ \E call, second : EndCall(second) /\ r.pending = <<call, second>>
Concluding(rows, r) ==
    /\ r.pc = "finish" => Ended(rows, r.case_id)
    /\ r.pc = "append" /\ r.next = "finish" => EndsWith(r)

\* A case is entered in active by the request that advances it, and in settled
\* once it has ended.
Advancing(r) == r.op \in {"advance", "handler"}
Owned(p, c) == \E t \in Threads : /\ ProcessOf[t] = p /\ Advancing(thread[t])
                                  /\ thread[t].case_id = c
DraftsOver == \A c \in CaseIds : RowsIn(log, c, "PR_OPENED") # {} => CurrentState(log, c) \in Over
OwnInv ==
    /\ DraftsOver
    /\ \A t \in Threads : Concluding(log, thread[t])
    /\ \A p \in Processes : \A c \in settled[p] : Ended(log, c)
    /\ \A p \in Processes : \A c \in active[p] : Owned(p, c)

\* Where a case that is over may go from there.
LEMMA OverStays ==
    ASSUME NEW s \in Over, NEW u, u = s \/ u \in ALLOWED_TRANSITIONS[s]
    PROVE  u \in Over
<1>1. CASE s = "PR_OPEN"
  BY <1>1 DEF Over, CaseState, ResumableStates, ALLOWED_TRANSITIONS, Refusals
<1>2. CASE s = "DEPLOYED"
  BY <1>2 DEF Over, CaseState, ResumableStates, ALLOWED_TRANSITIONS, Refusals
<1>3. CASE s = "POST_DEPLOY_VERIFIED"
  BY <1>3 DEF Over, CaseState, ResumableStates, ALLOWED_TRANSITIONS, Refusals
<1>4. CASE s \in TerminalStates
  BY <1>4 DEF Over, TerminalStates, ALLOWED_TRANSITIONS
<1> QED
  BY <1>1, <1>2, <1>3, <1>4 DEF Over, CaseState, ResumableStates, TerminalStates

\* The state of a case with rows is one of the table's.
LEMMA StateOfRows ==
    ASSUME LogOK, NEW c \in CaseIds, ActiveRows(log, c) # {}
    PROVE  CurrentState(log, c) \in CaseState
<1> DEFINE S == ActiveRows(log, c)
           m == Max(S)
<1>1. Len(log) \in Nat /\ S \in SUBSET (0 .. Len(log)) /\ S \subseteq DOMAIN log
  BY ScopeIsLastReset DEF LogOK, ActiveRows
<1>2. m \in S
  BY <1>1, MaxIsGreatest
<1>3. CurrentState(log, c) = log[m].state /\ log[m].case_id = c
  BY <1>2 DEF CurrentState, ActiveRows
<1> HIDE DEF m
<1>4. RowOK(log[m]) /\ log[m].event_type # "SYSTEM_RESET"
  <2>1. RowOK(log[m])
    BY <1>1, <1>2 DEF LogOK
  <2> QED
    BY <1>3, <2>1, NoneIsNothingElse DEF RowOK
<1>5. log[m].event_type \in CaseEvents
  BY <1>4 DEF RowOK, EventType
<1> QED
  BY <1>3, <1>4, <1>5, EventStates DEF RowOK

\* An accepted event leaves the cases that have ended so, shows a draft it records,
\* and ends its case if it is one of the events that do.
LEMMA AppendKeepsEnds ==
    ASSUME LogOK, DraftsOver, NEW call, NEW row, call.case_id \in CaseIds,
           call.event_type \in CaseEvents, call.state = EventState[call.event_type],
           Accepted(log, call), row = NewRow(log, call), log' = Append(log, row)
    PROVE  /\ DraftsOver' /\ \A c \in CaseIds : Ended(log, c) => Ended(log', c)
           /\ EndCall(call) => Ended(log', call.case_id)
<1>1. /\ row.case_id = call.case_id /\ row.event_type = call.event_type
      /\ row.state = call.state /\ row.event_type # "SYSTEM_RESET"
  BY DEF NewRow, CaseEvents, EventState
<1>2. ValidTransition(CurrentState(log, call.case_id), call.state)
  BY DEF Accepted
<1>3. /\ \A c, type : c # call.case_id \/ type # call.event_type =>
            RowsIn(log', c, type) = RowsIn(log, c, type)
      /\ RowsIn(log', call.case_id, call.event_type)
            = RowsIn(log, call.case_id, call.event_type) \cup {Len(log) + 1}
      /\ CurrentState(log', call.case_id) = call.state
  BY <1>1, RowsGrow
<1>4. \A c : c # call.case_id => CurrentState(log', c) = CurrentState(log, c)
  BY <1>1, OtherStates
<1>5. CurrentState(log, call.case_id) \in Over => call.state \in Over
  <2>1. None \notin Over
    BY NoneIsNoState DEF Over
  <2> QED
    BY <1>2, <2>1, OverStays DEF ValidTransition
<1>6. \A c \in CaseIds : CurrentState(log, c) \in Over => CurrentState(log', c) \in Over
  BY <1>3, <1>4, <1>5
<1>7. \A c \in CaseIds : Ended(log, c) => Ended(log', c)
  <2>1. \A c \in CaseIds : RowsIn(log, c, "PR_ATTEMPTED") \subseteq RowsIn(log', c, "PR_ATTEMPTED")
    BY <1>3
  <2> QED
    BY <1>6, <2>1 DEF Ended
<1>8. call.event_type = "PR_OPENED" => call.state \in Over
  BY DEF EventState, Over, CaseState, ResumableStates
<1>9. DraftsOver'
  <2> SUFFICES ASSUME NEW c \in CaseIds, RowsIn(log', c, "PR_OPENED") # {}
               PROVE  CurrentState(log', c) \in Over
    BY DEF DraftsOver
  <2>1. CASE c = call.case_id /\ call.event_type = "PR_OPENED"
    BY <1>3, <1>8, <2>1
  <2>2. CASE ~(c = call.case_id /\ call.event_type = "PR_OPENED")
    <3>1. RowsIn(log, c, "PR_OPENED") # {}
      BY <1>3, <2>2
    <3> QED
      BY <1>6, <3>1 DEF DraftsOver
  <2> QED
    BY <2>1, <2>2
<1>10. EndCall(call) => Ended(log', call.case_id)
  <2>1. CASE call.event_type = "PR_ATTEMPTED"
    BY <1>3, <2>1 DEF Ended
  <2>2. CASE call.event_type \in EndTypes \ {"PR_ATTEMPTED"}
    <3>1. call.state \in Over
      BY <2>2 DEF EndTypes, EventState, Over, CaseState, ResumableStates
    <3> QED
      BY <1>3, <3>1 DEF Ended
  <2> QED
    BY <2>1, <2>2 DEF EndCall
<1> QED
  BY <1>7, <1>9, <1>10

\* The finally clause, for one process: the case is no longer active, and settled
\* if the advance went through.
LEMMA ReleaseMeans ==
    ASSUME Typed, NEW t \in Threads, NEW completed, Release(t, completed)
    PROVE  \A p \in Processes :
              /\ active'[p] \subseteq active[p]
              /\ p = ProcessOf[t] => thread[t].case_id \notin active'[p]
              /\ settled'[p] \subseteq settled[p] \cup {thread[t].case_id}
              /\ ~completed => settled'[p] \subseteq settled[p]
<1>1. /\ active \in [Processes -> SUBSET CaseIds] /\ settled \in [Processes -> SUBSET CaseIds]
      /\ ProcessOf[t] \in Processes
  BY WorkflowConstants DEF Typed, ProcessOK
<1>2. PICK o : o = ProcessOf[t]
  OBVIOUS
<1>3. PICK c : c = thread[t].case_id
  OBVIOUS
<1>4. /\ active' = [active EXCEPT ![o] = @ \ {c}]
      /\ settled' = [settled EXCEPT ![o] = IF completed THEN @ \cup {c} ELSE @]
  BY <1>2, <1>3 DEF Release, CaseOf
<1>5. ASSUME NEW p \in Processes
      PROVE  /\ active'[p] = IF p = o THEN active[p] \ {c} ELSE active[p]
             /\ settled'[p] = IF p = o /\ completed THEN settled[p] \cup {c} ELSE settled[p]
  BY <1>1, <1>2, <1>4
<1> QED
  BY <1>2, <1>3, <1>5

\* Whoever advances the case after the step owns it then.
LEMMA OwnedThen ==
    ASSUME NEW u \in Threads, Advancing(thread'[u]), NEW p, p = ProcessOf[u],
           NEW c, c = thread'[u].case_id
    PROVE  Owned(p, c)'
  BY DEF Owned, Advancing

\* A step of one thread that leaves the log alone.
LEMMA OwnStays ==
    ASSUME Typed, OwnInv, NEW t \in Threads, Others(t), UNCHANGED log,
           Concluding(log, thread'[t]),
           \/ /\ UNCHANGED <<active, settled>>
              /\ Advancing(thread[t]) => /\ Advancing(thread'[t])
                                         /\ thread'[t].case_id = thread[t].case_id
           \/ \E completed : /\ Release(t, completed)
                             /\ completed => Ended(log, thread[t].case_id)
    PROVE  OwnInv'
<1>1. DraftsOver'
  BY DEF OwnInv, DraftsOver
<1>2. \A u \in Threads : Concluding(log', thread'[u])
  BY DEF OwnInv, Others
<1>3. \A p \in Processes : active'[p] \subseteq active[p]
  BY ReleaseMeans
<1>4. ASSUME NEW p \in Processes, NEW c \in settled'[p] PROVE Ended(log', c)
  <2>1. c \in settled[p] \/ Ended(log, c)
    BY <1>4, ReleaseMeans
  <2> QED
    BY <2>1 DEF OwnInv
<1>5. ASSUME NEW p \in Processes, NEW c \in active'[p] PROVE Owned(p, c)'
  <2>1. c \in active[p]
    BY <1>3, <1>5
  <2>2. PICK u \in Threads : ProcessOf[u] = p /\ Advancing(thread[u]) /\ thread[u].case_id = c
    BY <2>1 DEF OwnInv, Owned
  <2>3. CASE u # t
    <3>1. thread'[u] = thread[u]
      BY <2>3 DEF Others
    <3> QED
      BY <2>2, <3>1, OwnedThen
  <2>4. CASE u = t
    <3>1. ASSUME NEW completed, Release(t, completed) PROVE FALSE
      BY <1>5, <2>2, <2>4, <3>1, ReleaseMeans
    <3>2. Advancing(thread'[t]) /\ thread'[t].case_id = c
      BY <2>2, <2>4, <3>1
    <3> QED
      BY <2>2, <2>4, <3>2, OwnedThen
  <2> QED
    BY <2>3, <2>4
<1>6. \A p \in Processes : \A c \in settled'[p] : Ended(log', c)
  BY <1>4
<1>7. \A p \in Processes : \A c \in active'[p] : Owned(p, c)'
  BY <1>5
<1> QED
  BY <1>1, <1>2, <1>6, <1>7 DEF OwnInv

\* A request that does not advance a case owns none.
LEMMA AskersOwnNothing ==
    ASSUME Typed, NEW t \in Threads, thread[t].pc \notin Working
    PROVE  ~Advancing(thread[t])
  BY DEF Typed, ThreadsOK, ThreadOK, Advancing

\* An exception: the handler keeps the case, an error answer gives it up.
LEMMA ExceptionKeepsOwners ==
    ASSUME Typed, OwnInv, NEW t \in Threads, Exception(t)
    PROVE  OwnInv'
<1>1. ThreadsOK /\ UNCHANGED log
  BY DEF Typed, Exception
<1>2. CASE /\ thread[t].op = "advance" /\ UNCHANGED process
           /\ thread' = [thread EXCEPT ![t].pc = "handler", ![t].op = "handler", ![t].pending = <<>>]
  <2>1. /\ Others(t) /\ thread'[t].pc = "handler" /\ thread'[t].op = "handler"
        /\ thread'[t].case_id = thread[t].case_id
    BY <1>1, <1>2, HandlerGoes
  <2>2. Concluding(log, thread'[t])
    BY <2>1 DEF Concluding
  <2> QED
    BY <1>1, <1>2, <2>1, <2>2, OwnStays DEF Advancing, process
<1>3. ASSUME Respond(t, FALSE),
             Release(t, FALSE) \/ (UNCHANGED <<active, settled>> /\ ~Advancing(thread[t]))
      PROVE  OwnInv'
  <2>1. Others(t) /\ thread'[t] = IdleThread
    BY <1>1, <1>3, RespondClears
  <2>2. thread'[t].pc = "idle"
    BY <2>1 DEF IdleThread
  <2>3. Concluding(log, thread'[t])
    BY <2>2 DEF Concluding
  <2> QED
    BY <1>1, <1>3, <2>1, <2>3, OwnStays
<1>4. thread[t].op \in {"ingest", "verify"} => ~Advancing(thread[t])
  BY DEF Advancing
<1> QED
  BY <1>2, <1>3, <1>4 DEF Exception

\* A request that looks for its case changes nothing of this.
LEMMA AskingKeepsOwners ==
    ASSUME Typed, OwnInv, NEW t \in Threads,
           \/ Lookup(t) \/ FastDuplicate(t) \/ FastOwned(t) \/ Acquire(t)
           \/ Recheck(t) \/ Allocate(t)
           \/ \E e \in Events : Deliver(t, e)
           \/ \E c \in CaseIds : StartVerify(t, c)
    PROVE  OwnInv'
<1>1. thread[t].pc \notin Working
  BY DEF Lookup, FastDuplicate, FastOwned, Acquire, Recheck, Allocate, Deliver, StartVerify,
         At, Working, Middle
<1>2. ~Advancing(thread[t])
  BY <1>1, AskersOwnNothing
<1>3. Exception(t) \/ UNCHANGED <<active, settled>>
  BY DEF Lookup, FastDuplicate, FastOwned, Acquire, Recheck, Allocate, Deliver, StartVerify,
         process
<1>4. Asks(t) \/ Acquires(t) \/ Rests(t)
  <2>1. ~Moves(t)
    BY <1>1 DEF Moves
  <2> QED
    BY <2>1, FastPathAsks, AcquireAcquires, RecheckAsks, DeliverAsks, StartVerifyAsks
<1>5. Others(t) /\ UNCHANGED log
      /\ thread'[t].pc \in {"lookup", "duplicate", "owned", "lock", "allocate", "detect",
                            "begin", "idle", "verify", "recheck"}
  BY <1>4 DEF Asks, Rests, Acquires
<1>6. Concluding(log, thread'[t])
  BY <1>5 DEF Concluding
<1>7. CASE Exception(t)
  BY <1>7, ExceptionKeepsOwners
<1>8. CASE UNCHANGED <<active, settled>>
  BY <1>2, <1>5, <1>6, <1>8, OwnStays
<1> QED
  BY <1>3, <1>7, <1>8

\* Entering the advance, and leaving it after the case has ended.
LEMMA BeginKeepsOwners ==
    ASSUME Typed, OwnInv, NEW t \in Threads, Begin(t)
    PROVE  OwnInv'
<1>1. /\ ThreadsOK /\ active \in [Processes -> SUBSET CaseIds]
      /\ UNCHANGED <<log, settled>> /\ thread[t].pc = "begin"
  BY DEF Begin, Typed, ProcessOK, At
<1>2. /\ Others(t) /\ thread'[t].pc = "incident" /\ thread'[t].op = "advance"
      /\ thread'[t].case_id = thread[t].case_id
  BY <1>1, BeginGoes DEF Begin
<1>3. PICK o : o = ProcessOf[t]
  OBVIOUS
<1>4. PICK b : b = thread[t].case_id
  OBVIOUS
<1>5. active' = [active EXCEPT ![o] = @ \cup {b}]
  BY <1>3, <1>4 DEF Begin, CaseOf
<1>6. ASSUME NEW p \in Processes, NEW c \in active'[p] PROVE Owned(p, c)'
  <2>1. c \in active[p] \/ (p = o /\ c = b)
    BY <1>1, <1>5, <1>6
  <2>2. CASE p = o /\ c = b
    <3>1. Advancing(thread'[t])
      BY <1>2 DEF Advancing
    <3> QED
      BY <1>2, <1>3, <1>4, <2>2, <3>1, OwnedThen
  <2>3. CASE c \in active[p]
    <3>1. PICK u \in Threads : ProcessOf[u] = p /\ Advancing(thread[u]) /\ thread[u].case_id = c
      BY <2>3 DEF OwnInv, Owned
    <3>2. CASE u # t
      <4>1. thread'[u] = thread[u]
        BY <1>2, <3>2 DEF Others
      <4> QED
        BY <3>1, <4>1, OwnedThen
    <3>3. CASE u = t
      <4>1. Advancing(thread'[t]) /\ thread'[t].case_id = c
        BY <1>2, <3>1, <3>3 DEF Advancing
      <4> QED
        BY <3>1, <3>3, <4>1, OwnedThen
    <3> QED
      BY <3>2, <3>3
  <2> QED
    BY <2>1, <2>2, <2>3
<1>7. DraftsOver'
  BY <1>1 DEF OwnInv, DraftsOver
<1>8. Concluding(log', thread'[t])
  BY <1>2 DEF Concluding
<1>9. \A u \in Threads : Concluding(log', thread'[u])
  BY <1>1, <1>2, <1>8 DEF OwnInv, Others
<1>10. \A p \in Processes : \A c \in settled'[p] : Ended(log', c)
  BY <1>1 DEF OwnInv
<1>11. \A p \in Processes : \A c \in active'[p] : Owned(p, c)'
  BY <1>6
<1> QED
  BY <1>7, <1>9, <1>10, <1>11 DEF OwnInv

\* The end of the locked section.
LEMMA FinishKeepsOwners ==
    ASSUME Typed, OwnInv, NEW t \in Threads, Finish(t)
    PROVE  OwnInv'
<1>1. ThreadsOK /\ UNCHANGED log /\ thread[t].pc = "finish"
  BY DEF Finish, Typed, At
<1>2. Others(t) /\ thread'[t] = IdleThread
  BY <1>1, RespondClears DEF Finish
<1>3. thread'[t].pc = "idle"
  BY <1>2 DEF IdleThread
<1>4. Concluding(log, thread'[t])
  BY <1>3 DEF Concluding
<1>5. Ended(log, thread[t].case_id)
  BY <1>1 DEF OwnInv, Concluding
<1>6. \/ UNCHANGED <<active, settled>> /\ ~Advancing(thread[t])
      \/ Release(t, TRUE)
  BY DEF Finish, Advancing
<1> QED
  BY <1>1, <1>2, <1>4, <1>5, <1>6, OwnStays

\* A stage that goes on with its case, and finishes only what has ended.
Concludes(t) == Keeps(t) /\ Concluding(log, thread'[t])

\* The ways a stage does that.
LEMMA WaysToConclude ==
    ASSUME ThreadsOK, NEW t \in Threads
    PROVE  /\ \A pc : Goes(t, pc) /\ pc \notin {"append", "finish"} => Concludes(t)
           /\ \A pc : Goto(t, pc) /\ pc \notin {"append", "finish"} => Concludes(t)
           /\ Goto(t, "finish") /\ Ended(log, thread[t].case_id) => Concludes(t)
           /\ \A calls, next : Puts(t, calls, next) /\ next # "finish" => Concludes(t)
           /\ \A calls, next : Queue(t, calls, next) /\ next # "finish" => Concludes(t)
           /\ \A type, payload :
                 type \in EndTypes /\ Queue(t, <<Call(t, type, payload)>>, "finish") => Concludes(t)
           /\ \A type, payload, first :
                 /\ type \in EndTypes
                 /\ Queue(t, <<first, Call(t, type, payload)>>, "finish")
                 => Concludes(t)
<1>1. ASSUME NEW pc, Goes(t, pc), pc \notin {"append", "finish"} PROVE Concludes(t)
  BY <1>1 DEF Goes, Concludes, Concluding
<1>2. ASSUME NEW pc, Goto(t, pc), pc \notin {"append", "finish"} PROVE Concludes(t)
  BY <1>1, <1>2, GotoGoes
<1>3. ASSUME Goto(t, "finish"), Ended(log, thread[t].case_id) PROVE Concludes(t)
  <2>1. Goes(t, "finish")
    BY <1>3, GotoGoes
  <2>2. Keeps(t) /\ thread'[t].pc = "finish" /\ thread'[t].case_id = thread[t].case_id
    BY <2>1 DEF Goes, Keeps
  <2> QED
    BY <1>3, <2>2 DEF Concludes, Concluding
<1>4. ASSUME NEW calls, NEW next, Puts(t, calls, next), next # "finish" PROVE Concludes(t)
  BY <1>4 DEF Puts, Concludes, Concluding
<1>5. ASSUME NEW calls, NEW next, Queue(t, calls, next), next # "finish" PROVE Concludes(t)
  BY <1>4, <1>5, QueuePuts
<1>6. ASSUME NEW type \in EndTypes, NEW payload, Queue(t, <<Call(t, type, payload)>>, "finish")
      PROVE  Concludes(t)
  <2>1. PICK call : call = Call(t, type, payload)
    OBVIOUS
  <2>2. Puts(t, <<call>>, "finish") /\ EndCall(call)
    BY <1>6, <2>1, QueuePuts, CallFields DEF EndCall
  <2>3. EndsWith(thread'[t])
    BY <2>2 DEF Puts, EndsWith
  <2> QED
    BY <2>2, <2>3 DEF Puts, Concludes, Concluding
<1>7. ASSUME NEW type \in EndTypes, NEW payload, NEW first,
             Queue(t, <<first, Call(t, type, payload)>>, "finish")
      PROVE  Concludes(t)
  <2>1. PICK call : call = Call(t, type, payload)
    OBVIOUS
  <2>2. Puts(t, <<first, call>>, "finish") /\ EndCall(call)
    BY <1>7, <2>1, QueuePuts, CallFields DEF EndCall
  <2>3. EndsWith(thread'[t])
    BY <2>2 DEF Puts, EndsWith
  <2> QED
    BY <2>2, <2>3 DEF Puts, Concludes, Concluding
<1> QED
  BY <1>1, <1>2, <1>3, <1>4, <1>5, <1>6, <1>7

\* A case the advance leaves without an event of its own has ended before.
LEMMA EndedBefore ==
    ASSUME Typed, OwnInv, NEW t \in Threads, thread[t].pc \in Working,
           \/ Readable(thread[t].case_id) /\ CurrentState(log, thread[t].case_id) \notin ResumableStates
           \/ CurrentState(log, thread[t].case_id) \in TerminalStates
           \/ RowsIn(log, thread[t].case_id, "PR_OPENED") # {}
    PROVE  Ended(log, thread[t].case_id)
<1>1. LogOK /\ thread[t].case_id \in CaseIds
  BY DEF Typed, ThreadsOK, ThreadOK
<1>2. CASE Readable(thread[t].case_id) /\ CurrentState(log, thread[t].case_id) \notin ResumableStates
  BY <1>1, <1>2, StateOfRows DEF Readable, Ended, Over
<1>3. CASE CurrentState(log, thread[t].case_id) \in TerminalStates
  BY <1>3 DEF Ended, Over, TerminalStates, ResumableStates, CaseState
<1>4. CASE RowsIn(log, thread[t].case_id, "PR_OPENED") # {}
  BY <1>1, <1>4 DEF OwnInv, DraftsOver, Ended
<1> QED
  BY <1>2, <1>3, <1>4

\* Every stage concludes.
LEMMA StagesConclude ==
    ASSUME Typed, OwnInv, NEW t \in Threads,
           \/ Incident(t) \/ Context(t) \/ Candidates(t) \/ Validate(t) \/ Load(t)
           \/ Assess(t) \/ AllAssessed(t) \/ Select(t) \/ Evidence(t) \/ PullRequest(t)
           \/ Contain(t) \/ Handler(t) \/ FinalEvidence(t) \/ Resolve(t)
    PROVE  Concludes(t)
<1>1. ThreadsOK
  BY DEF Typed
<1>2. {"FAILED", "CONTAINED", "INCIDENT_RESOLVED", "PR_OPENED", "PR_ATTEMPTED"} \subseteq EndTypes
  BY DEF EndTypes
<1>3. CASE Incident(t)
  <2>1. \/ Goto(t, "finish") /\ Readable(CaseOf(t)) /\ CurrentState(log, CaseOf(t)) \notin ResumableStates
        \/ Goto(t, "context")
        \/ \E calls : Queue(t, calls, "context")
        \/ \E payload : Queue(t, <<Call(t, "FAILED", payload)>>, "finish")
        \/ \E first, payload : Queue(t, <<first, Call(t, "FAILED", payload)>>, "finish")
    BY <1>3 DEF Incident, At_, Project
  <2>2. thread[t].pc \in Working
    BY <1>3 DEF Incident, At_, At, Working, Middle
  <2>3. CASE Goto(t, "finish") /\ Readable(CaseOf(t)) /\ CurrentState(log, CaseOf(t)) \notin ResumableStates
    <3>1. Ended(log, thread[t].case_id)
      BY <2>2, <2>3, EndedBefore DEF CaseOf
    <3> QED
      BY <1>1, <2>3, <3>1, WaysToConclude
  <2>4. CASE Goto(t, "context") \/ \E calls : Queue(t, calls, "context")
    BY <1>1, <2>4, WaysToConclude
  <2>5. CASE \E payload : Queue(t, <<Call(t, "FAILED", payload)>>, "finish")
    BY <1>1, <1>2, <2>5, WaysToConclude
  <2>6. CASE \E first, payload : Queue(t, <<first, Call(t, "FAILED", payload)>>, "finish")
    BY <1>1, <1>2, <2>6, WaysToConclude
  <2> QED
    BY <2>1, <2>3, <2>4, <2>5, <2>6
<1>4. CASE Context(t) \/ Validate(t)
  <2>1. \/ \E pc \in {"candidates", "contain", "load"} : Goto(t, pc)
        \/ \E calls : \E next \in {"candidates", "load"} : Queue(t, calls, next)
    BY <1>4 DEF Context, Validate
  <2> QED
    BY <1>1, <2>1, WaysToConclude
<1>5. CASE Candidates(t)
  <2>1. \/ \E found : Finds(t, found)
        \/ Goto(t, "contain")
        \/ Queue(t, <<Call(t, "FAILED", [reason |-> "generation"])>>, "finish")
        \/ \E calls, found : Proposes(t, calls, "validate", found)
    BY <1>5 DEF Candidates, Finds, Proposes
  <2>2. CASE \E found : Finds(t, found)
    BY <1>1, <2>2, CandidatesGoes, WaysToConclude
  <2>3. CASE Goto(t, "contain")
    BY <1>1, <2>3, WaysToConclude
  <2>4. CASE Queue(t, <<Call(t, "FAILED", [reason |-> "generation"])>>, "finish")
    BY <1>1, <1>2, <2>4, WaysToConclude
  <2>5. CASE \E calls, found : Proposes(t, calls, "validate", found)
    BY <1>1, <2>5, CandidatesPuts, WaysToConclude
  <2> QED
    BY <2>1, <2>2, <2>3, <2>4, <2>5
<1>6. CASE Load(t)
  <2>1. Loads(t, Project(CaseOf(t)).assessed)
    BY <1>6 DEF Load, Loads
  <2> QED
    BY <1>1, <2>1, LoadGoes, WaysToConclude
<1>7. CASE Assess(t)
  <2>1. \E calls, p, outcome : Assesses(t, calls, "assess", p, outcome)
    BY <1>7 DEF Assess, Assesses
  <2> QED
    BY <1>1, <2>1, AssessPuts, WaysToConclude
<1>8. CASE AllAssessed(t) \/ Select(t)
  <2>1. \/ \E pc \in {"contain", "select", "evidence"} : Goto(t, pc)
        \/ \E calls : Queue(t, calls, "evidence")
    BY <1>8 DEF AllAssessed, Select
  <2> QED
    BY <1>1, <2>1, WaysToConclude
<1>9. CASE Evidence(t)
  <2>1. \/ Goto(t, "pull_request")
        \/ \E calls : Queue(t, calls, "pull_request")
        \/ \E payload : Queue(t, <<Call(t, "FAILED", payload)>>, "finish")
        \/ \E first, payload : Queue(t, <<first, Call(t, "FAILED", payload)>>, "finish")
    BY <1>9 DEF Evidence
  <2>2. CASE Goto(t, "pull_request") \/ \E calls : Queue(t, calls, "pull_request")
    BY <1>1, <2>2, WaysToConclude
  <2>3. CASE \E payload : Queue(t, <<Call(t, "FAILED", payload)>>, "finish")
    BY <1>1, <1>2, <2>3, WaysToConclude
  <2>4. CASE \E first, payload : Queue(t, <<first, Call(t, "FAILED", payload)>>, "finish")
    BY <1>1, <1>2, <2>4, WaysToConclude
  <2> QED
    BY <2>1, <2>2, <2>3, <2>4
<1>10. CASE PullRequest(t)
  <2>1. \/ Goto(t, "finish") /\ RowsOf(CaseOf(t), "PR_OPENED") # {}
        \/ \E payload : \/ Queue(t, <<Call(t, "PR_OPENED", payload)>>, "finish")
                        \/ Queue(t, <<Call(t, "PR_ATTEMPTED", payload)>>, "finish")
    BY <1>10 DEF PullRequest, Project
  <2>2. thread[t].pc \in Working
    BY <1>10 DEF PullRequest, At_, At, Working, Middle
  <2>3. CASE Goto(t, "finish") /\ RowsOf(CaseOf(t), "PR_OPENED") # {}
    <3>1. Ended(log, thread[t].case_id)
      BY <2>2, <2>3, EndedBefore DEF CaseOf, RowsOf, RowsIn
    <3> QED
      BY <1>1, <2>3, <3>1, WaysToConclude
  <2>4. CASE \E payload : Queue(t, <<Call(t, "PR_OPENED", payload)>>, "finish")
    BY <1>1, <1>2, <2>4, WaysToConclude
  <2>5. CASE \E payload : Queue(t, <<Call(t, "PR_ATTEMPTED", payload)>>, "finish")
    BY <1>1, <1>2, <2>5, WaysToConclude
  <2> QED
    BY <2>1, <2>3, <2>4, <2>5
<1>11. CASE Handler(t)
  <2>1. \/ Goto(t, "finish") /\ CurrentState(log, CaseOf(t)) \in TerminalStates
        \/ \E payload : Queue(t, <<Call(t, "FAILED", payload)>>, "finish")
    BY <1>11 DEF Handler
  <2>2. thread[t].pc \in Working
    BY <1>11 DEF Handler, At_, At, Working, Middle
  <2>3. CASE Goto(t, "finish") /\ CurrentState(log, CaseOf(t)) \in TerminalStates
    <3>1. Ended(log, thread[t].case_id)
      BY <2>2, <2>3, EndedBefore DEF CaseOf
    <3> QED
      BY <1>1, <2>3, <3>1, WaysToConclude
  <2>4. CASE \E payload : Queue(t, <<Call(t, "FAILED", payload)>>, "finish")
    BY <1>1, <1>2, <2>4, WaysToConclude
  <2> QED
    BY <2>1, <2>3, <2>4
<1>12. CASE Contain(t) \/ FinalEvidence(t) \/ Resolve(t)
  <2>1. \/ Goto(t, "resolve")
        \/ \E payload : Queue(t, <<Call(t, "CONTAINED", payload)>>, "finish")
        \/ \E payload : Queue(t, <<Call(t, "FAILED", payload)>>, "finish")
        \/ \E payload : Queue(t, <<Call(t, "INCIDENT_RESOLVED", payload)>>, "finish")
    BY <1>12 DEF Contain, FinalEvidence, Resolve
  <2>2. CASE Goto(t, "resolve")
    BY <1>1, <2>2, WaysToConclude
  <2>3. CASE \E payload : Queue(t, <<Call(t, "CONTAINED", payload)>>, "finish")
    BY <1>1, <1>2, <2>3, WaysToConclude
  <2>4. CASE \E payload : Queue(t, <<Call(t, "FAILED", payload)>>, "finish")
    BY <1>1, <1>2, <2>4, WaysToConclude
  <2>5. CASE \E payload : Queue(t, <<Call(t, "INCIDENT_RESOLVED", payload)>>, "finish")
    BY <1>1, <1>2, <2>5, WaysToConclude
  <2> QED
    BY <2>1, <2>2, <2>3, <2>4, <2>5
<1> QED
  BY <1>3, <1>4, <1>5, <1>6, <1>7, <1>8, <1>9, <1>10, <1>11, <1>12

\* So every stage keeps the owners.
LEMMA StagesKeepOwners ==
    ASSUME Typed, OwnInv, NEW t \in Threads,
           \/ Incident(t) \/ Context(t) \/ Candidates(t) \/ Validate(t) \/ Load(t)
           \/ Assess(t) \/ AllAssessed(t) \/ Select(t) \/ Evidence(t) \/ PullRequest(t)
           \/ Contain(t) \/ Handler(t) \/ FinalEvidence(t) \/ Resolve(t)
    PROVE  OwnInv'
<1>1. Concludes(t)
  BY StagesConclude
<1>2. UNCHANGED <<log, active, settled>>
  BY DEF Incident, Context, Candidates, Validate, Load, Assess, AllAssessed, Select, Evidence,
         PullRequest, Contain, Handler, FinalEvidence, Resolve, StepOnly, process
<1>3. /\ Others(t) /\ Concluding(log, thread'[t])
      /\ Advancing(thread[t]) => Advancing(thread'[t]) /\ thread'[t].case_id = thread[t].case_id
  BY <1>1 DEF Concludes, Keeps, Advancing
<1> QED
  BY <1>2, <1>3, OwnStays

\* A verification queues its deployment; the end of its case comes later.
LEMMA VerifyKeepsOwners ==
    ASSUME Typed, OwnInv, NEW t \in Threads, Verify(t)
    PROVE  OwnInv'
<1>1. CASE Exception(t)
  BY <1>1, ExceptionKeepsOwners
<1>2. CASE ~Exception(t)
  <2>1. thread[t].pc = "verify" /\ thread[t].pc \notin Working
    BY DEF Verify, At_, At, Working, Middle
  <2>2. ~Advancing(thread[t])
    BY <2>1, AskersOwnNothing
  <2>3. /\ \E calls, incident : \E next \in {"final_evidence", "contain"} :
              Takes(t, calls, next, incident)
        /\ UNCHANGED <<log, active, settled>>
    <3>1. PICK verdict, deployed, verified :
            /\ thread' = [thread EXCEPT ![t] =
                          [(IF verdict = "accepted"
                            THEN Queued(t, <<deployed, verified>>, "final_evidence")
                            ELSE Queued(t, <<deployed>>, "contain"))
                           EXCEPT !.incident = Project(CaseOf(t)).incident]]
            /\ UNCHANGED <<log, process, remote, unacked>>
      BY <1>2 DEF Verify
    <3>2. CASE verdict = "accepted"
      BY <3>1, <3>2 DEF Takes, process
    <3>3. CASE verdict # "accepted"
      BY <3>1, <3>3 DEF Takes, process
    <3> QED
      BY <3>2, <3>3
  <2>4. \E calls : \E next \in {"final_evidence", "contain"} : Puts(t, calls, next)
    BY <2>3, VerifyPuts DEF Typed
  <2>5. Others(t) /\ Concluding(log, thread'[t])
    BY <2>4 DEF Puts, Keeps, Concluding
  <2> QED
    BY <2>2, <2>3, <2>5, OwnStays
<1> QED
  BY <1>1, <1>2

\* A step that appends an event and keeps both sets.
LEMMA OwnGrows ==
    ASSUME Typed, OwnInv, NEW t \in Threads, Others(t), UNCHANGED <<active, settled>>,
           NEW call, NEW row, call.case_id \in CaseIds,
           call.event_type \in CaseEvents, call.state = EventState[call.event_type],
           Accepted(log, call), row = NewRow(log, call), log' = Append(log, row),
           Concluding(log', thread'[t]),
           Advancing(thread[t]) => /\ Advancing(thread'[t])
                                   /\ thread'[t].case_id = thread[t].case_id
    PROVE  OwnInv'
<1>1. LogOK /\ DraftsOver /\ settled \in [Processes -> SUBSET CaseIds]
      /\ \A u \in Threads : ThreadOK(thread[u])
  BY DEF Typed, OwnInv, ProcessOK, ThreadsOK
<1>2. DraftsOver' /\ \A c \in CaseIds : Ended(log, c) => Ended(log', c)
  BY <1>1, AppendKeepsEnds
<1>3. ASSUME NEW u \in Threads PROVE Concluding(log', thread'[u])
  <2>1. CASE u = t
    BY <2>1
  <2>2. CASE u # t
    <3>1. PICK q : q = thread[u]
      OBVIOUS
    <3>2. Concluding(log, q) /\ ThreadOK(q) /\ thread'[u] = q
      BY <1>1, <2>2, <3>1 DEF OwnInv, Others
    <3>3. q.pc = "finish" => q.case_id \in CaseIds
      BY <3>2 DEF ThreadOK, Working, Middle
    <3>4. Concluding(log', q)
      BY <1>2, <3>2, <3>3 DEF Concluding
    <3> QED
      BY <3>2, <3>4
  <2> QED
    BY <2>1, <2>2
<1>4. \A p \in Processes : \A c \in settled'[p] : Ended(log', c)
  <2> SUFFICES ASSUME NEW p \in Processes, NEW c \in settled[p] PROVE Ended(log', c)
    OBVIOUS
  <2>1. Ended(log, c) /\ c \in CaseIds
    BY <1>1 DEF OwnInv
  <2> QED
    BY <1>2, <2>1
<1>5. ASSUME NEW p \in Processes, NEW c \in active'[p] PROVE Owned(p, c)'
  <2>1. PICK u \in Threads : ProcessOf[u] = p /\ Advancing(thread[u]) /\ thread[u].case_id = c
    BY <1>5 DEF OwnInv, Owned
  <2>2. Advancing(thread'[u]) /\ thread'[u].case_id = c
    <3>1. CASE u = t
      BY <2>1, <3>1
    <3>2. CASE u # t
      <4>1. thread'[u] = thread[u]
        BY <3>2 DEF Others
      <4> QED
        BY <2>1, <4>1
    <3> QED
      BY <3>1, <3>2
  <2> QED
    BY <2>1, <2>2, OwnedThen
<1>6. \A u \in Threads : Concluding(log', thread'[u])
  BY <1>3
<1>7. \A p \in Processes : \A c \in active'[p] : Owned(p, c)'
  BY <1>5
<1> QED
  BY <1>2, <1>4, <1>6, <1>7 DEF OwnInv

\* The detection of a new case.
LEMMA DetectKeepsOwners ==
    ASSUME Typed, OwnInv, NEW t \in Threads, Detect(t)
    PROVE  OwnInv'
<1> DEFINE call == DetectionOf(t, CaseOf(t))
<1>1. thread[t].pc = "detect" /\ thread[t].pc \notin Working /\ ThreadsOK
  BY DEF Detect, At, Typed, Working, Middle
<1>2. ~Advancing(thread[t])
  BY <1>1, AskersOwnNothing
<1>3. CASE /\ Accepted(log, call) /\ log' = Append(log, NewRow(log, call)) /\ Goto(t, "begin")
           /\ UNCHANGED process
  <2>1. PICK new : new = call
    OBVIOUS
  <2>2. /\ new.case_id = thread[t].case_id /\ new.event_type = "SCHEMA_CHANGE_DETECTED"
        /\ new.state = "DETECTED"
    BY <2>1 DEF DetectionOf, DetectionCall, CaseOf
  <2>3. new.case_id \in CaseIds
    BY <1>1, <2>2 DEF ThreadsOK, ThreadOK
  <2>4. PICK row : row = NewRow(log, new)
    OBVIOUS
  <2>5. /\ new.event_type \in CaseEvents /\ new.state = EventState[new.event_type]
        /\ Accepted(log, new) /\ log' = Append(log, row)
    BY <1>3, <2>1, <2>2, <2>4 DEF CaseEvents, EventState
  <2>6. Goes(t, "begin")
    BY <1>1, <1>3, GotoGoes
  <2>7. PICK rows : rows = log'
    OBVIOUS
  <2>8. Others(t) /\ Concluding(rows, thread'[t])
    BY <2>6 DEF Goes, Keeps, Concluding
  <2>9. Concluding(log', thread'[t]) /\ UNCHANGED <<active, settled>>
    BY <1>3, <2>7, <2>8 DEF process
  <2> QED
    BY <1>2, <2>3, <2>4, <2>5, <2>8, <2>9, OwnGrows
<1>4. CASE Exception(t)
  BY <1>4, ExceptionKeepsOwners
<1>5. ASSUME UNCHANGED <<log, active, settled>>, Others(t), thread'[t].pc \in {"idle", "allocate"}
      PROVE  OwnInv'
  <2>1. Concluding(log, thread'[t])
    BY <1>5 DEF Concluding
  <2> QED
    BY <1>2, <1>5, <2>1, OwnStays
<1>6. CASE \E ok : Respond(t, ok) /\ UNCHANGED <<log, active, settled>>
  <2>1. Others(t) /\ thread'[t] = IdleThread
    BY <1>1, <1>6, RespondClears
  <2>2. thread'[t].pc = "idle"
    BY <2>1 DEF IdleThread
  <2> QED
    BY <1>5, <1>6, <2>1, <2>2
<1>7. CASE \E n : Retries(t, n) /\ UNCHANGED <<log, process>>
  <2>1. Keeps(t) /\ thread'[t].pc = "allocate"
    BY <1>1, <1>7, RetryGoes
  <2> QED
    BY <1>5, <1>7, <2>1 DEF Keeps, process
<1>8. \/ /\ Accepted(log, call) /\ log' = Append(log, NewRow(log, call)) /\ Goto(t, "begin")
         /\ UNCHANGED process
      \/ Exception(t)
      \/ \E ok : Respond(t, ok) /\ UNCHANGED <<log, active, settled>>
      \/ \E n : Retries(t, n) /\ UNCHANGED <<log, process>>
  BY DEF Detect, Retries
<1> QED
  BY <1>3, <1>4, <1>6, <1>7, <1>8

\* The append of a queued event; the last of an advance ends its case.
LEMMA AppendKeepsOwners ==
    ASSUME Typed, OwnInv, NEW t \in Threads, AppendEvent(t)
    PROVE  OwnInv'
<1>1. thread[t].pc = "append" /\ ThreadsOK /\ ThreadOK(thread[t]) /\ Concluding(log, thread[t])
  BY DEF AppendEvent, At, Typed, OwnInv, ThreadsOK
<1>2. CASE Exception(t)
  BY <1>2, ExceptionKeepsOwners
<1>3. CASE ~Exception(t)
  <2>1. PICK q : q = thread[t]
    OBVIOUS
  <2>2. PICK call : call = Head(q.pending)
    OBVIOUS
  <2>3. PICK row : row = NewRow(log, call)
    OBVIOUS
  <2>4. CallOK(call) /\ call.case_id = q.case_id /\ q.case_id \in CaseIds
    <3>1. ThreadOK(q) /\ q.pc = "append"
      BY <1>1, <2>1
    <3>2. IsSeq(q.pending) /\ q.pending # <<>> /\ q.case_id \in CaseIds
      BY <3>1 DEF ThreadOK, Working
    <3>3. 1 \in DOMAIN q.pending /\ call = q.pending[1]
      BY <2>2, <3>2, Tailed
    <3> QED
      BY <3>1, <3>2, <3>3 DEF ThreadOK
  <2>5. /\ Accepted(log, call) /\ log' = Append(log, row) /\ UNCHANGED process
        /\ thread' = [thread EXCEPT ![t].pending = Tail(@),
              ![t].pc = IF Len(thread[t].pending) = 1 THEN thread[t].next ELSE "append"]
    BY <1>3, <2>1, <2>2, <2>3 DEF AppendEvent
  <2>6. PICK pc : pc = IF Len(q.pending) = 1 THEN q.next ELSE "append"
    OBVIOUS
  <2>7. Advances(t, Tail(thread[t].pending), pc)
    BY <2>1, <2>5, <2>6 DEF Advances
  <2>8. PICK r : r = thread'[t]
    OBVIOUS
  <2>9. /\ Keeps(t) /\ r.pc = pc /\ r.pending = Tail(q.pending) /\ r.next = q.next
        /\ r.case_id = q.case_id /\ r.op = q.op
    BY <1>1, <2>1, <2>7, <2>8, AppendGoes DEF Keeps
  <2>10. /\ call.event_type \in CaseEvents /\ call.state = EventState[call.event_type]
         /\ LogOK /\ DraftsOver
    BY <2>4 DEF CallOK, Typed, OwnInv
  <2>11. PICK rows : rows = log'
    OBVIOUS
  <2>12. EndCall(call) => Ended(rows, call.case_id)
    BY <2>3, <2>4, <2>5, <2>10, <2>11, AppendKeepsEnds
  <2>13. ASSUME q.next = "finish" PROVE Concluding(rows, r)
    <3>1. EndsWith(q)
      BY <1>1, <2>1, <2>13 DEF Concluding
    <3>2. ASSUME NEW only, EndCall(only), q.pending = <<only>> PROVE Concluding(rows, r)
      <4>1. Len(q.pending) = 1 /\ call = only
        BY <2>2, <3>2
      <4>2. r.pc = "finish" /\ Ended(rows, r.case_id)
        BY <2>4, <2>6, <2>9, <2>12, <2>13, <3>2, <4>1
      <4> QED
        BY <4>2 DEF Concluding
    <3>3. ASSUME NEW first, NEW second, EndCall(second), q.pending = <<first, second>>
          PROVE  Concluding(rows, r)
      <4>1. Len(q.pending) = 2 /\ Tail(q.pending) = <<second>>
        BY <3>3
      <4>2. r.pc = "append" /\ EndsWith(r)
        BY <2>6, <2>9, <3>3, <4>1 DEF EndsWith
      <4> QED
        BY <4>2 DEF Concluding
    <3> QED
      BY <3>1, <3>2, <3>3 DEF EndsWith
  <2>14. ASSUME q.next # "finish" PROVE Concluding(rows, r)
    BY <2>6, <2>9, <2>14 DEF Concluding
  <2>15. Concluding(log', thread'[t])
    BY <2>8, <2>11, <2>13, <2>14
  <2>16. /\ Others(t) /\ UNCHANGED <<active, settled>>
         /\ Advancing(thread[t]) => /\ Advancing(thread'[t])
                                    /\ thread'[t].case_id = thread[t].case_id
    BY <2>1, <2>5, <2>8, <2>9 DEF Keeps, Advancing, process
  <2> QED
    BY <2>3, <2>4, <2>5, <2>10, <2>15, <2>16, OwnGrows
<1> QED
  BY <1>2, <1>3

\* A restart empties both sets of its process, and no other process's.
LEMMA CrashKeepsOwners ==
    ASSUME Typed, OwnInv, NEW p \in Processes, Crash(p)
    PROVE  OwnInv'
<1>1. /\ active \in [Processes -> SUBSET CaseIds] /\ settled \in [Processes -> SUBSET CaseIds]
      /\ active' = [active EXCEPT ![p] = {}] /\ settled' = [settled EXCEPT ![p] = {}]
      /\ thread' = [t \in Threads |-> IF ProcessOf[t] = p THEN IdleThread ELSE thread[t]]
      /\ UNCHANGED log
  BY DEF Crash, Typed, ProcessOK
<1>2. DraftsOver'
  BY <1>1 DEF OwnInv, DraftsOver
<1>3. Concluding(log, IdleThread)
  BY DEF Concluding, IdleThread
<1>4. \A u \in Threads : Concluding(log', thread'[u])
  BY <1>1, <1>3 DEF OwnInv
<1>5. \A q \in Processes : settled'[q] \subseteq settled[q] /\ active'[q] \subseteq active[q]
                           /\ (q = p => active'[q] = {})
  BY <1>1
<1>6. \A q \in Processes : \A c \in settled'[q] : Ended(log', c)
  BY <1>1, <1>5 DEF OwnInv
<1>7. ASSUME NEW q \in Processes, NEW c \in active'[q] PROVE Owned(q, c)'
  <2>1. c \in active[q] /\ q # p
    BY <1>5, <1>7
  <2>2. PICK u \in Threads : ProcessOf[u] = q /\ Advancing(thread[u]) /\ thread[u].case_id = c
    BY <2>1 DEF OwnInv, Owned
  <2>3. thread'[u] = thread[u]
    BY <1>1, <2>1, <2>2
  <2> QED
    BY <2>2, <2>3, OwnedThen
<1>8. \A q \in Processes : \A c \in active'[q] : Owned(q, c)'
  BY <1>7
<1> QED
  BY <1>2, <1>4, <1>6, <1>8 DEF OwnInv

\* How many resets may still come.
ResetsLeft == budget \in [DOMAIN Bounds -> Nat] /\ budget["resets"] = 0

\* Spending on something else leaves none.
LEMMA SpendingKeepsNone ==
    ASSUME ResetsLeft, NEW what \in DOMAIN Bounds \ {"resets"}, Spend(what)
    PROVE  ResetsLeft'
  BY WorkflowConstants DEF ResetsLeft, Spend

\* The requests themselves spend nothing.
LEMMA StepsSpendNothing ==
    ASSUME NEW t \in Threads, Step(t)
    PROVE  UNCHANGED budget
<1>1. CASE IngestStep(t)
  BY <1>1 DEF IngestStep, Lookup, FastDuplicate, FastOwned, Acquire, Recheck, Allocate, Detect,
              Begin
<1>2. CASE AdvanceStep(t)
  BY <1>2 DEF AdvanceStep, Incident, Context, Candidates, Validate, Load, Assess, AllAssessed,
              Select, Evidence, PullRequest, Contain, AppendEvent, Handler, Finish, StepOnly
<1>3. CASE VerifyStep(t)
  BY <1>3 DEF VerifyStep, Verify, FinalEvidence, Resolve, StepOnly
<1>4. CASE Unreadable(t)
  BY <1>4 DEF Unreadable
<1> QED
  BY <1>1, <1>2, <1>3, <1>4 DEF Step

\* Without a reset to come there is none.
LEMMA ResetsLeftStep == ResetsLeft /\ [Next]_vars => ResetsLeft'
<1> SUFFICES ASSUME ResetsLeft, [Next]_vars PROVE ResetsLeft'
  OBVIOUS
<1>1. {"faults", "verifications", "duplicates"} \subseteq DOMAIN Bounds \ {"resets"}
  BY WorkflowConstants
<1>2. CASE UNCHANGED budget
  BY <1>2 DEF ResetsLeft
<1>3. CASE \E what \in {"faults", "verifications", "duplicates"} : Spend(what)
  BY <1>1, <1>3, SpendingKeepsNone
<1>4. ASSUME NEW p \in Processes PROVE ~ResetDemo(p)
  BY DEF ResetDemo, Spend, ResetsLeft
<1>5. ASSUME NEW t \in Threads, Step(t) PROVE UNCHANGED budget
  BY <1>5, StepsSpendNothing
<1>6. ASSUME NEW t \in Threads, Fault(t) PROVE Spend("faults")
  BY <1>6 DEF Fault
<1>7. ASSUME NEW t \in Threads, NEW e \in Events, Deliver(t, e)
      PROVE  UNCHANGED budget \/ Spend("duplicates")
  BY <1>7 DEF Deliver
<1>8. ASSUME NEW t \in Threads, NEW c \in CaseIds, StartVerify(t, c) PROVE Spend("verifications")
  BY <1>8 DEF StartVerify
<1>9. ASSUME NEW p \in Processes, Crash(p) PROVE Spend("faults")
  BY <1>9 DEF Crash
<1>10. CASE UNCHANGED vars
  BY <1>2, <1>10 DEF vars
<1> QED
  BY <1>2, <1>3, <1>4, <1>5, <1>6, <1>7, <1>8, <1>9, <1>10 DEF Next, Quiescent

\* Every step but a reset keeps the owners.
LEMMA OwnStep ==
    ASSUME Typed, OwnInv, ResetsLeft, [Next]_vars
    PROVE  OwnInv'
<1>1. ASSUME NEW t \in Threads, IngestStep(t) PROVE OwnInv'
  BY <1>1, AskingKeepsOwners, DetectKeepsOwners, BeginKeepsOwners DEF IngestStep
<1>2. ASSUME NEW t \in Threads, AdvanceStep(t) PROVE OwnInv'
  BY <1>2, StagesKeepOwners, AppendKeepsOwners, FinishKeepsOwners DEF AdvanceStep
<1>3. ASSUME NEW t \in Threads, VerifyStep(t) PROVE OwnInv'
  BY <1>3, StagesKeepOwners, VerifyKeepsOwners DEF VerifyStep
<1>4. ASSUME NEW t \in Threads, Unreadable(t) \/ Fault(t) PROVE OwnInv'
  BY <1>4, ExceptionKeepsOwners DEF Unreadable, Fault
<1>5. ASSUME NEW t \in Threads, NEW e \in Events, Deliver(t, e) PROVE OwnInv'
  BY <1>5, AskingKeepsOwners
<1>6. ASSUME NEW t \in Threads, NEW c \in CaseIds, StartVerify(t, c) PROVE OwnInv'
  BY <1>6, AskingKeepsOwners
<1>7. ASSUME NEW p \in Processes, Crash(p) PROVE OwnInv'
  BY <1>7, CrashKeepsOwners
<1>8. ASSUME NEW p \in Processes PROVE ~ResetDemo(p)
  BY DEF ResetDemo, Spend, ResetsLeft
<1>9. CASE UNCHANGED vars
  <2>1. UNCHANGED <<log, thread, active, settled>>
    BY <1>9 DEF vars, process
  <2> QED
    BY <2>1 DEF OwnInv, DraftsOver, Owned
<1> QED
  BY <1>1, <1>2, <1>3, <1>4, <1>5, <1>6, <1>7, <1>8, <1>9 DEF Next, Step, Quiescent

\* At first nobody owns anything.
LEMMA OwnInit ==
    ASSUME Init
    PROVE  OwnInv
<1>1. /\ \A t \in Threads : thread[t].pc = "idle"
      /\ \A p \in Processes : active[p] = {} /\ settled[p] = {}
  BY IdleOK DEF Init
<1>2. DOMAIN log = {}
  BY ShortSeqs DEF Init
<1>3. DraftsOver
  BY <1>2 DEF DraftsOver, RowsIn, ActiveRows
<1> QED
  BY <1>1, <1>3 DEF OwnInv, Concluding

\* The ownership sets hide no unfinished case from a redelivery, with any number of
\* processes, requests, faults and restarts, as long as the store is not reset
\* (after a reset a settled case may come back under its id: the reset does not
\* clear the sets).
THEOREM OwnershipOnlySuppressesDuplicates ==
    ASSUME Bounds["resets"] = 0
    PROVE  Spec => []OwnershipHidesNothing
<1>1. Init => ResetsLeft
  BY WorkflowConstants DEF Init, ResetsLeft
<1>2. Typed /\ LockHeld /\ OwnInv => OwnershipHidesNothing
  <2> SUFFICES ASSUME Typed, LockHeld, OwnInv, \A q \in Processes : lock[q] = None,
                      NEW p \in Processes, NEW c \in active[p] \cup settled[p]
               PROVE  ~Unfinished(c)
    BY DEF OwnershipHidesNothing
  <2>1. ASSUME c \in active[p] PROVE FALSE
    <3>1. PICK t \in Threads : ProcessOf[t] = p /\ Advancing(thread[t])
      BY <2>1 DEF OwnInv, Owned
    <3>2. thread[t].pc \in Locked
      BY <3>1 DEF Typed, ThreadsOK, ThreadOK, Advancing, Locked
    <3>3. lock[p] = t
      BY <3>1, <3>2 DEF LockHeld
    <3> QED
      BY <3>3, NoneIsNothingElse
  <2>2. Ended(log, c)
    BY <2>1 DEF OwnInv
  <2> QED
    BY <2>2 DEF Ended, Over, Unfinished, RowsOf, RowsIn
<1>3. Typed /\ OwnInv /\ ResetsLeft /\ [Next]_vars => OwnInv'
  BY OwnStep
<1>4. ResetsLeft /\ [Next]_vars => ResetsLeft'
  BY ResetsLeftStep
<1>5. Init => OwnInv
  BY OwnInit
<1> QED
  BY <1>1, <1>2, <1>3, <1>4, <1>5, LockAlwaysHeld, PTL DEF Spec

-------------------------------------------------------------------------------
(***************************************************************************)
(* Every write is an operation of the event store.                         *)
(***************************************************************************)
\* The bounds of the store's instance: rows appended, and incidents raised.
WithinBounds == Len(log) < 1000 /\ Len(incidents) \in Urns

\* An event that is queued has a payload of its kind.
Fits(call) ==
    /\ call.event_type \in CaseEvents \ {"SCHEMA_CHANGE_DETECTED"}
    /\ call.payload \in EventDetails[call.event_type]
Fitting(r) == \A i \in DOMAIN r.pending : Fits(r.pending[i])
FitInv == \A t \in Threads : Fitting(thread[t])

\* The store computes what the workflow computes from the same rows.
LEMMA StoreComputes ==
    /\ \A rows : Store!CurrentScope(rows) = CurrentScope(rows)
    /\ \A rows, c : Store!CurrentState(rows, c) = CurrentState(rows, c)
    /\ \A rows, call : Store!Accepted(rows, call) <=> Accepted(rows, call)
    /\ \A rows, call : Store!NewRow(rows, call) = NewRow(rows, call)
    /\ \A rows : Store!ResetRow(rows) = ResetRow(rows)
<1>1. \A S : Store!Max(S) = Max(S)
  BY DEF Max, Store!Max
<1>2. \A rows : Store!CurrentScope(rows) = CurrentScope(rows)
  BY <1>1 DEF CurrentScope, Store!CurrentScope
<1>3. \A rows, c : Store!ActiveRows(rows, c) = ActiveRows(rows, c)
  BY <1>2 DEF ActiveRows, Store!ActiveRows
<1>4. \A rows, c : Store!CurrentState(rows, c) = CurrentState(rows, c)
  BY <1>1, <1>3 DEF CurrentState, Store!CurrentState
<1>5. \A rows : Store!InScope(rows) = InScope(rows)
  BY <1>2 DEF InScope, Store!InScope
<1>6. \A rows, call : /\ Store!IdTaken(rows, call) <=> IdTaken(rows, call)
                      /\ Store!KeyTaken(rows, call) <=> KeyTaken(rows, call)
  BY <1>5 DEF IdTaken, Store!IdTaken, KeyTaken, Store!KeyTaken,
              HoldersOfId, Store!HoldersOfId, HoldersOfKey, Store!HoldersOfKey
<1>7. \A rows, call : Store!SecondDetection(rows, call) <=> SecondDetection(rows, call)
  BY <1>4 DEF SecondDetection, Store!SecondDetection
<1>8. \A s, u : Store!ValidTransition(s, u) <=> ValidTransition(s, u)
  BY DEF ValidTransition, Store!ValidTransition, ALLOWED_TRANSITIONS, Store!ALLOWED_TRANSITIONS,
         Refusals, Store!Refusals
<1>9. \A rows, call : Store!Accepted(rows, call) <=> Accepted(rows, call)
  BY <1>4, <1>6, <1>7, <1>8 DEF Accepted, Store!Accepted
<1>10. \A rows, call : Store!NewRow(rows, call) = NewRow(rows, call)
  BY <1>2 DEF NewRow, Store!NewRow
<1>11. \A rows : Store!ResetRow(rows) = ResetRow(rows)
  BY <1>2 DEF ResetRow, Store!ResetRow, SystemCase, Store!SystemCase
<1> QED
  BY <1>2, <1>4, <1>9, <1>10, <1>11

\* What the store does with a call depends on its fields only.
LEMMA FieldsDecide ==
    ASSUME NEW rows, NEW call, NEW other,
           call.case_id = other.case_id, call.event_type = other.event_type,
           call.state = other.state, call.payload = other.payload,
           call.dedup_key = other.dedup_key, call.event_id = other.event_id
    PROVE  /\ Accepted(rows, call) <=> Accepted(rows, other)
           /\ NewRow(rows, call) = NewRow(rows, other)
<1>1. NewRow(rows, call) = NewRow(rows, other)
  BY DEF NewRow
<1>2. IdTaken(rows, call) <=> IdTaken(rows, other)
  BY DEF IdTaken
<1>3. KeyTaken(rows, call) <=> KeyTaken(rows, other)
  BY DEF KeyTaken
<1>4. SecondDetection(rows, call) <=> SecondDetection(rows, other)
  BY DEF SecondDetection
<1> QED
  BY <1>1, <1>2, <1>3, <1>4 DEF Accepted

\* An event of the workflow is one of the store's Progress.
LEMMA ProgressIsStores ==
    ASSUME WithinBounds, NEW call, CallOK(call), Fits(call), Accepted(log, call),
           log' = Append(log, NewRow(log, call))
    PROVE  Store!Next
<1>1. PICK c, type, detail :
          c = call.case_id /\ type = call.event_type /\ detail = call.payload
  OBVIOUS
<1>2. PICK other : other = ProgressCall(c, type, detail)
  OBVIOUS
<1>3. /\ other.case_id = call.case_id /\ other.event_type = call.event_type
      /\ other.state = call.state /\ other.payload = call.payload
      /\ other.dedup_key = call.dedup_key /\ other.event_id = call.event_id
  BY <1>1, <1>2 DEF ProgressCall, CallOK
<1>4. Accepted(log, other) /\ log' = Append(log, NewRow(log, other))
  BY <1>3, FieldsDecide
<1>5. Store!ProgressCall(c, type, detail) = other
  BY <1>2 DEF ProgressCall, Store!ProgressCall, EventState, Store!EventState
<1>6. Store!AppendEvent(other)
  BY <1>4, StoreComputes DEF Store!AppendEvent, WithinBounds
<1>7. c \in CaseIds /\ type \in Store!ProgressEvents /\ detail \in EventDetails[type]
  BY <1>1 DEF CallOK, Fits, Store!ProgressEvents, CaseEvents, Store!CaseEvents,
              EventState, Store!EventState
<1>8. Store!Progress
  BY <1>5, <1>6, <1>7 DEF Store!Progress
<1> QED
  BY <1>8 DEF Store!Next

\* A detection of the workflow is one of the store's Detect.
LEMMA DetectionIsStores ==
    ASSUME WithinBounds, NEW c \in CaseIds, NEW e \in Events, NEW call,
           call = DetectionCall(c, [content |-> e.content, observed_at |-> 0],
                                KeyOf[e.content], e.event_id),
           Accepted(log, call), log' = Append(log, NewRow(log, call))
    PROVE  Store!Next
<1>1. PICK p : p = [content |-> e.content, observed_at |-> 0]
  OBVIOUS
<1>2. p \in Store!DetectionPayloads /\ p.content = e.content
  BY <1>1, WorkflowConstants DEF Store!DetectionPayloads
<1>3. e.event_id \in ({x.event_id : x \in Events} \ {None}) \cup {None}
  OBVIOUS
<1>4. Store!DetectionCall(c, p, KeyOf[p.content], e.event_id) = call
  BY <1>1, <1>2 DEF DetectionCall, Store!DetectionCall
<1>5. Store!AppendEvent(call)
  BY StoreComputes DEF Store!AppendEvent, WithinBounds
<1>6. Store!Detect
  BY <1>2, <1>3, <1>4, <1>5 DEF Store!Detect
<1> QED
  BY <1>6 DEF Store!Next

\* A stage that queues only events that fit.
Prepares(t) == Others(t) /\ Fitting(thread'[t])

\* The ways a stage does that.
LEMMA WaysToPrepare ==
    ASSUME ThreadsOK, NEW t \in Threads, Fitting(thread[t])
    PROVE  /\ \A pc : Goes(t, pc) => Prepares(t)
           /\ \A pc : Goto(t, pc) => Prepares(t)
           /\ \A type \in CaseEvents \ {"SCHEMA_CHANGE_DETECTED"} :
              \A payload \in EventDetails[type] : \A next :
                 \/ Puts(t, <<Call(t, type, payload)>>, next)
                 \/ Queue(t, <<Call(t, type, payload)>>, next)
                 => Prepares(t)
           /\ \A type, then \in CaseEvents \ {"SCHEMA_CHANGE_DETECTED"} :
              \A payload \in EventDetails[type], more \in EventDetails[then] : \A next :
                 \/ Puts(t, <<Call(t, type, payload), Call(t, then, more)>>, next)
                 \/ Queue(t, <<Call(t, type, payload), Call(t, then, more)>>, next)
                 => Prepares(t)
<1>1. ASSUME NEW pc, Goes(t, pc) PROVE Prepares(t)
  BY <1>1 DEF Goes, Keeps, Prepares, Fitting
<1>2. ASSUME NEW pc, Goto(t, pc) PROVE Prepares(t)
  BY <1>1, <1>2, GotoGoes
<1>3. ASSUME NEW type \in CaseEvents \ {"SCHEMA_CHANGE_DETECTED"},
             NEW payload \in EventDetails[type], NEW next,
             Puts(t, <<Call(t, type, payload)>>, next)
      PROVE  Prepares(t)
  <2>1. PICK call : call = Call(t, type, payload)
    OBVIOUS
  <2>2. Fits(call)
    BY <2>1, CallFields DEF Fits
  <2>3. Others(t) /\ thread'[t].pending = <<call>>
    BY <1>3, <2>1 DEF Puts, Keeps
  <2>4. DOMAIN <<call>> = {1} /\ <<call>>[1] = call
    BY ShortSeqs
  <2> QED
    BY <2>2, <2>3, <2>4 DEF Prepares, Fitting
<1>4. ASSUME NEW type \in CaseEvents \ {"SCHEMA_CHANGE_DETECTED"},
             NEW then \in CaseEvents \ {"SCHEMA_CHANGE_DETECTED"},
             NEW payload \in EventDetails[type], NEW more \in EventDetails[then], NEW next,
             Puts(t, <<Call(t, type, payload), Call(t, then, more)>>, next)
      PROVE  Prepares(t)
  <2>1. PICK call : call = Call(t, type, payload)
    OBVIOUS
  <2>2. PICK second : second = Call(t, then, more)
    OBVIOUS
  <2>3. Fits(call) /\ Fits(second)
    BY <2>1, <2>2, CallFields DEF Fits
  <2>4. Others(t) /\ thread'[t].pending = <<call, second>>
    BY <1>4, <2>1, <2>2 DEF Puts, Keeps
  <2>5. DOMAIN <<call, second>> = {1, 2}
        /\ <<call, second>>[1] = call /\ <<call, second>>[2] = second
    BY ShortSeqs
  <2> QED
    BY <2>3, <2>4, <2>5 DEF Prepares, Fitting
<1>5. ASSUME NEW type \in CaseEvents \ {"SCHEMA_CHANGE_DETECTED"},
             NEW payload \in EventDetails[type], NEW next,
             Queue(t, <<Call(t, type, payload)>>, next)
      PROVE  Prepares(t)
  BY <1>3, <1>5, QueuePuts
<1>6. ASSUME NEW type \in CaseEvents \ {"SCHEMA_CHANGE_DETECTED"},
             NEW then \in CaseEvents \ {"SCHEMA_CHANGE_DETECTED"},
             NEW payload \in EventDetails[type], NEW more \in EventDetails[then], NEW next,
             Queue(t, <<Call(t, type, payload), Call(t, then, more)>>, next)
      PROVE  Prepares(t)
  BY <1>4, <1>6, QueuePuts
<1> QED
  BY <1>1, <1>2, <1>3, <1>4, <1>5, <1>6

\* The payload of each kind of event.
LEMMA Payloads ==
    /\ \A type \in {"EVIDENCE_WRITTEN", "PR_ATTEMPTED", "PR_OPENED", "INCIDENT_RESOLVED",
                    "CONTAINED"} :
          /\ type \in CaseEvents \ {"SCHEMA_CHANGE_DETECTED"}
          /\ \A s \in Status : [status |-> s] \in EventDetails[type]
    /\ \A type \in {"CONTEXT_GATHERED", "VALIDATION_STARTED"} :
          type \in CaseEvents \ {"SCHEMA_CHANGE_DETECTED"} /\ None \in EventDetails[type]
    /\ \A type \in {"DEPLOYMENT_RECORDED", "POST_DEPLOY_VERIFIED"} :
          /\ type \in CaseEvents \ {"SCHEMA_CHANGE_DETECTED"}
          /\ [mode |-> EvidenceMode] \in EventDetails[type]
    /\ "INCIDENT_RAISED" \in CaseEvents \ {"SCHEMA_CHANGE_DETECTED"}
    /\ \A s \in Status, u \in Urns :
          [status |-> s, urn |-> u] \in EventDetails["INCIDENT_RAISED"]
    /\ "CANDIDATES_READY" \in CaseEvents \ {"SCHEMA_CHANGE_DETECTED"}
    /\ \A found \in SUBSET Proposals :
          [proposals |-> found] \in EventDetails["CANDIDATES_READY"]
    /\ "CANDIDATE_ASSESSED" \in CaseEvents \ {"SCHEMA_CHANGE_DETECTED"}
    /\ \A p \in Proposals, outcome \in {"ELIGIBLE", "REJECTED"} :
          [id |-> p, outcome |-> outcome] \in EventDetails["CANDIDATE_ASSESSED"]
    /\ "PATCH_READY" \in CaseEvents \ {"SCHEMA_CHANGE_DETECTED"}
    /\ \A p \in Proposals : [selected |-> p] \in EventDetails["PATCH_READY"]
    /\ "FAILED" \in CaseEvents \ {"SCHEMA_CHANGE_DETECTED"}
    /\ \A reason \in {"incident", "generation", "evidence", "exception", "final evidence",
                      "resolution"} : [reason |-> reason] \in EventDetails["FAILED"]
<1>1. EvidenceMode \in EvidenceModes
  BY DEF EvidenceMode, EvidenceModes
<1>2. {"INCIDENT_RAISED", "CONTEXT_GATHERED", "CANDIDATES_READY", "VALIDATION_STARTED",
       "CANDIDATE_ASSESSED", "PATCH_READY", "EVIDENCE_WRITTEN", "PR_ATTEMPTED", "PR_OPENED",
       "DEPLOYMENT_RECORDED", "POST_DEPLOY_VERIFIED", "INCIDENT_RESOLVED", "CONTAINED",
       "FAILED"} \subseteq CaseEvents \ {"SCHEMA_CHANGE_DETECTED"}
  BY DEF CaseEvents, EventState
<1>3. /\ EventDetails["EVIDENCE_WRITTEN"] = [status : Status]
      /\ EventDetails["PR_ATTEMPTED"] = [status : Status]
      /\ EventDetails["PR_OPENED"] = [status : Status]
      /\ EventDetails["INCIDENT_RESOLVED"] = [status : Status]
      /\ EventDetails["CONTAINED"] = [status : Status]
      /\ EventDetails["CONTEXT_GATHERED"] = {None}
      /\ EventDetails["VALIDATION_STARTED"] = {None}
      /\ EventDetails["DEPLOYMENT_RECORDED"] = [mode : EvidenceModes]
      /\ EventDetails["POST_DEPLOY_VERIFIED"] = [mode : EvidenceModes]
      /\ EventDetails["INCIDENT_RAISED"] = [status : Status, urn : Urns]
      /\ EventDetails["CANDIDATES_READY"] = [proposals : SUBSET Proposals]
      /\ EventDetails["CANDIDATE_ASSESSED"] = [id : Proposals, outcome : Outcomes]
      /\ EventDetails["PATCH_READY"] = [selected : Proposals]
      /\ EventDetails["FAILED"] = [reason : {"incident", "generation", "evidence", "exception",
                                             "final evidence", "resolution"}]
  BY DEF EventDetails
<1>4. {"ELIGIBLE", "REJECTED"} \subseteq Outcomes
  BY DEF Outcomes
<1>5. \A s \in Status : [status |-> s] \in [status : Status]
  OBVIOUS
<1>6. \A s \in Status, u \in Urns : [status |-> s, urn |-> u] \in [status : Status, urn : Urns]
  OBVIOUS
<1>7. \A found \in SUBSET Proposals : [proposals |-> found] \in [proposals : SUBSET Proposals]
  OBVIOUS
<1>8. \A p \in Proposals, outcome \in Outcomes :
         [id |-> p, outcome |-> outcome] \in [id : Proposals, outcome : Outcomes]
  OBVIOUS
<1>9. \A p \in Proposals : [selected |-> p] \in [selected : Proposals]
  OBVIOUS
<1>10. \A reason \in {"incident", "generation", "evidence", "exception", "final evidence",
                      "resolution"} :
          [reason |-> reason] \in [reason : {"incident", "generation", "evidence", "exception",
                                             "final evidence", "resolution"}]
  OBVIOUS
<1>11. [mode |-> EvidenceMode] \in [mode : EvidenceModes]
  BY <1>1
<1>12. \A type \in {"EVIDENCE_WRITTEN", "PR_ATTEMPTED", "PR_OPENED", "INCIDENT_RESOLVED",
                    "CONTAINED"} :
          /\ type \in CaseEvents \ {"SCHEMA_CHANGE_DETECTED"}
          /\ \A s \in Status : [status |-> s] \in EventDetails[type]
  BY <1>2, <1>3, <1>5
<1>13. \A type \in {"CONTEXT_GATHERED", "VALIDATION_STARTED"} :
          type \in CaseEvents \ {"SCHEMA_CHANGE_DETECTED"} /\ None \in EventDetails[type]
  BY <1>2, <1>3
<1>14. \A type \in {"DEPLOYMENT_RECORDED", "POST_DEPLOY_VERIFIED"} :
          /\ type \in CaseEvents \ {"SCHEMA_CHANGE_DETECTED"}
          /\ [mode |-> EvidenceMode] \in EventDetails[type]
  BY <1>2, <1>3, <1>11
<1>15. /\ "INCIDENT_RAISED" \in CaseEvents \ {"SCHEMA_CHANGE_DETECTED"}
       /\ "CANDIDATES_READY" \in CaseEvents \ {"SCHEMA_CHANGE_DETECTED"}
       /\ "CANDIDATE_ASSESSED" \in CaseEvents \ {"SCHEMA_CHANGE_DETECTED"}
       /\ "PATCH_READY" \in CaseEvents \ {"SCHEMA_CHANGE_DETECTED"}
       /\ "FAILED" \in CaseEvents \ {"SCHEMA_CHANGE_DETECTED"}
  BY <1>2
<1>16. \A p \in Proposals, outcome \in {"ELIGIBLE", "REJECTED"} :
          [id |-> p, outcome |-> outcome] \in EventDetails["CANDIDATE_ASSESSED"]
  BY <1>3, <1>4, <1>8
<1>17. \A s \in Status, u \in Urns :
          [status |-> s, urn |-> u] \in EventDetails["INCIDENT_RAISED"]
  BY <1>3, <1>6
<1>18. \A found \in SUBSET Proposals :
          [proposals |-> found] \in EventDetails["CANDIDATES_READY"]
  BY <1>3, <1>7
<1>19. \A p \in Proposals : [selected |-> p] \in EventDetails["PATCH_READY"]
  BY <1>3, <1>9
<1>20. \A reason \in {"incident", "generation", "evidence", "exception", "final evidence",
                      "resolution"} : [reason |-> reason] \in EventDetails["FAILED"]
  BY <1>3, <1>10
<1> HIDE DEF EventDetails, CaseEvents, Status, Urns, EvidenceMode
<1> QED
  BY <1>12, <1>13, <1>14, <1>15, <1>16, <1>17, <1>18, <1>19, <1>20

\* Every stage prepares events that fit.
LEMMA StagesPrepare ==
    ASSUME Typed, FitInv, 0 \in Urns, Len(incidents') \in Urns, NEW t \in Threads,
           \/ Incident(t) \/ Context(t) \/ Candidates(t) \/ Validate(t) \/ Load(t)
           \/ Assess(t) \/ AllAssessed(t) \/ Select(t) \/ Evidence(t) \/ PullRequest(t)
           \/ Contain(t) \/ Handler(t) \/ FinalEvidence(t) \/ Resolve(t)
    PROVE  Prepares(t)
<1>1. ThreadsOK /\ Fitting(thread[t])
  BY DEF Typed, FitInv
<1>2. "FAILED" \in CaseEvents \ {"SCHEMA_CHANGE_DETECTED"}
  BY Payloads
<1>3. ASSUME NEW reason \in {"incident", "generation", "evidence", "exception",
                             "final evidence", "resolution"},
             Queue(t, <<Call(t, "FAILED", [reason |-> reason])>>, "finish")
      PROVE  Prepares(t)
  <2>1. [reason |-> reason] \in EventDetails["FAILED"]
    BY Payloads
  <2> QED
    BY <1>1, <1>2, <1>3, <2>1, WaysToPrepare
<1>4. ASSUME NEW pc, Goto(t, pc) PROVE Prepares(t)
  BY <1>1, <1>4, WaysToPrepare
<1>5. CASE Incident(t)
  <2>1. CASE \E pc : Goto(t, pc)
    BY <1>4, <2>1
  <2>2. CASE Queue(t, <<Call(t, "FAILED", [reason |-> "incident"])>>, "finish")
    BY <1>3, <2>2
  <2>3. ASSUME NEW a \in DataHubAnswers, RaiseIncident(CaseOf(t), a[2]),
               NEW urn, urn = IF a[1] = "SUCCEEDED" THEN Len(incidents) + 1 ELSE 0,
               NEW raised, raised = [status |-> a[1], urn |-> urn],
               \/ Queue(t, <<Call(t, "INCIDENT_RAISED", raised)>>, "context")
               \/ Queue(t, <<Call(t, "INCIDENT_RAISED", raised),
                             Call(t, "FAILED", [reason |-> "incident"])>>, "finish")
        PROVE  Prepares(t)
    <3>1. urn \in Urns
      <4>1. CASE a[1] = "SUCCEEDED"
        <5>1. a[2]
          BY <4>1, ConfirmedIsApplied
        <5>2. PICK new : new = [case_id |-> CaseOf(t), status |-> "ACTIVE"]
          OBVIOUS
        <5>3. incidents' = Append(incidents, new) /\ IsSeq(incidents)
          BY <2>3, <5>1, <5>2 DEF RaiseIncident, Typed, RemoteOK
        <5>4. Len(incidents') = Len(incidents) + 1
          BY <5>3, Appended
        <5> QED
          BY <2>3, <4>1, <5>4
      <4>2. CASE a[1] # "SUCCEEDED"
        BY <2>3, <4>2
      <4> QED
        BY <4>1, <4>2
    <3>2. a[1] \in Status
      BY AnswerStatus
    <3>3. /\ raised \in EventDetails["INCIDENT_RAISED"]
          /\ "INCIDENT_RAISED" \in CaseEvents \ {"SCHEMA_CHANGE_DETECTED"}
          /\ [reason |-> "incident"] \in EventDetails["FAILED"]
      BY <2>3, <3>1, <3>2, Payloads
    <3> QED
      BY <1>1, <1>2, <2>3, <3>3, WaysToPrepare
  <2>4. \/ \E pc : Goto(t, pc)
        \/ Queue(t, <<Call(t, "FAILED", [reason |-> "incident"])>>, "finish")
        \/ \E a \in DataHubAnswers : \E urn, raised :
              /\ RaiseIncident(CaseOf(t), a[2])
              /\ urn = IF a[1] = "SUCCEEDED" THEN Len(incidents) + 1 ELSE 0
              /\ raised = [status |-> a[1], urn |-> urn]
              /\ \/ Queue(t, <<Call(t, "INCIDENT_RAISED", raised)>>, "context")
                 \/ Queue(t, <<Call(t, "INCIDENT_RAISED", raised),
                               Call(t, "FAILED", [reason |-> "incident"])>>, "finish")
    BY <1>5 DEF Incident
  <2> QED
    BY <2>1, <2>2, <2>3, <2>4
<1>6. CASE Context(t) \/ Validate(t)
  <2>1. \/ \E pc : Goto(t, pc)
        \/ \E next : \/ Queue(t, <<Call(t, "CONTEXT_GATHERED", None)>>, next)
                     \/ Queue(t, <<Call(t, "VALIDATION_STARTED", None)>>, next)
    BY <1>6 DEF Context, Validate
  <2>2. ASSUME NEW type \in {"CONTEXT_GATHERED", "VALIDATION_STARTED"}, NEW next,
               Queue(t, <<Call(t, type, None)>>, next)
        PROVE  Prepares(t)
    <3>1. /\ type \in CaseEvents \ {"SCHEMA_CHANGE_DETECTED"}
          /\ None \in EventDetails[type]
      BY Payloads
    <3> QED
      BY <1>1, <2>2, <3>1, WaysToPrepare
  <2> QED
    BY <1>4, <2>1, <2>2
<1>7. CASE Candidates(t)
  <2>1. \/ \E found : Finds(t, found)
        \/ Goto(t, "contain")
        \/ Queue(t, <<Call(t, "FAILED", [reason |-> "generation"])>>, "finish")
        \/ \E found \in SUBSET Proposals :
              Proposes(t, <<Call(t, "CANDIDATES_READY", [proposals |-> found])>>,
                       "validate", found)
    BY <1>7 DEF Candidates, Finds, Proposes
  <2>2. CASE \E found : Finds(t, found)
    BY <1>1, <2>2, CandidatesGoes, WaysToPrepare
  <2>3. CASE Goto(t, "contain")
    BY <1>4, <2>3
  <2>4. CASE Queue(t, <<Call(t, "FAILED", [reason |-> "generation"])>>, "finish")
    BY <1>3, <2>4
  <2>5. ASSUME NEW found \in SUBSET Proposals,
               Proposes(t, <<Call(t, "CANDIDATES_READY", [proposals |-> found])>>,
                        "validate", found)
        PROVE  Prepares(t)
    <3>1. Puts(t, <<Call(t, "CANDIDATES_READY", [proposals |-> found])>>, "validate")
      BY <1>1, <2>5, CandidatesPuts
    <3>2. /\ "CANDIDATES_READY" \in CaseEvents \ {"SCHEMA_CHANGE_DETECTED"}
          /\ [proposals |-> found] \in EventDetails["CANDIDATES_READY"]
      BY Payloads
    <3> QED
      BY <1>1, <3>1, <3>2, WaysToPrepare
  <2> QED
    BY <2>1, <2>2, <2>3, <2>4, <2>5
<1>8. CASE Load(t)
  <2>1. Loads(t, Project(CaseOf(t)).assessed)
    BY <1>8 DEF Load, Loads
  <2> QED
    BY <1>1, <2>1, LoadGoes, WaysToPrepare
<1>9. CASE Assess(t)
  <2>1. PICK p \in thread[t].proposals, outcome \in {"ELIGIBLE", "REJECTED"} :
           Assesses(t, <<Call(t, "CANDIDATE_ASSESSED", [id |-> p, outcome |-> outcome])>>,
                    "assess", p, outcome)
    BY <1>9 DEF Assess, Assesses
  <2>2. Puts(t, <<Call(t, "CANDIDATE_ASSESSED", [id |-> p, outcome |-> outcome])>>, "assess")
    BY <1>1, <2>1, AssessPuts
  <2>3. p \in Proposals
    BY <1>1 DEF ThreadsOK, ThreadOK
  <2>4. /\ "CANDIDATE_ASSESSED" \in CaseEvents \ {"SCHEMA_CHANGE_DETECTED"}
        /\ [id |-> p, outcome |-> outcome] \in EventDetails["CANDIDATE_ASSESSED"]
    BY <2>3, Payloads
  <2> QED
    BY <1>1, <2>2, <2>4, WaysToPrepare
<1>10. CASE AllAssessed(t) \/ Select(t)
  <2>1. \/ \E pc : Goto(t, pc)
        \/ \E p \in Eligible(t) :
              Queue(t, <<Call(t, "PATCH_READY", [selected |-> p])>>, "evidence")
    BY <1>10 DEF AllAssessed, Select
  <2>2. ASSUME NEW p \in Eligible(t),
               Queue(t, <<Call(t, "PATCH_READY", [selected |-> p])>>, "evidence")
        PROVE  Prepares(t)
    <3>1. p \in Proposals
      BY <1>1, <2>2 DEF ThreadsOK, ThreadOK, Eligible
    <3>2. /\ "PATCH_READY" \in CaseEvents \ {"SCHEMA_CHANGE_DETECTED"}
          /\ [selected |-> p] \in EventDetails["PATCH_READY"]
      BY <3>1, Payloads
    <3> QED
      BY <1>1, <2>2, <3>2, WaysToPrepare
  <2> QED
    BY <1>4, <2>1, <2>2
<1>11. ASSUME NEW type \in {"EVIDENCE_WRITTEN", "PR_ATTEMPTED", "PR_OPENED",
                            "INCIDENT_RESOLVED", "CONTAINED"},
              NEW s \in Status, NEW next, NEW reason \in {"evidence"},
              \/ Queue(t, <<Call(t, type, [status |-> s])>>, next)
              \/ Queue(t, <<Call(t, type, [status |-> s]),
                            Call(t, "FAILED", [reason |-> reason])>>, next)
       PROVE  Prepares(t)
  <2>1. /\ type \in CaseEvents \ {"SCHEMA_CHANGE_DETECTED"}
        /\ [status |-> s] \in EventDetails[type]
        /\ [reason |-> reason] \in EventDetails["FAILED"]
    BY Payloads
  <2> QED
    BY <1>1, <1>2, <1>11, <2>1, WaysToPrepare
<1>12. \A a \in DataHubAnswers \cup GitHubAnswers : a[1] \in Status
  BY AnswerStatus
<1>13. CASE Evidence(t)
  <2>1. \/ \E pc : Goto(t, pc)
        \/ Queue(t, <<Call(t, "FAILED", [reason |-> "evidence"])>>, "finish")
        \/ \E a \in DataHubAnswers : \E next :
              \/ Queue(t, <<Call(t, "EVIDENCE_WRITTEN", [status |-> a[1]])>>, next)
              \/ Queue(t, <<Call(t, "EVIDENCE_WRITTEN", [status |-> a[1]]),
                            Call(t, "FAILED", [reason |-> "evidence"])>>, next)
    BY <1>13 DEF Evidence
  <2> QED
    BY <1>3, <1>4, <1>11, <1>12, <2>1
<1>14. CASE PullRequest(t)
  <2>1. \/ \E pc : Goto(t, pc)
        \/ \E a \in GitHubAnswers : \E next :
              \/ Queue(t, <<Call(t, "PR_OPENED", [status |-> a[1]])>>, next)
              \/ Queue(t, <<Call(t, "PR_ATTEMPTED", [status |-> a[1]])>>, next)
    BY <1>14 DEF PullRequest
  <2> QED
    BY <1>4, <1>11, <1>12, <2>1
<1>15. CASE Contain(t)
  <2>1. \E a \in DataHubAnswers : Queue(t, <<Call(t, "CONTAINED", [status |-> a[1]])>>, "finish")
    BY <1>15 DEF Contain
  <2> QED
    BY <1>11, <1>12, <2>1
<1>16. CASE Handler(t)
  BY <1>3, <1>4, <1>16 DEF Handler
<1>17. CASE FinalEvidence(t)
  BY <1>3, <1>4, <1>17 DEF FinalEvidence
<1>18. CASE Resolve(t)
  <2>1. \/ Queue(t, <<Call(t, "FAILED", [reason |-> "resolution"])>>, "finish")
        \/ \E urn : \E a \in ResolveAnswers(urn) :
              Queue(t, <<Call(t, "INCIDENT_RESOLVED", [status |-> a[1]])>>, "finish")
    BY <1>18 DEF Resolve
  <2>2. ASSUME NEW urn, NEW a \in ResolveAnswers(urn) PROVE a[1] \in Status
    <3>1. a \in DataHubAnswers \/ a = <<"FAILED", FALSE>>
      BY <2>2 DEF ResolveAnswers
    <3>2. CASE a = <<"FAILED", FALSE>>
      <4>1. a[1] = "FAILED"
        BY <3>2
      <4> QED
        BY <4>1 DEF Status
    <3>3. CASE a \in DataHubAnswers
      BY <1>12, <3>3
    <3> QED
      BY <3>1, <3>2, <3>3
  <2> QED
    BY <1>3, <1>11, <2>1, <2>2
<1> QED
  BY <1>5, <1>6, <1>7, <1>8, <1>9, <1>10, <1>13, <1>14, <1>15, <1>16, <1>17, <1>18

\* What the other threads have queued still fits.
LEMMA FitsElsewhere ==
    ASSUME FitInv, NEW t \in Threads, Others(t), Fitting(thread'[t])
    PROVE  FitInv'
<1>1. \A u \in Threads : Fitting(thread'[u])
  BY DEF FitInv, Others
<1> QED
  BY <1>1 DEF FitInv, Fitting, Fits, EventDetails

\* A request that is asking has nothing queued.
LEMMA AskersFit ==
    ASSUME Typed', NEW t \in Threads, thread'[t].pc \in Empty
    PROVE  Fitting(thread'[t])
<1>1. thread'[t].pending = <<>>
  BY DEF Typed, ThreadsOK, ThreadOK
<1>2. DOMAIN <<>> = {}
  BY ShortSeqs
<1> QED
  BY <1>1, <1>2 DEF Fitting

\* An exception drops what was queued.
LEMMA ExceptionFits ==
    ASSUME Typed, Typed', FitInv, NEW t \in Threads, Exception(t)
    PROVE  FitInv' /\ UNCHANGED log
<1>1. ThreadsOK /\ UNCHANGED log
  BY DEF Typed, Exception
<1>2. DOMAIN <<>> = {}
  BY ShortSeqs
<1>3. CASE thread' = [thread EXCEPT ![t].pc = "handler", ![t].op = "handler", ![t].pending = <<>>]
  <2>1. Others(t) /\ thread'[t].pending = <<>>
    BY <1>1, <1>3, HandlerGoes
  <2>2. Fitting(thread'[t])
    BY <1>2, <2>1 DEF Fitting
  <2> QED
    BY <1>1, <2>1, <2>2, FitsElsewhere
<1>4. CASE Respond(t, FALSE)
  <2>1. Others(t) /\ thread'[t] = IdleThread
    BY <1>1, <1>4, RespondClears
  <2>2. thread'[t].pc \in Empty
    BY <2>1, IdleOK DEF Empty
  <2> QED
    BY <1>1, <2>1, <2>2, AskersFit, FitsElsewhere
<1> QED
  BY <1>3, <1>4 DEF Exception

\* So does a request that looks for its case, and one that is answered.
LEMMA AskingFits ==
    ASSUME Typed, Typed', FitInv, NEW t \in Threads,
           \/ Lookup(t) \/ FastDuplicate(t) \/ FastOwned(t) \/ Acquire(t)
           \/ Recheck(t) \/ Allocate(t) \/ Finish(t)
           \/ \E e \in Events : Deliver(t, e)
           \/ \E c \in CaseIds : StartVerify(t, c)
    PROVE  FitInv' /\ UNCHANGED log
<1>1. CASE Finish(t)
  <2>1. ThreadsOK /\ UNCHANGED log
    BY <1>1 DEF Finish, Typed
  <2>2. Others(t) /\ thread'[t] = IdleThread
    BY <1>1, <2>1, RespondClears DEF Finish
  <2>3. thread'[t].pc \in Empty
    BY <2>2, IdleOK DEF Empty
  <2> QED
    BY <2>1, <2>2, <2>3, AskersFit, FitsElsewhere
<1>2. CASE ~Finish(t)
  <2>1. ~Moves(t)
    BY <1>2 DEF Lookup, FastDuplicate, FastOwned, Acquire, Recheck, Allocate, Deliver, StartVerify,
                At, Moves, Working, Middle
  <2>2. Asks(t) \/ Acquires(t) \/ Rests(t)
    BY <1>2, <2>1, FastPathAsks, AcquireAcquires, RecheckAsks, DeliverAsks, StartVerifyAsks
  <2>3. Others(t) /\ UNCHANGED log
        /\ thread'[t].pc \in {"lookup", "duplicate", "owned", "lock", "allocate", "detect",
                              "begin", "idle", "verify", "recheck"}
    BY <2>2 DEF Asks, Rests, Acquires
  <2>4. thread'[t].pc \in Empty
    BY <2>3 DEF Empty, Asking
  <2> QED
    BY <2>3, <2>4, AskersFit, FitsElsewhere
<1> QED
  BY <1>1, <1>2

\* And the start of an advance.
LEMMA BeginFits ==
    ASSUME Typed, Typed', FitInv, NEW t \in Threads, Begin(t)
    PROVE  FitInv' /\ UNCHANGED log
<1>1. ThreadsOK /\ UNCHANGED log /\ Fitting(thread[t])
  BY DEF Begin, Typed, FitInv
<1>2. Others(t) /\ thread'[t].pending = thread[t].pending
  BY <1>1, BeginGoes DEF Begin
<1>3. Fitting(thread'[t])
  BY <1>1, <1>2 DEF Fitting
<1> QED
  BY <1>1, <1>2, <1>3, FitsElsewhere

\* A verification queues its deployment and its outcome.
LEMMA VerifyFits ==
    ASSUME Typed, Typed', FitInv, NEW t \in Threads, Verify(t)
    PROVE  FitInv' /\ UNCHANGED log
<1>1. CASE Exception(t)
  BY <1>1, ExceptionFits
<1>2. CASE ~Exception(t)
  <2>1. PICK detail : detail = [mode |-> EvidenceMode]
    OBVIOUS
  <2>2. /\ \/ \E incident : Takes(t, <<Call(t, "DEPLOYMENT_RECORDED", detail)>>, "contain", incident)
           \/ \E incident : Takes(t, <<Call(t, "DEPLOYMENT_RECORDED", detail),
                                       Call(t, "POST_DEPLOY_VERIFIED", detail)>>,
                                  "final_evidence", incident)
        /\ UNCHANGED log
    <3>1. PICK verdict, deployed, verified :
            /\ deployed = Call(t, "DEPLOYMENT_RECORDED", detail)
            /\ verified = Call(t, "POST_DEPLOY_VERIFIED", detail)
            /\ thread' = [thread EXCEPT ![t] =
                          [(IF verdict = "accepted"
                            THEN Queued(t, <<deployed, verified>>, "final_evidence")
                            ELSE Queued(t, <<deployed>>, "contain"))
                           EXCEPT !.incident = Project(CaseOf(t)).incident]]
            /\ UNCHANGED <<log, process, remote, unacked>>
      BY <1>2, <2>1 DEF Verify
    <3>2. CASE verdict = "accepted"
      BY <3>1, <3>2 DEF Takes
    <3>3. CASE verdict # "accepted"
      BY <3>1, <3>3 DEF Takes
    <3> QED
      BY <3>2, <3>3
  <2>3. \/ Puts(t, <<Call(t, "DEPLOYMENT_RECORDED", detail)>>, "contain")
        \/ Puts(t, <<Call(t, "DEPLOYMENT_RECORDED", detail),
                     Call(t, "POST_DEPLOY_VERIFIED", detail)>>, "final_evidence")
    BY <2>2, VerifyPuts DEF Typed
  <2>4. /\ {"DEPLOYMENT_RECORDED", "POST_DEPLOY_VERIFIED"}
              \subseteq CaseEvents \ {"SCHEMA_CHANGE_DETECTED"}
        /\ detail \in EventDetails["DEPLOYMENT_RECORDED"]
        /\ detail \in EventDetails["POST_DEPLOY_VERIFIED"]
    BY <2>1, Payloads
  <2>5. ThreadsOK /\ Fitting(thread[t])
    BY DEF Typed, FitInv
  <2>6. Prepares(t)
    BY <2>3, <2>4, <2>5, WaysToPrepare
  <2> QED
    BY <2>2, <2>6, FitsElsewhere DEF Prepares
<1> QED
  BY <1>1, <1>2

\* A detection is one of the store's, and a second attempt writes nothing.
LEMMA DetectIsStores ==
    ASSUME Typed, Typed', FitInv, WithinBounds, NEW t \in Threads, Detect(t)
    PROVE  FitInv' /\ [Store!Next]_log
<1>1. thread[t].pc = "detect" /\ ThreadsOK
  BY DEF Detect, At, Typed
<1>2. CASE /\ Accepted(log, DetectionOf(t, CaseOf(t)))
           /\ log' = Append(log, NewRow(log, DetectionOf(t, CaseOf(t))))
           /\ Goto(t, "begin")
  <2>1. PICK e : e = thread[t].event
    OBVIOUS
  <2>2. PICK c : c = thread[t].case_id
    OBVIOUS
  <2>3. PICK call : call = DetectionOf(t, c)
    OBVIOUS
  <2>4. e \in Events /\ c \in CaseIds
    BY <1>1, <2>1, <2>2 DEF ThreadsOK, ThreadOK, Asking
  <2>5. call = DetectionCall(c, [content |-> e.content, observed_at |-> 0],
                             KeyOf[e.content], e.event_id)
    BY <2>1, <2>3 DEF DetectionOf, KeyOfReq
  <2>6. Accepted(log, call) /\ log' = Append(log, NewRow(log, call))
    BY <1>2, <2>2, <2>3 DEF CaseOf
  <2>7. Store!Next
    BY <2>4, <2>5, <2>6, DetectionIsStores
  <2>8. Goes(t, "begin")
    BY <1>1, <1>2, GotoGoes
  <2>9. Others(t) /\ thread'[t].pc \in Empty
    BY <2>8 DEF Goes, Keeps, Empty, Asking
  <2> QED
    BY <2>7, <2>9, AskersFit, FitsElsewhere
<1>3. CASE Exception(t)
  BY <1>3, ExceptionFits
<1>4. CASE \E ok : Respond(t, ok) /\ UNCHANGED log
  <2>1. Others(t) /\ thread'[t] = IdleThread
    BY <1>1, <1>4, RespondClears
  <2>2. thread'[t].pc \in Empty
    BY <2>1, IdleOK DEF Empty
  <2> QED
    BY <1>4, <2>1, <2>2, AskersFit, FitsElsewhere
<1>5. CASE \E n : Retries(t, n) /\ UNCHANGED log
  <2>1. Others(t) /\ thread'[t].pc \in Empty
    BY <1>1, <1>5, RetryGoes DEF Keeps, Empty, Asking
  <2> QED
    BY <1>5, <2>1, AskersFit, FitsElsewhere
<1>6. \/ /\ Accepted(log, DetectionOf(t, CaseOf(t)))
         /\ log' = Append(log, NewRow(log, DetectionOf(t, CaseOf(t))))
         /\ Goto(t, "begin")
      \/ Exception(t)
      \/ \E ok : Respond(t, ok) /\ UNCHANGED log
      \/ \E n : Retries(t, n) /\ UNCHANGED log
  BY DEF Detect, Retries
<1> QED
  BY <1>2, <1>3, <1>4, <1>5, <1>6

\* The append of a queued event is one of the store's.
LEMMA AppendIsStores ==
    ASSUME Typed, Typed', FitInv, WithinBounds, NEW t \in Threads, AppendEvent(t)
    PROVE  FitInv' /\ [Store!Next]_log
<1>1. thread[t].pc = "append" /\ ThreadsOK
  BY DEF AppendEvent, At, Typed
<1>2. CASE Exception(t)
  BY <1>2, ExceptionFits
<1>3. CASE ~Exception(t)
  <2>1. PICK q : q = thread[t]
    OBVIOUS
  <2>2. PICK call : call = Head(q.pending)
    OBVIOUS
  <2>3. IsSeq(q.pending) /\ q.pending # <<>> /\ Fitting(q)
        /\ \A i \in DOMAIN q.pending : CallOK(q.pending[i])
    BY <1>1, <2>1 DEF ThreadsOK, ThreadOK, FitInv
  <2>4. PICK rest : rest = Tail(q.pending)
    OBVIOUS
  <2>5. PICK n : n = Len(q.pending)
    OBVIOUS
  <2>6. /\ n \in Nat /\ n > 0 /\ DOMAIN q.pending = 1 .. n /\ call = q.pending[1]
        /\ DOMAIN rest = 1 .. n - 1 /\ \A k \in 1 .. n - 1 : rest[k] = q.pending[k + 1]
    BY <2>2, <2>3, <2>4, <2>5, Tailed
  <2>7. CallOK(call) /\ Fits(call)
    BY <2>3, <2>6 DEF Fitting
  <2>8. /\ Accepted(log, call) /\ log' = Append(log, NewRow(log, call))
        /\ thread' = [thread EXCEPT ![t].pending = Tail(@),
              ![t].pc = IF Len(thread[t].pending) = 1 THEN thread[t].next ELSE "append"]
    BY <1>3, <2>1, <2>2 DEF AppendEvent
  <2>9. Store!Next
    BY <2>7, <2>8, ProgressIsStores
  <2>10. PICK pc : pc = IF Len(thread[t].pending) = 1 THEN thread[t].next ELSE "append"
    OBVIOUS
  <2>11. Advances(t, rest, pc)
    BY <2>1, <2>4, <2>8, <2>10 DEF Advances
  <2>12. Others(t) /\ thread'[t].pending = rest
    BY <1>1, <2>11, AppendGoes DEF Keeps
  <2>13. ASSUME NEW k \in DOMAIN rest PROVE Fits(rest[k])
    <3>1. k \in 1 .. n - 1 /\ k + 1 \in DOMAIN q.pending
      BY <2>6, <2>13
    <3>2. Fits(q.pending[k + 1])
      BY <2>3, <3>1 DEF Fitting
    <3>3. rest[k] = q.pending[k + 1]
      BY <2>6, <3>1
    <3> QED
      BY <3>2, <3>3
  <2>14. Fitting(thread'[t])
    BY <2>12, <2>13 DEF Fitting
  <2> QED
    BY <2>9, <2>12, <2>14, FitsElsewhere
<1> QED
  BY <1>2, <1>3

\* A restart empties what its process had queued.
LEMMA CrashFits ==
    ASSUME FitInv, NEW p \in Processes, Crash(p)
    PROVE  FitInv' /\ UNCHANGED log
<1>1. DOMAIN <<>> = {}
  BY ShortSeqs
<1>2. Fitting(IdleThread)
  BY <1>1 DEF Fitting, IdleThread
<1>3. \A t \in Threads : Fitting(thread'[t])
  BY <1>2 DEF FitInv, Crash
<1> QED
  BY <1>3 DEF Crash, FitInv, Fitting, Fits, EventDetails

\* Every step writes as the store does, or nothing.
LEMMA FitStep ==
    ASSUME Typed, Typed', FitInv, 0 \in Urns, WithinBounds, WithinBounds', [Next]_vars
    PROVE  FitInv' /\ [Store!Next]_log
<1>1. Len(incidents') \in Urns
  BY DEF WithinBounds, Urns
<1>2. ASSUME NEW t \in Threads,
             \/ Incident(t) \/ Context(t) \/ Candidates(t) \/ Validate(t) \/ Load(t)
             \/ Assess(t) \/ AllAssessed(t) \/ Select(t) \/ Evidence(t) \/ PullRequest(t)
             \/ Contain(t) \/ Handler(t) \/ FinalEvidence(t) \/ Resolve(t)
      PROVE  FitInv' /\ UNCHANGED log
  <2>1. UNCHANGED log
    BY <1>2 DEF Incident, Context, Candidates, Validate, Load, Assess, AllAssessed, Select,
                Evidence, PullRequest, Contain, Handler, FinalEvidence, Resolve, StepOnly
  <2> QED
    BY <1>1, <1>2, <2>1, StagesPrepare, FitsElsewhere DEF Prepares
<1>3. ASSUME NEW t \in Threads, IngestStep(t) PROVE FitInv' /\ [Store!Next]_log
  BY <1>3, AskingFits, DetectIsStores, BeginFits DEF IngestStep
<1>4. ASSUME NEW t \in Threads, AdvanceStep(t) PROVE FitInv' /\ [Store!Next]_log
  BY <1>2, <1>4, AppendIsStores, AskingFits DEF AdvanceStep
<1>5. ASSUME NEW t \in Threads, VerifyStep(t) PROVE FitInv' /\ [Store!Next]_log
  BY <1>2, <1>5, VerifyFits DEF VerifyStep
<1>6. ASSUME NEW t \in Threads, Unreadable(t) \/ Fault(t) PROVE FitInv' /\ [Store!Next]_log
  BY <1>6, ExceptionFits DEF Unreadable, Fault
<1>7. ASSUME NEW t \in Threads, NEW e \in Events, Deliver(t, e)
      PROVE  FitInv' /\ [Store!Next]_log
  BY <1>7, AskingFits
<1>8. ASSUME NEW t \in Threads, NEW c \in CaseIds, StartVerify(t, c)
      PROVE  FitInv' /\ [Store!Next]_log
  BY <1>8, AskingFits
<1>9. ASSUME NEW p \in Processes, Crash(p) PROVE FitInv' /\ [Store!Next]_log
  BY <1>9, CrashFits
<1>10. ASSUME UNCHANGED thread PROVE FitInv'
  BY <1>10 DEF FitInv, Fitting, Fits, EventDetails
<1>11. ASSUME NEW p \in Processes, ResetDemo(p) PROVE FitInv' /\ [Store!Next]_log
  <2>1. UNCHANGED thread /\ log' = Append(log, ResetRow(log))
    BY <1>11 DEF ResetDemo
  <2>2. Store!Reset
    BY <2>1, StoreComputes DEF Store!Reset, WithinBounds
  <2> QED
    BY <1>10, <2>1, <2>2 DEF Store!Next
<1>12. CASE UNCHANGED vars
  BY <1>10, <1>12 DEF vars
<1> QED
  BY <1>3, <1>4, <1>5, <1>6, <1>7, <1>8, <1>9, <1>11, <1>12 DEF Next, Step, Quiescent

\* Every write of the workflow is an operation of the event store, for any number
\* of processes, requests, faults, restarts and resets, as long as the log and the
\* incidents stay within the bounds the store's instance has.
THEOREM WritesGoThroughTheStore == Spec /\ []WithinBounds => WritesAreStoreOperations
<1>1. Init => FitInv /\ Store!Init
  <2> SUFFICES ASSUME Init PROVE FitInv /\ Store!Init
    OBVIOUS
  <2>1. \A t \in Threads : thread[t].pending = <<>>
    BY DEF Init, IdleThread
  <2>2. DOMAIN <<>> = {}
    BY ShortSeqs
  <2> QED
    BY <2>1, <2>2 DEF Init, FitInv, Fitting, Store!Init
<1>2. Init /\ WithinBounds => 0 \in Urns
  BY DEF Init, WithinBounds
<1>3. Typed /\ Typed' /\ FitInv /\ 0 \in Urns /\ WithinBounds /\ WithinBounds' /\ [Next]_vars
      => FitInv' /\ [Store!Next]_log
  BY FitStep
<1>4. 0 \in Urns => (0 \in Urns)'
  BY DEF Urns
<1> QED
  BY <1>1, <1>2, <1>3, <1>4, LockAlwaysHeld, PTL DEF Spec, WritesAreStoreOperations, Store!Spec
===============================================================================
