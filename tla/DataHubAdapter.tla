---------------------------- MODULE DataHubAdapter ----------------------------
(***************************************************************************)
(* A write to DataHub as packages/datahub/graphql.py (incidents) and       *)
(* packages/datahub/mcp.py (evidence documents) make it: one mutation,     *)
(* then a bounded number of reads until DataHub shows exactly what was     *)
(* written.  The adapter makes one write at a time and never repeats a     *)
(* mutation.                                                               *)
(*                                                                         *)
(* DataHub is external.  It may refuse a write, carry it out late or after *)
(* its answer was lost, answer a write it then does not carry out, and     *)
(* show a write some time after it was carried out.                        *)
(***************************************************************************)
EXTENDS Integers

CONSTANTS
    Ops,                  \* the writes of a case: documents, incident states
    ReadbackAttempts      \* readback_attempts

ASSUME AdapterConstants ==
    /\ "none" \notin Ops
    /\ ReadbackAttempts \in Nat \ {0}

VARIABLES
    call,       \* the write being made, its phase and the reads so far
    called,     \* the writes ever made
    answers,    \* the status each returned to the workflow
    inflight,   \* what DataHub was sent and has neither refused nor done
    stored,     \* what DataHub carried out
    shown       \* what its read interfaces return

datahub == <<inflight, stored, shown>>
adapter == <<call, called, answers, datahub>>

NoAnswer == "NOT_ANSWERED"
NoCall   == [op |-> "none", phase |-> "none", reads |-> 0]

AdapterTypeOK ==
    /\ call \in [op : Ops \cup {"none"}, phase : {"none", "sent", "reading"},
                 reads : 0 .. ReadbackAttempts - 1]
    /\ call.phase # "none" => call.op \in called /\ answers[call.op] = NoAnswer
    /\ called \subseteq Ops
    /\ answers \in [Ops -> {NoAnswer, "SUCCEEDED", "FAILED"}]
    /\ \A op \in Ops \ called : answers[op] = NoAnswer
    /\ inflight \subseteq called /\ stored \subseteq called /\ shown \subseteq stored

AdapterInit ==
    /\ call = NoCall /\ called = {} /\ answers = [op \in Ops |-> NoAnswer]
    /\ inflight = {} /\ stored = {} /\ shown = {}

\* The mutation goes out (httpx.Client.post).
Send(op) ==
    /\ call.phase = "none" /\ op \notin called
    /\ call' = [op |-> op, phase |-> "sent", reads |-> 0]
    /\ called' = called \cup {op}
    /\ inflight' = inflight \cup {op}
    /\ UNCHANGED <<answers, stored, shown>>

Return(status) ==
    /\ call' = NoCall
    /\ answers' = [answers EXCEPT ![call.op] = status]
    /\ UNCHANGED <<called, datahub>>

\* An HTTP error, a GraphQL or JSON-RPC error, a tool error, or no valid URN.
MutationFails == call.phase = "sent" /\ Return("FAILED")

\* Mutant of MutationConfirmed: the answer is taken for the deed.
MutTrustAnswer ==
    /\ call.phase = "sent" /\ call.op \in inflight \cup stored
    /\ Return("SUCCEEDED")

MutationConfirmed ==
    /\ call.phase = "sent" /\ call.op \in inflight \cup stored
    /\ call' = [call EXCEPT !.phase = "reading"]
    /\ UNCHANGED <<called, answers, datahub>>

\* _read_incident_info, _read_gms_document_info, _verify_document_readback.
ReadBackConfirms ==
    /\ call.phase = "reading" /\ call.op \in shown
    /\ Return("SUCCEEDED")

\* Mutant of ReadBackFails: it is read until it is there.
MutReadForever ==
    /\ call.phase = "reading"
    /\ UNCHANGED adapter

\* Not shown yet, or the read itself fails; the last read ends the call.
ReadBackFails ==
    /\ call.phase = "reading"
    /\ IF call.reads + 1 < ReadbackAttempts
       THEN /\ call' = [call EXCEPT !.reads = @ + 1]
            /\ UNCHANGED <<called, answers, datahub>>
       ELSE Return("FAILED")

\* The API dies: nobody is told.
CallLost == call' = NoCall /\ UNCHANGED <<called, answers, datahub>>

Adapter == MutationFails \/ MutationConfirmed \/ ReadBackConfirms \/ ReadBackFails

CarryOut(op) ==
    /\ op \in inflight
    /\ inflight' = inflight \ {op} /\ stored' = stored \cup {op}
    /\ UNCHANGED <<call, called, answers, shown>>
Refuse(op) ==
    /\ op \in inflight
    /\ inflight' = inflight \ {op}
    /\ UNCHANGED <<call, called, answers, stored, shown>>
Show(op) ==
    /\ op \in stored \ shown
    /\ shown' = shown \cup {op}
    /\ UNCHANGED <<call, called, answers, inflight, stored>>

DataHub == \E op \in Ops : CarryOut(op) \/ Refuse(op) \/ Show(op)

-------------------------------------------------------------------------------
\* What the workflow may assume of such a write.
Remote == INSTANCE RemoteCall WITH asked <- called, applied <- stored, answer <- answers

AdapterNext == (\E op \in Ops : Send(op)) \/ Adapter \/ CallLost \/ DataHub
AdapterSpec == AdapterInit /\ [][AdapterNext]_adapter
===============================================================================
