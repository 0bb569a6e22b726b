----------------------------- MODULE CaseLifecycle -----------------------------
(***************************************************************************)
(* What a recovery case promises, without saying how: the abstract         *)
(* specification that RecoveryWorkflow implements.  A drift opens a case;  *)
(* the case may get a live incident; a repair is proposed, deployed and    *)
(* proven in production; only then may the incident be closed, and only a  *)
(* case whose live incident is closed has recovered.  At any moment before *)
(* that the case may stop for good, and a reset forgets every case (but    *)
(* not the remote incidents, which it no longer speaks about).             *)
(***************************************************************************)
CONSTANT Cases

VARIABLES
    phase,    \* where each case stands
    live,     \* cases with an incident confirmed in DataHub
    closed    \* those whose incident has been closed there

vars == <<phase, live, closed>>

Working == {"repairing", "proposed", "deployed", "proven"}
Phases  == Working \cup {"absent", "recovered", "stopped"}

TypeOK ==
    /\ phase \in [Cases -> Phases]
    /\ live \subseteq Cases
    /\ closed \subseteq Cases

Init ==
    /\ phase = [c \in Cases |-> "absent"]
    /\ live = {}
    /\ closed = {}

Move(c, from, to) == phase[c] = from /\ phase' = [phase EXCEPT ![c] = to]

Open(c)    == Move(c, "absent", "repairing") /\ UNCHANGED <<live, closed>>
Raise(c)   == /\ phase[c] = "repairing"
              /\ live' = live \cup {c}
              /\ UNCHANGED <<phase, closed>>
Propose(c) == Move(c, "repairing", "proposed") /\ UNCHANGED <<live, closed>>
Deploy(c)  == Move(c, "proposed", "deployed") /\ UNCHANGED <<live, closed>>
Prove(c)   == Move(c, "deployed", "proven") /\ UNCHANGED <<live, closed>>
Close(c)   == /\ phase[c] = "proven" /\ c \in live
              /\ closed' = closed \cup {c}
              /\ UNCHANGED <<phase, live>>
Recover(c) == /\ c \in live => c \in closed
              /\ Move(c, "proven", "recovered")
              /\ UNCHANGED <<live, closed>>
Stop(c)    == /\ phase[c] \in Working
              /\ phase' = [phase EXCEPT ![c] = "stopped"]
              /\ UNCHANGED <<live, closed>>

Reset == phase' = [c \in Cases |-> "absent"] /\ live' = {} /\ closed' = {}

Next ==
    \/ \E c \in Cases :
        \/ Open(c) \/ Raise(c) \/ Propose(c) \/ Deploy(c)
        \/ Prove(c) \/ Close(c) \/ Recover(c) \/ Stop(c)
    \/ Reset

Spec == Init /\ [][Next]_vars

\* An incident is closed only for a repair that was proven in production, and a
\* case with a live incident counts as recovered only once it is closed (the
\* "RESOLVED only after POST_DEPLOY_VERIFIED" order of verify_deployment).
ClosedOnlyIfProven ==
    /\ \A c \in closed : c \in live /\ phase[c] \in {"proven", "recovered", "stopped"}
    /\ \A c \in live : phase[c] = "recovered" => c \in closed

\* A case that has stopped or recovered stays so, and an incident once closed
\* stays closed, until the operator resets the demo.
OnlyResetReopens ==
    [][phase' = [c \in Cases |-> "absent"] \/
       /\ \A c \in Cases : phase[c] \in {"recovered", "stopped"} => phase'[c] = phase[c]
       /\ closed \subseteq closed']_vars
===============================================================================
