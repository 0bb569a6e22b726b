------------------------------ MODULE RemoteCall ------------------------------
(***************************************************************************)
(* What the workflow may assume of a write to DataHub.  A write that was   *)
(* asked for takes effect at any time after, or never.  It is answered at  *)
(* most once, or not at all when the API dies first.  SUCCEEDED is said    *)
(* only of a write that took effect; FAILED says nothing: the write may    *)
(* have taken effect, or may yet.                                          *)
(***************************************************************************)
CONSTANTS Ops, NoAnswer  \* the writes; no answer yet

VARIABLES asked, applied, answer

Init == asked = {} /\ applied = {} /\ answer = [op \in Ops |-> NoAnswer]

Ask(op) ==
    /\ op \notin asked
    /\ asked' = asked \cup {op}
    /\ UNCHANGED <<applied, answer>>

TakeEffect(op) ==
    /\ op \in asked \ applied
    /\ applied' = applied \cup {op}
    /\ UNCHANGED <<asked, answer>>

Answer(op, status) ==
    /\ op \in asked /\ answer[op] = NoAnswer
    /\ status = "SUCCEEDED" => op \in applied
    /\ answer' = [answer EXCEPT ![op] = status]
    /\ UNCHANGED <<asked, applied>>

Next == \E op \in Ops : Ask(op) \/ TakeEffect(op)
                        \/ \E status \in {"SUCCEEDED", "FAILED"} : Answer(op, status)

vars == <<asked, applied, answer>>
Spec == Init /\ [][Next]_vars
===============================================================================
