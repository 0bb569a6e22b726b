-------------------------- MODULE MCRecoveryWorkflow --------------------------
(***************************************************************************)
(* Instances of RecoveryWorkflow for TLC.                                  *)
(***************************************************************************)
EXTENDS RecoveryWorkflow, TLC

CONSTANTS t1, t2, api1, api2, short, wideA, wideB, keyA, keyB, driftA, driftA2, driftB, id1

\* Two threads of one process, or one thread in each of two processes.
OneThread    == t1 :> api1
OneProcess   == t1 :> api1 @@ t2 :> api1
TwoProcesses == t1 :> api1 @@ t2 :> api2

OneKey  == driftA :> keyA
TwoKeys == driftA :> keyA @@ driftB :> keyB

\* Two drifts whose eight-digit ids collide.
SharedKey == driftA :> keyA @@ driftA2 :> keyA

OneCase  == keyA :> <<short>>
Colliding == keyA :> <<short, wideA>> @@ keyB :> <<short, wideB>>

OneDrift  == {[content |-> driftA, event_id |-> None]}
TwoDrifts == {[content |-> driftA, event_id |-> None],
              [content |-> driftB, event_id |-> None]}

\* One event id sent with two different changes of the same drift.
ReusedId == {[content |-> driftA, event_id |-> id1],
             [content |-> driftA2, event_id |-> id1]}

\* The threads of one process are interchangeable.
ThreadSymmetry == Permutations({t1, t2})

\* How many faults, resets, verifications and extra deliveries may happen.
Limits(f, r, v, d) == [faults |-> f, resets |-> r, verifications |-> v, duplicates |-> d]

BoundsNone     == Limits(0, 0, 0, 0)
BoundsNoReset  == Limits(1, 0, 2, 1)
BoundsReset    == Limits(0, 1, 1, 0)
BoundsSettled  == Limits(2, 1, 0, 1)
BoundsFaults   == Limits(2, 0, 1, 0)
BoundsWaiting  == Limits(1, 0, 1, 1)
BoundsRacing   == Limits(1, 0, 1, 0)
===============================================================================
