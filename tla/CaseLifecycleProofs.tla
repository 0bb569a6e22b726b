-------------------------- MODULE CaseLifecycleProofs --------------------------
(***************************************************************************)
(* The promise of CaseLifecycle, for any set of cases.                     *)
(***************************************************************************)
EXTENDS CaseLifecycle, TLAPS

IInv == TypeOK /\ ClosedOnlyIfProven

\* The empty store satisfies the invariant.
LEMMA InitIInv == Init => IInv
  BY DEF Init, IInv, TypeOK, ClosedOnlyIfProven, Phases

\* One step per operation of a case, and the reset.
LEMMA StepIInv == IInv /\ [Next]_vars => IInv'
<1> SUFFICES ASSUME IInv, [Next]_vars PROVE IInv'
  OBVIOUS
<1> USE DEF IInv, TypeOK, ClosedOnlyIfProven, Phases, Working
<1>1. ASSUME NEW c \in Cases, Open(c) PROVE IInv'
  BY <1>1 DEF Open, Move
<1>2. ASSUME NEW c \in Cases, Raise(c) PROVE IInv'
  BY <1>2 DEF Raise
<1>3. ASSUME NEW c \in Cases, Propose(c) PROVE IInv'
  BY <1>3 DEF Propose, Move
<1>4. ASSUME NEW c \in Cases, Deploy(c) PROVE IInv'
  BY <1>4 DEF Deploy, Move
<1>5. ASSUME NEW c \in Cases, Prove(c) PROVE IInv'
  BY <1>5 DEF Prove, Move
<1>6. ASSUME NEW c \in Cases, Close(c) PROVE IInv'
  BY <1>6 DEF Close
<1>7. ASSUME NEW c \in Cases, Recover(c) PROVE IInv'
  BY <1>7 DEF Recover, Move
<1>8. ASSUME NEW c \in Cases, Stop(c) PROVE IInv'
  BY <1>8 DEF Stop
<1>9. CASE Reset
  BY <1>9 DEF Reset
<1>10. CASE UNCHANGED vars
  BY <1>10 DEF vars
<1> QED
  BY <1>1, <1>2, <1>3, <1>4, <1>5, <1>6, <1>7, <1>8, <1>9, <1>10 DEF Next

\* It holds in every reachable state.
LEMMA Invariance == Spec => []IInv
  BY InitIInv, StepIInv, PTL DEF Spec

\* An incident is closed only after the repair was proven in production, and a
\* case with a live incident recovers only once it is closed.
THEOREM ClosedOnlyAfterProof == Spec => []ClosedOnlyIfProven
<1>1. IInv => ClosedOnlyIfProven
  BY DEF IInv
<1> QED
  BY <1>1, Invariance, PTL

\* What every step but a reset keeps.
Final ==
    phase' = [c \in Cases |-> "absent"] \/
       /\ \A c \in Cases : phase[c] \in {"recovered", "stopped"} => phase'[c] = phase[c]
       /\ closed \subseteq closed'

\* A verdict is final, and a closed incident stays closed, until a reset.
THEOREM VerdictsAreFinal == Spec => OnlyResetReopens
<1>1. IInv /\ [Next]_vars => [Final]_vars
  <2> SUFFICES ASSUME IInv, [Next]_vars PROVE Final \/ UNCHANGED vars
    OBVIOUS
  <2> USE DEF IInv, TypeOK, Working, Move
  <2>1. ASSUME NEW c \in Cases,
               Open(c) \/ Propose(c) \/ Deploy(c) \/ Prove(c) \/ Recover(c) \/ Stop(c)
        PROVE  Final
    BY <2>1 DEF Final, Open, Propose, Deploy, Prove, Recover, Stop
  <2>2. ASSUME NEW c \in Cases, Raise(c) \/ Close(c) PROVE Final
    BY <2>2 DEF Final, Raise, Close
  <2>3. CASE Reset
    BY <2>3 DEF Final, Reset
  <2> QED
    BY <2>1, <2>2, <2>3 DEF Next
<1>2. Spec => [][Final]_vars
  BY <1>1, Invariance, PTL DEF Spec
<1> QED
  BY <1>2 DEF OnlyResetReopens, Final
===============================================================================
