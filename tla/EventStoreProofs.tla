--------------------------- MODULE EventStoreProofs ---------------------------
(***************************************************************************)
(* What EventStore promises for every value of its constants.  The        *)
(* inductive invariant adds to the type of the log that each row carries   *)
(* the scope that was current when it was written (RowsWellFormed); the    *)
(* uniqueness of keys and ids and the legality of case streams are then    *)
(* preserved by each append.                                               *)
(***************************************************************************)
EXTENDS EventStore, TLAPS, WellFoundedInduction

-------------------------------------------------------------------------------
(***************************************************************************)
(* Maxima of bounded sets of numbers.                                      *)
(***************************************************************************)

\* A non-empty set of numbers up to n has a greatest element, and Max is it:
\* the MAX(sequence) and ORDER BY sequence DESC LIMIT 1 of the store's queries.
LEMMA MaxOfBounded ==
    ASSUME NEW n \in Nat, NEW S \in SUBSET (0 .. n), S # {}
    PROVE  Max(S) \in S /\ \A x \in S : x <= Max(S)
<1> DEFINE T == {n - x : x \in S}
<1>1. T \subseteq Nat /\ T # {}
  <2>1. \A x \in S : x \in Nat /\ x <= n /\ n - x \in Nat
    OBVIOUS
  <2>2. PICK x \in S : TRUE
    OBVIOUS
  <2>3. n - x \in T
    OBVIOUS
  <2> QED
    BY <2>1, <2>3
<1>2. PICK m \in T : \A y \in T : ~(<<y, m>> \in OpToRel(<, Nat))
  BY <1>1, NatLessThanWellFounded, WFMin
<1>3. \A y \in T : ~(y < m)
  BY <1>1, <1>2 DEF OpToRel
<1>4. PICK x \in S : m = n - x
  BY <1>2
<1>5. \A y \in S : x >= y
  <2> SUFFICES ASSUME NEW y \in S PROVE x >= y
    OBVIOUS
  <2>1. n - y \in T
    OBVIOUS
  <2>2. ~(n - y < n - x)
    BY <2>1, <1>3, <1>4
  <2> QED
    BY <2>2
<1>6. \E z \in S : \A y \in S : z >= y
  BY <1>5
<1>7. Max(S) \in S /\ \A y \in S : Max(S) >= y
  BY <1>6 DEF Max
<1> QED
  BY <1>7

-------------------------------------------------------------------------------
(***************************************************************************)
(* The log and its scopes.                                                 *)
(***************************************************************************)

\* Appending leaves the rows that are there alone: no operation of the store
\* updates or deletes a row.
LEMMA AppendedLog ==
    ASSUME NEW rows \in Seq(Row), NEW row \in Row
    PROVE  LET new == Append(rows, row)
           IN  /\ new \in Seq(Row)
               /\ Len(new) = Len(rows) + 1
               /\ DOMAIN new = 1 .. (Len(rows) + 1)
               /\ \A i \in DOMAIN rows : i \in DOMAIN new /\ new[i] = rows[i]
               /\ new[Len(rows) + 1] = row
  OBVIOUS

\* What _current_scope returns: 0 or the number of a reset row, and no reset row
\* comes after it.
LEMMA ScopeFacts ==
    ASSUME NEW rows \in Seq(Row)
    PROVE  /\ CurrentScope(rows) \in 0 .. Len(rows)
           /\ CurrentScope(rows) # 0 => rows[CurrentScope(rows)].event_type = "SYSTEM_RESET"
           /\ \A i \in DOMAIN rows :
                 rows[i].event_type = "SYSTEM_RESET" => i <= CurrentScope(rows)
<1> DEFINE resets == {i \in DOMAIN rows : rows[i].event_type = "SYSTEM_RESET"}
           S == {0} \cup resets
<1>1. Len(rows) \in Nat /\ DOMAIN rows = 1 .. Len(rows)
  OBVIOUS
<1>2. S \in SUBSET (0 .. Len(rows)) /\ S # {}
  BY <1>1
<1>3. Max(S) \in S /\ \A x \in S : x <= Max(S)
  BY <1>1, <1>2, MaxOfBounded
<1>4. CurrentScope(rows) = Max(S)
  BY DEF CurrentScope
<1> QED
  BY <1>1, <1>2, <1>3, <1>4

\* The row an accepted call leaves, and the row of a reset, have the columns of
\* the schema.
CallOf(call) ==
    \/ \E c \in CaseIds, p \in DetectionPayloads, e \in EventIds \cup {None} :
           call = DetectionCall(c, p, KeyOf[p.content], e)
    \/ \E c \in CaseIds, type \in ProgressEvents :
           \E d \in Details[type] : call = ProgressCall(c, type, d)

\* What a step of the store is, told of the call it serves.
LEMMA NextCases ==
    ASSUME Next
    PROVE  Reset \/ \E call : CallOf(call) /\ AppendEvent(call)
  BY DEF Next, Detect, Progress, CallOf

\* The arguments a caller may pass have the types of the columns.
LEMMA CallColumns ==
    ASSUME NEW call, CallOf(call)
    PROVE  /\ call.case_id \in CaseIds
           /\ call.event_type \in EventType \ {"SYSTEM_RESET"}
           /\ call.state \in CaseState
           /\ call.payload \in DetectionPayloads \cup ProgressPayloads
           /\ call.dedup_key \in DedupKeys \cup {None}
           /\ call.event_id \in EventIds \cup {None}
           /\ call.event_type = "SCHEMA_CHANGE_DETECTED" =>
                 /\ call.dedup_key # None
                 /\ call.state = "DETECTED"
                 /\ call.payload \in DetectionPayloads
<1>1. CASE \E c \in CaseIds, p \in DetectionPayloads, e \in EventIds \cup {None} :
             call = DetectionCall(c, p, KeyOf[p.content], e)
  <2> PICK c \in CaseIds, p \in DetectionPayloads, e \in EventIds \cup {None} :
           call = DetectionCall(c, p, KeyOf[p.content], e)
    BY <1>1
  <2>1. p.content \in Contents
    BY DEF DetectionPayloads
  <2>2. KeyOf[p.content] \in DedupKeys
    BY <2>1, KeyOfAssumption
  <2> QED
    BY <2>2, DedupKeysAssumption
       DEF DetectionCall, EventType, CaseEvents, EventState, CaseState
<1>2. CASE \E c \in CaseIds, type \in ProgressEvents :
             \E d \in Details[type] : call = ProgressCall(c, type, d)
  <2> PICK c \in CaseIds, type \in ProgressEvents :
           \E d \in Details[type] : call = ProgressCall(c, type, d)
    BY <1>2
  <2> PICK d \in Details[type] : call = ProgressCall(c, type, d)
    OBVIOUS
  <2>1. type \in DOMAIN EventState /\ type # "SCHEMA_CHANGE_DETECTED" /\ type # "SYSTEM_RESET"
    BY DEF ProgressEvents, CaseEvents, EventState
  <2>2. EventState[type] \in CaseState
    BY <2>1 DEF EventState, CaseState
  <2> QED
    BY <2>1, <2>2 DEF ProgressCall, EventType, CaseEvents, ProgressPayloads
<1> QED
  BY <1>1, <1>2 DEF CallOf

-------------------------------------------------------------------------------
(***************************************************************************)
(* The inductive invariant.                                                *)
(***************************************************************************)

\* Row i was written under the scope that was current then: an earlier reset, no
\* reset between the two, or 0 when there was none.
ScopeOfRow(rows, i) ==
    /\ rows[i].reset_scope < i
    /\ rows[i].reset_scope # 0 => rows[rows[i].reset_scope].event_type = "SYSTEM_RESET"
    /\ \A k \in DOMAIN rows :
          k < i /\ rows[k].event_type = "SYSTEM_RESET" => k <= rows[i].reset_scope

\* An id made up by the store is the row's own; a reset belongs to no case; a
\* detection has a key and says what changed.
ColumnsOfRow(rows, i) ==
    /\ rows[i].event_id \in Nat => rows[i].event_id = i
    /\ rows[i].event_type = "SYSTEM_RESET" =>
          rows[i].case_id = SystemCase /\ rows[i].dedup_key = None
    /\ rows[i].event_type # "SYSTEM_RESET" =>
          rows[i].case_id \in CaseIds /\ rows[i].state \in CaseState
    /\ rows[i].event_type = "SCHEMA_CHANGE_DETECTED" =>
          /\ rows[i].dedup_key # None
          /\ rows[i].state = "DETECTED"
          /\ rows[i].payload \in DetectionPayloads

RowsWellFormed == \A i \in DOMAIN log : ScopeOfRow(log, i) /\ ColumnsOfRow(log, i)

IInv ==
    /\ TypeOK
    /\ RowsWellFormed
    /\ UniqueInScope
    /\ StreamsLegal

\* The empty table satisfies the invariant.
LEMMA InitIInv == Init => IInv
<1> SUFFICES ASSUME Init PROVE IInv
  OBVIOUS
<1>1. log \in Seq(Row) /\ DOMAIN log = {}
  BY DEF Init
<1> QED
  BY <1>1 DEF IInv, TypeOK, RowsWellFormed, UniqueInScope, StreamsLegal

\* The columns of a row of the table.
LEMMA RowAt ==
    ASSUME TypeOK, NEW i \in DOMAIN log
    PROVE  /\ log[i] \in Row
           /\ log[i].reset_scope \in Nat
           /\ log[i].event_id \in Nat \cup EventIds
<1>1. log[i] \in Row
  BY DEF TypeOK
<1> QED
  BY <1>1 DEF Row

\* The log after a call: one more row, typed and under the current scope.
LEMMA StepAppends ==
    ASSUME TypeOK, Next
    PROVE  \E row \in Row :
             /\ log' = Append(log, row)
             /\ row.reset_scope = CurrentScope(log)
             /\ \/ row = ResetRow(log)
                \/ \E call : CallOf(call) /\ Accepted(log, call) /\ row = NewRow(log, call)
<1>1. CurrentScope(log) \in Nat /\ Len(log) + 1 \in Nat
  BY ScopeFacts DEF TypeOK
<1>2. CASE Reset
  <2>1. ResetRow(log) \in Row
    BY <1>1 DEF ResetRow, Row, EventType
  <2>2. log' = Append(log, ResetRow(log)) /\ ResetRow(log).reset_scope = CurrentScope(log)
    BY <1>2 DEF Reset, ResetRow
  <2> QED
    BY <2>1, <2>2
<1>3. ASSUME NEW call, CallOf(call), AppendEvent(call)
      PROVE  /\ NewRow(log, call) \in Row
             /\ log' = Append(log, NewRow(log, call))
             /\ NewRow(log, call).reset_scope = CurrentScope(log)
             /\ Accepted(log, call)
  <2>1. NewRow(log, call) \in Row
    BY <1>1, <1>3, CallColumns DEF NewRow, Row
  <2> QED
    BY <1>3, <2>1 DEF AppendEvent, NewRow
<1> QED
  BY <1>2, <1>3, NextCases

\* Each append keeps the type of the table.
LEMMA TypeStep == ASSUME TypeOK, Next PROVE TypeOK'
  BY StepAppends, AppendedLog DEF TypeOK

\* The rows compared on insertion are the rows past the last reset.
LEMMA ScopesAgreeHolds ==
    ASSUME TypeOK, RowsWellFormed
    PROVE  ScopesAgree
<1> DEFINE s == CurrentScope(log)
<1>1. /\ s \in 0 .. Len(log)
      /\ s # 0 => log[s].event_type = "SYSTEM_RESET"
      /\ \A i \in DOMAIN log : log[i].event_type = "SYSTEM_RESET" => i <= s
      /\ DOMAIN log = 1 .. Len(log) /\ Len(log) \in Nat
  BY ScopeFacts DEF TypeOK
<1> HIDE DEF s
<1>2. ASSUME NEW i \in DOMAIN log PROVE log[i].reset_scope = s <=> i > s
  <2>1. log[i].reset_scope \in Nat /\ ScopeOfRow(log, i)
    BY RowAt DEF RowsWellFormed
  <2>2. ASSUME log[i].reset_scope = s PROVE i > s
    BY <2>1, <2>2, <1>1 DEF ScopeOfRow
  <2>3. ASSUME i > s PROVE log[i].reset_scope = s
    <3>1. log[i].reset_scope <= s
      <4>1. log[i].reset_scope = 0 \/ log[i].reset_scope \in DOMAIN log
        BY <2>1, <1>1 DEF ScopeOfRow
      <4> QED
        BY <4>1, <2>1, <1>1 DEF ScopeOfRow
    <3>2. s <= log[i].reset_scope
      BY <2>1, <2>3, <1>1 DEF ScopeOfRow
    <3> QED
      BY <3>1, <3>2, <2>1, <1>1
  <2> QED
    BY <2>2, <2>3
<1>3. InScope(log) = {i \in DOMAIN log : log[i].reset_scope = s}
  BY DEF InScope, s
<1> QED
  BY <1>2, <1>3 DEF ScopesAgree, s

\* Each append leaves the old rows well formed and adds one that is.
LEMMA RowsStep ==
    ASSUME TypeOK, RowsWellFormed, Next
    PROVE  RowsWellFormed'
<1>1. PICK row \in Row :
         /\ log' = Append(log, row)
         /\ row.reset_scope = CurrentScope(log)
         /\ \/ row = ResetRow(log)
            \/ \E call : CallOf(call) /\ Accepted(log, call) /\ row = NewRow(log, call)
  BY StepAppends
<1> DEFINE n == Len(log) + 1
           s == CurrentScope(log)
<1>2. /\ n \in Nat /\ DOMAIN log = 1 .. (n - 1) /\ DOMAIN log' = 1 .. n
      /\ \A i \in DOMAIN log : log'[i] = log[i]
      /\ log'[n] = row
  BY <1>1, AppendedLog DEF TypeOK
<1>3. /\ s \in 0 .. n - 1
      /\ s # 0 => log[s].event_type = "SYSTEM_RESET"
      /\ \A i \in DOMAIN log : log[i].event_type = "SYSTEM_RESET" => i <= s
  BY ScopeFacts, <1>2 DEF TypeOK
<1> HIDE DEF n, s
<1>4. ASSUME NEW i \in DOMAIN log PROVE ScopeOfRow(log', i) /\ ColumnsOfRow(log', i)
  <2>1. log[i].reset_scope \in Nat /\ ScopeOfRow(log, i) /\ ColumnsOfRow(log, i)
    BY RowAt DEF RowsWellFormed
  <2>2. log'[i] = log[i] /\ i \in 1 .. n - 1
    BY <1>2
  <2>3. ScopeOfRow(log', i)
    <3>1. log[i].reset_scope # 0 =>
             log'[log[i].reset_scope] = log[log[i].reset_scope]
      BY <2>1, <2>2, <1>2 DEF ScopeOfRow
    <3>2. \A k \in DOMAIN log' : k < i => k \in DOMAIN log /\ log'[k] = log[k]
      BY <2>2, <1>2
    <3> QED
      BY <2>1, <2>2, <3>1, <3>2 DEF ScopeOfRow
  <2>4. ColumnsOfRow(log', i)
    BY <2>1, <2>2 DEF ColumnsOfRow
  <2> QED
    BY <2>3, <2>4
<1>5. ScopeOfRow(log', n)
  <2>1. log'[n].reset_scope = s
    BY <1>1, <1>2 DEF s
  <2>2. s # 0 => log'[s].event_type = "SYSTEM_RESET"
    BY <1>2, <1>3
  <2>3. \A k \in DOMAIN log' : k < n => k \in DOMAIN log /\ log'[k] = log[k]
    BY <1>2
  <2> QED
    BY <2>1, <2>2, <2>3, <1>2, <1>3 DEF ScopeOfRow
<1>6. ColumnsOfRow(log', n)
  <2>1. CASE row = ResetRow(log)
    <3>1. log'[n] = ResetRow(log)
      BY <1>2, <2>1
    <3> QED
      BY <3>1 DEF ColumnsOfRow, ResetRow, n
  <2>2. CASE \E call : CallOf(call) /\ Accepted(log, call) /\ row = NewRow(log, call)
    <3> PICK call : CallOf(call) /\ Accepted(log, call) /\ row = NewRow(log, call)
      BY <2>2
    <3>1. log'[n] = NewRow(log, call)
      BY <1>2
    <3>2. call.event_id # None => call.event_id \notin Nat
      BY CallColumns, EventIdsAssumption
    <3> QED
      BY <3>1, <3>2, CallColumns DEF ColumnsOfRow, NewRow, n
  <2> QED
    BY <1>1, <2>1, <2>2
<1>7. \A i \in DOMAIN log' : i \in DOMAIN log \/ i = n
  BY <1>2
<1> QED
  BY <1>4, <1>5, <1>6, <1>7 DEF RowsWellFormed

\* What append() checks keeps keys and ids unique in every scope: the new row is
\* compared with exactly the rows of its own scope.
LEMMA UniqueStep ==
    ASSUME TypeOK, RowsWellFormed, UniqueInScope, Next
    PROVE  UniqueInScope'
<1>1. PICK row \in Row :
         /\ log' = Append(log, row)
         /\ row.reset_scope = CurrentScope(log)
         /\ \/ row = ResetRow(log)
            \/ \E call : CallOf(call) /\ Accepted(log, call) /\ row = NewRow(log, call)
  BY StepAppends
<1>2. PICK n \in Nat : n = Len(log) + 1
  BY DEF TypeOK
<1>3. /\ DOMAIN log = 1 .. (n - 1) /\ DOMAIN log' = 1 .. n
      /\ \A i \in DOMAIN log : log'[i] = log[i]
      /\ log'[n] = row
  BY <1>1, <1>2, AppendedLog DEF TypeOK
<1> DEFINE Differ(p, q) ==
      /\ p.event_id # q.event_id
      /\ p.dedup_key = None \/ p.dedup_key # q.dedup_key
<1>4. ASSUME NEW i \in DOMAIN log, log[i].reset_scope = row.reset_scope
      PROVE  Differ(log[i], row) /\ Differ(row, log[i])
  <2>1. log[i].event_id \in Nat => log[i].event_id = i
    BY DEF RowsWellFormed, ColumnsOfRow
  <2>2. i # n /\ i \in InScope(log)
    BY <1>1, <1>3, <1>4 DEF InScope
  <2>3. CASE row = ResetRow(log)
    <3>1. row.event_id = n /\ row.dedup_key = None
      BY <2>3, <1>2 DEF ResetRow
    <3> QED
      BY <3>1, <2>1, <2>2
  <2>4. CASE \E call : CallOf(call) /\ Accepted(log, call) /\ row = NewRow(log, call)
    <3> PICK call : CallOf(call) /\ Accepted(log, call) /\ row = NewRow(log, call)
      BY <2>4
    <3>1. /\ row.dedup_key = call.dedup_key
          /\ row.event_id = IF call.event_id = None THEN n ELSE call.event_id
      BY <1>2 DEF NewRow
    <3>2. row.event_id # log[i].event_id
      <4>1. CASE call.event_id = None
        BY <4>1, <3>1, <2>1, <2>2
      <4>2. CASE call.event_id # None
        BY <4>2, <3>1, <2>2 DEF Accepted, IdTaken, HoldersOfId
      <4> QED
        BY <4>1, <4>2
    <3>3. row.dedup_key = None \/ row.dedup_key # log[i].dedup_key
      BY <3>1, <2>2 DEF Accepted, KeyTaken, HoldersOfKey
    <3> QED
      BY <3>2, <3>3
  <2> QED
    BY <1>1, <2>3, <2>4
<1> HIDE DEF Differ
<1>5. ASSUME NEW i \in DOMAIN log', NEW j \in DOMAIN log', i # j,
             log'[i].reset_scope = log'[j].reset_scope
      PROVE  Differ(log'[i], log'[j])
  <2>1. CASE i \in DOMAIN log /\ j \in DOMAIN log
    BY <2>1, <1>3, <1>5 DEF UniqueInScope, Differ
  <2>2. CASE i = n
    BY <2>2, <1>3, <1>4, <1>5
  <2>3. CASE j = n
    BY <2>3, <1>3, <1>4, <1>5
  <2> QED
    BY <1>3, <2>1, <2>2, <2>3
<1> QED
  BY <1>5 DEF UniqueInScope, Differ

\* What _current_state reads is the case's predecessor row, if it has one in the
\* current scope.
LEMMA CurrentStateIsLast ==
    ASSUME TypeOK, RowsWellFormed, NEW c \in CaseIds
    PROVE  /\ ActiveRows(log, c) =
                 {i \in DOMAIN log : log[i].reset_scope = CurrentScope(log) /\ log[i].case_id = c}
           /\ ActiveRows(log, c) = {} => CurrentState(log, c) = None
           /\ ActiveRows(log, c) # {} =>
                 \E i \in ActiveRows(log, c) :
                    /\ \A k \in ActiveRows(log, c) : k <= i
                    /\ CurrentState(log, c) = log[i].state
                    /\ CurrentState(log, c) # None
<1>1. ActiveRows(log, c) = {i \in DOMAIN log : i \in InScope(log) /\ log[i].case_id = c}
  BY ScopesAgreeHolds DEF ScopesAgree, ActiveRows
<1>2. ActiveRows(log, c) =
         {i \in DOMAIN log : log[i].reset_scope = CurrentScope(log) /\ log[i].case_id = c}
  BY <1>1 DEF InScope
<1>3. ASSUME ActiveRows(log, c) # {}
      PROVE  \E i \in ActiveRows(log, c) :
                /\ \A k \in ActiveRows(log, c) : k <= i
                /\ CurrentState(log, c) = log[i].state
                /\ CurrentState(log, c) # None
  <2> DEFINE i == Max(ActiveRows(log, c))
  <2>1. Len(log) \in Nat /\ ActiveRows(log, c) \subseteq DOMAIN log /\ DOMAIN log = 1 .. Len(log)
    BY <1>2 DEF TypeOK
  <2>2. ActiveRows(log, c) \in SUBSET (0 .. Len(log))
    BY <2>1
  <2>3. i \in ActiveRows(log, c) /\ \A k \in ActiveRows(log, c) : k <= i
    BY <1>3, <2>1, <2>2, MaxOfBounded
  <2>4. CurrentState(log, c) = log[i].state
    BY <1>3 DEF CurrentState
  <2>5. log[i].case_id = c /\ i \in DOMAIN log
    BY <1>2, <2>3
  <2>6. log[i].state \in CaseState
    BY <2>5, CaseIdsAssumption DEF RowsWellFormed, ColumnsOfRow
  <2> QED
    BY <2>3, <2>4, <2>6, NoneIsNoState
<1> QED
  BY <1>2, <1>3 DEF CurrentState

\* An append continues the case's stream legally or opens it with DETECTED.
LEMMA StreamsStep ==
    ASSUME TypeOK, RowsWellFormed, StreamsLegal, Next
    PROVE  StreamsLegal'
<1>1. PICK row \in Row :
         /\ log' = Append(log, row)
         /\ row.reset_scope = CurrentScope(log)
         /\ \/ row = ResetRow(log)
            \/ \E call : CallOf(call) /\ Accepted(log, call) /\ row = NewRow(log, call)
  BY StepAppends
<1>2. PICK n \in Nat : n = Len(log) + 1
  BY DEF TypeOK
<1>3. /\ DOMAIN log = 1 .. (n - 1) /\ DOMAIN log' = 1 .. n
      /\ \A i \in DOMAIN log : log'[i] = log[i]
      /\ log'[n] = row
  BY <1>1, <1>2, AppendedLog DEF TypeOK
<1> DEFINE Follows(rows, i, j) ==
      /\ i < j
      /\ rows[i].case_id = rows[j].case_id
      /\ rows[i].reset_scope = rows[j].reset_scope
      /\ \A k \in DOMAIN rows : i < k /\ k < j => rows[k].case_id # rows[i].case_id
<1>4. ASSUME NEW i \in DOMAIN log, NEW j \in DOMAIN log
      PROVE  Follows(log', i, j) <=> Follows(log, i, j)
  <2>1. \A k : k \in DOMAIN log /\ i < k /\ k < j <=> k \in DOMAIN log' /\ i < k /\ k < j
    BY <1>3
  <2> QED
    BY <2>1, <1>3
<1>5. ASSUME NEW i \in DOMAIN log', NEW j \in DOMAIN log', Follows(log', i, j)
      PROVE  i \in DOMAIN log
  BY <1>3, <1>5
<1>6. ASSUME NEW i \in DOMAIN log, Follows(log', i, n), log[i].event_type # "SYSTEM_RESET"
      PROVE  /\ ValidTransition(log[i].state, row.state)
             /\ row.event_type # "SCHEMA_CHANGE_DETECTED"
  <2>1. log[i].case_id = row.case_id /\ log[i].reset_scope = CurrentScope(log)
    BY <1>1, <1>3, <1>6
  <2>2. row.case_id \in CaseIds
    BY <2>1, <1>6 DEF RowsWellFormed, ColumnsOfRow
  <2>3. row # ResetRow(log)
    BY <2>2, CaseIdsAssumption DEF ResetRow
  <2>4. PICK call : CallOf(call) /\ Accepted(log, call) /\ row = NewRow(log, call)
    BY <1>1, <2>3
  <2>5. /\ call.case_id = row.case_id /\ call.state = row.state
        /\ call.event_type = row.event_type
    BY <2>4 DEF NewRow
  <2>6. i \in ActiveRows(log, row.case_id)
    BY <2>1, <2>2, CurrentStateIsLast
  <2>7. PICK m \in ActiveRows(log, row.case_id) :
           /\ \A k \in ActiveRows(log, row.case_id) : k <= m
           /\ CurrentState(log, row.case_id) = log[m].state
           /\ CurrentState(log, row.case_id) # None
    BY <2>2, <2>6, CurrentStateIsLast
  <2>8. m \in DOMAIN log /\ log[m].case_id = row.case_id
    BY <2>2, CurrentStateIsLast
  <2>9. m = i
    BY <2>1, <2>6, <2>7, <2>8, <1>3, <1>6
  <2> QED
    BY <2>4, <2>5, <2>7, <2>9 DEF Accepted, SecondDetection
<1>7. ASSUME row.event_type # "SYSTEM_RESET", \A i \in DOMAIN log' : ~Follows(log', i, n)
      PROVE  row.state = "DETECTED"
  <2>1. row # ResetRow(log)
    BY <1>7 DEF ResetRow
  <2>2. PICK call : CallOf(call) /\ Accepted(log, call) /\ row = NewRow(log, call)
    BY <1>1, <2>1
  <2>3. row.case_id \in CaseIds /\ call.case_id = row.case_id /\ call.state = row.state
    BY <2>2, CallColumns DEF NewRow
  <2>4. ActiveRows(log, row.case_id) = {}
    <3> SUFFICES ASSUME ActiveRows(log, row.case_id) # {} PROVE FALSE
      OBVIOUS
    <3>1. PICK m \in ActiveRows(log, row.case_id) :
             \A k \in ActiveRows(log, row.case_id) : k <= m
      BY <2>3, CurrentStateIsLast
    <3>2. /\ m \in DOMAIN log /\ log[m].case_id = row.case_id
          /\ log[m].reset_scope = row.reset_scope
      BY <2>3, <1>1, CurrentStateIsLast
    <3>3. ASSUME NEW k \in DOMAIN log', m < k, k < n
          PROVE  log'[k].case_id # log'[m].case_id
      <4>1. k \in DOMAIN log /\ log'[k] = log[k] /\ log'[m] = log[m]
        BY <3>2, <3>3, <1>3
      <4>2. k > CurrentScope(log)
        <5>1. m > CurrentScope(log) /\ CurrentScope(log) \in Nat
          BY ScopeFacts DEF TypeOK, ActiveRows
        <5> QED
          BY <5>1, <3>2, <3>3, <4>1, <1>3
      <4>3. k \in ActiveRows(log, row.case_id) \/ log[k].case_id # row.case_id
        BY <4>1, <4>2 DEF ActiveRows
      <4>4. ~(k <= m)
        BY <3>2, <3>3, <4>1, <1>3
      <4> QED
        BY <3>1, <3>2, <4>1, <4>3, <4>4
    <3>4. Follows(log', m, n)
      BY <3>2, <3>3, <1>3
    <3> QED
      BY <3>2, <3>4, <1>3, <1>7
  <2>5. CurrentState(log, row.case_id) = None
    BY <2>3, <2>4, CurrentStateIsLast
  <2> QED
    BY <2>2, <2>3, <2>5 DEF Accepted, ValidTransition
<1> HIDE DEF Follows
<1>8. ASSUME NEW i \in DOMAIN log', NEW j \in DOMAIN log', Follows(log', i, j),
             log'[i].event_type # "SYSTEM_RESET"
      PROVE  /\ ValidTransition(log'[i].state, log'[j].state)
             /\ log'[j].event_type # "SCHEMA_CHANGE_DETECTED"
  <2>1. i \in DOMAIN log
    BY <1>5, <1>8
  <2>2. CASE j \in DOMAIN log
    <3>1. Follows(log, i, j)
      BY <1>4, <1>8, <2>1, <2>2
    <3> QED
      BY <3>1, <2>1, <2>2, <1>3, <1>8 DEF StreamsLegal, Consecutive, Follows
  <2>3. CASE j = n
    BY <2>1, <2>3, <1>3, <1>6, <1>8
  <2> QED
    BY <2>2, <2>3, <1>3
<1>9. ASSUME NEW j \in DOMAIN log', log'[j].event_type # "SYSTEM_RESET",
             \A i \in DOMAIN log' : ~Follows(log', i, j)
      PROVE  log'[j].state = "DETECTED"
  <2>1. CASE j \in DOMAIN log
    <3>1. \A i \in DOMAIN log : ~Follows(log, i, j)
      BY <1>3, <1>4, <1>9, <2>1
    <3> QED
      BY <3>1, <2>1, <1>3, <1>9 DEF StreamsLegal, Consecutive, Follows
  <2>2. CASE j = n
    BY <2>2, <1>3, <1>7, <1>9
  <2> QED
    BY <2>1, <2>2, <1>3
<1> QED
  BY <1>8, <1>9 DEF StreamsLegal, Consecutive, Follows

\* find_case_for_dedup has one row to choose from.
LEMMA OneHolderOfKey ==
    ASSUME NEW rows, NEW d, d # None, NEW i \in HoldersOfKey(rows, d),
           \A j, k \in DOMAIN rows :
              j # k /\ rows[j].reset_scope = rows[k].reset_scope =>
                 rows[j].dedup_key = None \/ rows[j].dedup_key # rows[k].dedup_key
    PROVE  CaseForDedup(rows, d) = rows[i].case_id
<1>1. HoldersOfKey(rows, d) = {i}
  BY DEF HoldersOfKey, InScope
<1> QED
  BY <1>1 DEF CaseForDedup

\* A detection that is delivered again is recognised by its key, and its event id
\* is held by no other row of the scope.
LEMMA RetryIsDuplicateHolds ==
    ASSUME TypeOK, RowsWellFormed, UniqueInScope
    PROVE  RetryIsDuplicate
<1> SUFFICES ASSUME NEW i \in InScope(log),
                    log[i].event_type = "SCHEMA_CHANGE_DETECTED",
                    NEW t \in Times, NEW e \in ({log[i].event_id} \cap EventIds) \cup {None}
             PROVE  LET again == DetectionCall(log[i].case_id,
                                               [log[i].payload EXCEPT !.observed_at = t],
                                               log[i].dedup_key, e)
                    IN  Duplicate(log, again) /\ DuplicateOf(log, again) = log[i].case_id
  BY DEF RetryIsDuplicate
<1> DEFINE again == DetectionCall(log[i].case_id,
                                  [log[i].payload EXCEPT !.observed_at = t],
                                  log[i].dedup_key, e)
<1>1. /\ i \in DOMAIN log /\ log[i].dedup_key # None /\ log[i].state = "DETECTED"
      /\ log[i].payload \in DetectionPayloads
  BY DEF InScope, RowsWellFormed, ColumnsOfRow
<1>2. i \in HoldersOfKey(log, log[i].dedup_key)
  BY DEF HoldersOfKey
<1>3. CaseForDedup(log, log[i].dedup_key) = log[i].case_id
  BY <1>1, <1>2, OneHolderOfKey DEF UniqueInScope
<1>4. Matches(log[i], again)
  BY <1>1 DEF Matches, DetectionCall, SamePayload, DetectionPayloads
<1>5. e # None => HoldersOfId(log, e) = {i}
  BY <1>1 DEF HoldersOfId, InScope, UniqueInScope
<1>6. again.event_id = e /\ again.dedup_key = log[i].dedup_key
  BY DEF DetectionCall
<1> HIDE DEF again
<1>7. KeyTaken(log, again)
  BY <1>1, <1>2, <1>6 DEF KeyTaken
<1>8. ~Conflict(log, again)
  BY <1>4, <1>5, <1>6 DEF Conflict, IdTaken
<1>9. DuplicateOf(log, again) = log[i].case_id
  <2>1. CASE e = None
    BY <2>1, <1>3, <1>6 DEF DuplicateOf, IdTaken
  <2>2. CASE e # None
    BY <2>2, <1>3, <1>5, <1>6 DEF DuplicateOf, IdTaken
  <2> QED
    BY <2>1, <2>2
<1> QED
  BY <1>7, <1>8, <1>9 DEF Duplicate, again

\* What a step may not do while the scope lasts.
KeepsAnswers ==
    /\ \A d \in DedupKeys : CaseForDedup(log, d) # None =>
           CaseForDedup(log', d) = CaseForDedup(log, d)
    /\ \A c \in CaseIds : CurrentState(log, c) \in TerminalStates =>
           CurrentState(log', c) = CurrentState(log, c)

\* Within a scope the case of a key and a terminal state stay as they are.
LEMMA AnswersKept ==
    ASSUME IInv, IInv', Next, CurrentScope(log') = CurrentScope(log)
    PROVE  KeepsAnswers
<1> USE DEF IInv
<1>1. PICK row \in Row :
         /\ log' = Append(log, row)
         /\ \/ row = ResetRow(log)
            \/ \E call : CallOf(call) /\ Accepted(log, call) /\ row = NewRow(log, call)
  BY StepAppends
<1>2. PICK n \in Nat : n = Len(log) + 1
  BY DEF TypeOK
<1>3. /\ DOMAIN log = 1 .. (n - 1) /\ DOMAIN log' = 1 .. n
      /\ \A i \in DOMAIN log : i \in DOMAIN log' /\ log'[i] = log[i]
      /\ log'[n] = row
  BY <1>1, <1>2, AppendedLog DEF TypeOK
<1>4. PICK s \in 0 .. n - 1 : s = CurrentScope(log) /\ s = CurrentScope(log')
  BY <1>2, ScopeFacts DEF TypeOK
<1>5. row.event_type # "SYSTEM_RESET"
  <2>1. log' \in Seq(Row)
    BY DEF TypeOK
  <2>2. row.event_type = "SYSTEM_RESET" => n <= s
    BY <2>1, <1>3, <1>4, ScopeFacts
  <2> QED
    BY <2>2, <1>4
<1>6. PICK call : CallOf(call) /\ Accepted(log, call) /\ row = NewRow(log, call)
  BY <1>1, <1>5 DEF ResetRow
<1>7. ASSUME NEW d \in DedupKeys, CaseForDedup(log, d) # None
      PROVE  CaseForDedup(log', d) = CaseForDedup(log, d)
  <2>1. PICK i \in HoldersOfKey(log, d) : TRUE
    BY <1>7 DEF CaseForDedup
  <2>2. i \in DOMAIN log /\ i \in HoldersOfKey(log', d) /\ d # None
    BY <1>3, DedupKeysAssumption DEF HoldersOfKey, InScope
  <2>3. CaseForDedup(log, d) = log[i].case_id
    BY <2>2, OneHolderOfKey DEF UniqueInScope
  <2>4. CaseForDedup(log', d) = log'[i].case_id
    <3>1. \A j, k \in DOMAIN log' :
             j # k /\ log'[j].reset_scope = log'[k].reset_scope =>
                log'[j].dedup_key = None \/ log'[j].dedup_key # log'[k].dedup_key
      BY DEF UniqueInScope
    <3> QED
      BY <3>1, <2>2, OneHolderOfKey
  <2> QED
    BY <2>2, <2>3, <2>4, <1>3
<1>8. ASSUME NEW c \in CaseIds, CurrentState(log, c) \in TerminalStates
      PROVE  CurrentState(log', c) = CurrentState(log, c)
  <2>1. /\ ActiveRows(log, c) = {i \in DOMAIN log : i > s /\ log[i].case_id = c}
        /\ ActiveRows(log', c) = {i \in DOMAIN log' : i > s /\ log'[i].case_id = c}
    BY <1>4 DEF ActiveRows
  <2>2. row.case_id = call.case_id /\ row.state = call.state
    BY <1>6 DEF NewRow
  <2>3. CASE call.case_id = c
    <3>1. n \in ActiveRows(log', c) /\ ActiveRows(log', c) \in SUBSET (0 .. n)
      BY <2>1, <2>2, <2>3, <1>3, <1>4
    <3>2. Max(ActiveRows(log', c)) = n
      <4>1. /\ Max(ActiveRows(log', c)) \in ActiveRows(log', c)
            /\ n <= Max(ActiveRows(log', c))
        BY <3>1, MaxOfBounded
      <4> QED
        BY <4>1, <3>1
    <3>3. CurrentState(log', c) = call.state
      BY <3>1, <3>2, <2>2, <1>3 DEF CurrentState
    <3>4. ValidTransition(CurrentState(log, c), call.state)
      BY <2>3, <1>6 DEF Accepted
    <3>5. CurrentState(log, c) # None
      BY <1>8, NoneIsNoState DEF TerminalStates, CaseState
    <3> QED
      BY <3>3, <3>4, <3>5, <1>8 DEF ValidTransition, ALLOWED_TRANSITIONS, TerminalStates
  <2>4. CASE call.case_id # c
    <3>1. ActiveRows(log', c) = ActiveRows(log, c)
      BY <2>1, <2>2, <2>4, <1>3
    <3>2. CASE ActiveRows(log, c) = {}
      BY <3>1, <3>2 DEF CurrentState
    <3>3. CASE ActiveRows(log, c) # {}
      <4>1. ActiveRows(log, c) \in SUBSET (0 .. n)
        BY <2>1, <1>3
      <4>2. Max(ActiveRows(log, c)) \in DOMAIN log
        BY <4>1, <3>3, <2>1, MaxOfBounded
      <4> QED
        BY <3>1, <3>3, <4>2, <1>3 DEF CurrentState
    <3> QED
      BY <3>2, <3>3
  <2> QED
    BY <2>3, <2>4
<1> QED
  BY <1>7, <1>8 DEF KeepsAnswers

-------------------------------------------------------------------------------
(***************************************************************************)
(* The theorems.                                                           *)
(***************************************************************************)

\* Every step of the store, and a stutter, preserves the invariant.
LEMMA StepIInv == IInv /\ [Next]_log => IInv'
<1> SUFFICES ASSUME IInv, [Next]_log PROVE IInv'
  OBVIOUS
<1>1. CASE Next
  BY <1>1, TypeStep, RowsStep, UniqueStep, StreamsStep DEF IInv
<1>2. CASE UNCHANGED log
  BY <1>2 DEF IInv, TypeOK, RowsWellFormed, ScopeOfRow, ColumnsOfRow,
              UniqueInScope, StreamsLegal, Consecutive
<1> QED
  BY <1>1, <1>2

\* The invariant holds in every reachable state.
LEMMA Invariance == Spec => []IInv
  BY InitIInv, StepIInv, PTL DEF Spec

\* The events table only ever holds rows of the schema of store.py.
THEOREM TypeCorrect == Spec => []TypeOK
<1>1. IInv => TypeOK
  BY DEF IInv
<1> QED
  BY <1>1, Invariance, PTL

\* The reset_scope column and the sequence number of the last reset select the
\* same rows, so the unique indexes and the projections of store.py agree about
\* which rows are active.
THEOREM ScopesAlwaysAgree == Spec => []ScopesAgree
<1>1. IInv => ScopesAgree
  BY ScopesAgreeHolds DEF IInv
<1> QED
  BY <1>1, Invariance, PTL

\* No two rows of a scope share an event id or a dedup key: append()'s own checks
\* imply the two unique indexes.
THEOREM UniqueInEveryScope == Spec => []UniqueInScope
<1>1. IInv => UniqueInScope
  BY DEF IInv
<1> QED
  BY <1>1, Invariance, PTL

\* Every case's stream in every scope is a walk of the state machine that starts
\* with its only detection.
THEOREM StreamsAlwaysLegal == Spec => []StreamsLegal
<1>1. IInv => StreamsLegal
  BY DEF IInv
<1> QED
  BY <1>1, Invariance, PTL

\* A detection delivered again is a duplicate of the case it created.
THEOREM RetriesAreDuplicates == Spec => []RetryIsDuplicate
<1>1. IInv => RetryIsDuplicate
  BY RetryIsDuplicateHolds DEF IInv
<1> QED
  BY <1>1, Invariance, PTL

\* Only a reset revokes the case of a dedup key or a terminal verdict.
THEOREM AnswersLastUntilReset == Spec => OnlyResetRevokes
<1>1. IInv /\ IInv' /\ [Next]_log =>
         [CurrentScope(log') = CurrentScope(log) => KeepsAnswers]_log
  BY AnswersKept
<1>2. Spec => [][CurrentScope(log') = CurrentScope(log) => KeepsAnswers]_log
  BY <1>1, Invariance, PTL DEF Spec
<1> QED
  BY <1>2 DEF OnlyResetRevokes, KeepsAnswers
===============================================================================
