-------------------------- MODULE StoreReadersProofs --------------------------
(***************************************************************************)
(* What the readers of the event store may rely on, for any log.  All of   *)
(* it rests on the order of the scopes: the scope a reader has seen in an  *)
(* earlier prefix of the log never lies past the current one.              *)
(***************************************************************************)
EXTENDS StoreReaders, EventStoreProofs

\* A non-empty set of natural numbers has a least element, and Min is it: the
\* first row of a case.
LEMMA MinOfNaturals ==
    ASSUME NEW S \in SUBSET Nat, S # {}
    PROVE  Min(S) \in S /\ \A x \in S : Min(S) <= x
<1>1. PICK m \in S : \A y \in S : ~(<<y, m>> \in OpToRel(<, Nat))
  BY NatLessThanWellFounded, WFMin
<1>2. \A y \in S : m <= y
  <2>1. \A y \in S : ~(y < m)
    BY <1>1 DEF OpToRel
  <2>2. \A y \in S : y \in Nat
    OBVIOUS
  <2>3. QED BY <2>1, <2>2
<1>3. \E z \in S : \A y \in S : z <= y
  BY <1>2
<1> QED
  BY <1>3 DEF Min

\* A prefix of the log is a log, and its scope is at most the current one.
LEMMA PrefixScope ==
    ASSUME TypeOK, NEW i \in 0 .. Len(log)
    PROVE  /\ Prefix(i) \in Seq(Row) /\ Len(Prefix(i)) = i
           /\ \A k \in 1 .. i : Prefix(i)[k] = log[k]
           /\ CurrentScope(Prefix(i)) \in 0 .. i
           /\ CurrentScope(log) \in 0 .. Len(log)
           /\ CurrentScope(Prefix(i)) <= CurrentScope(log)
           /\ i = Len(log) => Prefix(i) = log
<1>1. /\ Prefix(i) \in Seq(Row) /\ Len(Prefix(i)) = i
      /\ \A k \in 1 .. i : Prefix(i)[k] = log[k]
      /\ i = Len(log) => Prefix(i) = log
  BY DEF Prefix, TypeOK
<1>2. /\ CurrentScope(Prefix(i)) \in 0 .. i
      /\ CurrentScope(Prefix(i)) # 0 =>
             Prefix(i)[CurrentScope(Prefix(i))].event_type = "SYSTEM_RESET"
  BY <1>1, ScopeFacts
<1>3. /\ CurrentScope(log) \in 0 .. Len(log)
      /\ \A k \in DOMAIN log : log[k].event_type = "SYSTEM_RESET" => k <= CurrentScope(log)
  BY ScopeFacts DEF TypeOK
<1>4. CurrentScope(Prefix(i)) <= CurrentScope(log)
  <2>1. CASE CurrentScope(Prefix(i)) = 0
    BY <2>1, <1>3
  <2>2. CASE CurrentScope(Prefix(i)) # 0
    <3>1. CurrentScope(Prefix(i)) \in 1 .. i /\ CurrentScope(Prefix(i)) \in DOMAIN log
      BY <1>2, <2>2 DEF TypeOK
    <3>2. QED
      BY <3>1, <1>1, <1>2, <1>3, <2>2
  <2>3. QED BY <2>1, <2>2
<1> QED
  BY <1>1, <1>2, <1>3, <1>4

\* A follower of the event stream misses no active event and is sent none twice,
\* across appends and resets of any number (main.py 120-147).
LEMMA FollowersHold == TypeOK => FollowersMissNothing
<1> SUFFICES ASSUME TypeOK, NEW c \in CaseIds, NEW i \in 0 .. Len(log)
             PROVE  LET sent   == SentBy(i, c)
                        cursor == CursorAfter(sent, 0)
                        later  == EventsForCase(c, CurrentScope(log), cursor)
                    IN  /\ ActiveRows(log, c) \subseteq sent \cup later
                        /\ sent \cap later = {}
  BY DEF FollowersMissNothing
<1> DEFINE sent   == SentBy(i, c)
           cursor == CursorAfter(sent, 0)
           before == CurrentScope(Prefix(i))
           now    == CurrentScope(log)
<1>1. /\ before \in 0 .. i /\ now \in 0 .. Len(log) /\ before <= now
      /\ i \in Nat /\ DOMAIN log = 1 .. Len(log) /\ Len(log) \in Nat
  BY PrefixScope DEF TypeOK
<1> HIDE DEF before, now
<1>2. sent = {k \in 1 .. i : k > before /\ log[k].case_id = c}
  BY DEF SentBy, before
<1>3. cursor \in 0 .. i /\ \A k \in sent : k <= cursor
  <2>1. CASE sent = {}
    BY <2>1, <1>1 DEF CursorAfter
  <2>2. CASE sent # {}
    <3>1. sent \in SUBSET (0 .. i)
      BY <1>1, <1>2
    <3>2. Max(sent) \in sent /\ \A k \in sent : k <= Max(sent)
      BY <1>1, <2>2, <3>1, MaxOfBounded
    <3>3. cursor = Max(sent)
      BY <2>2 DEF CursorAfter
    <3> HIDE DEF sent, cursor
    <3>4. QED
      BY <3>1, <3>2, <3>3
  <2>3. QED BY <2>1, <2>2
<1> HIDE DEF sent, cursor
<1>4. ActiveRows(log, c) = {k \in DOMAIN log : k > now /\ log[k].case_id = c}
  BY DEF ActiveRows, now
<1>5. EventsForCase(c, now, cursor)
          = {k \in DOMAIN log : k > now /\ k > cursor /\ log[k].case_id = c}
  BY DEF EventsForCase
<1>6. ActiveRows(log, c) \subseteq sent \cup EventsForCase(c, now, cursor)
  BY <1>1, <1>2, <1>3, <1>4, <1>5
<1>7. sent \cap EventsForCase(c, now, cursor) = {}
  BY <1>1, <1>2, <1>3, <1>5
<1> QED
  BY <1>6, <1>7 DEF sent, cursor, now

\* The last row of a case is the same past an earlier scope and past the current
\* one, and its first row past either is a row of the case.
LEMMA EndsOfCase ==
    ASSUME TypeOK, NEW c \in CaseIds, NEW before \in Nat, NEW now \in Nat,
           before <= now, EventsForCase(c, now, 0) # {}
    PROVE  LET old == EventsForCase(c, before, 0)
               new == EventsForCase(c, now, 0)
           IN  /\ new \subseteq old /\ Max(old) = Max(new)
               /\ Min(old) \in DOMAIN log /\ log[Min(old)].case_id = c
               /\ Min(new) \in DOMAIN log /\ log[Min(new)].case_id = c
<1> DEFINE old == EventsForCase(c, before, 0)
           new == EventsForCase(c, now, 0)
<1>1. DOMAIN log = 1 .. Len(log) /\ Len(log) \in Nat
  BY DEF TypeOK
<1>2. /\ new = {k \in DOMAIN log : k > now /\ k > 0 /\ log[k].case_id = c}
      /\ old = {k \in DOMAIN log : k > before /\ k > 0 /\ log[k].case_id = c}
  BY DEF EventsForCase
<1> HIDE DEF old, new
<1>3. /\ new \subseteq old /\ new # {} /\ old \in SUBSET (0 .. Len(log))
      /\ new \in SUBSET (0 .. Len(log)) /\ old # {}
  BY <1>1, <1>2 DEF new
<1>4. /\ Max(new) \in new /\ \A k \in new : k <= Max(new)
      /\ Max(old) \in old /\ \A k \in old : k <= Max(old)
  BY <1>1, <1>3, MaxOfBounded
<1>5. Max(old) \in new
  <2>1. PICK last \in new : last = Max(new)
    BY <1>4
  <2>2. last \in old /\ last \in Nat /\ last > now /\ now >= before
    BY <1>1, <1>2, <1>3
  <2>3. PICK top \in old : top = Max(old)
    BY <1>4
  <2>4. last <= top /\ top \in DOMAIN log /\ log[top].case_id = c
    BY <1>2, <1>4, <2>2, <2>3
  <2>5. top > now
    BY <1>1, <2>2, <2>4
  <2>6. QED BY <1>1, <1>2, <2>3, <2>4, <2>5
<1>6. Max(old) = Max(new)
  <2>1. PICK last \in new : last = Max(new)
    BY <1>4
  <2>2. PICK top \in new : top = Max(old)
    BY <1>5
  <2>3. top <= last /\ last <= top
    BY <1>3, <1>4, <2>1, <2>2
  <2>4. QED BY <1>1, <1>3, <2>1, <2>2, <2>3
<1>7. Min(old) \in old /\ Min(new) \in new
  <2>1. old \in SUBSET Nat /\ new \in SUBSET Nat
    BY <1>1, <1>3
  <2>2. QED BY <2>1, <1>3, MinOfNaturals
<1> QED
  BY <1>2, <1>3, <1>6, <1>7 DEF old, new

\* The guard does not start a command while a case of its asset is unresolved,
\* however many resets and cases come between its two reads; but for a display id
\* that stood for two assets (cli.py 33, store.py 312-345).
LEMMA GuardHolds == TypeOK => GuardIsSound
<1> SUFFICES ASSUME TypeOK, NEW asset \in Assets, NEW i \in 0 .. Len(log),
                    GuardStarts(asset, CurrentScope(Prefix(i))), NEW c \in CaseIds,
                    EventsForCase(c, CurrentScope(log), 0) # {},
                    Projectable(c, CurrentScope(log)),
                    IsUnresolved(c, asset, CurrentScope(log))
             PROVE  /\ i < Len(log) /\ CurrentScope(Prefix(i)) # CurrentScope(log)
                    /\ SharedByAssets(c)
  BY DEF GuardIsSound
<1> DEFINE before == CurrentScope(Prefix(i))
           now    == CurrentScope(log)
           old    == EventsForCase(c, before, 0)
           new    == EventsForCase(c, now, 0)
<1>1. before \in Nat /\ now \in Nat /\ before <= now /\ (i = Len(log) => before = now)
  BY PrefixScope DEF TypeOK
<1>2. /\ new \subseteq old /\ Max(old) = Max(new)
      /\ Min(old) \in DOMAIN log /\ log[Min(old)].case_id = c
      /\ Min(new) \in DOMAIN log /\ log[Min(new)].case_id = c
  BY <1>1, EndsOfCase
<1>3. c \in CasesSeen(before)
  <2>1. PICK k : k \in old
    BY <1>2
  <2>2. k \in DOMAIN log /\ k > before /\ log[k].case_id = c
    BY <2>1 DEF EventsForCase
  <2>3. QED BY <2>2, CaseIdsAssumption DEF CasesSeen
<1>4. Projectable(c, before) /\ ~IsUnresolved(c, asset, before)
  BY <1>3 DEF GuardStarts, BlockedAsset
<1>5. /\ AssetOf[log[Min(new)].payload.content] = asset
      /\ log[Max(new)].state # "RESOLVED"
      /\ log[Min(new)].event_type = "SCHEMA_CHANGE_DETECTED"
  BY DEF IsUnresolved, Projectable, Projected
<1>6. /\ log[Min(old)].event_type = "SCHEMA_CHANGE_DETECTED"
      /\ AssetOf[log[Min(old)].payload.content] # asset
  BY <1>2, <1>4, <1>5 DEF IsUnresolved, Projectable, Projected
<1>7. SharedByAssets(c)
  BY <1>2, <1>5, <1>6 DEF SharedByAssets
<1>8. before # now
  BY <1>5, <1>6
<1>9. i < Len(log)
  BY <1>1, <1>8 DEF TypeOK
<1> QED
  BY <1>7, <1>8, <1>9

\* In every reachable log the downstream guard is sound (cli.py 28-46).
THEOREM GuardAlwaysSound == Spec => []GuardIsSound
  BY GuardHolds, TypeCorrect, PTL

\* In every reachable log no follower of a case misses or repeats an event
\* (main.py 113-147).
THEOREM FollowersAlwaysServed == Spec => []FollowersMissNothing
  BY FollowersHold, TypeCorrect, PTL
===============================================================================
