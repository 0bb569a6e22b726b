----------------------------- MODULE StoreReaders -----------------------------
(***************************************************************************)
(* Those who only read the event store: the downstream guard of            *)
(* apps/api/cli.py and the followers of the server-sent event stream of    *)
(* apps/api/main.py.  They keep nothing in the store and hold no lock.  A  *)
(* query is two SELECTs, each on the log as it is at that moment: the      *)
(* current scope, then the rows past it.  The log only grows, so what a    *)
(* reader can have seen are prefixes of it, and every interleaving of a    *)
(* reader with writers is a choice of prefixes.                            *)
(***************************************************************************)
EXTENDS EventStore

CONSTANTS
    Assets,      \* urns of datasets
    AssetOf      \* the dataset each schema change is about

ASSUME AssetOfAssumption == AssetOf \in [Contents -> Assets]

Prefix(i) == SubSeq(log, 1, i)

\* events_for_case: the rows of a case past the given scope and cursor.  They
\* are read from the log as it is now, in the order of their sequence.
EventsForCase(c, scope, after) ==
    {k \in DOMAIN log : k > scope /\ k > after /\ log[k].case_id = c}

\* list_cases groups the rows past the scope by case.  project_case takes the
\* asset of the first row and the state of the last, and raises if the first is
\* no detection.
CasesSeen(scope) ==
    {log[k].case_id : k \in {n \in DOMAIN log : n > scope}} \ {SystemCase}
Projected(c, scope) ==
    LET rows == EventsForCase(c, scope, 0)
    IN  [first |-> log[Min(rows)], state |-> log[Max(rows)].state]
Projectable(c, scope) ==
    Projected(c, scope).first.event_type = "SCHEMA_CHANGE_DETECTED"
IsUnresolved(c, asset, scope) ==
    /\ AssetOf[Projected(c, scope).first.payload.content] = asset
    /\ Projected(c, scope).state # "RESOLVED"

\* Mutant of BlockedAsset: only a contained case blocks (contained_asset).
MutContainedAsset(asset, scope) ==
    \E c \in CasesSeen(scope) :
        IsUnresolved(c, asset, scope) /\ Projected(c, scope).state = "CONTAINED"

\* blocked_asset: an unresolved case of the asset, in any state.
BlockedAsset(asset, scope) ==
    \E c \in CasesSeen(scope) : IsUnresolved(c, asset, scope)

\* The guard of cli.py starts its command when every case can be projected and
\* none blocks the asset.  Its scope may be that of an earlier prefix.
GuardStarts(asset, scope) ==
    /\ \A c \in CasesSeen(scope) : Projectable(c, scope)
    /\ ~BlockedAsset(asset, scope)

\* Mutant of CursorAfter: the cursor counts the events delivered.
MutCursorCounts(delivered, cursor) == cursor + Cardinality(delivered)

\* case_events: the cursor is the sequence of the last event delivered; it goes
\* back to the server with the next read, or as Last-Event-ID of a reconnect.
CursorAfter(delivered, cursor) == IF delivered = {} THEN cursor ELSE Max(delivered)

\* What a follower has been sent by a read of an earlier prefix, from the start.
SentBy(i, c) ==
    {k \in 1 .. i : k > CurrentScope(Prefix(i)) /\ log[k].case_id = c}

-------------------------------------------------------------------------------
(***************************************************************************)
(* Properties.                                                             *)
(***************************************************************************)

\* A display id that, anywhere in the log, stood for drifts of two assets.
SharedByAssets(c) ==
    \E i, j \in DOMAIN log :
        /\ log[i].case_id = c /\ log[i].event_type = "SCHEMA_CHANGE_DETECTED"
        /\ log[j].case_id = c /\ log[j].event_type = "SCHEMA_CHANGE_DETECTED"
        /\ AssetOf[log[i].payload.content] # AssetOf[log[j].payload.content]

\* The guard never starts a command while a case of its asset is unresolved at
\* the moment the rows are read, even if any number of resets and new cases came
\* between its two SELECTs (cli.py 33-34, store.py 103-110, 359-372).  The one exception is a
\* display id whose lives before and after such a reset belong to two assets: the
\* projection then mixes the asset of one with the state of the other.
GuardIsSound ==
    \A asset \in Assets, i \in 0 .. Len(log) :
        GuardStarts(asset, CurrentScope(Prefix(i))) =>
            \A c \in CaseIds :
                LET now == CurrentScope(log) IN
                /\ EventsForCase(c, now, 0) # {}
                /\ Projectable(c, now)
                /\ IsUnresolved(c, asset, now)
                => i < Len(log) /\ CurrentScope(Prefix(i)) # now /\ SharedByAssets(c)

\* A follower that reads now with the cursor of an earlier read has been sent
\* every active event of its case exactly once, whatever was appended or reset
\* between the two reads (main.py 113-147).
FollowersMissNothing ==
    \A c \in CaseIds, i \in 0 .. Len(log) :
        LET sent   == SentBy(i, c)
            cursor == CursorAfter(sent, 0)
            later  == EventsForCase(c, CurrentScope(log), cursor)
        IN  /\ ActiveRows(log, c) \subseteq sent \cup later
            /\ sent \cap later = {}
===============================================================================
