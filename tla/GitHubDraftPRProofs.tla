------------------------- MODULE GitHubDraftPRProofs -------------------------
(***************************************************************************)
(* Proofs about GitHubDraftPR, for any patches and any number of mishaps   *)
(* and acts of other people.                                               *)
(***************************************************************************)
EXTENDS GitHubDraftPR, FiniteSetTheorems, TLAPS

\* What a step of a call can rely on: its patch and base are known, and a
\* created worktree is its own until it has been cleaned up.
CallInv ==
    /\ ~At("idle") => call.patch \in Patches
    /\ call.pc \notin {"idle", "fetch", "base", "cleanup", "answer"} =>
          call.base \in Commits
    /\ call.created /\ ~At("answer") =>
          local.by = "adapter" /\ local.branch \in Commits
    /\ call.pc \in {"commit", "push", "cleanup"} => call.created
    /\ call.pc \in {"idle", "fetch", "base", "orphan", "slot", "add", "undo"} =>
          ~call.created
    /\ call.pc \in {"list", "match"} /\ call.purpose = "reuse" => ~call.created
    /\ local.registered => local.by = "adapter"

\* Between the first look at the pull requests and gh pr create none is open.
LookedAt ==
    \/ call.pc \in {"orphan", "slot", "add", "commit", "push", "create"}
    \/ At("match") /\ call.purpose = "reuse" /\ call.found = {}
DraftInv ==
    /\ \A i, j \in OpenPRs : i = j
    /\ LookedAt => OpenPRs = {}

\* What is left of an attempt is still being worked on, or has a cause.
Cause == budget["crashes"] < Limits["crashes"] \/ budget["broken"] < Limits["broken"]
SlotInv ==
    /\ \A kind \in DOMAIN Limits : budget[kind] <= Limits[kind]
    /\ local.by = "adapter" =>
          \/ Cause
          \/ call.created /\ ~At("answer")
          \/ At("undo") /\ local.registered /\ local.branch = call.base

IInv == TypeOK /\ CallInv /\ DraftInv /\ SlotInv

\* None is no commit, no patch, no number and no tag.
LEMMA NoneFacts ==
    /\ None \notin Commits /\ None \notin Patches /\ None \notin Nat
    /\ None # "adapter" /\ None # "other"
    /\ None # "reuse" /\ None # "confirm" /\ None # "reconcile"
    /\ None # "SUCCEEDED" /\ None # "FAILED"
  BY NoneAssumption DEF Results

\* Commits are closed under the changes that are put on top of them.
LEMMA CommitFacts ==
    /\ \A n \in Nat : Commit(n, <<>>) \in Commits /\ Commit(n, <<Other>>) \in Commits
    /\ \A c \in Commits, x \in Changes : On(c, x) \in Commits
<1>1. \A n \in Nat : Commit(n, <<>>) \in Commits /\ Commit(n, <<Other>>) \in Commits
  BY DEF Commit, Commits, Changes
<1>2. ASSUME NEW c \in Commits, NEW x \in Changes PROVE On(c, x) \in Commits
  <2>1. Append(c.changes, x) \in Seq(Changes)
    BY DEF Commits
  <2> QED
    BY <2>1 DEF On, Commits
<1> QED
  BY <1>1, <1>2

\* A step of the call changes a few fields of its record.
LEMMA GotoFields ==
    ASSUME TypeOK, NEW step, Goto(step)
    PROVE  /\ call'.pc = step /\ call'.created = call.created
           /\ call'.patch = call.patch /\ call'.base = call.base
           /\ call'.purpose = call.purpose /\ call'.found = call.found
  BY DEF Goto, TypeOK, Calls

\* What the end of a call changes in its record.
LEMMA ConcludeFields ==
    ASSUME TypeOK, NEW result, NEW url, Conclude(result, url)
    PROVE  /\ call'.pc = IF call.created THEN "cleanup" ELSE "answer"
           /\ call'.created = call.created
           /\ call'.patch = call.patch /\ call'.base = call.base
           /\ call'.purpose = call.purpose /\ call'.found = {}
  BY DEF Conclude, TypeOK, Calls

\* What a failure changes in the record of a call.
LEMMA FailFields ==
    ASSUME TypeOK, Fail
    PROVE  /\ call'.pc = IF call.created THEN "cleanup" ELSE "answer"
           /\ call'.created = call.created
           /\ call'.patch = call.patch /\ call'.base = call.base
           /\ call'.purpose = call.purpose /\ call'.found = {}
  BY ConcludeFields DEF Fail

\* Cleaning up never makes a local branch anybody else's, and what it cannot
\* take away was spent from the budget of broken commands.
LEMMA CleanupFields ==
    ASSUME TypeOK, Cleanup
    PROVE  /\ local'.registered => local.registered /\ local'.by = local.by
           /\ local'.by \in {local.by, None}
           /\ (local' = NoLocal /\ UNCHANGED budget) \/ Spend("broken")
           /\ local'.branch \in {local.branch, None}
<1>1. CASE local' = NoLocal /\ UNCHANGED budget
  BY <1>1 DEF NoLocal
<1>2. CASE /\ Spend("broken")
           /\ local' \in { [local EXCEPT !.registered = FALSE, !.directory = FALSE],
                           [local EXCEPT !.directory = FALSE], local }
  BY <1>2 DEF TypeOK
<1> QED
  BY <1>1, <1>2 DEF Cleanup

\* What the url of the lookup makes of the call.
LEMMA ExistingFields ==
    ASSUME TypeOK, NEW url, Existing(url)
    PROVE  /\ \/ call'.pc = IF call.created THEN "cleanup" ELSE "answer"
              \/ call'.pc = "orphan" /\ call.purpose = "reuse" /\ url = None
           /\ call'.created = call.created
           /\ call'.patch = call.patch /\ call'.base = call.base
  BY GotoFields, ConcludeFields, FailFields DEF Existing

\* The local commands only ever work on what the attempt made itself.
LEMMA StepCall == TypeOK /\ CallInv /\ [Next]_vars => CallInv'
<1> SUFFICES ASSUME TypeOK /\ CallInv, [Next]_vars PROVE CallInv'
  OBVIOUS
<1> USE NoneAssumption DEF At, origin, steady, IdleCall, NoLocal, TypeOK, Calls, CallInv, Steps
<1>1. CASE Start
  BY <1>1 DEF Start
<1>2. CASE FetchBase
  BY <1>2 DEF FetchBase, Goto
<1>3. CASE ReadBase
  BY <1>3 DEF ReadBase
<1>4. CASE ListPRs
  BY <1>4 DEF ListPRs
<1>5. CASE MatchPRs
  <2>1. \/ Fail
        \/ \E url : Existing(url)
    BY <1>5 DEF MatchPRs
  <2> QED
    BY <1>5, <2>1, FailFields, ExistingFields DEF MatchPRs
<1>6. CASE CheckOrphan
  BY <1>6, GotoFields, FailFields DEF CheckOrphan
<1>7. CASE CheckSlot
  BY <1>7, GotoFields, FailFields DEF CheckSlot
<1>8. CASE AddWorktree
  <2>1. CASE Goto("undo")
    BY <1>8, <2>1, GotoFields DEF AddWorktree, Added
  <2>2. CASE /\ local' = Added(TRUE)
             /\ call' = [call EXCEPT !.pc = "commit", !.created = TRUE]
    <3>1. /\ call'.pc = "commit" /\ call'.patch = call.patch
          /\ call'.base = call.base /\ call.base \in Commits /\ call.patch \in Patches
      BY <1>8, <2>2 DEF AddWorktree
    <3>2. local'.by = "adapter" /\ local'.branch = call.base
      BY <2>2 DEF Added
    <3>3. call'.created = TRUE
      BY <2>2
    <3> QED
      BY <3>1, <3>2, <3>3
  <2> QED
    BY <1>8, <2>1, <2>2 DEF AddWorktree
<1>9. CASE CommitPatch
  <2>1. CASE Fail /\ UNCHANGED local
    BY <1>9, <2>1, FailFields DEF CommitPatch
  <2>2. CASE Goto("push") /\ local' = [local EXCEPT !.branch = On(@, call.patch)]
    <3>1. call.patch \in Changes /\ local.branch \in Commits /\ local.by = "adapter"
      BY <1>9 DEF CommitPatch, Changes
    <3>2. On(local.branch, call.patch) \in Commits
      BY <3>1, CommitFacts, Zenon
    <3> QED
      BY <1>9, <2>2, <3>1, <3>2, GotoFields DEF CommitPatch
  <2> QED
    BY <1>9, <2>1, <2>2 DEF CommitPatch
<1>10. CASE PushBranch
  BY <1>10, GotoFields, FailFields DEF PushBranch
<1>11. CASE CreatePR
  <2>1. PICK url :
          \/ call' = [call EXCEPT !.pc = "list", !.purpose = "confirm", !.url = url]
          \/ call' = [call EXCEPT !.pc = "list", !.purpose = "reconcile"]
    BY <1>11 DEF CreatePR
  <2>2. /\ call'.pc = "list" /\ call'.created = call.created
        /\ call'.patch = call.patch /\ call'.base = call.base
        /\ call'.purpose \in {"confirm", "reconcile"}
    <3>1. CASE call' = [call EXCEPT !.pc = "list", !.purpose = "confirm", !.url = url]
      BY <3>1
    <3>2. CASE call' = [call EXCEPT !.pc = "list", !.purpose = "reconcile"]
      BY <3>2
    <3> QED
      BY <2>1, <3>1, <3>2
  <2>3. At("create") /\ UNCHANGED local
    BY <1>11 DEF CreatePR
  <2> QED
    BY <2>2, <2>3
<1>12. CASE CleanupWorktree
  BY <1>12, GotoFields, CleanupFields DEF CleanupWorktree
<1>13. CASE Undo
  BY <1>13, FailFields, CleanupFields DEF Undo
<1>14. CASE Return
  BY <1>14 DEF Return
<1>15. CASE Fault
  BY <1>15, GotoFields, FailFields DEF Fault
<1>16. CASE Crash
  <2>1. CASE local' \in {Added(TRUE), Added(FALSE)}
    BY <1>16, <2>1 DEF Crash, Added
  <2>2. CASE local' \in {local, [local EXCEPT !.registered = FALSE, !.directory = FALSE]}
    BY <1>16, <2>2 DEF Crash
  <2> QED
    BY <1>16, <2>1, <2>2 DEF Crash
<1>17. CASE OthersPush
  BY <1>17 DEF OthersPush, Interfere, Spend, On, Commit
<1>18. CASE OthersDeleteBranch
  BY <1>18 DEF OthersDeleteBranch, Interfere, Spend
<1>19. CASE OthersMoveBase
  BY <1>19 DEF OthersMoveBase, Spend
<1>20. CASE OthersTakeSlot
  BY <1>20 DEF OthersTakeSlot, Spend, Tip, Commit
<1>21. CASE OthersFetch
  BY <1>21 DEF OthersFetch, Spend, Commit
<1>22. ASSUME NEW i \in DOMAIN prs, NEW status \in {"ready", "closed", "merged"}, Review(i, status)
      PROVE  CallInv'
  BY <1>22 DEF Review, Interfere, Spend
<1>23. ASSUME NEW i \in DOMAIN prs, GitHubFollowsBranch(i)
      PROVE  CallInv'
  BY <1>23 DEF GitHubFollowsBranch
<1>24. ASSUME NEW p \in Patches, NextLife(p)
      PROVE  CallInv'
  BY <1>24 DEF NextLife, Spend
<1>25. CASE UNCHANGED vars
  BY <1>25 DEF vars
<1> HIDE DEF At, origin, steady, IdleCall, NoLocal, TypeOK, Calls, CallInv, Steps
<1> QED
  BY <1>1, <1>2, <1>3, <1>4, <1>5, <1>6, <1>7, <1>8, <1>9, <1>10, <1>11, <1>12,
     <1>13, <1>14, <1>15, <1>16, <1>17, <1>18, <1>19, <1>20, <1>21, <1>22, <1>23, <1>24, <1>25 DEF Next, Step

\* Who moves what: a step leaves each part of the state alone unless it is one of
\* the few that are about it.
LEMMA WhoMovesLocal ==
    ASSUME Next
    PROVE  \/ UNCHANGED local
           \/ AddWorktree \/ CommitPatch \/ CleanupWorktree \/ Undo \/ Crash
           \/ OthersTakeSlot
  BY DEF Next, Step, origin, steady, Interfere, Start, FetchBase, ReadBase, ListPRs,
     MatchPRs, CheckOrphan, CheckSlot, PushBranch, CreatePR, Return, Fault,
     OthersPush, OthersDeleteBranch, OthersMoveBase, OthersFetch, Review,
     GitHubFollowsBranch, NextLife

\* The actions that touch pull requests.
LEMMA WhoMovesPRs ==
    ASSUME Next
    PROVE  \/ UNCHANGED prs
           \/ CreatePR \/ OthersDeleteBranch
           \/ \E i \in DOMAIN prs :
                 \/ \E status \in {"ready", "closed", "merged"} : Review(i, status)
                 \/ GitHubFollowsBranch(i)
  BY DEF Next, Step, origin, steady, Interfere, Start, FetchBase, ReadBase, ListPRs,
     MatchPRs, CheckOrphan, CheckSlot, AddWorktree, CommitPatch, PushBranch,
     CleanupWorktree, Undo, Return, Fault, Crash, OthersPush, OthersMoveBase,
     OthersTakeSlot, OthersFetch, NextLife

\* The actions that touch the branch at the origin.
LEMMA WhoMovesBranch ==
    ASSUME Next
    PROVE  UNCHANGED branch \/ PushBranch \/ OthersPush \/ OthersDeleteBranch
  BY DEF Next, Step, origin, steady, Interfere, Start, FetchBase, ReadBase, ListPRs,
     MatchPRs, CheckOrphan, CheckSlot, AddWorktree, CommitPatch, CreatePR,
     CleanupWorktree, Undo, Return, Fault, Crash, OthersMoveBase, OthersTakeSlot,
     OthersFetch, Review, GitHubFollowsBranch, NextLife

\* The actions that touch FETCH_HEAD.
LEMMA WhoMovesFetchHead ==
    ASSUME Next
    PROVE  UNCHANGED fetch_head \/ FetchBase \/ MatchPRs \/ CheckOrphan \/ OthersFetch
  BY DEF Next, Step, origin, steady, Interfere, Start, ReadBase, ListPRs, CheckSlot,
     AddWorktree, CommitPatch, PushBranch, CreatePR, CleanupWorktree, Undo, Return,
     Fault, Crash, OthersPush, OthersDeleteBranch, OthersMoveBase, OthersTakeSlot,
     Review, GitHubFollowsBranch, NextLife

\* The actions that touch the base branch.
LEMMA WhoMovesBase ==
    ASSUME Next
    PROVE  \/ UNCHANGED base \/ OthersMoveBase
           \/ \E i \in DOMAIN prs :
                 \E status \in {"ready", "closed", "merged"} : Review(i, status)
  BY DEF Next, Step, origin, steady, Interfere, Start, FetchBase, ReadBase, ListPRs,
     MatchPRs, CheckOrphan, CheckSlot, AddWorktree, CommitPatch, PushBranch,
     CreatePR, CleanupWorktree, Undo, Return, Fault, Crash, OthersPush,
     OthersDeleteBranch, OthersTakeSlot, OthersFetch, GitHubFollowsBranch, NextLife

\* Every mishap and every act of others has its price.
Kinds == {"faults", "broken", "crashes", "others", "fetches", "lives"}
\* The actions that spend of the budget of mishaps.
LEMMA WhoSpends ==
    ASSUME Next
    PROVE  UNCHANGED budget \/ \E kind \in Kinds : Spend(kind)
<1>1. CASE Step
  BY <1>1 DEF Step, Start, FetchBase, ReadBase, ListPRs, MatchPRs, CheckOrphan, CheckSlot,
     AddWorktree, CommitPatch, PushBranch, CreatePR, CleanupWorktree, Undo, Cleanup,
     Return, Kinds
<1>2. CASE Start \/ Fault \/ Crash
  BY <1>2 DEF Start, Fault, Crash, Kinds
<1>3. CASE OthersPush \/ OthersDeleteBranch \/ OthersMoveBase \/ OthersTakeSlot \/ OthersFetch
  BY <1>3 DEF OthersPush, OthersDeleteBranch, OthersMoveBase, OthersTakeSlot, OthersFetch,
     Interfere, Kinds
<1>4. ASSUME NEW i \in DOMAIN prs, NEW status, Review(i, status) \/ GitHubFollowsBranch(i)
      PROVE  UNCHANGED budget \/ \E kind \in Kinds : Spend(kind)
  BY <1>4 DEF Review, GitHubFollowsBranch, Interfere, Kinds
<1>5. ASSUME NEW p, NextLife(p) PROVE \E kind \in Kinds : Spend(kind)
  BY <1>5 DEF NextLife, Kinds
<1> QED
  BY <1>1, <1>2, <1>3, <1>4, <1>5 DEF Next

\* The budget keeps its type.
LEMMA SpendType ==
    ASSUME budget \in [DOMAIN Limits -> Nat], NEW kind \in Kinds, Spend(kind)
    PROVE  /\ budget' \in [DOMAIN Limits -> Nat]
           /\ budget'[kind] = budget[kind] - 1 /\ kind \in DOMAIN Limits
           /\ \A k \in DOMAIN Limits : budget'[k] <= budget[k]
<1>1. kind \in DOMAIN Limits
  BY LimitsAssumption DEF Kinds
<1> QED
  BY <1>1 DEF Spend

\* Every step keeps the type of the budget.
LEMMA StepBudget ==
    ASSUME TypeOK, [Next]_vars
    PROVE  /\ budget' \in [DOMAIN Limits -> Nat]
           /\ \A k \in DOMAIN Limits : budget'[k] <= budget[k]
<1>1. budget \in [DOMAIN Limits -> Nat]
  BY DEF TypeOK
<1>2. CASE UNCHANGED budget
  BY <1>1, <1>2
<1>3. CASE \E kind \in Kinds : Spend(kind)
  BY <1>1, <1>3, SpendType
<1> QED
  BY <1>2, <1>3, WhoSpends DEF vars

\* The checkout: its branch is a commit, made by the adapter or by somebody else.
Slots == [branch : Commits \cup {None}, by : {"adapter", "other", None},
          registered : BOOLEAN, directory : BOOLEAN]

\* Every step keeps the type of the checkout.
LEMMA StepLocal ==
    ASSUME TypeOK, CallInv, [Next]_vars
    PROVE  local' \in Slots
<1>1. local \in Slots
  BY DEF TypeOK, Slots
<1>2. CASE UNCHANGED local
  BY <1>1, <1>2
<1>3. CASE \E registered \in BOOLEAN : call.base \in Commits /\ local' = Added(registered)
  BY <1>3 DEF Added, Slots
<1>4. CASE CommitPatch
  <2>1. CASE local' = [local EXCEPT !.branch = On(@, call.patch)]
    <3>1. local.branch \in Commits /\ call.patch \in Changes
      BY <1>4 DEF CommitPatch, CallInv, At, Changes
    <3>2. On(local.branch, call.patch) \in Commits
      BY <3>1, CommitFacts, Zenon
    <3> QED
      BY <1>1, <2>1, <3>2 DEF Slots
  <2> QED
    BY <1>2, <1>4, <2>1 DEF CommitPatch
<1>5. CASE local' \in {NoLocal, [local EXCEPT !.registered = FALSE, !.directory = FALSE],
                       [local EXCEPT !.directory = FALSE]}
  <2>1. NoLocal \in Slots
    BY DEF NoLocal, Slots
  <2>2. [local EXCEPT !.registered = FALSE, !.directory = FALSE] \in Slots
    BY <1>1 DEF Slots
  <2>3. [local EXCEPT !.directory = FALSE] \in Slots
    BY <1>1 DEF Slots
  <2> QED
    BY <1>5, <2>1, <2>2, <2>3
<1>6. CASE OthersTakeSlot
  <2>1. Tip \in Commits
    BY CommitFacts DEF TypeOK, Tip
  <2> QED
    BY <1>6, <2>1 DEF OthersTakeSlot, NoLocal, Slots
<1>7. CASE AddWorktree \/ Crash
  <2>1. At("add") => call.base \in Commits
    BY DEF At, CallInv
  <2> QED
    BY <1>2, <1>3, <1>5, <1>7, <2>1 DEF AddWorktree, Crash
<1>8. CASE CleanupWorktree \/ Undo
  BY <1>2, <1>5, <1>8 DEF CleanupWorktree, Undo, Cleanup
<1> QED
  BY <1>2, <1>4, <1>6, <1>7, <1>8, WhoMovesLocal DEF vars

\* The origin: the base branch only grows, the tip of the case's branch is a commit.
LEMMA StepOrigin ==
    ASSUME TypeOK, CallInv, [Next]_vars
    PROVE  base' \in Nat /\ branch' \in Commits \cup {None}
<1>1. base' \in Nat
  <2>1. UNCHANGED base \/ base' = base + 1
    BY WhoMovesBase DEF vars, origin, OthersMoveBase, Review
  <2> QED
    BY <2>1 DEF TypeOK
<1>2. CASE PushBranch
  <2>1. local.branch \in Commits
    BY <1>2 DEF PushBranch, CallInv, At
  <2> QED
    BY <1>1, <1>2, <2>1 DEF PushBranch, TypeOK
<1>3. CASE OthersPush
  <2>1. Commit(base, <<Other>>) \in Commits
    BY CommitFacts DEF TypeOK
  <2>2. branch # None => On(branch, Other) \in Commits
    BY CommitFacts, Zenon DEF TypeOK, Changes
  <2> QED
    BY <1>1, <1>3, <2>1, <2>2 DEF OthersPush
<1>4. CASE OthersDeleteBranch
  BY <1>1, <1>4 DEF OthersDeleteBranch
<1> QED
  BY <1>1, <1>2, <1>3, <1>4, WhoMovesBranch DEF vars, origin, TypeOK

\* FETCH_HEAD is what was fetched last.
LEMMA StepFetchHead ==
    ASSUME TypeOK, [Next]_vars
    PROVE  fetch_head' \in Commits
<1>1. Tip \in Commits /\ Commit(base, <<Other>>) \in Commits
  BY CommitFacts DEF TypeOK, Tip
<1>2. CASE FetchBase
  BY <1>1, <1>2 DEF FetchBase
<1>3. CASE MatchPRs \/ CheckOrphan
  BY <1>3 DEF MatchPRs, CheckOrphan, TypeOK
<1>4. CASE OthersFetch
  BY <1>1, <1>4 DEF OthersFetch
<1> QED
  BY <1>2, <1>3, <1>4, WhoMovesFetchHead DEF vars, TypeOK

\* The pull requests: only create opens one, and a listed one is never forgotten.
LEMMA StepPRs ==
    ASSUME TypeOK, [Next]_vars
    PROVE  /\ prs' \in Seq(PRs)
           /\ DOMAIN prs \subseteq DOMAIN prs'
           /\ \/ OpenPRs' \subseteq OpenPRs
              \/ /\ CreatePR /\ Len(prs') = Len(prs) + 1
                 /\ OpenPRs' = OpenPRs \cup {Len(prs')}
<1>1. prs \in Seq(PRs)
  BY DEF TypeOK
<1>2. CASE UNCHANGED prs
  BY <1>1, <1>2 DEF OpenPRs, Open
<1>3. CASE CreatePR
  <2>1. CASE branch # None /\ prs' = Append(prs, [status |-> "draft", head |-> branch])
    <3> DEFINE pr == [status |-> "draft", head |-> branch]
    <3>1. pr \in PRs
      BY <2>1 DEF TypeOK, PRs
    <3>2. /\ prs' \in Seq(PRs) /\ Len(prs') = Len(prs) + 1
          /\ prs'[Len(prs')] = pr
          /\ \A i \in DOMAIN prs : prs'[i] = prs[i]
          /\ DOMAIN prs' = DOMAIN prs \cup {Len(prs')}
      <4> HIDE DEF pr
      <4> QED
        BY <1>1, <2>1, <3>1 DEF pr
    <3>3. OpenPRs' = OpenPRs \cup {Len(prs')}
      BY <3>2 DEF OpenPRs, Open
    <3> QED
      BY <1>3, <3>2, <3>3
  <2> QED
    BY <1>2, <1>3, <2>1 DEF CreatePR
<1>4. CASE OthersDeleteBranch
  <2> DEFINE pr(i) == IF Open(i) THEN [prs[i] EXCEPT !.status = "closed"] ELSE prs[i]
  <2>1. \A i \in DOMAIN prs : prs[i] \in PRs
    BY <1>1
  <2>2. \A i \in DOMAIN prs : pr(i) \in PRs /\ pr(i).status \in {prs[i].status, "closed"}
    BY <2>1 DEF PRs
  <2>3. prs' = [i \in 1..Len(prs) |-> pr(i)]
    BY <1>1, <1>4 DEF OthersDeleteBranch
  <2> HIDE DEF pr
  <2>4. prs' \in Seq(PRs) /\ DOMAIN prs' = DOMAIN prs /\ \A i \in DOMAIN prs : prs'[i] = pr(i)
    BY <1>1, <2>2, <2>3
  <2> QED
    BY <2>2, <2>4 DEF OpenPRs, Open
<1>5. ASSUME NEW i \in DOMAIN prs, NEW status \in {"ready", "closed", "merged"}, Review(i, status)
      PROVE  prs' \in Seq(PRs) /\ DOMAIN prs' = DOMAIN prs /\ OpenPRs' \subseteq OpenPRs
  <2>1. prs[i] \in PRs
    BY <1>1
  <2>2. [prs[i] EXCEPT !.status = status] \in PRs
    BY <2>1 DEF PRs
  <2>3. /\ prs' \in Seq(PRs) /\ DOMAIN prs' = DOMAIN prs
        /\ \A j \in DOMAIN prs : j # i => prs'[j] = prs[j]
    BY <1>1, <1>5, <2>2 DEF Review
  <2> QED
    BY <1>5, <2>3 DEF OpenPRs, Open, Review
<1>6. ASSUME NEW i \in DOMAIN prs, GitHubFollowsBranch(i)
      PROVE  prs' \in Seq(PRs) /\ DOMAIN prs' = DOMAIN prs /\ OpenPRs' \subseteq OpenPRs
  <2>1. prs[i] \in PRs /\ branch \in Commits
    BY <1>1, <1>6 DEF GitHubFollowsBranch, TypeOK
  <2>2. [prs[i] EXCEPT !.head = branch] \in PRs
    BY <2>1 DEF PRs
  <2>3. /\ prs' \in Seq(PRs) /\ DOMAIN prs' = DOMAIN prs
        /\ \A j \in DOMAIN prs : j # i => prs'[j] = prs[j]
    BY <1>1, <1>6, <2>2 DEF GitHubFollowsBranch
  <2> QED
    BY <1>6, <2>3 DEF OpenPRs, Open, GitHubFollowsBranch
<1> QED
  BY <1>2, <1>3, <1>4, <1>5, <1>6, WhoMovesPRs DEF vars, origin

\* What a step makes of the record of the call is again the record of a call.
LEMMA CallMoves ==
    ASSUME TypeOK, DOMAIN prs \subseteq DOMAIN prs'
    PROVE  /\ call \in Calls' /\ IdleCall \in Calls'
           /\ \A step \in Steps : Goto(step) => call' \in Calls'
           /\ \A result \in Results, url \in DOMAIN prs \cup {None} :
                 Conclude(result, url) => call' \in Calls'
           /\ Fail => call' \in Calls'
<1>1. call \in Calls'
  <2>1. Calls \subseteq Calls'
    BY DEF Calls
  <2> QED
    BY <2>1 DEF TypeOK
<1>2. IdleCall \in Calls'
  BY DEF IdleCall, Calls, Steps
<1>3. ASSUME NEW step \in Steps, Goto(step) PROVE call' \in Calls'
  BY <1>1, <1>3 DEF Goto, Calls
<1>4. ASSUME NEW result \in Results, NEW url \in DOMAIN prs \cup {None}, Conclude(result, url)
      PROVE  call' \in Calls'
  <2>1. {"cleanup", "answer"} \subseteq Steps /\ url \in DOMAIN prs' \cup {None}
    BY DEF Steps
  <2> QED
    BY <1>1, <1>4, <2>1 DEF Conclude, Calls
<1>5. ASSUME Fail PROVE call' \in Calls'
  BY <1>4, <1>5 DEF Fail, Results
<1> QED
  BY <1>1, <1>2, <1>3, <1>4, <1>5

\* The lookup hands on nothing but a listed pull request.
LEMMA ExistingType ==
    ASSUME TypeOK, DOMAIN prs \subseteq DOMAIN prs',
           NEW url \in DOMAIN prs \cup {None}, Existing(url)
    PROVE  call' \in Calls'
<1>1. "orphan" \in Steps /\ "SUCCEEDED" \in Results
  BY DEF Steps, Results
<1> QED
  BY <1>1, CallMoves, Zenon DEF Existing

\* Every step keeps the call well-typed.
LEMMA StepCallType ==
    ASSUME TypeOK, CallInv, [Next]_vars
    PROVE  call' \in Calls'
<1>1. DOMAIN prs \subseteq DOMAIN prs'
  BY StepPRs
<1>2. call \in Calls'
  BY <1>1, CallMoves
<1>3. CASE UNCHANGED call
  BY <1>2, <1>3
<1>4. CASE \E step \in Steps : Goto(step)
  BY <1>1, <1>4, CallMoves
<1>5. CASE Fail
  BY <1>1, <1>5, CallMoves
<1>6. CASE Start
  BY <1>6 DEF Start, IdleCall, Calls, Steps, TypeOK
<1>7. CASE ReadBase
  <2>1. call' = [call EXCEPT !.pc = "list", !.base = fetch_head, !.purpose = "reuse"]
        /\ fetch_head \in Commits
    BY <1>7 DEF ReadBase, TypeOK
  <2> QED
    BY <1>2, <2>1 DEF Calls, Steps
<1>8. CASE ListPRs
  <2> DEFINE found == {[url |-> i, pr |-> prs[i]] : i \in OpenPRs}
  <2>1. found \in SUBSET [url : DOMAIN prs', pr : PRs]
    <3>1. \A i \in DOMAIN prs : prs[i] \in PRs
      BY DEF TypeOK
    <3> QED
      BY <1>1, <3>1 DEF OpenPRs
  <2>2. call' = [call EXCEPT !.pc = "match", !.found = found]
    BY <1>8 DEF ListPRs
  <2> HIDE DEF found
  <2> QED
    BY <1>2, <2>1, <2>2 DEF Calls, Steps
<1>9. CASE MatchPRs
  <2>1. ASSUME NEW f \in call.found PROVE f.url \in DOMAIN prs
    BY DEF TypeOK, Calls
  <2>2. \/ Fail
        \/ \E url \in DOMAIN prs \cup {None} : Existing(url)
    BY <1>9, <2>1 DEF MatchPRs
  <2> QED
    BY <1>1, <1>5, <2>2, ExistingType
<1>10. CASE AddWorktree
  <2>1. CASE call' = [call EXCEPT !.pc = "commit", !.created = TRUE]
    BY <1>2, <2>1 DEF Calls, Steps
  <2>2. CASE Goto("undo")
    BY <1>4, <2>2 DEF Steps
  <2> QED
    BY <1>10, <2>1, <2>2 DEF AddWorktree
<1>11. CASE CreatePR
  <2>1. CASE call' = [call EXCEPT !.pc = "list", !.purpose = "reconcile"]
    BY <1>2, <2>1 DEF Calls, Steps
  <2>2. CASE /\ prs' = Append(prs, [status |-> "draft", head |-> branch])
             /\ call' = [call EXCEPT !.pc = "list", !.purpose = "confirm", !.url = Len(prs')]
    <3>1. Len(prs') \in DOMAIN prs'
      <4> DEFINE pr == [status |-> "draft", head |-> branch]
      <4>1. prs' = Append(prs, pr) /\ prs \in Seq(PRs)
        BY <2>2 DEF TypeOK
      <4> HIDE DEF pr
      <4> QED
        BY <4>1
    <3> DEFINE n == Len(prs')
    <3>2. n \in DOMAIN prs' /\ call' = [call EXCEPT !.pc = "list", !.purpose = "confirm", !.url = n]
      BY <2>2, <3>1
    <3> HIDE DEF n
    <3> QED
      BY <1>2, <3>2 DEF Calls, Steps
  <2> QED
    BY <1>11, <2>1, <2>2 DEF CreatePR
<1>12. CASE Return
  <2>1. call.patch \in Patches \cup {None} /\ call.url \in DOMAIN prs' \cup {None}
    BY <1>2 DEF Calls, TypeOK
  <2>2. IdleCall \in Calls'
    BY <1>1, CallMoves
  <2> QED
    BY <1>12, <2>1, <2>2 DEF Return, Calls
<1>13. CASE FetchBase \/ CheckSlot \/ PushBranch \/ CommitPatch \/ CleanupWorktree \/ CheckOrphan
            \/ Fault \/ Undo
  BY <1>4, <1>5, <1>13 DEF FetchBase, CheckSlot, PushBranch, CommitPatch, CleanupWorktree, CheckOrphan,
     Fault, Undo, Steps
<1>14. CASE Crash
  BY <1>1, <1>14, CallMoves DEF Crash
<1>15. CASE OthersPush \/ OthersDeleteBranch \/ OthersMoveBase \/ OthersTakeSlot \/ OthersFetch
  BY <1>3, <1>15 DEF OthersPush, OthersDeleteBranch, OthersMoveBase, OthersTakeSlot, OthersFetch,
     Interfere
<1>16. ASSUME NEW i \in DOMAIN prs, NEW status, Review(i, status) \/ GitHubFollowsBranch(i)
       PROVE  UNCHANGED call
  BY <1>16 DEF Review, GitHubFollowsBranch, Interfere
<1>17. ASSUME NEW p, NextLife(p) PROVE UNCHANGED call
  BY <1>17 DEF NextLife
<1>18. CASE UNCHANGED vars
  BY <1>3, <1>18 DEF vars
<1> QED
  BY <1>3, <1>6, <1>7, <1>8, <1>9, <1>10, <1>11, <1>12, <1>13, <1>14, <1>15, <1>16, <1>17, <1>18 DEF Next, Step

\* Every step keeps the types.
LEMMA StepType ==
    ASSUME TypeOK, CallInv, [Next]_vars
    PROVE  TypeOK'
<1>1. patch' \in Patches /\ touched' \in BOOLEAN
  <2>1. CASE Step
    BY <2>1 DEF Step, FetchBase, ReadBase, ListPRs, MatchPRs, CheckOrphan, CheckSlot,
       AddWorktree, CommitPatch, PushBranch, CreatePR, CleanupWorktree, Undo, Return, steady, TypeOK
  <2>2. CASE Start \/ Fault \/ Crash \/ UNCHANGED vars
    BY <2>2 DEF Start, Fault, Crash, steady, vars, TypeOK
  <2>3. CASE OthersPush \/ OthersDeleteBranch \/ OthersMoveBase \/ OthersTakeSlot \/ OthersFetch
    BY <2>3 DEF OthersPush, OthersDeleteBranch, OthersMoveBase, OthersTakeSlot, OthersFetch,
       Interfere, steady, TypeOK
  <2>4. ASSUME NEW i \in DOMAIN prs, NEW status, Review(i, status) \/ GitHubFollowsBranch(i)
        PROVE  patch' \in Patches /\ touched' \in BOOLEAN
    BY <2>4 DEF Review, GitHubFollowsBranch, Interfere, steady, TypeOK
  <2>5. ASSUME NEW p \in Patches, NextLife(p) PROVE patch' \in Patches /\ touched' \in BOOLEAN
    BY <2>5 DEF NextLife, TypeOK
  <2> QED
    BY <2>1, <2>2, <2>3, <2>4, <2>5 DEF Next
<1>2. answer' \in Results \cup {None}
  <2>1. CASE Return
    BY <2>1 DEF Return, TypeOK, Calls
  <2>2. CASE Crash
    BY <2>2 DEF Crash
  <2>3. CASE ~Return /\ ~Crash
    <3>1. UNCHANGED answer
      BY <2>3 DEF Next, Step, Start, FetchBase, ReadBase, ListPRs, MatchPRs, CheckOrphan, CheckSlot,
         AddWorktree, CommitPatch, PushBranch, CreatePR, CleanupWorktree, Undo, Fault,
         OthersPush, OthersDeleteBranch, OthersMoveBase, OthersTakeSlot, OthersFetch,
         Interfere, Review, GitHubFollowsBranch, NextLife, vars
    <3> QED
      BY <3>1 DEF TypeOK
  <2> QED
    BY <2>1, <2>2, <2>3
<1> QED
  BY <1>1, <1>2, StepLocal, StepOrigin, StepFetchHead, StepPRs, StepBudget, StepCallType
     DEF TypeOK, Slots

\* A call comes to gh pr create only by way of a lookup that found nothing open.
LEMMA LooksFirst ==
    ASSUME TypeOK, [Next]_vars, LookedAt'
    PROVE  LookedAt \/ OpenPRs = {}
<1> USE DEF LookedAt, At
<1>1. CASE UNCHANGED call
  BY <1>1
<1>2. CASE ListPRs
  <2>1. call'.found = {[url |-> i, pr |-> prs[i]] : i \in OpenPRs} /\ call'.pc = "match"
    BY <1>2 DEF ListPRs, TypeOK, Calls
  <2>2. call'.found = {} => OpenPRs = {}
    BY <2>1
  <2> QED
    BY <2>1, <2>2
<1>3. CASE MatchPRs
  <2>1. ASSUME NEW f \in call.found PROVE f.url # None
    BY NoneFacts DEF TypeOK, Calls
  <2>2. CASE Fail
    BY <2>2, FailFields
  <2>3. CASE call.found = {} /\ Existing(None)
    BY <1>3, <2>3, ExistingFields DEF MatchPRs
  <2>4. CASE \E f \in call.found : Existing(f.url)
    BY <1>3, <2>1, <2>4, ExistingFields DEF MatchPRs
  <2> QED
    BY <1>3, <2>2, <2>3, <2>4 DEF MatchPRs
<1>4. CASE FetchBase \/ CleanupWorktree
  BY <1>4, GotoFields DEF FetchBase, CleanupWorktree
<1>5. CASE Undo \/ Fault
  BY <1>5, GotoFields, FailFields DEF Undo, Fault
<1>6. CASE CheckOrphan \/ CheckSlot \/ AddWorktree \/ CommitPatch \/ PushBranch \/ CreatePR
  BY <1>6 DEF CheckOrphan, CheckSlot, AddWorktree, CommitPatch, PushBranch, CreatePR
<1>7. CASE Start \/ ReadBase \/ Return \/ Crash
  <2>1. call'.pc \in {"fetch", "list", "idle"}
    <3>1. CASE Start
      BY <3>1 DEF Start, IdleCall
    <3>2. CASE ReadBase
      BY <3>2 DEF ReadBase, TypeOK, Calls
    <3>3. CASE Return
      BY <3>3 DEF Return, IdleCall
    <3>4. CASE Crash
      BY <3>4 DEF Crash, IdleCall
    <3> QED
      BY <1>7, <3>1, <3>2, <3>3, <3>4
  <2> QED
    BY <2>1
<1>8. CASE OthersPush \/ OthersDeleteBranch \/ OthersMoveBase \/ OthersTakeSlot \/ OthersFetch
  BY <1>1, <1>8 DEF OthersPush, OthersDeleteBranch, OthersMoveBase, OthersTakeSlot, OthersFetch,
     Interfere
<1>9. ASSUME NEW i \in DOMAIN prs, NEW status, Review(i, status) \/ GitHubFollowsBranch(i)
      PROVE  UNCHANGED call
  BY <1>9 DEF Review, GitHubFollowsBranch, Interfere
<1>10. ASSUME NEW p, NextLife(p) PROVE UNCHANGED call
  BY <1>10 DEF NextLife
<1>11. CASE UNCHANGED vars
  BY <1>1, <1>11 DEF vars
<1> QED
  BY <1>1, <1>2, <1>3, <1>4, <1>5, <1>6, <1>7, <1>8, <1>9, <1>10, <1>11 DEF Next, Step

\* So the one that create opens is the only one open.
LEMMA StepDraft ==
    ASSUME TypeOK, DraftInv, [Next]_vars
    PROVE  DraftInv'
<1>1. CASE OpenPRs' \subseteq OpenPRs
  BY <1>1, LooksFirst DEF DraftInv
<1>2. CASE CreatePR /\ OpenPRs' = OpenPRs \cup {Len(prs')}
  <2>1. OpenPRs = {}
    BY <1>2 DEF CreatePR, At, DraftInv, LookedAt
  <2>2. call'.pc = "list"
    BY <1>2 DEF CreatePR, TypeOK, Calls
  <2> QED
    BY <1>2, <2>1, <2>2 DEF DraftInv, LookedAt, At
<1> QED
  BY <1>1, <1>2, StepPRs

\* A cause stays one, and a crash or a broken command is one.
LEMMA CauseStays ==
    ASSUME TypeOK, SlotInv, [Next]_vars
    PROVE  /\ Cause \/ Spend("broken") \/ Spend("crashes") => Cause'
           /\ \A kind \in DOMAIN Limits : budget'[kind] <= Limits[kind]
<1>1. {"broken", "crashes"} \subseteq Kinds /\ {"broken", "crashes"} \subseteq DOMAIN Limits
  BY LimitsAssumption DEF Kinds
<1>2. /\ Limits \in [DOMAIN Limits -> Nat] /\ budget \in [DOMAIN Limits -> Nat]
      /\ budget' \in [DOMAIN Limits -> Nat]
      /\ \A kind \in DOMAIN Limits : budget'[kind] <= budget[kind] /\ budget[kind] <= Limits[kind]
  BY StepBudget, LimitsAssumption DEF TypeOK, SlotInv
<1>3. ASSUME NEW kind \in {"broken", "crashes"}, Spend(kind) PROVE budget'[kind] = budget[kind] - 1
  BY <1>1, <1>2, <1>3, SpendType
<1>4. ASSUME NEW kind \in DOMAIN Limits
      PROVE  /\ budget[kind] \in Nat /\ budget'[kind] \in Nat /\ Limits[kind] \in Nat
             /\ budget'[kind] <= budget[kind] /\ budget[kind] <= Limits[kind]
  BY <1>2
<1> QED
  BY <1>1, <1>3, <1>4 DEF Cause

\* What an attempt has made is taken away before the call answers, unless there
\* is a cause for leaving it.
LEMMA StepSlot ==
    ASSUME TypeOK, CallInv, SlotInv, [Next]_vars
    PROVE  SlotInv'
<1> DEFINE Held == \/ call.created /\ ~At("answer")
                   \/ At("undo") /\ local.registered /\ local.branch = call.base
<1>1. Cause => Cause'
  BY CauseStays
<1>2. SUFFICES ASSUME local'.by = "adapter", ~Cause' PROVE Held'
  BY CauseStays DEF SlotInv
<1>3. ~Spend("broken") /\ ~Spend("crashes") /\ ~Cause
  BY <1>2, CauseStays
<1>4. local.by = "adapter" => Held
  BY <1>3 DEF SlotInv
<1>5. CASE UNCHANGED <<local, call>>
  BY <1>2, <1>4, <1>5 DEF At
<1>6. ASSUME UNCHANGED local, \E step \in Steps \ {"answer"} : Goto(step), ~At("undo")
      PROVE  Held'
  BY <1>2, <1>4, <1>6, GotoFields DEF At
<1>7. ASSUME UNCHANGED local, Fail, ~At("undo") PROVE Held'
  BY <1>2, <1>4, <1>7, FailFields DEF At
<1>8. ASSUME Cleanup PROVE FALSE
  BY <1>2, <1>3, <1>8, NoneFacts DEF Cleanup, NoLocal
<1>9. CASE Start
  BY <1>2, <1>4, <1>9 DEF Start, At, CallInv
<1>10. CASE ReadBase \/ ListPRs \/ CreatePR
  <2>1. call'.created = call.created /\ call'.pc \in {"list", "match"} /\ UNCHANGED local /\ ~At("undo")
    BY <1>10 DEF ReadBase, ListPRs, CreatePR, At, TypeOK, Calls
  <2> QED
    BY <1>2, <1>4, <2>1 DEF At
<1>11. CASE MatchPRs
  <2>1. PICK url : Existing(url) \/ Fail
    BY <1>11 DEF MatchPRs
  <2>2. (call'.created = call.created /\ call'.pc # "answer") \/ ~call.created
    BY <2>1, ExistingFields, FailFields
  <2> QED
    BY <1>2, <1>4, <1>11, <2>1, <2>2, ExistingFields, FailFields DEF MatchPRs, At
<1>12. CASE AddWorktree
  <2>1. CASE local' = Added(TRUE) /\ call' = [call EXCEPT !.pc = "commit", !.created = TRUE]
    BY <2>1 DEF At, TypeOK, Calls
  <2>2. CASE local' = Added(TRUE) /\ Goto("undo")
    BY <2>2, GotoFields DEF At, Added
  <2>3. CASE UNCHANGED local
    BY <1>2, <1>4, <1>12, <2>3 DEF AddWorktree, At, CallInv
  <2> QED
    BY <1>3, <1>12, <2>1, <2>2, <2>3 DEF AddWorktree
<1>13. CASE CommitPatch
  <2>1. CASE Goto("push")
    BY <1>13, <2>1, GotoFields DEF CommitPatch, At, CallInv
  <2> QED
    BY <1>7, <1>13, <2>1 DEF CommitPatch, At
<1>14. CASE CleanupWorktree
  BY <1>8, <1>14 DEF CleanupWorktree
<1>15. CASE Undo
  BY <1>2, <1>4, <1>8, <1>15 DEF Undo, At, CallInv
<1>16. CASE Return
  BY <1>2, <1>4, <1>16 DEF Return, At
<1>17. CASE Fault
  <2>1. CASE At("add")
    BY <1>2, <1>4, <1>17, <2>1 DEF Fault, At, CallInv
  <2> QED
    BY <1>7, <1>17, <2>1 DEF Fault, At
<1>18. CASE Crash
  BY <1>3, <1>18 DEF Crash
<1>19. CASE FetchBase \/ CheckOrphan \/ CheckSlot \/ PushBranch
  BY <1>6, <1>7, <1>19 DEF FetchBase, CheckOrphan, CheckSlot, PushBranch, At, Steps
<1>20. CASE OthersTakeSlot
  BY <1>2, <1>20 DEF OthersTakeSlot, NoLocal
<1>21. CASE OthersPush \/ OthersDeleteBranch \/ OthersMoveBase \/ OthersFetch
  BY <1>5, <1>21 DEF OthersPush, OthersDeleteBranch, OthersMoveBase, OthersFetch, Interfere
<1>22. ASSUME NEW i \in DOMAIN prs, NEW status, Review(i, status) \/ GitHubFollowsBranch(i)
       PROVE  UNCHANGED <<local, call>>
  BY <1>22 DEF Review, GitHubFollowsBranch, Interfere
<1>23. ASSUME NEW p, NextLife(p) PROVE UNCHANGED <<local, call>>
  BY <1>23 DEF NextLife
<1>24. CASE UNCHANGED vars
  BY <1>5, <1>24 DEF vars
<1> HIDE DEF Held
<1> QED
  BY <1>5, <1>9, <1>10, <1>11, <1>12, <1>13, <1>14, <1>15, <1>16, <1>17, <1>18, <1>19, <1>20,
     <1>21, <1>22, <1>23, <1>24 DEF Next, Step

\* The initial states satisfy the invariant.
LEMMA InitHolds == Init => IInv
<1> SUFFICES ASSUME Init PROVE IInv
  OBVIOUS
<1>1. TypeOK
  <2>1. Tip \in Commits
    BY CommitFacts DEF Init, Tip
  <2>2. NoLocal \in Slots /\ prs \in Seq(PRs) /\ IdleCall \in Calls
    BY DEF Init, NoLocal, Slots, IdleCall, Calls, Steps
  <2> QED
    BY <2>1, <2>2, LimitsAssumption DEF Init, TypeOK, Slots
<1>2. CallInv
  BY DEF Init, CallInv, IdleCall, NoLocal, At
<1>3. OpenPRs = {}
  BY DEF Init, OpenPRs
<1>4. SlotInv
  <2>1. local.by # "adapter"
    BY NoneFacts DEF Init, NoLocal
  <2>2. \A kind \in DOMAIN Limits : budget[kind] \in Nat /\ budget[kind] = Limits[kind]
    BY LimitsAssumption DEF Init
  <2> QED
    BY <2>1, <2>2 DEF SlotInv
<1> QED
  BY <1>1, <1>2, <1>3, <1>4 DEF IInv, DraftInv

\* The inductive invariant holds in every behaviour.
THEOREM Inductive == Spec => []IInv
<1>1. IInv /\ [Next]_vars => IInv'
  BY StepType, StepCall, StepDraft, StepSlot DEF IInv
<1> QED
  BY <1>1, InitHolds, PTL DEF Spec

\* Every value the adapter, the repositories and GitHub can hold has its type.
THEOREM TypeCorrect == Spec => []TypeOK
<1>1. IInv => TypeOK
  BY DEF IInv
<1> QED
  BY <1>1, Inductive, PTL

\* github.py 144 sends a `gh pr create` that is not idempotent; since every way to
\* it goes through a lookup and a confirmation, no number of lost answers, crashes
\* and repeated calls makes it open a second pull request.
THEOREM NoSecondDraft == Spec => []OneOpenDraft
<1>1. IInv => OneOpenDraft
  <2> SUFFICES ASSUME IInv PROVE OneOpenDraft
    OBVIOUS
  <2>1. CASE OpenPRs = {}
    BY <2>1, FS_EmptySet DEF OneOpenDraft
  <2>2. ASSUME NEW i \in OpenPRs PROVE OneOpenDraft
    <3>1. OpenPRs = {i}
      BY <2>2 DEF IInv, DraftInv
    <3>2. Cardinality(OpenPRs) = 1
      BY <3>1, FS_Singleton, Zenon
    <3> QED
      BY <3>2 DEF OneOpenDraft
  <2> QED
    BY <2>1, <2>2
<1> QED
  BY <1>1, Inductive, PTL

\* create_draft never moves or deletes a local branch that somebody else made,
\* also not when it appears while the call is running.
THEOREM OthersWorkIsKept == Spec => OthersWorkPreserved
<1>1. IInv /\ [Next]_vars => [local.by = "other" => UNCHANGED local]_vars
  <2> SUFFICES ASSUME IInv, Next, local.by = "other" PROVE UNCHANGED local
    BY DEF vars
  <2>1. local # NoLocal /\ ~local.registered /\ (call.created => At("answer"))
    BY NoneFacts DEF NoLocal, IInv, CallInv
  <2>2. ~CommitPatch /\ ~CleanupWorktree
    BY <2>1 DEF CommitPatch, CleanupWorktree, IInv, CallInv, At
  <2>3. CASE AddWorktree \/ Undo \/ OthersTakeSlot
    BY <2>1, <2>3 DEF AddWorktree, Undo, OthersTakeSlot
  <2>4. CASE Crash
    <3>1. ~At("cleanup")
      BY <2>1 DEF At, IInv, CallInv
    <3> QED
      BY <2>1, <2>4, <3>1 DEF Crash
  <2> QED
    BY <2>2, <2>3, <2>4, WhoMovesLocal
<1> QED
  BY <1>1, Inductive, PTL DEF Spec, OthersWorkPreserved

\* The finally clause and the undo of a failed `git worktree add` leave nothing in
\* the checkout, unless the process died or a command was broken.
THEOREM LeftoversNeedACause == Spec => []LeftoversAreExplained
<1>1. IInv => LeftoversAreExplained
  BY DEF IInv, SlotInv, CallInv, Cause, LeftoversAreExplained, At
<1> QED
  BY <1>1, Inductive, PTL

-------------------------------------------------------------------------------
(***************************************************************************)
(* What a reported draft proposes.                                         *)
(***************************************************************************)
\* A commit of the base branch.
OnBase(commit) == commit.changes = <<>> /\ commit.base <= base

\* The draft is at the tip of the branch, which holds one patch on the base.
Sound(url, content) ==
    /\ url \in DOMAIN prs /\ branch \in Commits
    /\ prs[url] = [status |-> "draft", head |-> branch]
    /\ branch.changes = <<content>>
    /\ branch.base <= base

\* Unless others interfere: FETCH_HEAD and then the call's base are of the base
\* branch; a listed pull request at the tip is what GitHub still has; and a
\* success, reported or about to be, is sound.
SoundInv ==
    /\ call.pc \in {"list", "match"} /\ call.purpose = "confirm" => call.url # None
    /\ ~touched =>
        /\ At("base") => OnBase(fetch_head)
        /\ call.pc \notin {"idle", "fetch", "base", "cleanup", "answer"} => OnBase(call.base)
        /\ At("match") => \A f \in call.found : f.pr.head = branch => prs[f.url] = f.pr
        /\ call.pc \in {"cleanup", "answer"} /\ call.result = "SUCCEEDED" =>
               Sound(call.url, call.patch)
        /\ At("idle") /\ answer = "SUCCEEDED" => Sound(call.url, call.patch)

\* What CommitIsOwned shows of a branch once the base is known to be one.
LEMMA OwnedIsExact ==
    ASSUME branch \in Commits, call.base \in Commits, OnBase(call.base), base \in Nat,
           CommitIsOwned(branch)
    PROVE  branch.changes = <<call.patch>> /\ branch.base <= base
<1> DEFINE n == Len(branch.changes)
<1>1. branch.changes \in Seq(Changes) /\ branch.base \in Nat /\ call.base.base \in Nat /\ n \in Nat
  BY DEF Commits
<1>2. n > 0 /\ branch.changes[n] = call.patch
  BY <1>1 DEF CommitIsOwned
<1>3. /\ Parent(branch).changes = SubSeq(branch.changes, 1, n - 1)
      /\ Parent(branch).base = branch.base
  BY DEF Parent, Commits
<1>4. Len(SubSeq(branch.changes, 1, n - 1)) = n - 1
  BY <1>1, <1>2
<1>5. n - 1 = 0 /\ branch.base <= call.base.base
  <2> DEFINE a == Parent(branch)
             b == call.base
  <2>1. IsAncestor(a, b) /\ a.base = branch.base /\ Len(a.changes) = n - 1
        /\ b.changes = <<>>
    BY <1>3, <1>4 DEF CommitIsOwned, OnBase
  <2> HIDE DEF a, b
  <2>2. Len(b.changes) = 0
    BY <2>1
  <2>3. CASE a.changes = <<>> /\ a.base <= b.base
    <3>1. Len(a.changes) = 0
      BY <2>3
    <3> QED
      BY <2>1, <2>3, <3>1 DEF b
  <2>4. CASE a.base = b.base /\ Len(a.changes) <= Len(b.changes)
    <3>1. n - 1 <= 0
      BY <2>1, <2>2, <2>4
    <3>2. branch.base = call.base.base /\ branch.base \in Nat /\ n \in Nat
      BY <1>1, <2>1, <2>4 DEF b
    <3> HIDE DEF n
    <3> QED
      BY <1>2, <3>1, <3>2
  <2>5. \/ a.changes = <<>> /\ a.base <= b.base
        \/ a.base = b.base /\ Len(a.changes) <= Len(b.changes)
    BY <2>1 DEF IsAncestor
  <2> QED
    BY <2>3, <2>4, <2>5
<1>6. branch.changes = <<call.patch>>
  BY <1>1, <1>2, <1>5
<1> QED
  BY <1>1, <1>5, <1>6 DEF OnBase

\* What can move while nobody interferes: the call's own push and pull request,
\* GitHub's view of the branch, and the base branch, which only grows.
LEMMA Quiet ==
    ASSUME TypeOK, Next, ~touched', ~Start
    PROVE  /\ ~touched /\ base \in Nat /\ base' \in Nat /\ base <= base'
           /\ UNCHANGED branch \/ PushBranch
           /\ UNCHANGED prs \/ CreatePR \/ \E i \in DOMAIN prs : GitHubFollowsBranch(i)
           /\ UNCHANGED fetch_head \/ FetchBase \/ MatchPRs \/ CheckOrphan
<1>1. ~OthersPush /\ ~OthersDeleteBranch /\ ~OthersFetch
  BY DEF OthersPush, OthersDeleteBranch, OthersFetch, Interfere
<1>2. ASSUME NEW i, NEW status, Review(i, status) PROVE FALSE
  BY <1>2 DEF Review, Interfere
<1>3. touched' = touched
  <2>1. CASE Step
    BY <2>1 DEF Step, steady, FetchBase, ReadBase, ListPRs, MatchPRs, CheckOrphan, CheckSlot,
       AddWorktree, CommitPatch, PushBranch, CreatePR, CleanupWorktree, Undo, Return
  <2>2. CASE Fault \/ Crash \/ OthersMoveBase \/ OthersTakeSlot
    BY <2>2 DEF Fault, Crash, OthersMoveBase, OthersTakeSlot, steady
  <2>3. ASSUME NEW i, GitHubFollowsBranch(i) PROVE touched' = touched
    BY <2>3 DEF GitHubFollowsBranch, steady
  <2>4. ASSUME NEW p, NextLife(p) PROVE touched' = touched
    BY <2>4 DEF NextLife
  <2> QED
    BY <1>1, <1>2, <2>1, <2>2, <2>3, <2>4 DEF Next
<1>4. base \in Nat /\ base' \in Nat /\ base <= base'
  BY <1>2, WhoMovesBase DEF OthersMoveBase, TypeOK
<1> QED
  BY <1>1, <1>2, <1>3, <1>4, WhoMovesBranch, WhoMovesPRs, WhoMovesFetchHead

\* A sound draft stays so: GitHub has nothing to follow.
LEMMA SoundStays ==
    ASSUME TypeOK, NEW url, NEW content, Sound(url, content), UNCHANGED branch,
           base \in Nat, base' \in Nat, base <= base',
           UNCHANGED prs \/ \E i \in DOMAIN prs : GitHubFollowsBranch(i)
    PROVE  Sound(url, content)'
<1>1. prs'[url] = prs[url] /\ url \in DOMAIN prs'
  <2>1. CASE UNCHANGED prs
    BY <2>1 DEF Sound
  <2>2. ASSUME NEW i \in DOMAIN prs, GitHubFollowsBranch(i)
        PROVE  prs'[url] = prs[url] /\ url \in DOMAIN prs'
    <3>1. i # url
      BY <2>2 DEF GitHubFollowsBranch, Sound
    <3> QED
      BY <2>2, <3>1 DEF GitHubFollowsBranch, Sound
  <2> QED
    BY <2>1, <2>2
<1> QED
  BY <1>1 DEF Sound, Commits

\* What an answer carries.
LEMMA ConcludeAnswers ==
    ASSUME TypeOK, NEW result, NEW url, Conclude(result, url)
    PROVE  /\ call'.result = result /\ call'.url = url /\ call'.patch = call.patch
           /\ call'.pc \in {"cleanup", "answer"}
  BY DEF Conclude, TypeOK, Calls

\* A call that fails, or goes on, has nothing to be sound about but its base.
LEMMA GoesOnSoundly ==
    ASSUME TypeOK, CallInv, SoundInv, base \in Nat, base' \in Nat, base <= base',
           ~touched' => ~touched,
           \/ Fail
           \/ /\ call'.base = call.base
              /\ call.pc \notin {"idle", "fetch", "base", "cleanup", "answer"}
              /\ call'.pc \notin {"idle", "base", "list", "match", "cleanup", "answer"}
    PROVE  SoundInv'
<1>1. CASE Fail
  <2>1. call'.result = "FAILED" /\ call'.pc \in {"cleanup", "answer"}
    BY <1>1, ConcludeAnswers DEF Fail
  <2> QED
    BY <2>1 DEF SoundInv, At
<1>2. ASSUME /\ call'.base = call.base
             /\ call.pc \notin {"idle", "fetch", "base", "cleanup", "answer"}
             /\ call'.pc \notin {"idle", "base", "list", "match", "cleanup", "answer"}
      PROVE  SoundInv'
  <2>1. ~touched' => OnBase(call.base)
    BY <1>2 DEF SoundInv
  <2>2. call.base.base \in Nat
    BY <1>2 DEF CallInv, Commits
  <2>3. ~touched' => OnBase(call.base)'
    BY <1>2, <2>1, <2>2 DEF OnBase
  <2> QED
    BY <1>2, <2>3 DEF SoundInv, At
<1> QED
  BY <1>1, <1>2

\* The invariant is preserved by every step.
LEMMA StepSound ==
    ASSUME TypeOK, CallInv, SoundInv, [Next]_vars
    PROVE  SoundInv'
<1>1. CASE UNCHANGED vars
  BY <1>1 DEF vars, origin, SoundInv, At, OnBase, Sound
<1>2. CASE Start
  BY <1>2 DEF Start, IdleCall, SoundInv, At
<1>3. ASSUME Next, ~Start PROVE SoundInv'
  <2> DEFINE GitHubMoves == UNCHANGED prs \/ \E i \in DOMAIN prs : GitHubFollowsBranch(i)
  <2>0. /\ ~touched' => ~touched /\ base \in Nat /\ base' \in Nat /\ base <= base'
        /\ ~touched' => UNCHANGED branch \/ PushBranch
        /\ ~touched' => CreatePR \/ GitHubMoves
        /\ ~touched' => UNCHANGED fetch_head \/ FetchBase \/ MatchPRs \/ CheckOrphan
    BY <1>3, Quiet
  <2> HIDE DEF GitHubMoves
  <2>1. \A c \in Commits : c.base \in Nat
    BY DEF Commits
  <2>2. ASSUME ~touched', NEW c \in Commits, OnBase(c) PROVE OnBase(c)'
    BY <2>0, <2>1, <2>2 DEF OnBase
  <2>3. call.pc \notin {"idle", "fetch", "base", "cleanup", "answer"} =>
            call.base \in Commits /\ (~touched => OnBase(call.base))
    BY DEF CallInv, SoundInv
  <2>4. ASSUME /\ Fail \/ /\ call'.base = call.base
                          /\ call.pc \notin {"idle", "fetch", "base", "cleanup", "answer"}
                          /\ call'.pc \notin {"idle", "base", "list", "match", "cleanup", "answer"}
        PROVE  SoundInv'
    <3>1. CASE touched'
      BY <2>4, <3>1, ConcludeAnswers, GotoFields DEF SoundInv, Fail
    <3> QED
      BY <2>0, <2>4, <3>1, GoesOnSoundly
  <2>5. ASSUME NEW url, NEW content, Sound(url, content), ~touched', ~PushBranch, ~CreatePR
        PROVE  Sound(url, content)'
    BY <2>0, <2>5, SoundStays DEF GitHubMoves
  <2>6. CASE FetchBase
    <3>1. call'.pc = "base" /\ fetch_head' = Tip /\ base' = base
      BY <2>6, GotoFields DEF FetchBase, steady
    <3>2. OnBase(fetch_head)'
      BY <3>1 DEF OnBase, Tip, Commit, TypeOK
    <3> QED
      BY <3>1, <3>2 DEF SoundInv, At
  <2>7. CASE ReadBase
    <3>1. call'.pc = "list" /\ call'.base = fetch_head /\ call'.purpose = "reuse" /\ At("base")
          /\ base' = base
      BY <2>7 DEF ReadBase, TypeOK, Calls, steady
    <3>2. ~touched' => OnBase(fetch_head)
      BY <2>0, <3>1 DEF SoundInv
    <3> QED
      BY <3>1, <3>2 DEF SoundInv, At, OnBase
  <2>8. CASE ListPRs
    <3> DEFINE found == {[url |-> i, pr |-> prs[i]] : i \in OpenPRs}
    <3>1. /\ call' = [call EXCEPT !.pc = "match", !.found = found] /\ prs' = prs
          /\ base' = base /\ At("list")
      BY <2>8 DEF ListPRs, steady
    <3>2. \A f \in found : prs[f.url] = f.pr
      OBVIOUS
    <3> HIDE DEF found
    <3>3. /\ call'.pc = "match" /\ call'.found = found /\ call'.base = call.base
          /\ call'.purpose = call.purpose /\ call'.url = call.url
      BY <3>1 DEF TypeOK, Calls
    <3> QED
      BY <2>0, <2>2, <2>3, <3>1, <3>2, <3>3 DEF SoundInv, At
  <2>9. CASE MatchPRs
    <3>1. prs' = prs /\ branch' = branch /\ base' = base /\ At("match")
          /\ (call.purpose = "confirm" => call.url # None)
      BY <2>9 DEF MatchPRs, steady, SoundInv, At
    <3>2. CASE Fail
      BY <2>4, <3>2
    <3>3. CASE Goto("orphan")
      BY <2>4, <3>1, <3>3, GotoFields DEF At
    <3>4. CASE call.found = {} /\ Existing(None)
      BY <3>1, <3>2, <3>3, <3>4 DEF Existing
    <3>5. ASSUME NEW f \in call.found, f.pr = [status |-> "draft", head |-> branch],
                 CommitIsOwned(branch), Conclude("SUCCEEDED", f.url)
          PROVE  SoundInv'
      <4>1. call'.result = "SUCCEEDED" /\ call'.url = f.url /\ call'.patch = call.patch
            /\ call'.pc \in {"cleanup", "answer"}
        BY <3>5, ConcludeAnswers
      <4>2. f.url \in DOMAIN prs /\ f.pr \in PRs
        BY DEF TypeOK, Calls
      <4>3. branch \in Commits
        BY <3>5, <4>2 DEF PRs
      <4>4. ~touched' => Sound(f.url, call.patch)
        <5> SUFFICES ASSUME ~touched' PROVE Sound(f.url, call.patch)
          OBVIOUS
        <5>1. OnBase(call.base) /\ call.base \in Commits /\ base \in Nat
          BY <2>0, <2>3, <3>1 DEF At
        <5>2. branch.changes = <<call.patch>> /\ branch.base <= base
          BY <3>5, <4>3, <5>1, OwnedIsExact
        <5>3. f.pr.head = branch
          BY <3>5
        <5>4. prs[f.url] = f.pr
          BY <2>0, <3>1, <5>3 DEF SoundInv
        <5> QED
          BY <3>5, <4>2, <4>3, <5>2, <5>4 DEF Sound
      <4>5. ~touched' => Sound(f.url, call.patch)'
        BY <3>1, <4>1, <4>4 DEF Sound
      <4> QED
        BY <4>1, <4>5 DEF SoundInv, At, Sound
    <3>6. ASSUME NEW f \in call.found, f.pr = [status |-> "draft", head |-> branch],
                 CommitIsOwned(branch), Existing(f.url)
          PROVE  SoundInv'
      <4>1. f.url # None
        BY NoneFacts DEF TypeOK, Calls
      <4> QED
        BY <3>2, <3>5, <3>6, <4>1 DEF Existing
    <3> QED
      BY <2>9, <3>2, <3>4, <3>6 DEF MatchPRs
  <2>10. CASE CheckOrphan \/ CheckSlot
    <3>1. Fail \/ Goto("slot") \/ Goto("create") \/ Goto("add")
      BY <2>10 DEF CheckOrphan, CheckSlot
    <3>2. call.pc \in {"orphan", "slot"}
      BY <2>10 DEF CheckOrphan, CheckSlot, At
    <3> QED
      BY <2>4, <3>1, <3>2, GotoFields
  <2>11. CASE AddWorktree
    <3>1. CASE Goto("undo")
      BY <2>4, <2>11, <3>1, GotoFields DEF AddWorktree, At
    <3>2. CASE call' = [call EXCEPT !.pc = "commit", !.created = TRUE]
      <4>1. call'.pc = "commit" /\ call'.base = call.base
        BY <3>2 DEF TypeOK, Calls
      <4> QED
        BY <2>4, <2>11, <4>1 DEF AddWorktree, At
    <3> QED
      BY <2>11, <3>1, <3>2 DEF AddWorktree
  <2>12. CASE CommitPatch \/ PushBranch
    <3>1. Fail \/ Goto("push") \/ Goto("create")
      BY <2>12 DEF CommitPatch, PushBranch
    <3>2. call.pc \in {"commit", "push"}
      BY <2>12 DEF CommitPatch, PushBranch, At
    <3> QED
      BY <2>4, <3>1, <3>2, GotoFields
  <2>13. CASE CreatePR
    <3>1. At("create") /\ base' = base
      BY <2>13 DEF CreatePR, steady
    <3>2. CASE call' = [call EXCEPT !.pc = "list", !.purpose = "reconcile"]
      <4>1. call'.pc = "list" /\ call'.base = call.base /\ call'.purpose = "reconcile"
        BY <3>2 DEF TypeOK, Calls
      <4> QED
        BY <2>0, <2>2, <2>3, <3>1, <4>1 DEF SoundInv, At
    <3>3. ASSUME NEW url, url # None,
                 call' = [call EXCEPT !.pc = "list", !.purpose = "confirm", !.url = url]
          PROVE  SoundInv'
      <4>1. call'.pc = "list" /\ call'.base = call.base /\ call'.url = url
        BY <3>3 DEF TypeOK, Calls
      <4> QED
        BY <2>0, <2>2, <2>3, <3>1, <3>3, <4>1 DEF SoundInv, At
    <3>4. ASSUME prs' = Append(prs, [status |-> "draft", head |-> branch])
          PROVE  Len(prs') # None
      <4> DEFINE pr == [status |-> "draft", head |-> branch]
      <4>1. prs' = Append(prs, pr) /\ prs \in Seq(PRs)
        BY <3>4 DEF TypeOK
      <4> HIDE DEF pr
      <4>2. Len(prs') \in Nat
        BY <4>1
      <4> QED
        BY <4>2, NoneFacts
    <3> QED
      BY <2>13, <3>2, <3>3, <3>4 DEF CreatePR
  <2>14. CASE CleanupWorktree
    <3>1. call'.pc = "answer" /\ call'.url = call.url /\ call'.patch = call.patch
          /\ call'.result = call.result /\ At("cleanup")
      BY <2>14 DEF CleanupWorktree, Goto, TypeOK, Calls
    <3>2. ~PushBranch /\ ~CreatePR
      BY <3>1 DEF PushBranch, CreatePR, At
    <3>3. ~touched' /\ call'.result = "SUCCEEDED" => Sound(call.url, call.patch)'
      <4>1. ~touched' /\ call'.result = "SUCCEEDED" => Sound(call.url, call.patch)
        BY <2>0, <3>1 DEF SoundInv, At
      <4>2. UNCHANGED <<prs, branch, base>>
        BY <2>14 DEF CleanupWorktree, steady
      <4> QED
        BY <3>1, <4>1, <4>2 DEF Sound
    <3> QED
      BY <3>1, <3>3 DEF SoundInv, At
  <2>15. CASE Undo
    BY <2>4, <2>15 DEF Undo
  <2>16. CASE Return
    <3>1. /\ call'.pc = "idle" /\ call'.patch = call.patch /\ call'.url = call.url
          /\ answer' = call.result /\ At("answer") /\ UNCHANGED <<prs, branch, base, touched>>
      BY <2>16 DEF Return, IdleCall, steady
    <3>2. ~touched' /\ answer' = "SUCCEEDED" => Sound(call.url, call.patch)'
      BY <3>1 DEF SoundInv, At, Sound
    <3> QED
      BY <3>1, <3>2 DEF SoundInv, At
  <2>17. CASE Fault
    BY <2>4, <2>17, GotoFields DEF Fault, At
  <2>18. CASE Crash
    BY <2>18, NoneFacts DEF Crash, IdleCall, SoundInv, At
  <2>19. ASSUME UNCHANGED <<call, answer, fetch_head>> \/ (touched' /\ UNCHANGED call),
                ~touched' => GitHubMoves /\ UNCHANGED branch
         PROVE  SoundInv'
    <3>1. CASE touched'
      BY <2>19, <3>1 DEF SoundInv
    <3>2. ASSUME ~touched' PROVE SoundInv'
      <4>1. UNCHANGED <<call, answer, fetch_head, branch>> /\ ~touched /\ GitHubMoves
        BY <2>0, <2>19, <3>2
      <4>2. ASSUME NEW url, NEW content, Sound(url, content) PROVE Sound(url, content)'
        BY <2>0, <3>2, <4>1, <4>2, SoundStays DEF GitHubMoves
      <4>3. ASSUME At("match"), NEW f \in call.found, f.pr.head = branch
            PROVE  prs'[f.url] = f.pr
        <5>1. prs[f.url] = f.pr
          BY <4>1, <4>3 DEF SoundInv
        <5>2. ASSUME NEW i \in DOMAIN prs, GitHubFollowsBranch(i) PROVE prs'[f.url] = prs[f.url]
          BY <4>3, <5>1, <5>2 DEF GitHubFollowsBranch
        <5> QED
          BY <4>1, <5>1, <5>2 DEF GitHubMoves
      <4>4. At("base") => OnBase(fetch_head)'
        BY <2>2, <3>2, <4>1 DEF SoundInv, TypeOK
      <4>5. call.pc \notin {"idle", "fetch", "base", "cleanup", "answer"} => OnBase(call.base)'
        BY <2>2, <2>3, <3>2, <4>1
      <4>6. /\ call.pc \in {"cleanup", "answer"} /\ call.result = "SUCCEEDED" =>
                  Sound(call.url, call.patch)'
            /\ At("idle") /\ answer = "SUCCEEDED" => Sound(call.url, call.patch)'
        BY <4>1, <4>2 DEF SoundInv
      <4> QED
        BY <4>1, <4>3, <4>4, <4>5, <4>6 DEF SoundInv, At, OnBase, Sound
    <3> QED
      BY <3>1, <3>2
  <2>20. CASE OthersPush \/ OthersDeleteBranch \/ OthersFetch
    BY <2>19, <2>20 DEF OthersPush, OthersDeleteBranch, OthersFetch, Interfere
  <2>21. CASE OthersMoveBase \/ OthersTakeSlot
    BY <2>19, <2>21 DEF OthersMoveBase, OthersTakeSlot, steady, GitHubMoves
  <2>22. ASSUME NEW i \in DOMAIN prs, NEW status, Review(i, status) PROVE SoundInv'
    BY <2>19, <2>22 DEF Review, Interfere
  <2>23. ASSUME NEW i \in DOMAIN prs, GitHubFollowsBranch(i) PROVE SoundInv'
    BY <2>19, <2>23 DEF GitHubFollowsBranch, steady, GitHubMoves
  <2>24. ASSUME NEW p, NextLife(p) PROVE SoundInv'
    BY <2>19, <2>24 DEF NextLife, origin, GitHubMoves
  <2> QED
    BY <1>3, <2>6, <2>7, <2>8, <2>9, <2>10, <2>11, <2>12, <2>13, <2>14, <2>15, <2>16, <2>17,
       <2>18, <2>20, <2>21, <2>22, <2>23, <2>24 DEF Next, Step
<1> QED
  BY <1>1, <1>2, <1>3

\* A draft that was reported, and that nobody has touched since the call began, is
\* open, at the tip of the branch, and proposes exactly the patch of the call on a
\* commit of the base branch (github.py), for any patches and any number of lost
\* answers, crashes, repeated calls and earlier interferences.
THEOREM ReportedDraftsAreSound == Spec => []ReportedDraftIsSound
<1>1. Init => IInv /\ SoundInv
  BY InitHolds, NoneFacts DEF Init, SoundInv, IdleCall, At
<1>2. IInv /\ SoundInv /\ [Next]_vars => SoundInv'
  BY StepSound DEF IInv
<1>3. SoundInv => ReportedDraftIsSound
  BY DEF SoundInv, ReportedDraftIsSound, Sound
<1> QED
  BY <1>1, <1>2, <1>3, Inductive, PTL DEF Spec
===============================================================================
