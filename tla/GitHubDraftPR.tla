---------------------------- MODULE GitHubDraftPR ----------------------------
(***************************************************************************)
(* GitHubDraftPRAdapter.create_draft of packages/remediation/github.py for *)
(* one case: the steps between the local repository, the origin remote and *)
(* GitHub, while commands fail or lose their answer, the process dies, and *)
(* other people work on the same remote branch, pull request and checkout. *)
(*                                                                         *)
(* RecoveryWorkflow calls create_draft under the worker lock, so one call  *)
(* runs at a time; it comes again after a restart, and after a demo reset  *)
(* possibly with another patch for the same case id.  A step is one        *)
(* command that reads or changes something shared, with what the code does *)
(* with its output.  The checks of arguments, authorization and origin     *)
(* URLs come first and can only fail; the local bundle that a FAILED       *)
(* answer also writes is read by nothing.                                  *)
(***************************************************************************)
EXTENDS Integers, Sequences, FiniteSets

CONSTANTS
    Patches,     \* validated patches, one per life of the case
    Other,       \* any change that is not a patch of this case
    None,
    Limits       \* how often each kind of mishap and of interference happens

Changes == Patches \cup {Other}
Commits == [base : Nat, changes : Seq(Changes)]
Results == {"SUCCEEDED", "FAILED"}

ASSUME PatchesAssumption == Other \notin Patches
ASSUME NoneAssumption ==
    None \notin Commits \cup Patches \cup Nat \cup Results
                \cup {"adapter", "other", "reuse", "confirm", "reconcile"}
ASSUME LimitsAssumption ==
    Limits \in [{"faults", "broken", "crashes", "others", "fetches", "lives"} -> Nat]

VARIABLES
    base,        \* origin: commits on the base branch
    branch,      \* origin: the tip of datarescue/<case>, or None
    prs,         \* GitHub: the pull requests ever opened for that branch
    local,       \* the checkout's branch of that name and its worktree
    fetch_head,  \* .git/FETCH_HEAD of the checkout
    patch,       \* the patch the case has in its present life
    call,        \* the running create_draft
    answer,      \* status of the last create_draft that returned
    touched,     \* others changed branch, pull request or FETCH_HEAD since the
                 \* call began
    budget       \* mishaps and interference left

origin == <<base, branch, prs>>
vars == <<origin, local, fetch_head, patch, call, answer, touched, budget>>

\* What only others and new lives change, and what a command leaves alone.
steady == <<base, patch, touched>>

\* A commit: where it leaves the base branch, and the changes it has on top.
Commit(n, changes) == [base |-> n, changes |-> changes]
On(commit, change) == [commit EXCEPT !.changes = Append(@, change)]
Parent(commit)     == [commit EXCEPT !.changes = SubSeq(@, 1, Len(@) - 1)]
Tip == Commit(base, <<>>)

\* git merge-base --is-ancestor a b
IsAncestor(a, b) ==
    \/ a.changes = <<>> /\ a.base <= b.base
    \/ /\ a.base = b.base
       /\ Len(a.changes) <= Len(b.changes)
       /\ a.changes = SubSeq(b.changes, 1, Len(a.changes))

\* Mutant of CommitIsOwned: the stored patch is not compared.
MutCommitIsOwned(commit) ==
    /\ commit.changes # <<>>
    /\ commit.changes[Len(commit.changes)] \in Patches
    /\ IsAncestor(Parent(commit), call.base)

\* The commit carries this case's subject and trailers, has one parent, which
\* belongs to the base history the call has fetched, and holds exactly the patch.
CommitIsOwned(commit) ==
    /\ commit.changes # <<>>
    /\ commit.changes[Len(commit.changes)] = call.patch
    /\ IsAncestor(Parent(commit), call.base)

NoLocal == [branch |-> None, by |-> None, registered |-> FALSE, directory |-> FALSE]
IdleCall == [pc |-> "idle", patch |-> None, base |-> None, created |-> FALSE,
             purpose |-> None, found |-> {}, url |-> None, result |-> None]

At(step) == call.pc = step
Open(i) == prs[i].status \in {"draft", "ready"}
OpenPRs == {i \in DOMAIN prs : Open(i)}

Goto(step) == call' = [call EXCEPT !.pc = step]
Spend(kind) == /\ budget[kind] > 0
               /\ budget' = [budget EXCEPT ![kind] = @ - 1]

\* Mutant of Conclude: only a successful call cleans up.
MutConclude(result, url) ==
    call' = [call EXCEPT !.result = result, !.url = url, !.found = {},
                         !.pc = IF call.created /\ result = "SUCCEEDED"
                                THEN "cleanup" ELSE "answer"]

\* The finally clause: a created worktree is cleaned up before the answer.
Conclude(result, url) ==
    call' = [call EXCEPT !.result = result, !.url = url, !.found = {},
                         !.pc = IF call.created THEN "cleanup" ELSE "answer"]
Fail == Conclude("FAILED", None)

-------------------------------------------------------------------------------
(***************************************************************************)
(* create_draft.                                                           *)
(***************************************************************************)
Start ==
    /\ At("idle")
    /\ call' = [IdleCall EXCEPT !.pc = "fetch", !.patch = patch]
    /\ touched' = FALSE
    /\ UNCHANGED <<origin, local, fetch_head, patch, answer, budget>>

\* git fetch origin <base>
FetchBase ==
    /\ At("fetch")
    /\ fetch_head' = Tip
    /\ Goto("base")
    /\ UNCHANGED <<steady, branch, prs, local, answer, budget>>

\* Mutant of ReadBase: open pull requests are looked for only after one was created.
MutReadBase ==
    /\ At("base")
    /\ call' = [call EXCEPT !.pc = "orphan", !.base = fetch_head]
    /\ UNCHANGED <<steady, branch, prs, local, fetch_head, answer, budget>>

\* git rev-parse FETCH_HEAD
ReadBase ==
    /\ At("base")
    /\ call' = [call EXCEPT !.pc = "list", !.base = fetch_head, !.purpose = "reuse"]
    /\ UNCHANGED <<steady, branch, prs, local, fetch_head, answer, budget>>

\* gh pr list: the open pull requests of the branch.
ListPRs ==
    /\ At("list")
    /\ call' = [call EXCEPT !.pc = "match", !.found =
                  {[url |-> i, pr |-> prs[i]] : i \in OpenPRs}]
    /\ UNCHANGED <<steady, branch, prs, local, fetch_head, answer, budget>>

\* What the callers of _find_existing_pr do with the url it returns, or None.
Existing(url) ==
    \/ /\ call.purpose = "reuse" /\ url # None
       /\ Conclude("SUCCEEDED", url)
    \/ /\ call.purpose = "reuse" /\ url = None
       /\ Goto("orphan")
    \/ /\ call.purpose = "confirm"
       /\ IF url = call.url THEN Conclude("SUCCEEDED", url) ELSE Fail
    \/ /\ call.purpose = "reconcile"
       /\ IF url # None THEN Conclude("SUCCEEDED", url) ELSE Fail

\* Mutant of MatchPRs: the branch is fetched before it is known to exist.
MutMatchPRs ==
    /\ At("match")
    /\ call.found = {} /\ Existing(None)
    /\ fetch_head' = branch
    /\ UNCHANGED <<steady, branch, prs, local, answer, budget>>

\* git ls-remote and fetch of the branch; every listed pull request must be a
\* draft at exactly this head, and the head must be ours.
MatchPRs ==
    /\ At("match")
    /\ LET Matches(f) == /\ f.pr = [status |-> "draft", head |-> branch]
                         /\ CommitIsOwned(branch)
       IN  \/ /\ (\E f \in call.found : ~Matches(f)) \/ Cardinality(call.found) > 1
              /\ Fail
           \/ /\ call.found = {}
              /\ Existing(None)
           \/ \E f \in call.found :
                /\ call.found = {f} /\ Matches(f)
                /\ Existing(f.url)
    /\ fetch_head' = IF branch = None THEN fetch_head ELSE branch
    /\ UNCHANGED <<steady, branch, prs, local, answer, budget>>

\* Mutant of CheckOrphan: a branch that exists is an error, also when it is ours.
MutCheckOrphan ==
    /\ At("orphan")
    /\ IF branch = None THEN Goto("slot") ELSE Fail
    /\ fetch_head' = IF branch = None THEN fetch_head ELSE branch
    /\ UNCHANGED <<steady, branch, prs, local, answer, budget>>

\* A pushed branch without a pull request is reused if it is ours.
CheckOrphan ==
    /\ At("orphan")
    /\ \/ branch = None /\ Goto("slot")
       \/ branch # None /\ CommitIsOwned(branch) /\ Goto("create")
       \/ branch # None /\ ~CommitIsOwned(branch) /\ Fail
    /\ fetch_head' = IF branch = None THEN fetch_head ELSE branch
    /\ UNCHANGED <<steady, branch, prs, local, answer, budget>>

\* _assert_local_slot_available
CheckSlot ==
    /\ At("slot")
    /\ IF local.branch # None \/ local.directory THEN Fail ELSE Goto("add")
    /\ UNCHANGED <<steady, branch, prs, local, fetch_head, answer, budget>>

\* git worktree add -b <branch> <path> <base commit>.  When the command fails
\* or times out it may have done everything, or left only the branch.
Added(registered) == [branch |-> call.base, by |-> "adapter",
                      registered |-> registered, directory |-> registered]
AddWorktree ==
    /\ At("add")
    /\ \/ /\ local = NoLocal
          /\ local' = Added(TRUE)
          /\ call' = [call EXCEPT !.pc = "commit", !.created = TRUE]
          /\ UNCHANGED budget
       \/ /\ local = NoLocal
          /\ local' = Added(TRUE) /\ Spend("faults")
          /\ Goto("undo")
       \/ /\ local = NoLocal
          /\ local' = Added(FALSE) /\ Spend("broken")
          /\ Goto("undo")
       \/ /\ local # NoLocal
          /\ UNCHANGED <<local, budget>>
          /\ Goto("undo")
    /\ UNCHANGED <<steady, branch, prs, fetch_head, answer>>

\* After a merge the base may hold the patch: nothing to commit, nothing to merge.
Merged == \E i \in DOMAIN prs : prs[i].status = "merged"

\* The patch is written, added and committed in the worktree.
CommitPatch ==
    /\ At("commit")
    /\ \/ local' = [local EXCEPT !.branch = On(@, call.patch)] /\ Goto("push")
       \/ Merged /\ Fail /\ UNCHANGED local
    /\ UNCHANGED <<steady, branch, prs, fetch_head, answer, budget>>

\* git push without force; the answer may be lost.
PushBranch ==
    /\ At("push")
    /\ \/ /\ branch = None \/ (branch # None /\ IsAncestor(branch, local.branch))
          /\ branch' = local.branch
          /\ \/ Goto("create") /\ UNCHANGED budget
             \/ Fail /\ Spend("faults")
       \/ /\ branch # None /\ ~IsAncestor(branch, local.branch)
          /\ Fail
          /\ UNCHANGED <<branch, budget>>
    /\ UNCHANGED <<steady, prs, local, fetch_head, answer>>

\* gh pr create --draft.  GitHub may refuse, and does when there is no branch or
\* nothing to merge; it may also open the pull request and its answer be lost.
CreatePR ==
    /\ At("create")
    /\ \/ /\ branch # None
          /\ prs' = Append(prs, [status |-> "draft", head |-> branch])
          /\ \/ /\ call' = [call EXCEPT !.pc = "list", !.purpose = "confirm",
                                        !.url = Len(prs')]
                /\ UNCHANGED budget
             \/ /\ call' = [call EXCEPT !.pc = "list", !.purpose = "reconcile"]
                /\ Spend("faults")
       \/ /\ call' = [call EXCEPT !.pc = "list", !.purpose = "reconcile"]
          /\ UNCHANGED prs
          /\ IF branch = None \/ Merged THEN UNCHANGED budget ELSE Spend("faults")
    /\ UNCHANGED <<steady, branch, local, fetch_head, answer>>

\* git worktree remove --force, git branch -D, rmtree: each may fail.  Git does
\* not delete a branch that a registered worktree has checked out.
Cleanup ==
    \/ local' = NoLocal /\ UNCHANGED budget
    \/ /\ Spend("broken")
       /\ local' \in { [local EXCEPT !.registered = FALSE, !.directory = FALSE],
                       [local EXCEPT !.directory = FALSE],
                       local }

CleanupWorktree ==
    /\ At("cleanup")
    /\ Cleanup
    /\ Goto("answer")
    /\ UNCHANGED <<steady, branch, prs, fetch_head, answer>>

\* Mutant of Undo: whatever has the branch's name is taken for the attempt's own.
MutUndo ==
    /\ At("undo")
    /\ IF local.branch = call.base THEN Cleanup ELSE UNCHANGED <<local, budget>>
    /\ Fail
    /\ UNCHANGED <<steady, branch, prs, fetch_head, answer>>

\* Only what is registered at the path, on the branch and at the starting commit
\* is taken for the remains of this attempt.
Undo ==
    /\ At("undo")
    /\ IF local.registered /\ local.branch = call.base
       THEN Cleanup
       ELSE UNCHANGED <<local, budget>>
    /\ Fail
    /\ UNCHANGED <<steady, branch, prs, fetch_head, answer>>

\* An error of any other command: nothing shared has changed.
Fault ==
    /\ call.pc \in {"fetch", "base", "list", "match", "orphan", "slot", "add",
                    "commit", "push"}
    /\ Spend("faults")
    /\ IF At("add") THEN Goto("undo") ELSE Fail
    /\ UNCHANGED <<steady, branch, prs, local, fetch_head, answer>>

Return ==
    /\ At("answer")
    /\ answer' = call.result
    /\ call' = [IdleCall EXCEPT !.patch = call.patch, !.url = call.url]
    /\ UNCHANGED <<steady, branch, prs, local, fetch_head, budget>>

\* The process dies; a command it had started may have run to its end.
Crash ==
    /\ ~At("idle")
    /\ Spend("crashes")
    /\ call' = IdleCall
    /\ answer' = None
    /\ \/ UNCHANGED local
       \/ At("add") /\ local = NoLocal /\ local' \in {Added(TRUE), Added(FALSE)}
       \/ /\ At("cleanup")
          /\ local' = [local EXCEPT !.registered = FALSE, !.directory = FALSE]
    /\ UNCHANGED <<steady, branch, prs, fetch_head>>

-------------------------------------------------------------------------------
(***************************************************************************)
(* Everyone else.                                                          *)
(***************************************************************************)
\* What others do to the branch or its pull request leaves the rest alone.
Interfere == Spend("others") /\ touched' = TRUE
             /\ UNCHANGED <<local, fetch_head, patch, call, answer>>

OthersPush ==
    /\ branch' = IF branch = None THEN Commit(base, <<Other>>) ELSE On(branch, Other)
    /\ Interfere
    /\ UNCHANGED <<base, prs>>

\* GitHub closes the open pull requests of a branch that is deleted.
OthersDeleteBranch ==
    /\ branch # None
    /\ branch' = None
    /\ prs' = [i \in DOMAIN prs |-> IF Open(i) THEN [prs[i] EXCEPT !.status = "closed"]
                                               ELSE prs[i]]
    /\ Interfere
    /\ UNCHANGED base

\* A reviewer marks a pull request as ready, closes it or merges it.
Review(i, status) ==
    /\ Open(i) /\ prs[i].status # status
    /\ prs' = [prs EXCEPT ![i].status = status]
    /\ base' = IF status = "merged" THEN base + 1 ELSE base
    /\ Interfere
    /\ UNCHANGED branch

\* The head of an open pull request follows its branch, some time later.
GitHubFollowsBranch(i) ==
    /\ Open(i) /\ branch # None /\ prs[i].head # branch
    /\ prs' = [prs EXCEPT ![i].head = branch]
    /\ UNCHANGED <<steady, branch, local, fetch_head, call, answer, budget>>

OthersMoveBase ==
    /\ Spend("others")
    /\ base' = base + 1
    /\ UNCHANGED <<branch, prs, local, fetch_head, patch, call, answer, touched>>

\* Somebody makes a local branch of this name.
OthersTakeSlot ==
    /\ Spend("others")
    /\ local = NoLocal
    /\ local' = [NoLocal EXCEPT !.branch = Tip, !.by = "other"]
    /\ UNCHANGED <<steady, branch, prs, fetch_head, call, answer>>

\* Somebody, an editor for instance, fetches another branch into the checkout.
OthersFetch ==
    /\ Spend("fetches")
    /\ fetch_head' = Commit(base, <<Other>>)
    /\ touched' = TRUE
    /\ UNCHANGED <<origin, local, patch, call, answer>>

\* A demo reset and a new detection: the same case id, perhaps another patch.
NextLife(p) ==
    /\ At("idle")
    /\ Spend("lives")
    /\ patch' = p
    /\ UNCHANGED <<origin, local, fetch_head, call, answer, touched>>

-------------------------------------------------------------------------------
Init ==
    /\ base = 0 /\ branch = None /\ prs = <<>>
    /\ local = NoLocal
    /\ fetch_head = Tip
    /\ patch \in Patches
    /\ call = IdleCall
    /\ answer = None
    /\ touched = FALSE
    /\ budget = Limits

Step ==
    \/ FetchBase \/ ReadBase \/ ListPRs \/ MatchPRs \/ CheckOrphan \/ CheckSlot
    \/ AddWorktree \/ CommitPatch \/ PushBranch \/ CreatePR
    \/ CleanupWorktree \/ Undo \/ Return

Next ==
    \/ Start
    \/ Step
    \/ Fault
    \/ Crash
    \/ OthersPush \/ OthersDeleteBranch \/ OthersMoveBase \/ OthersTakeSlot
    \/ OthersFetch
    \/ \E i \in DOMAIN prs :
          \/ \E status \in {"ready", "closed", "merged"} : Review(i, status)
          \/ GitHubFollowsBranch(i)
    \/ \E p \in Patches : NextLife(p)

Spec == Init /\ [][Next]_vars

\* A call goes on, and the workflow calls again.
Fairness == WF_vars(Step) /\ WF_vars(Start)
FairSpec == Spec /\ Fairness

-------------------------------------------------------------------------------
(***************************************************************************)
(* Properties.                                                             *)
(***************************************************************************)
PRs     == [status : {"draft", "ready", "closed", "merged"}, head : Commits]
Steps   == {"idle", "fetch", "base", "list", "match", "orphan", "slot", "add", "commit",
            "push", "create", "cleanup", "undo", "answer"}

Calls ==
    [pc : Steps, patch : Patches \cup {None}, base : Commits \cup {None},
     created : BOOLEAN, purpose : {None, "reuse", "confirm", "reconcile"},
     found : SUBSET [url : DOMAIN prs, pr : PRs],
     url : DOMAIN prs \cup {None}, result : Results \cup {None}]

\* Types of the two repositories, GitHub and the running call.
TypeOK ==
    /\ base \in Nat /\ branch \in Commits \cup {None} /\ prs \in Seq(PRs)
    /\ local \in [branch : Commits \cup {None}, by : {"adapter", "other", None},
                  registered : BOOLEAN, directory : BOOLEAN]
    /\ fetch_head \in Commits
    /\ patch \in Patches
    /\ call \in Calls
    /\ answer \in Results \cup {None}
    /\ touched \in BOOLEAN
    /\ budget \in [DOMAIN Limits -> Nat]

\* `gh pr create` is not idempotent (github.py 144): lost answers, crashes and
\* retries never leave two open pull requests for a case.
OneOpenDraft == Cardinality(OpenPRs) <= 1

\* A draft that was reported, and that nobody has touched since the call began,
\* is open, is at the tip of the branch, and proposes exactly the patch of the
\* call on top of a commit of the base branch.
ReportedDraftIsSound ==
    At("idle") /\ answer = "SUCCEEDED" /\ ~touched =>
        /\ prs[call.url] = [status |-> "draft", head |-> branch]
        /\ branch.changes = <<call.patch>>
        /\ branch.base <= base

\* A local branch that somebody else made is never moved or deleted, also when
\* it appears between the check of the slot and `git worktree add`.
OthersWorkPreserved == [][local.by = "other" => UNCHANGED local]_vars

\* Whatever fails, a call takes its local branch and worktree away before it
\* answers; only a crash or a cleanup that cannot be done leaves them behind.
LeftoversAreExplained ==
    At("idle") /\ local.by = "adapter" =>
        budget["crashes"] < Limits["crashes"] \/ budget["broken"] < Limits["broken"]

\* What the code refuses to resolve on its own: an unknown or left-over local
\* branch, a branch that is not this patch or is merged already, a pull request
\* out of draft.
NeedsAttention ==
    \/ At("idle") /\ branch = None /\ local # NoLocal
    \/ branch # None /\ branch.changes # <<patch>>
    \/ Merged
    \/ \E i \in OpenPRs : prs[i].status # "draft"

\* Repeating the call succeeds in the end, whatever was interrupted before and
\* whichever answer was lost, unless somebody's attention is needed.
RetriesWork == <>(answer = "SUCCEEDED" \/ NeedsAttention)

\* "anchors new branches to fetched remote `main`, validates the complete
\* base-to-head range and exact patch" (docs/CONTINUE-2026-07-22-2218.md 55): as
\* long as nobody else pushes, a reported draft holds the patch and nothing else.
AnchoredInBase ==
    At("idle") /\ answer = "SUCCEEDED" /\ budget["others"] = Limits["others"] =>
        branch.changes = <<call.patch>>
===============================================================================
