--------------------------- MODULE MCGitHubDraftPR ---------------------------
(***************************************************************************)
(* Instances of GitHubDraftPR for TLC.                                     *)
(***************************************************************************)
EXTENDS GitHubDraftPR, TLC

CONSTANTS p1, p2

\* How often each kind of mishap and interference happens in one behaviour.
Mishaps(f, b, c, o, h, l) ==
    "faults" :> f @@ "broken" :> b @@ "crashes" :> c @@ "others" :> o
    @@ "fetches" :> h @@ "lives" :> l

Several   == Mishaps(1, 1, 1, 2, 1, 1)
OneFetch  == Mishaps(0, 0, 0, 0, 1, 0)
===============================================================================
