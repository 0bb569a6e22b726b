----------------------------- MODULE MCPostDeploy -----------------------------
EXTENDS PostDeploy, TLC

CONSTANTS sound, gross, lossy, untested, martless, edited, p1, p2

Row(id, revenue) == [id |-> id, revenue |-> revenue]
MCBaseline == <<Row(p1, 100), Row(p2, 100)>>
LossyTable == <<Row(p1, 100), Row(p1, 100)>>
GrossTable == <<Row(p1, 103), Row(p2, 103)>>

Project(models, tests, output) == [models |-> models, tests |-> tests, output |-> output]
Both == {"stg_payments", "fct_revenue"}
Full == {"unique", "not_null"}
MCProjectOf ==
    sound    :> Project(Both, Full, MCBaseline) @@
    gross    :> Project(Both, Full, GrossTable) @@
    lossy    :> Project(Both, Full, LossyTable) @@
    untested :> Project(Both, {"not_null", "accepted_values"}, LossyTable) @@
    martless :> Project({"stg_payments"}, Full, LossyTable) @@
    edited   :> Project(Both, Full, MCBaseline)

MCChain    == <<"raw", "source", "staging", "mart">>
MCParallel == {<<"raw", "staging">>}
MCEdges    == {<<"raw", "source">>, <<"source", "staging">>, <<"staging", "mart">>,
               <<"raw", "staging">>, <<"source", "mart">>}
===============================================================================
