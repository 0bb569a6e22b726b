---------------------------- MODULE MCMclDelivery ----------------------------
EXTENDS MclDelivery, TLC

CONSTANTS gross, net, key1, key2, caseA, caseB, id1, id2

MCKeyOf  == gross :> key1 @@ net :> key2
MCCaseOf == key1 :> caseA @@ key2 :> caseB

MCMessages ==
    {[kind |-> "drift", content |-> c, event_id |-> e] : c \in Contents, e \in EventIds}
    \cup {[kind |-> k, content |-> gross, event_id |-> id1] : k \in Kinds \ {"drift"}}
===============================================================================
