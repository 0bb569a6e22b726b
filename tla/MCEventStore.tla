----------------------------- MODULE MCEventStore -----------------------------
(***************************************************************************)
(* A small instance of EventStore and of its readers: two cases, two       *)
(* drifts of which one comes from two sources (same key, other content),   *)
(* one sender-chosen id; the drifts are of two datasets.                   *)
(***************************************************************************)
EXTENDS StoreReaders, TLC

CONSTANTS caseA, caseB, key1, key2, gross, grossOther, net, payments, orders

MCKeyOf == gross :> key1 @@ grossOther :> key1 @@ net :> key2

MCAssetOf == gross :> payments @@ grossOther :> payments @@ net :> orders

MCDetails == [type \in ProgressEvents |-> {None}]

\* The two cases are interchangeable.
MCSymmetry == Permutations({caseA, caseB})
===============================================================================
