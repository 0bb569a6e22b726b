---------------------------- MODULE LineageContext ----------------------------
(***************************************************************************)
(* When packages/datahub/mcp.py calls the lineage of the canonical asset   *)
(* current.  The contract is a chain of direct edges between the required  *)
(* datasets, with some parallel edges tolerated.  It is judged from one    *)
(* get_lineage call of several hops and one call of a single hop for each  *)
(* edge of the chain.                                                      *)
(***************************************************************************)
EXTENDS Integers, Sequences

CONSTANTS
    Datasets,    \* the datasets of the graph
    Chain,       \* those of CANONICAL_DIRECT_LINEAGE_EDGES, in order
    Parallel     \* CANONICAL_ALLOWED_PARALLEL_LINEAGE_EDGES

ASSUME ChainAssumption ==
    /\ Chain \in Seq(Datasets) /\ Len(Chain) > 1
    /\ \A i, j \in DOMAIN Chain : Chain[i] = Chain[j] => i = j

Required == {Chain[i] : i \in DOMAIN Chain}
Links    == 1 .. Len(Chain) - 1

\* get_lineage with max_hops = 1: the direct downstreams, all of degree 1.
Downstreams(edges, u) == {e[2] : e \in {d \in edges : d[1] = u}}

\* get_lineage with max_hops = h, and the asset itself (_validated_lineage_urns).
Reachable(edges, u, h) ==
    LET reach[n \in Nat] ==
          IF n = 0 THEN {u}
          ELSE reach[n - 1] \cup UNION {Downstreams(edges, v) : v \in reach[n - 1]}
    IN  reach[h]

\* Mutant of LinkCurrent: other required datasets downstream are not looked at.
MutLinkPresent(i, seen) == Chain[i + 1] \in seen

\* _canonical_topology_current, of one answer.  Datasets that are not required
\* are ignored; of the required ones the next link must be there, and besides it
\* only tolerated parallel targets.
LinkCurrent(i, seen) ==
    /\ Chain[i + 1] \in seen
    /\ \A v \in seen \cap Required : v = Chain[i + 1] \/ <<Chain[i], v>> \in Parallel

\* The first link that is not current is one without any downstream.
MeetsEmpty(direct) ==
    \E i \in Links :
        /\ direct[i] = {}
        /\ \A j \in 1 .. i - 1 : LinkCurrent(j, direct[j])

TopologyCurrent(direct) == \A i \in Links : LinkCurrent(i, direct[i])

\* _normalize_context: lineage_current.
LineageCurrent(deep, direct) == Required \subseteq deep /\ TopologyCurrent(direct)

-------------------------------------------------------------------------------
\* The contract: between required datasets, from the first to the last but one,
\* the edges are those of the chain and some of the tolerated ones.
ChainEdges == {<<Chain[i], Chain[i + 1]>> : i \in Links}
ContractHolds(edges) ==
    LET between == {e \in edges : e[1] \in Required \ {Chain[Len(Chain)]} /\ e[2] \in Required}
    IN  ChainEdges \subseteq between /\ between \subseteq ChainEdges \cup Parallel
===============================================================================
