---------------------------- MODULE MCPairStudy ----------------------------
(* PairStudy for TLC: pairs of unrelated datasets, and a dataset with its  *)
(* synthetic variant.                                                      *)
EXTENDS PairStudy

CONSTANTS flow, ome, ome_tsst

MCPlainNames == [p \in Pairs |-> p]
MCVariantNames == [p \in Pairs |-> ome]
=============================================================================
