--------------------------- MODULE MCNodeRegistry ---------------------------
(***************************************************************************)
(* NodeRegistry for TLC.                                                    *)
(***************************************************************************)
EXTENDS NodeRegistry, TLC

\* E2 nodes and xApps are only compared for equality.
Symmetric == Permutations(Nodes) \cup Permutations(XApps)
=============================================================================
