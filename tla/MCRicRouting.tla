----------------------------- MODULE MCRicRouting -----------------------------
(***************************************************************************)
(* RicRouting for TLC.                                                      *)
(***************************************************************************)
EXTENDS RicRouting, TLC

\* xApps and nodes are only ever compared for equality.
Symmetric == Permutations(XApps) \cup Permutations(Nodes)
=============================================================================
