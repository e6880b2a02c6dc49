------------------------------ MODULE MCE42Xapp ------------------------------
(***************************************************************************)
(* E42Xapp for TLC: nothing to bound beyond the CONSTANTs.                  *)
(***************************************************************************)
EXTENDS E42Xapp
=============================================================================
