------------------------------ MODULE E2Service ------------------------------
(***************************************************************************)
(* What the near-RT RIC promises the xApps connected to it, without         *)
(* saying how: a request identifier an xApp picked (its ric_req_id) lives   *)
(* through one procedure, a subscription is confirmed only after an E2 node *)
(* installed it and removed only after the node removed it, and a control   *)
(* command is executed at most once and acknowledged only if it was.        *)
(* Request identifiers, RIC-internal identifiers, threads, timers, maps and *)
(* messages are all absent.  RicRouting implements this module.             *)
(***************************************************************************)
CONSTANTS
  XApps,      \* the xApps connected to the RIC
  Ids         \* the request identifiers an xApp may hand out

VARIABLES
  proc,       \* proc[x][i]: the procedure xApp x runs under identifier i
  installed,  \* the <<x, i>> whose subscription is installed in an E2 node
  executed    \* the <<x, i>> whose control command an E2 node executed

vars == <<proc, installed, executed>>

Init ==
  /\ proc = [x \in XApps |-> [i \in Ids |-> "idle"]]
  /\ installed = {}
  /\ executed = {}

\* xApp x moves the procedure under identifier i from one stage to another.
Moves(x, i, from, to) ==
  /\ proc[x][i] = from
  /\ proc' = [proc EXCEPT ![x][i] = to]

Ask(x, i) ==
  /\ \/ Moves(x, i, "idle", "subscribing")
     \/ Moves(x, i, "active", "deleting")
     \/ Moves(x, i, "idle", "controlling")
  /\ UNCHANGED <<installed, executed>>

Install(x, i) ==
  /\ proc[x][i] = "subscribing"
  /\ <<x, i>> \notin installed
  /\ installed' = installed \cup {<<x, i>>}
  /\ UNCHANGED <<proc, executed>>

Remove(x, i) ==
  /\ proc[x][i] = "deleting"
  /\ <<x, i>> \in installed
  /\ installed' = installed \ {<<x, i>>}
  /\ UNCHANGED <<proc, executed>>

Execute(x, i) ==
  /\ proc[x][i] = "controlling"
  /\ <<x, i>> \notin executed
  /\ executed' = executed \cup {<<x, i>>}
  /\ UNCHANGED <<proc, installed>>

Answer(x, i) ==
  /\ \/ Moves(x, i, "subscribing", "active") /\ <<x, i>> \in installed
     \/ Moves(x, i, "deleting", "removed")   /\ <<x, i>> \notin installed
     \/ Moves(x, i, "controlling", "acked")  /\ <<x, i>> \in executed
     \/ Moves(x, i, "controlling", "failed") /\ <<x, i>> \notin executed
  /\ UNCHANGED <<installed, executed>>

Next ==
  \E x \in XApps, i \in Ids :
    Ask(x, i) \/ Install(x, i) \/ Remove(x, i) \/ Execute(x, i) \/ Answer(x, i)

Spec == Init /\ [][Next]_vars
=============================================================================
