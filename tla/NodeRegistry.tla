---------------------------- MODULE NodeRegistry ----------------------------
(***************************************************************************)
(* Who knows which E2 nodes are connected.  A node that sets up is recorded *)
(* three times in the near-RT RIC, by a worker of the near-RIC: its address *)
(* (endpoint), its RAN functions (the registry of the iApp) and the list of *)
(* connected nodes.  When its association shuts down the event loop of the  *)
(* near-RIC undoes all three.  After either the iApp sends its xApps the    *)
(* new registry, and an xApp that connects gets it in its E42 setup         *)
(* response, from the iApp's own event loop.                                *)
(*                                                                          *)
(* abort names the assert that ended the RIC's process, crash[x] the one    *)
(* that ended xApp x.                                                       *)
(***************************************************************************)
EXTENDS Integers, Sequences, FiniteSets

CONSTANTS
  Nodes,      \* E2 nodes
  XApps,      \* xApps
  Early,      \* the xApps connected before the first E2 node is
  NumWorkers, \* threads of the near-RIC's task manager
  MaxConn,    \* bound: associations a node opens, one after the other
  MaxResend,  \* bound: times a node sends its setup request again in all
  Leaves      \* the nodes that may leave

ASSUME RegistryAssumption ==
  /\ Early \subseteq XApps
  /\ NumWorkers \in Nat \ {0}
  /\ MaxConn \in Nat
  /\ MaxResend \in Nat
  /\ Leaves \subseteq Nodes

VARIABLES
  conns,     \* per node, the associations it has opened
  joined,    \* nodes whose association is up
  acked,     \* nodes whose setup request was answered on that association
  resent,    \* per node, setup requests sent again
  fromNode,  \* per node, setup requests and the shutdown on their way
  addr,      \* endpoint: E2 nodes and the association each is reached by
  reg,       \* reg_e2_nodes_t of the iApp
  list,      \* near_ric_t.conn_e2_nodes
  lock,      \* conn_e2_nodes_mtx: the job that holds it, at most one
  jobs,      \* setup and shutdown handlers under way
  xapps,     \* map_xapps_sockaddr, in the order of registration
  e42,       \* the E42 setup the iApp's event loop is handling, at most one
  asked,     \* xApps whose E42 setup request was sent
  toXapp,    \* per xApp, messages on their way to it
  view,      \* per xApp, its reg_e2_nodes_t
  todo,      \* per xApp, what it still has to do with an update it received
  abort,     \* the assert that failed in the RIC, or "none"
  crash      \* per xApp, the assert that failed in it, or "none"

nodeVars == <<conns, joined, acked, resent>>
ricVars  == <<addr, reg, list, lock>>
iappVars == <<xapps, e42>>
xappVars == <<asked, view, todo, crash>>
vars == <<conns, joined, acked, resent, fromNode, addr, reg, list, lock, jobs,
          xapps, e42, asked, toXapp, view, todo, abort, crash>>

-----------------------------------------------------------------------------
\* A handler under way: of a setup request (try tells repeated ones apart) or of
\* a shutdown, of node n on its association c.  snap is the registry it read,
\* left the xApps it has yet to send it to.
Job == [kind : {"setup", "down"}, node : Nodes, c : 1..MaxConn, try : 0..MaxResend,
        at : {"addr", "reg", "list", "num", "snap", "send"},
        snap : SUBSET Nodes, left : Seq(XApps)]

Message == [kind : {"response", "update"}, nodes : SUBSET Nodes]

Asserts == {"E2 Node already registered", "E2 Node not found",
            "Not registered E2 Node passed",
            "Trying to extract a key not found in the tree"}

XappAsserts == {"E2 Node already registered", "valid_global_e2_node"}

\* An update under way: nodes to remove, nodes to add, and those of the latter
\* that were known before.
NoTodo == [rm |-> {}, add |-> {}, had |-> {}]

Up == abort = "none"
XappUp(x) == crash[x] = "none"

Init ==
  /\ conns = [n \in Nodes |-> 0]
  /\ joined = {}
  /\ acked = {}
  /\ resent = [n \in Nodes |-> 0]
  /\ fromNode = [n \in Nodes |-> <<>>]
  /\ addr = {}
  /\ reg = {}
  /\ list = {}
  /\ lock = {}
  /\ jobs = {}
  /\ \E s \in [1..Cardinality(Early) -> Early] :
       (\A i, j \in DOMAIN s : s[i] = s[j] => i = j) /\ xapps = s
  /\ e42 = {}
  /\ asked = Early
  /\ toXapp = [x \in XApps |-> <<>>]
  /\ view = [x \in XApps |-> {}]
  /\ todo = [x \in XApps |-> NoTodo]
  /\ abort = "none"
  /\ crash = [x \in XApps |-> "none"]

-----------------------------------------------------------------------------
(* E2 nodes *)

Emit(n, kind, c, k) ==
  fromNode' = [fromNode EXCEPT ![n] = Append(@, [kind |-> kind, c |-> c, try |-> k])]

\* e2_start_agent.
NodeJoins(n) ==
  /\ n \notin joined
  /\ conns[n] < MaxConn
  /\ conns' = [conns EXCEPT ![n] = @ + 1]
  /\ joined' = joined \cup {n}
  /\ Emit(n, "setup", conns[n] + 1, 0)
  /\ UNCHANGED <<acked, resent, ricVars, jobs, iappVars, xappVars, toXapp, abort>>

\* The agent's timer of 3000 ms expires before the setup response arrived.
NodeResends(n) ==
  /\ n \in joined \ acked
  /\ resent[n] < MaxResend
  /\ resent' = [resent EXCEPT ![n] = @ + 1]
  /\ Emit(n, "setup", conns[n], resent[n] + 1)
  /\ UNCHANGED <<conns, joined, acked, ricVars, jobs, iappVars, xappVars, toXapp,
                 abort>>

\* The node is stopped, whether or not its setup was answered.
NodeLeaves(n) ==
  /\ n \in joined \cap Leaves
  /\ joined' = joined \ {n}
  /\ acked' = acked \ {n}
  /\ Emit(n, "down", conns[n], 0)
  /\ UNCHANGED <<conns, resent, ricVars, jobs, iappVars, xappVars, toXapp, abort>>

-----------------------------------------------------------------------------
(* The event loop of the near-RIC *)

NewJob(n, at) ==
  LET m == Head(fromNode[n])
  IN  [kind |-> m.kind, node |-> n, c |-> m.c, try |-> m.try, at |-> at,
       snap |-> {}, left |-> <<>>]

\* A setup request becomes a task of the workers, a shutdown is handled by the
\* event loop itself, which receives nothing before it is done.
RicReceives(n) ==
  /\ Up
  /\ \A j \in jobs : j.kind # "down"
  /\ fromNode[n] # <<>>
  /\ jobs' = jobs \cup {NewJob(n, "addr")}
  /\ fromNode' = [fromNode EXCEPT ![n] = Tail(@)]
  /\ UNCHANGED <<nodeVars, ricVars, iappVars, xappVars, toXapp, abort>>

-----------------------------------------------------------------------------
(* e2ap_handle_setup_request_ric, by a worker *)

Moves(j, to) == jobs' = (jobs \ {j}) \cup {to}

\* A worker takes the task and records the node's address.
SetupAddr(j) ==
  /\ Up
  /\ j.kind = "setup" /\ j.at = "addr"
  /\ Cardinality({k \in jobs : k.kind = "setup" /\ k.at # "addr"}) < NumWorkers
  /\ addr' = addr \cup {<<j.node, j.c, j.try>>}
  /\ Moves(j, [j EXCEPT !.at = "reg"])
  /\ UNCHANGED <<nodeVars, fromNode, reg, list, lock, iappVars, xappVars, toXapp,
                 abort>>

\* add_e2_node_iapp_api, before the list of connected nodes is locked.
SetupReg(j) ==
  /\ Up
  /\ j.kind = "setup" /\ j.at = "reg"
  /\ \/ /\ j.node \notin reg
        /\ reg' = reg \cup {j.node}
        /\ Moves(j, [j EXCEPT !.at = "list"])
        /\ UNCHANGED abort
     \/ /\ j.node \in reg
        /\ abort' = "E2 Node already registered"
        /\ UNCHANGED <<reg, jobs>>
  /\ UNCHANGED <<nodeVars, fromNode, addr, list, lock, iappVars, xappVars, toXapp>>

\* A job, wherever it is.
Holder(j) == <<j.kind, j.node, j.c, j.try>>

\* Mutant of ListFree: a handler that does not lock the list.
ListNeverLocked == TRUE

\* conn_e2_nodes_mtx can be taken.
ListFree == lock = {}

\* The list is locked from here to the end of the handler.
SetupList(j) ==
  /\ Up
  /\ j.kind = "setup" /\ j.at = "list"
  /\ ListFree
  /\ list' = list \cup {j.node}
  /\ lock' = {Holder(j)}
  /\ Moves(j, [j EXCEPT !.at = "num"])
  /\ UNCHANGED <<nodeVars, fromNode, addr, reg, iappVars, xappVars, toXapp, abort>>

-----------------------------------------------------------------------------
(* notification_handle_ric, by the event loop *)

\* The entries of the node's address, one per setup request it was recorded by.
AddressesOf(j) == {a \in addr : a[1] = j.node /\ a[2] = j.c}

DownAddr(j) ==
  /\ Up
  /\ j.kind = "down" /\ j.at = "addr"
  /\ \/ /\ \E a \in AddressesOf(j) : addr' = addr \ {a}
        /\ Moves(j, [j EXCEPT !.at = "list"])
        /\ UNCHANGED abort
     \/ /\ AddressesOf(j) = {}
        /\ abort' = "Trying to extract a key not found in the tree"
        /\ UNCHANGED <<addr, jobs>>
  /\ UNCHANGED <<nodeVars, fromNode, reg, list, lock, iappVars, xappVars, toXapp>>

DownList(j) ==
  /\ Up
  /\ j.kind = "down" /\ j.at = "list"
  /\ ListFree
  /\ \/ /\ j.node \in list
        /\ list' = list \ {j.node}
        /\ Moves(j, [j EXCEPT !.at = "reg"])
        /\ UNCHANGED abort
     \/ /\ j.node \notin list
        /\ abort' = "E2 Node not found"
        /\ UNCHANGED <<list, jobs>>
  /\ UNCHANGED <<nodeVars, fromNode, addr, reg, lock, iappVars, xappVars, toXapp>>

\* Mutant of Erased: the node stays in the registry of the iApp.
ErasedNowhere(n) == reg

\* rm_reg_e2_node.
Erased(n) == reg \ {n}

DownReg(j) ==
  /\ Up
  /\ j.kind = "down" /\ j.at = "reg"
  /\ \/ /\ j.node \in reg
        /\ reg' = Erased(j.node)
        /\ Moves(j, [j EXCEPT !.at = "num"])
        /\ UNCHANGED abort
     \/ /\ j.node \notin reg
        /\ abort' = "Not registered E2 Node passed"
        /\ UNCHANGED <<reg, jobs>>
  /\ UNCHANGED <<nodeVars, fromNode, addr, list, lock, iappVars, xappVars, toXapp>>

-----------------------------------------------------------------------------
(* e2ap_handle_ric_e2_setup_response_iapp, at the end of both *)

\* get_num_connected_xapps; with none there is nothing to send.
ReadNum(j) ==
  /\ Up
  /\ j.at = "num"
  /\ Moves(j, [j EXCEPT !.at = IF xapps = <<>> THEN "send" ELSE "snap",
                        !.left = xapps])
  /\ UNCHANGED <<nodeVars, fromNode, ricVars, iappVars, xappVars, toXapp, abort>>

\* generate_e2_node_arr.
ReadReg(j) ==
  /\ Up
  /\ j.at = "snap"
  /\ Moves(j, [j EXCEPT !.at = "send", !.snap = reg])
  /\ UNCHANGED <<nodeVars, fromNode, ricVars, iappVars, xappVars, toXapp, abort>>

\* E42 UPDATE-E2-NODE to the next of the xApps counted.
SendUpdate(j) ==
  /\ Up
  /\ j.at = "send"
  /\ j.left # <<>>
  /\ toXapp' = [toXapp EXCEPT ![Head(j.left)] =
                  Append(@, [kind |-> "update", nodes |-> j.snap])]
  /\ Moves(j, [j EXCEPT !.left = Tail(@)])
  /\ UNCHANGED <<nodeVars, fromNode, ricVars, iappVars, xappVars, abort>>

\* Mutant of Unlocked: the handler of a setup keeps the list locked.
UnlockedNever(j) == lock

\* lock_guard releases the list when the handler of a setup returns.
Unlocked(j) == lock \ {Holder(j)}

\* The handler returns, that of a setup with a response to the node.
JobDone(j) ==
  /\ Up
  /\ j.at = "send"
  /\ j.left = <<>>
  /\ jobs' = jobs \ {j}
  /\ lock' = Unlocked(j)
  /\ acked' = IF j.kind = "setup" /\ j.c = conns[j.node]
              THEN acked \cup (joined \cap {j.node}) ELSE acked
  /\ UNCHANGED <<conns, joined, resent, fromNode, addr, reg, list, iappVars,
                 xappVars, toXapp, abort>>

-----------------------------------------------------------------------------
(* The event loop of the iApp *)

\* e2ap_handle_e42_setup_request_iapp: the response holds the registry of now.
E42Request(x) ==
  /\ Up
  /\ e42 = {}
  /\ x \notin asked
  /\ asked' = asked \cup {x}
  /\ e42' = {[xapp |-> x, at |-> "reg", nodes |-> reg]}
  /\ UNCHANGED <<nodeVars, fromNode, ricVars, jobs, xapps, toXapp, view, todo,
                 abort, crash>>

\* e2ap_reg_sock_addr_iapp.
E42Register ==
  /\ Up
  /\ \E r \in e42 :
       /\ r.at = "reg"
       /\ xapps' = Append(xapps, r.xapp)
       /\ e42' = {[r EXCEPT !.at = "send"]}
  /\ UNCHANGED <<nodeVars, fromNode, ricVars, jobs, xappVars, toXapp, abort>>

\* e2ap_send_sctp_msg_iapp.
E42Respond ==
  /\ Up
  /\ \E r \in e42 :
       /\ r.at = "send"
       /\ toXapp' = [toXapp EXCEPT ![r.xapp] =
                       Append(@, [kind |-> "response", nodes |-> r.nodes])]
  /\ e42' = {}
  /\ UNCHANGED <<nodeVars, fromNode, ricVars, jobs, xapps, xappVars, abort>>

-----------------------------------------------------------------------------
(* xApps *)

Quiet(x) == XappUp(x) /\ todo[x] = NoTodo

\* The E42 setup response: add_reg_e2_node for each of its nodes.  An update:
\* the registry is emptied and filled again, see Apply.
XappReceives(x) ==
  /\ Quiet(x)
  /\ toXapp[x] # <<>>
  /\ LET m == Head(toXapp[x])
     IN  \/ /\ m.kind = "response"
            /\ m.nodes \cap view[x] = {}
            /\ view' = [view EXCEPT ![x] = @ \cup m.nodes]
            /\ UNCHANGED <<todo, crash>>
         \/ /\ m.kind = "response"
            /\ m.nodes \cap view[x] # {}
            /\ crash' = [crash EXCEPT ![x] = "E2 Node already registered"]
            /\ UNCHANGED <<view, todo>>
         \/ /\ m.kind = "update"
            /\ todo' = [todo EXCEPT ![x] = [rm |-> view[x], add |-> m.nodes,
                                            had |-> view[x] \cap m.nodes]]
            /\ UNCHANGED <<view, crash>>
  /\ toXapp' = [toXapp EXCEPT ![x] = Tail(@)]
  /\ UNCHANGED <<nodeVars, fromNode, ricVars, jobs, iappVars, asked, abort>>

\* e2ap_handle_e42_update_e2_node_xapp locks the registry for one node at a
\* time: first all are removed, then those of the update added.
Apply(x) ==
  \/ \E n \in todo[x].rm :
       /\ todo' = [todo EXCEPT ![x].rm = @ \ {n}]
       /\ view' = [view EXCEPT ![x] = @ \ {n}]
  \/ /\ todo[x].rm = {}
     /\ \E n \in todo[x].add :
          /\ todo' = [todo EXCEPT ![x].add = @ \ {n}, ![x].had = @ \ {n}]
          /\ view' = [view EXCEPT ![x] = @ \cup {n}]

XappApplies(x) ==
  /\ XappUp(x)
  /\ todo[x] # NoTodo
  /\ Apply(x)
  /\ UNCHANGED <<nodeVars, fromNode, ricVars, jobs, iappVars, toXapp, asked,
                 abort, crash>>

\* report_sm_xapp_api in the middle of an update, for a node the application
\* found in the registry before the update and that is in it after.
XappReports(x) ==
  /\ XappUp(x)
  /\ todo[x].had \ view[x] # {}
  /\ crash' = [crash EXCEPT ![x] = "valid_global_e2_node"]
  /\ UNCHANGED <<nodeVars, fromNode, ricVars, jobs, iappVars, toXapp, asked, view,
                 todo, abort>>

-----------------------------------------------------------------------------
NodeNext == \E n \in Nodes : NodeJoins(n) \/ NodeResends(n) \/ NodeLeaves(n)

WorkerNext ==
  \E j \in {j \in jobs : j.kind = "setup"} :
    \/ SetupAddr(j) \/ SetupReg(j) \/ SetupList(j)
    \/ ReadNum(j) \/ ReadReg(j) \/ SendUpdate(j) \/ JobDone(j)

LoopNext ==
  \/ \E n \in Nodes : RicReceives(n)
  \/ \E j \in {j \in jobs : j.kind = "down"} :
       \/ DownAddr(j) \/ DownList(j) \/ DownReg(j)
       \/ ReadNum(j) \/ ReadReg(j) \/ SendUpdate(j) \/ JobDone(j)

IappNext == E42Register \/ E42Respond \/ \E x \in XApps : E42Request(x)

XappNext == \E x \in XApps : XappReceives(x) \/ XappApplies(x) \/ XappReports(x)

Next == NodeNext \/ WorkerNext \/ LoopNext \/ IappNext \/ XappNext

Spec == Init /\ [][Next]_vars

(***************************************************************************)
(* The threads of the RIC and of the xApps are scheduled and an xApp that   *)
(* is to connect does.  Nodes come and go as they like.                     *)
(***************************************************************************)
Fairness ==
  /\ WF_vars(WorkerNext)
  /\ WF_vars(LoopNext)
  /\ WF_vars(IappNext)
  /\ \A x \in XApps : WF_vars(XappReceives(x) \/ XappApplies(x))

FairSpec == Spec /\ Fairness

-----------------------------------------------------------------------------
(* Properties *)

\* Every variable has the shape of the data it models, and the list is locked
\* exactly by a setup handler between its push and its end.
TypeOK ==
  /\ conns \in [Nodes -> 0..MaxConn]
  /\ joined \subseteq Nodes
  /\ acked \subseteq joined
  /\ resent \in [Nodes -> 0..MaxResend]
  /\ fromNode \in [Nodes -> Seq([kind : {"setup", "down"}, c : 1..MaxConn,
                                try : 0..MaxResend])]
  /\ addr \subseteq Nodes \X (1..MaxConn) \X (0..MaxResend)
  /\ reg \subseteq Nodes
  /\ list \subseteq Nodes
  /\ lock = {Holder(j) :
              j \in {j \in jobs : j.kind = "setup" /\ j.at \in {"num", "snap", "send"}}}
  /\ Cardinality(lock) <= 1
  /\ jobs \subseteq Job
  /\ xapps \in Seq(XApps)
  /\ e42 \subseteq [xapp : XApps, at : {"reg", "send"}, nodes : SUBSET Nodes]
  /\ asked \subseteq XApps
  /\ toXapp \in [XApps -> Seq(Message)]
  /\ view \in [XApps -> SUBSET Nodes]
  /\ todo \in [XApps -> [rm : SUBSET Nodes, add : SUBSET Nodes, had : SUBSET Nodes]]
  /\ abort \in Asserts \cup {"none"}
  /\ crash \in [XApps -> XappAsserts \cup {"none"}]

\* When no handler is under way the RIC knows the same nodes thrice, and they are
\* the nodes whose association is up and whose messages it has all received
\* (e2ap_handle_setup_request_ric and notification_handle_ric), as long as no
\* setup request is repeated: handled after a shutdown, a second one of the same
\* association leaves a node behind that has gone.
RegistriesAgree ==
  Up /\ jobs = {} /\ (\A n \in Nodes : resent[n] = 0) =>
    /\ reg = list
    /\ reg = {a[1] : a \in addr}
    /\ \A n \in Nodes : fromNode[n] = <<>> => (n \in reg <=> n \in joined)

\* Nothing on its way to or under way at an xApp that is connected.
Told(x) ==
  /\ \E k \in 1..Len(xapps) : xapps[k] = x
  /\ jobs = {} /\ e42 = {} /\ toXapp[x] = <<>>
  /\ Quiet(x)

\* Every association a node ever opened is still up.
NobodyLeft == \A n \in Nodes : conns[n] = IF n \in joined THEN 1 ELSE 0

\* The xApps that are connected before the nodes are end up with the registry of
\* the iApp as long as no node leaves: a setup handler reads the registry and
\* sends it while it holds the list, so the last update is the most recent one
\* (e2ap_handle_setup_request_ric up to generate_update_e2_node).
EarlyXappsUpToDate ==
  Up /\ NobodyLeft => \A x \in Early : Told(x) => view[x] = reg

\* notification_handle_ric asserts that a node that shuts down is in the list.
NodeInList == abort # "E2 Node not found"

\* add_reg_e2_node asserts that a node that sets up is not registered.
NodeRegisteredOnce == abort # "E2 Node already registered"

\* A handler that starts comes to its end, or the process does: the workers and
\* the event loop never wait for each other for ever, although a setup handler
\* keeps the list locked through the whole notification of the iApp.
HandlersEnd ==
  \A n \in Nodes :
    (\E j \in jobs : j.node = n) ~> ((\A j \in jobs : j.node # n) \/ ~Up)

\* A node that stays gets its setup response.
SetupAnswered ==
  \A n \in Nodes : n \in joined ~> (n \in acked \/ n \notin joined \/ ~Up)
=============================================================================
