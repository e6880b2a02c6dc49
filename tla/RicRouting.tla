----------------------------- MODULE RicRouting -----------------------------
(***************************************************************************)
(* The request path of the near-RT RIC: xApps send E42 requests to the      *)
(* iApp, the iApp has the near-RIC forward them to E2 nodes under a fresh   *)
(* RIC request id, and the answers and indications of the nodes come back   *)
(* through the near-RIC's worker threads to the xApp that asked.            *)
(*                                                                          *)
(* Three kinds of threads of the RIC process are interleaved here:          *)
(*   - the iApp event loop (ForwardRequest, AddMapRicId, ForwardDelete),    *)
(*   - the near-RIC event loop (RecvSctp, EpollTimer, PendEvent),           *)
(*   - the workers of the task manager (StopPending, HandleIndication,      *)
(*     RmFd, NotifyXapp).                                                   *)
(* An assert that fails aborts the process: `abort' names it and no thread  *)
(* of the RIC takes a step any more.  E2 nodes and xApps are the RIC's      *)
(* environment and keep running.  E2 nodes stay connected throughout; their *)
(* arrival and departure are modelled in NodeRegistry.                      *)
(***************************************************************************)
EXTENDS Integers, Sequences, FiniteSets

CONSTANTS
  XApps,       \* xApps, all past their E42 setup
  Ids,         \* keys an xApp's registry of active procedures hands out
  Nodes,       \* E2 nodes, all past their E2 setup
  NumWorkers,  \* threads of the near-RIC's task manager
  Fds,         \* descriptor numbers the process has for timers
  FirstReqId,  \* near_ric_t.req_id at start, 1021 in the code
  IdMod,       \* a ric_req_id is a uint16_t: 2^16 in the code
  MaxRequests, \* bound: procedures the xApps start in all
  MaxInd,      \* bound: indications sent per subscription
  MaxFired     \* bound: timers expired at the same time; 0 when every node
               \* answers within the 3000 ms of the pending events

ASSUME RoutingAssumption ==
  /\ Ids \subseteq Nat
  /\ NumWorkers \in Nat \ {0}
  /\ Fds \subseteq Nat
  /\ FirstReqId \in Nat
  /\ IdMod \in Nat \ {0}
  /\ MaxRequests \in Nat
  /\ MaxInd \in Nat
  /\ MaxFired \in Nat

VARIABLES
  proc,      \* per xApp and identifier, the stage of the procedure (act_proc)
  fromXapp,  \* per xApp, E42 requests in flight to the iApp
  toXapp,    \* per xApp, messages in flight from the iApp
  reqId,     \* near_ric_t.req_id, an atomic int
  adding,    \* the entry the iApp is about to add to map_ric_id, at most one;
             \* the write lock of map_ric_id is held as long as there is one
  map,       \* map_ric_id: RIC request id <-> xApp and its request id
  pending,   \* near_ric_t.pending: requests whose answer has not been handled
  timers,    \* descriptors of the timers in the epoll set
  fired,     \* timers that expired; no read ever drains one
  loop,      \* the timer epoll_wait returned to the event loop, at most one
  tasks,     \* received messages queued in the task manager
  running,   \* messages a worker is in the middle of handling
  toNode,    \* per E2 node, requests in flight to it
  fromNode,  \* per E2 node, messages in flight from it
  subs,      \* per E2 node, the active subscriptions
  executed,  \* requests whose control command was executed (history)
  abort      \* the assert that failed, or "none"

xappVars == <<proc, fromXapp>>
ricVars  == <<reqId, adding, map, pending, timers, fired, loop, tasks, running>>
nodeVars == <<subs, executed>>
vars == <<proc, fromXapp, toXapp, reqId, adding, map, pending, timers, fired,
          loop, tasks, running, toNode, fromNode, subs, executed, abort>>

-----------------------------------------------------------------------------
\* The origin of a request: the xApp and the identifier it chose.  It travels
\* as the content of the request, so that a node's answer says what it answers.
Origin == [xapp : XApps, id : Ids]

\* map_ric_id.bimap pairs an e2_node_ric_req_t with an xapp_ric_id_t.
Entry == [ric : Nat, org : Origin, node : Nodes]

Requests == {"sub", "del", "ctrl"}
Answers  == {"subResp", "delResp", "ctrlAck", "ctrlFail"}

\* A subscription delete names no node: the iApp knows it.
E42Request == [kind : {"sub", "ctrl"}, id : Ids, node : Nodes]
                \cup [kind : {"del"}, id : Ids]
E2Request  == [kind : Requests, ric : Nat, org : Origin]
E2Message  == [kind : Answers \cup {"ind"}, ric : Nat, org : Origin, sn : Nat]
E42Message == [kind : Answers \cup {"ind"}, id : Ids, org : Origin, sn : Nat]
Sub        == [ric : Nat, org : Origin, sn : Nat]

\* near_ric_t.pending.bimap pairs a timer's descriptor with a
\* pending_event_ric_t, that is an event and the ric_gen_id_t of the request.
Pending == [ev : Requests, ric : Nat, fd : Fds]

\* A message a worker is handling, and the timer it is about to close if any.
Work == [msg : E2Message, at : {"rm_fd", "notify"}, fd : SUBSET Fds]

Asserts == {"ric_req_id already in the map", "Not found xApp RIC ID",
            "Not found RIC Request ID", "ric_req_id > 0",
            "bi_map_size == 1", "it != end_it",
            "Trying to extract a key not found in the tree"}

Stages == {"idle", "subscribing", "active", "deleting", "removed",
           "controlling", "acked", "failed", "error"}

\* Mutant of Settles: a delete response stops the subscription's event.
SettlesByCopyPaste(m) == IF m.kind \in {"subResp", "delResp"} THEN "sub" ELSE "ctrl"

\* The event that an answer of an E2 node settles.
Settles(m) ==
  CASE m.kind = "subResp" -> "sub"
    [] m.kind = "delResp" -> "del"
    [] OTHER              -> "ctrl"

Send(ch, to, m) == ch' = [ch EXCEPT ![to] = Append(@, m)]

Up == abort = "none"

Init ==
  /\ proc = [x \in XApps |-> [i \in Ids |-> "idle"]]
  /\ fromXapp = [x \in XApps |-> <<>>]
  /\ toXapp = [x \in XApps |-> <<>>]
  /\ reqId = FirstReqId
  /\ adding = {}
  /\ map = {}
  /\ pending = {}
  /\ timers = {}
  /\ fired = {}
  /\ loop = {}
  /\ tasks = {}
  /\ running = {}
  /\ toNode = [n \in Nodes |-> <<>>]
  /\ fromNode = [n \in Nodes |-> <<>>]
  /\ subs = [n \in Nodes |-> {}]
  /\ executed = {}
  /\ abort = "none"

-----------------------------------------------------------------------------
(* xApps, as far as the RIC sees them *)

\* add_act_proc hands out the keys of the registry in increasing order.
NextKey(x, i) ==
  /\ proc[x][i] = "idle"
  /\ \A j \in Ids : j < i => proc[x][j] # "idle"

Started == {p \in XApps \X Ids : proc[p[1]][p[2]] # "idle"}

\* report_sm_sync_xapp and control_sm_sync_xapp: register, then send.
XappRequest(x, i, n) ==
  /\ NextKey(x, i)
  /\ Cardinality(Started) < MaxRequests
  /\ \E k \in {"sub", "ctrl"} :
       /\ proc' = [proc EXCEPT ![x][i] =
                     IF k = "sub" THEN "subscribing" ELSE "controlling"]
       /\ Send(fromXapp, x, [kind |-> k, id |-> i, node |-> n])
  /\ UNCHANGED <<toXapp, ricVars, toNode, fromNode, nodeVars, abort>>

\* rm_report_sm_sync_xapp.
XappDelete(x, i) ==
  /\ proc[x][i] = "active"
  /\ proc' = [proc EXCEPT ![x][i] = "deleting"]
  /\ Send(fromXapp, x, [kind |-> "del", id |-> i])
  /\ UNCHANGED <<toXapp, ricVars, toNode, fromNode, nodeVars, abort>>

\* The stage an answer leads to; an answer the xApp did not wait for fails an
\* assert there (find_act_proc, or the extraction of its pending event).
AfterAnswer(stage, kind) ==
  CASE stage = "subscribing" /\ kind = "subResp"  -> "active"
    [] stage = "deleting"    /\ kind = "delResp"  -> "removed"
    [] stage = "controlling" /\ kind = "ctrlAck"  -> "acked"
    [] stage = "controlling" /\ kind = "ctrlFail" -> "failed"
    [] OTHER -> "error"

XappReceive(x) ==
  /\ toXapp[x] # <<>>
  /\ LET m == Head(toXapp[x])
     IN  \/ /\ m.kind \in Answers
            /\ proc' = [proc EXCEPT ![x][m.id] = AfterAnswer(@, m.kind)]
         \/ /\ m.kind = "ind"
            /\ UNCHANGED proc
  /\ toXapp' = [toXapp EXCEPT ![x] = Tail(@)]
  /\ UNCHANGED <<fromXapp, ricVars, toNode, fromNode, nodeVars, abort>>

-----------------------------------------------------------------------------
(* The iApp event loop *)

\* The kernel gives a new timer the lowest descriptor that is free.
IsNewFd(fd) == fd \notin timers /\ \A g \in Fds : g < fd => g \in timers

\* Mutants of OpenPending: the event of a subscription whatever the request, and
\* an event recorded under a descriptor that is not its timer's.
OpenPendingSub(ev, ric, fd) ==
  /\ IsNewFd(fd)
  /\ timers' = timers \cup {fd}
  /\ pending' = pending \cup {[ev |-> "sub", ric |-> ric, fd |-> fd]}

OpenPendingFd0(ev, ric, fd) ==
  /\ IsNewFd(fd)
  /\ timers' = timers \cup {fd}
  /\ pending' = pending \cup {[ev |-> ev, ric |-> ric, fd |-> 0]}

\* create_timer_ms_asio_ric, then bi_map_insert under pend_mtx.
OpenPending(ev, ric, fd) ==
  /\ IsNewFd(fd)
  /\ timers' = timers \cup {fd}
  /\ pending' = pending \cup {[ev |-> ev, ric |-> ric, fd |-> fd]}

\* A subscription or a control request.  The iApp takes the write lock of
\* map_ric_id, then fwd_ric_subscription_request or fwd_ric_control_request
\* picks the RIC request id, opens the pending event and sends.
ForwardRequest(x, fd) ==
  /\ Up
  /\ adding = {}
  /\ fromXapp[x] # <<>>
  /\ LET m   == Head(fromXapp[x])
         ric == reqId % IdMod
         org == [xapp |-> x, id |-> m.id]
     IN  /\ m.kind \in {"sub", "ctrl"}
         /\ OpenPending(m.kind, ric, fd)
         /\ Send(toNode, m.node, [kind |-> m.kind, ric |-> ric, org |-> org])
         /\ adding' = {[ric |-> ric, org |-> org, node |-> m.node]}
  /\ reqId' = reqId + 1
  /\ fromXapp' = [fromXapp EXCEPT ![x] = Tail(@)]
  /\ UNCHANGED <<proc, toXapp, map, fired, loop, tasks, running, fromNode,
                 nodeVars, abort>>

\* Mutant of Unlock: a path that keeps the lock.
UnlockForgotten == UNCHANGED adding

\* pthread_rwlock_unlock(&iapp->map_ric_id.rw).
Unlock == adding' = {}

\* add_map_ric_id, then the write lock is released.
AddMapRicId ==
  /\ Up
  /\ \E e \in adding :
       \/ /\ \A f \in map : f.ric # e.ric
          /\ map' = map \cup {e}
          /\ Unlock
          /\ UNCHANGED abort
       \/ /\ \E f \in map : f.ric = e.ric
          /\ abort' = "ric_req_id already in the map"
          /\ UNCHANGED <<map, adding>>
  /\ UNCHANGED <<xappVars, toXapp, reqId, pending, timers, fired, loop, tasks,
                 running, toNode, fromNode, nodeVars>>

\* Mutant of EntriesOfOrigin: eq_xapp_ric_gen_id without the xApp.
EntriesOfId(org) == {e \in map : e.org.id = org.id}

\* find_ric_req_map_ric_id: the entries of an xApp's request.
EntriesOfOrigin(org) == {e \in map : e.org = org}

\* A subscription delete: the RIC request id and the node come from the map.
ForwardDelete(x, fd) ==
  /\ Up
  /\ adding = {}
  /\ fromXapp[x] # <<>>
  /\ LET m   == Head(fromXapp[x])
         org == [xapp |-> x, id |-> m.id]
     IN  /\ m.kind = "del"
         /\ \/ \E e \in EntriesOfOrigin(org) :
                 /\ OpenPending("del", e.ric, fd)
                 /\ Send(toNode, e.node,
                         [kind |-> "del", ric |-> e.ric, org |-> org])
                 /\ UNCHANGED abort
            \/ /\ EntriesOfOrigin(org) = {}
               /\ abort' = "Not found xApp RIC ID"
               /\ UNCHANGED <<pending, timers, toNode>>
  /\ fromXapp' = [fromXapp EXCEPT ![x] = Tail(@)]
  /\ UNCHANGED <<proc, toXapp, reqId, adding, map, fired, loop, tasks, running,
                 fromNode, nodeVars>>

-----------------------------------------------------------------------------
(* The near-RIC event loop *)

\* A message of a node becomes a task; workers take tasks in any order.
RecvSctp(n) ==
  /\ Up
  /\ loop = {}
  /\ fromNode[n] # <<>>
  /\ tasks' = tasks \cup {Head(fromNode[n])}
  /\ fromNode' = [fromNode EXCEPT ![n] = Tail(@)]
  /\ UNCHANGED <<xappVars, toXapp, reqId, adding, map, pending, timers, fired,
                 loop, running, toNode, nodeVars, abort>>

\* The clock: a timer of the epoll set reaches its 3000 ms.
Expire(fd) ==
  /\ fd \in timers \ fired
  /\ Cardinality(fired) < MaxFired
  /\ fired' = fired \cup {fd}
  /\ UNCHANGED <<xappVars, toXapp, reqId, adding, map, pending, timers, loop,
                 tasks, running, toNode, fromNode, nodeVars, abort>>

\* epoll_wait returns the descriptor of an expired timer.
EpollTimer(fd) ==
  /\ Up
  /\ loop = {}
  /\ fd \in fired
  /\ loop' = {fd}
  /\ UNCHANGED <<xappVars, toXapp, reqId, adding, map, pending, timers, fired,
                 tasks, running, toNode, fromNode, nodeVars, abort>>

\* pend_event looks the descriptor up under pend_mtx.  The event it returns has
\* no descriptor, so consume_fd returns at once: the timer stays readable and
\* the pending event stays where it is.
PendEvent ==
  /\ Up
  /\ \E fd \in loop :
       \/ /\ Cardinality(pending) # 1
          /\ abort' = "bi_map_size == 1"
          /\ UNCHANGED loop
       \/ /\ Cardinality(pending) = 1
          /\ \A p \in pending : p.fd # fd
          /\ abort' = "it != end_it"
          /\ UNCHANGED loop
       \/ /\ Cardinality(pending) = 1
          /\ \E p \in pending : p.fd = fd
          /\ loop' = {}
          /\ UNCHANGED abort
  /\ UNCHANGED <<xappVars, toXapp, reqId, adding, map, pending, timers, fired,
                 tasks, running, toNode, fromNode, nodeVars>>

-----------------------------------------------------------------------------
(* The workers of the task manager *)

IdleWorker == Cardinality(running) < NumWorkers

\* The pending events that message m settles; the comparator of the bimap
\* looks at the event and at the RIC request id.
SettledBy(m) == {p \in pending : p.ev = Settles(m) /\ p.ric = m.ric}

\* stop_pending_event, first half: extraction under pend_mtx.
StopPending(m) ==
  /\ Up
  /\ IdleWorker
  /\ m \in tasks
  /\ m.kind \in Answers
  /\ tasks' = tasks \ {m}
  /\ \/ \E p \in SettledBy(m) :
          /\ pending' = pending \ {p}
          /\ running' = running \cup {[msg |-> m, at |-> "rm_fd", fd |-> {p.fd}]}
          /\ UNCHANGED abort
     \/ /\ SettledBy(m) = {}
        /\ abort' = "Trying to extract a key not found in the tree"
        /\ UNCHANGED <<pending, running>>
  /\ UNCHANGED <<xappVars, toXapp, reqId, adding, map, timers, fired, loop,
                 toNode, fromNode, nodeVars>>

\* Mutant of RmFdAsio: the descriptor is closed nowhere.
RmFdAsioForgotten(fds) == UNCHANGED <<timers, fired>>

\* rm_fd_asio_ric: the descriptor leaves the epoll set and is closed.
RmFdAsio(fds) == timers' = timers \ fds /\ fired' = fired \ fds

\* stop_pending_event, second half.
RmFd(t) ==
  /\ Up
  /\ t \in running
  /\ t.at = "rm_fd"
  /\ RmFdAsio(t.fd)
  /\ running' = (running \ {t}) \cup {[t EXCEPT !.at = "notify", !.fd = {}]}
  /\ UNCHANGED <<xappVars, toXapp, reqId, adding, map, pending, loop, tasks,
                 toNode, fromNode, nodeVars, abort>>

\* An indication settles nothing; decoding it only reads.
HandleIndication(m) ==
  /\ Up
  /\ IdleWorker
  /\ m \in tasks
  /\ m.kind = "ind"
  /\ tasks' = tasks \ {m}
  /\ running' = running \cup {[msg |-> m, at |-> "notify", fd |-> {}]}
  /\ UNCHANGED <<xappVars, toXapp, reqId, adding, map, pending, timers, fired,
                 loop, toNode, fromNode, nodeVars, abort>>

\* Mutant of EntriesOfRic: the first entry instead of the one found, the slip
\* that publish_ind_msg makes with its own table.
EntriesOfAnyRic(ric) == map

\* find_xapp_map_ric_id: the entries a RIC request id leads to.
EntriesOfRic(ric) == {e \in map : e.ric = ric}

\* Mutant of MapReadable: a lookup without the lock.
MapReadUnlocked == TRUE

\* The read lock of map_ric_id is not free while the iApp holds the write lock.
MapReadable == adding = {}

\* notify_msg_iapp: look the xApp up and pass the message on under the
\* identifier the xApp chose.
NotifyXapp(t) ==
  /\ Up
  /\ t \in running
  /\ t.at = "notify"
  /\ \/ /\ t.msg.ric = 0
        /\ abort' = "ric_req_id > 0"
        /\ UNCHANGED <<toXapp, running>>
     \/ /\ t.msg.ric > 0
        /\ MapReadable
        /\ EntriesOfRic(t.msg.ric) = {}
        /\ abort' = "Not found RIC Request ID"
        /\ UNCHANGED <<toXapp, running>>
     \/ /\ t.msg.ric > 0
        /\ MapReadable
        /\ \E e \in EntriesOfRic(t.msg.ric) :
             Send(toXapp, e.org.xapp, [kind |-> t.msg.kind, id |-> e.org.id,
                                       org |-> t.msg.org, sn |-> t.msg.sn])
        /\ running' = running \ {t}
        /\ UNCHANGED abort
  /\ UNCHANGED <<xappVars, reqId, adding, map, pending, timers, fired, loop,
                 tasks, toNode, fromNode, nodeVars>>

-----------------------------------------------------------------------------
(* E2 nodes, as far as the RIC sees them *)

\* The node takes request m and answers with a message of the given kind.
NodeAnswers(n, m, kind, org) ==
  /\ toNode[n] # <<>>
  /\ m = Head(toNode[n])
  /\ toNode' = [toNode EXCEPT ![n] = Tail(@)]
  /\ Send(fromNode, n, [kind |-> kind, ric |-> m.ric, org |-> org, sn |-> 0])

NodeSubscribe(n) ==
  /\ toNode[n] # <<>>
  /\ LET m == Head(toNode[n])
     IN  /\ m.kind = "sub"
         /\ NodeAnswers(n, m, "subResp", m.org)
         /\ subs' = [subs EXCEPT ![n] =
                       @ \cup {[ric |-> m.ric, org |-> m.org, sn |-> 0]}]
  /\ UNCHANGED <<xappVars, toXapp, ricVars, executed, abort>>

\* stop_ind_event finds the subscription by its RIC request id.
NodeDelete(n) ==
  /\ toNode[n] # <<>>
  /\ LET m == Head(toNode[n])
     IN  /\ m.kind = "del"
         /\ \E s \in subs[n] :
              /\ s.ric = m.ric
              /\ subs' = [subs EXCEPT ![n] = @ \ {s}]
              /\ NodeAnswers(n, m, "delResp", s.org)
  /\ UNCHANGED <<xappVars, toXapp, ricVars, executed, abort>>

\* The agent of this repository always acknowledges; other E2 nodes may refuse.
NodeControl(n) ==
  /\ toNode[n] # <<>>
  /\ LET m == Head(toNode[n])
     IN  /\ m.kind = "ctrl"
         /\ \/ /\ NodeAnswers(n, m, "ctrlAck", m.org)
               /\ executed' = executed \cup {m.org}
            \/ /\ NodeAnswers(n, m, "ctrlFail", m.org)
               /\ UNCHANGED executed
  /\ UNCHANGED <<xappVars, toXapp, ricVars, subs, abort>>

NodeIndicate(n, s) ==
  /\ s \in subs[n]
  /\ s.sn < MaxInd
  /\ subs' = [subs EXCEPT ![n] = (@ \ {s}) \cup {[s EXCEPT !.sn = @ + 1]}]
  /\ Send(fromNode, n, [kind |-> "ind", ric |-> s.ric, org |-> s.org,
                        sn |-> s.sn + 1])
  /\ UNCHANGED <<xappVars, toXapp, ricVars, toNode, executed, abort>>

-----------------------------------------------------------------------------
XappNext ==
  \E x \in XApps :
    \/ \E i \in Ids : XappDelete(x, i) \/ \E n \in Nodes : XappRequest(x, i, n)
    \/ XappReceive(x)

IappNext ==
  \/ AddMapRicId
  \/ \E x \in XApps, fd \in Fds : ForwardRequest(x, fd) \/ ForwardDelete(x, fd)

LoopNext ==
  \/ \E n \in Nodes : RecvSctp(n)
  \/ \E fd \in timers : Expire(fd)
  \/ \E fd \in fired : EpollTimer(fd)
  \/ PendEvent

WorkerNext ==
  \/ \E m \in tasks : StopPending(m) \/ HandleIndication(m)
  \/ \E t \in running : RmFd(t) \/ NotifyXapp(t)

NodeNext ==
  \E n \in Nodes :
    \/ NodeSubscribe(n) \/ NodeDelete(n) \/ NodeControl(n)
    \/ \E s \in subs[n] : NodeIndicate(n, s)

Next == XappNext \/ IappNext \/ LoopNext \/ WorkerNext \/ NodeNext

Spec == Init /\ [][Next]_vars

(***************************************************************************)
(* The threads of the RIC are scheduled, xApps read their socket and nodes  *)
(* answer what they receive.  Nothing obliges an xApp to send a request, a  *)
(* node to report, or a timer to expire.                                    *)
(***************************************************************************)
Fairness ==
  /\ WF_vars(AddMapRicId)
  /\ \A x \in XApps :
       WF_vars(\E fd \in Fds : ForwardRequest(x, fd) \/ ForwardDelete(x, fd))
  /\ \A n \in Nodes : WF_vars(RecvSctp(n))
  /\ WF_vars(WorkerNext)
  /\ \A n \in Nodes : WF_vars(NodeSubscribe(n) \/ NodeDelete(n) \/ NodeControl(n))
  /\ \A x \in XApps : WF_vars(XappReceive(x))

FairSpec == Spec /\ Fairness

-----------------------------------------------------------------------------
(* Properties *)

\* Every variable has the shape of the data it models.
TypeOK ==
  /\ proc \in [XApps -> [Ids -> Stages]]
  /\ fromXapp \in [XApps -> Seq(E42Request)]
  /\ toXapp \in [XApps -> Seq(E42Message)]
  /\ reqId \in Nat
  /\ adding \subseteq Entry
  /\ map \subseteq Entry
  /\ pending \subseteq Pending
  /\ timers \subseteq Fds
  /\ fired \subseteq Fds
  /\ loop \subseteq Fds
  /\ tasks \subseteq E2Message
  /\ running \subseteq Work
  /\ toNode \in [Nodes -> Seq(E2Request)]
  /\ fromNode \in [Nodes -> Seq(E2Message)]
  /\ subs \in [Nodes -> SUBSET Sub]
  /\ executed \subseteq Origin
  /\ abort \in Asserts \cup {"none"}

\* Whatever the iApp passes to an xApp answers, or reports on, a request of
\* that very xApp under the identifier it carries: the translation back through
\* map_ric_id (find_xapp_map_ric_id in the handlers of msg_handler_iapp.c)
\* never mixes two xApps or two of their requests up, in whatever order the
\* workers finish and however often ric_req_id has wrapped.
RoutedHome ==
  \A x \in XApps : \A k \in 1..Len(toXapp[x]) :
    toXapp[x][k].org = [xapp |-> x, id |-> toXapp[x][k].id]

\* The lookups in map_ric_id succeed: a worker with an answer or an indication
\* in hand finds the xApp to pass it to (find_xapp_map_ric_id), even when the
\* answer beats add_map_ric_id, and the iApp finds the E2 node of a subscription
\* to delete (find_ric_req_map_ric_id).
MapLookupsSucceed ==
  abort \notin {"Not found RIC Request ID", "Not found xApp RIC ID"}

\* A worker that handles an answer finds its pending event (the assert of
\* assoc_rb_tree.c's extract), whatever timers expired meanwhile.
ExtractionSucceeds == abort # "Trying to extract a key not found in the tree"

\* A delete reaches its node only after the subscription it deletes was
\* installed there, and the one it finds by RIC request id (stop_ind_event in
\* the agent) is the one the xApp meant.
DeleteFindsSubscription ==
  \A n \in Nodes : \A k \in 1..Len(toNode[n]) :
    toNode[n][k].kind = "del" =>
      \E s \in subs[n] : s.ric = toNode[n][k].ric /\ s.org = toNode[n][k].org

\* An xApp gets exactly the answer its procedure waits for: one per request, of
\* the kind that matches, never a second one (the registry lookups and the
\* extraction of the pending event in msg_handler_xapp.c would assert).
ExpectedAnswers == \A x \in XApps, i \in Ids : proc[x][i] # "error"

\* The requests an E2 node has not answered yet, or whose answer is on its way
\* to stop_pending_event.
Outstanding ==
  UNION {{<<toNode[n][k].kind, toNode[n][k].ric>> : k \in 1..Len(toNode[n])}
           : n \in Nodes}
  \cup
  UNION {{<<Settles(fromNode[n][k]), fromNode[n][k].ric>> :
            k \in {k \in 1..Len(fromNode[n]) : fromNode[n][k].kind # "ind"}}
           : n \in Nodes}
  \cup
  {<<Settles(m), m.ric>> : m \in {m \in tasks : m.kind # "ind"}}

\* near_ric_t.pending holds one event for each outstanding request and none for
\* any other, so the timers of answered requests are stopped and no request is
\* left without one, whichever threads open and settle them.
PendingIsOutstanding ==
  Up => /\ {<<p.ev, p.ric>> : p \in pending} = Outstanding
        /\ \A p, q \in pending : <<p.ev, p.ric>> = <<q.ev, q.ric>> => p = q

\* The timers of the epoll set are those of the pending events and of the
\* answers between the two halves of stop_pending_event, each the timer of one:
\* no descriptor leaks and none is closed twice.
TimersAreOwned ==
  Up => /\ timers = {p.fd : p \in pending} \cup UNION {t.fd : t \in running}
        /\ \A p, q \in pending : p.fd = q.fd => p = q
        /\ \A t, u \in running : t.fd \cap u.fd # {} => t = u
        /\ \A p \in pending, t \in running : p.fd \notin t.fd

\* As long as every node answers in time the near-RIC and the iApp hit no
\* assert on the request path.
NoAbort == abort = "none"

\* pend_event asserts that exactly one request is outstanding whenever a timer
\* expires.
OnePendingAtTimeout == abort # "bi_map_size == 1"

\* A procedure an xApp starts is answered (its UI thread waits for the answer
\* in cond_wait_sync_ui): the RIC neither drops a request nor an answer and its
\* threads do not wait for each other.
EveryRequestAnswered ==
  \A x \in XApps, i \in Ids :
    /\ proc[x][i] = "subscribing" ~> proc[x][i] = "active"
    /\ proc[x][i] = "deleting" ~> proc[x][i] = "removed"
    /\ proc[x][i] = "controlling" ~> proc[x][i] \in {"acked", "failed"}

\* The RIC implements the service it offers to its xApps.
Service == INSTANCE E2Service WITH
  installed <- {<<s.org.xapp, s.org.id>> : s \in UNION {subs[n] : n \in Nodes}},
  executed  <- {<<o.xapp, o.id>> : o \in executed}

\* Every step of the RIC, its nodes and xApps is a step of E2Service or changes
\* nothing that E2Service speaks of: a subscription is confirmed only when a
\* node has it, removed once, and a control command executed at most once and
\* acknowledged only if it was.
ImplementsService == Service!Spec
=============================================================================
