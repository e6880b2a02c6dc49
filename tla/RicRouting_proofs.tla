--------------------------- MODULE RicRouting_proofs ---------------------------
(***************************************************************************)
(* Proofs about RicRouting for any number of xApps, E2 nodes, workers and   *)
(* descriptors, any modulus of ric_req_id and any number of timeouts.       *)
(***************************************************************************)
EXTENDS RicRouting, TLAPS

LEMMA SettlesType == \A m \in E2Message : Settles(m) \in Requests
  BY DEF Settles, Requests

LEMMA AfterAnswerType ==
  \A s \in Stages, k \in Answers : AfterAnswer(s, k) \in Stages
  BY DEF AfterAnswer, Stages

\* Channels: a message sent keeps the type of a channel, and so does its receipt.
LEMMA AppendType ==
  ASSUME NEW S, NEW M, NEW ch \in [S -> Seq(M)], NEW s \in S, NEW m \in M
  PROVE  [ch EXCEPT ![s] = Append(@, m)] \in [S -> Seq(M)]
  OBVIOUS

LEMMA TailType ==
  ASSUME NEW S, NEW M, NEW ch \in [S -> Seq(M)], NEW s \in S, ch[s] # <<>>
  PROVE  /\ Head(ch[s]) \in M
         /\ [ch EXCEPT ![s] = Tail(@)] \in [S -> Seq(M)]
  OBVIOUS

\* One step of any thread keeps the types.
LEMMA TypeInductive == TypeOK /\ [Next]_vars => TypeOK'
<1> SUFFICES ASSUME TypeOK, [Next]_vars PROVE TypeOK'
  OBVIOUS
<1> USE RoutingAssumption
<1>1. ASSUME NEW x \in XApps, NEW i \in Ids, NEW n \in Nodes, XappRequest(x, i, n)
      PROVE  TypeOK'
  <2>1. PICK k \in {"sub", "ctrl"} :
          /\ proc' = [proc EXCEPT ![x][i] =
                        IF k = "sub" THEN "subscribing" ELSE "controlling"]
          /\ Send(fromXapp, x, [kind |-> k, id |-> i, node |-> n])
    BY <1>1 DEF XappRequest
  <2>2. proc' \in [XApps -> [Ids -> Stages]]
    BY <2>1 DEF TypeOK, Stages
  <2>3. [kind |-> k, id |-> i, node |-> n] \in E42Request
    BY DEF E42Request
  <2>4. fromXapp' \in [XApps -> Seq(E42Request)]
    BY <2>1, <2>3, AppendType DEF TypeOK, Send
  <2> QED
    BY <1>1, <2>2, <2>4 DEF XappRequest, TypeOK, ricVars, nodeVars
<1>2. ASSUME NEW x \in XApps, NEW i \in Ids, XappDelete(x, i)
      PROVE  TypeOK'
  <2>1. proc' \in [XApps -> [Ids -> Stages]]
    BY <1>2 DEF XappDelete, TypeOK, Stages
  <2>2. [kind |-> "del", id |-> i] \in E42Request
    BY DEF E42Request
  <2>3. fromXapp' \in [XApps -> Seq(E42Request)]
    BY <1>2, <2>2, AppendType DEF XappDelete, TypeOK, Send
  <2> QED
    BY <1>2, <2>1, <2>3 DEF XappDelete, TypeOK, ricVars, nodeVars
<1>3. ASSUME NEW x \in XApps, XappReceive(x)
      PROVE  TypeOK'
  <2> DEFINE m == Head(toXapp[x])
  <2>1. /\ m \in E42Message
        /\ toXapp' \in [XApps -> Seq(E42Message)]
    BY <1>3, TailType DEF XappReceive, TypeOK
  <2>2. m.id \in Ids
    BY <2>1 DEF E42Message
  <2>3. proc' \in [XApps -> [Ids -> Stages]]
    <3>1. CASE UNCHANGED proc
      BY <3>1 DEF TypeOK
    <3>2. CASE /\ m.kind \in Answers
               /\ proc' = [proc EXCEPT ![x][m.id] = AfterAnswer(@, m.kind)]
      <4>1. AfterAnswer(proc[x][m.id], m.kind) \in Stages
        BY <2>2, <3>2, AfterAnswerType DEF TypeOK
      <4> HIDE DEF m
      <4> QED
        BY <2>2, <3>2, <4>1 DEF TypeOK
    <3> QED
      BY <1>3, <3>1, <3>2 DEF XappReceive
  <2> QED
    BY <1>3, <2>1, <2>3 DEF XappReceive, TypeOK, ricVars, nodeVars
<1>4. ASSUME NEW x \in XApps, NEW fd \in Fds, ForwardRequest(x, fd)
      PROVE  TypeOK'
  <2> DEFINE m == Head(fromXapp[x])
             ric == reqId % IdMod
             org == [xapp |-> x, id |-> m.id]
  <2>1. /\ m \in E42Request
        /\ fromXapp' \in [XApps -> Seq(E42Request)]
    BY <1>4, TailType DEF ForwardRequest, TypeOK
  <2>2. m.node \in Nodes
    BY <1>4, <2>1 DEF ForwardRequest, E42Request
  <2>3. /\ m.kind \in {"sub", "ctrl"}
        /\ reqId' = reqId + 1
        /\ pending' = pending \cup {[ev |-> m.kind, ric |-> ric, fd |-> fd]}
        /\ timers' = timers \cup {fd}
        /\ toNode' = [toNode EXCEPT ![m.node] =
                        Append(@, [kind |-> m.kind, ric |-> ric, org |-> org])]
        /\ adding' = {[ric |-> ric, org |-> org, node |-> m.node]}
    BY <1>4 DEF ForwardRequest, OpenPending, Send
  <2>4. ric \in Nat /\ reqId + 1 \in Nat
    BY RoutingAssumption, SMT DEF TypeOK, RoutingAssumption
  <2>5. org \in Origin
    BY <2>1 DEF E42Request, Origin
  <2> HIDE DEF m, ric, org
  <2>6. adding' \subseteq Entry
    BY <2>2, <2>3, <2>4, <2>5 DEF Entry
  <2>7. pending' \subseteq Pending /\ timers' \subseteq Fds
    <3>1. [ev |-> m.kind, ric |-> ric, fd |-> fd] \in Pending
      BY <2>3, <2>4 DEF Pending, Requests
    <3> QED
      BY <2>3, <3>1 DEF TypeOK
  <2>8. [kind |-> m.kind, ric |-> ric, org |-> org] \in E2Request
    BY <2>3, <2>4, <2>5 DEF E2Request, Requests
  <2>9. toNode' \in [Nodes -> Seq(E2Request)]
    BY <2>2, <2>3, <2>8, AppendType DEF TypeOK
  <2>10. UNCHANGED <<proc, toXapp, map, fired, loop, tasks, running, fromNode,
                     subs, executed, abort>>
    BY <1>4 DEF ForwardRequest, nodeVars
  <2>11. reqId' \in Nat
    BY <2>3, <2>4
  <2> QED
    BY <2>1, <2>6, <2>7, <2>9, <2>10, <2>11 DEF TypeOK
<1>5. ASSUME AddMapRicId
      PROVE  TypeOK'
  <2>1. map' \subseteq Entry /\ adding' \subseteq Entry
    BY <1>5 DEF AddMapRicId, Unlock, TypeOK
  <2>2. abort' \in Asserts \cup {"none"}
    BY <1>5 DEF AddMapRicId, TypeOK, Asserts
  <2> QED
    BY <1>5, <2>1, <2>2 DEF AddMapRicId, TypeOK, xappVars, nodeVars
<1>6. ASSUME NEW x \in XApps, NEW fd \in Fds, ForwardDelete(x, fd)
      PROVE  TypeOK'
  <2> DEFINE m == Head(fromXapp[x])
             org == [xapp |-> x, id |-> m.id]
  <2>1. /\ m \in E42Request
        /\ fromXapp' \in [XApps -> Seq(E42Request)]
    BY <1>6, TailType DEF ForwardDelete, TypeOK
  <2>2. org \in Origin
    BY <2>1 DEF E42Request, Origin
  <2>3. CASE \E e \in EntriesOfOrigin(org) :
               /\ OpenPending("del", e.ric, fd)
               /\ Send(toNode, e.node, [kind |-> "del", ric |-> e.ric, org |-> org])
               /\ UNCHANGED abort
    <3> HIDE DEF m, org
    <3>1. PICK e \in map :
            /\ OpenPending("del", e.ric, fd)
            /\ Send(toNode, e.node, [kind |-> "del", ric |-> e.ric, org |-> org])
            /\ UNCHANGED abort
      BY <2>3 DEF EntriesOfOrigin
    <3>2. e.ric \in Nat /\ e.node \in Nodes
      BY DEF TypeOK, Entry
    <3>3. pending' \subseteq Pending /\ timers' \subseteq Fds
      <4>1. [ev |-> "del", ric |-> e.ric, fd |-> fd] \in Pending
        BY <3>2 DEF Pending, Requests
      <4> QED
        BY <3>1, <4>1 DEF OpenPending, TypeOK
    <3>4. [kind |-> "del", ric |-> e.ric, org |-> org] \in E2Request
      BY <2>2, <3>2 DEF E2Request, Requests
    <3>5. toNode' \in [Nodes -> Seq(E2Request)]
      BY <3>1, <3>2, <3>4, AppendType DEF Send, TypeOK
    <3> QED
      BY <1>6, <2>1, <3>1, <3>3, <3>5 DEF ForwardDelete, TypeOK, nodeVars
  <2>4. CASE /\ abort' = "Not found xApp RIC ID"
             /\ UNCHANGED <<pending, timers, toNode>>
    BY <1>6, <2>1, <2>4 DEF ForwardDelete, TypeOK, Asserts, nodeVars
  <2> QED
    BY <1>6, <2>3, <2>4 DEF ForwardDelete
<1>7. ASSUME NEW n \in Nodes, RecvSctp(n)
      PROVE  TypeOK'
  <2>1. /\ Head(fromNode[n]) \in E2Message
        /\ fromNode' \in [Nodes -> Seq(E2Message)]
    BY <1>7, TailType DEF RecvSctp, TypeOK
  <2> QED
    BY <1>7, <2>1 DEF RecvSctp, TypeOK, xappVars, nodeVars
<1>8. ASSUME NEW fd \in timers, Expire(fd)
      PROVE  TypeOK'
  BY <1>8 DEF Expire, TypeOK, xappVars, nodeVars
<1>9. ASSUME NEW fd \in fired, EpollTimer(fd)
      PROVE  TypeOK'
  BY <1>9 DEF EpollTimer, TypeOK, xappVars, nodeVars
<1>10. ASSUME PendEvent
       PROVE  TypeOK'
  BY <1>10 DEF PendEvent, TypeOK, Asserts, xappVars, nodeVars
<1>11. ASSUME NEW m \in tasks, StopPending(m)
       PROVE  TypeOK'
  <2>1. m \in E2Message /\ tasks' \subseteq E2Message
    BY <1>11 DEF StopPending, TypeOK
  <2>2. CASE \E p \in SettledBy(m) :
               /\ pending' = pending \ {p}
               /\ running' = running \cup {[msg |-> m, at |-> "rm_fd", fd |-> {p.fd}]}
               /\ UNCHANGED abort
    <3>1. PICK p \in pending :
            /\ pending' = pending \ {p}
            /\ running' = running \cup {[msg |-> m, at |-> "rm_fd", fd |-> {p.fd}]}
            /\ UNCHANGED abort
      BY <2>2 DEF SettledBy
    <3>2. p.fd \in Fds
      BY DEF TypeOK, Pending
    <3>3. running' \subseteq Work
      BY <2>1, <3>1, <3>2 DEF TypeOK, Work
    <3> QED
      BY <1>11, <2>1, <3>1, <3>3 DEF StopPending, TypeOK, xappVars, nodeVars
  <2>3. CASE /\ abort' = "Trying to extract a key not found in the tree"
             /\ UNCHANGED <<pending, running>>
    BY <1>11, <2>1, <2>3 DEF StopPending, TypeOK, Asserts, xappVars, nodeVars
  <2> QED
    BY <1>11, <2>2, <2>3 DEF StopPending
<1>12. ASSUME NEW m \in tasks, HandleIndication(m)
       PROVE  TypeOK'
  <2>1. running' \subseteq Work
    BY <1>12 DEF HandleIndication, TypeOK, Work
  <2> QED
    BY <1>12, <2>1 DEF HandleIndication, TypeOK, xappVars, nodeVars
<1>13. ASSUME NEW t \in running, RmFd(t)
       PROVE  TypeOK'
  <2>1. running' \subseteq Work
    BY <1>13 DEF RmFd, TypeOK, Work
  <2> QED
    BY <1>13, <2>1 DEF RmFd, RmFdAsio, TypeOK, xappVars, nodeVars
<1>14. ASSUME NEW t \in running, NotifyXapp(t)
       PROVE  TypeOK'
  <2>1. CASE /\ abort' \in Asserts
             /\ UNCHANGED <<toXapp, running>>
    BY <1>14, <2>1 DEF NotifyXapp, TypeOK, xappVars, nodeVars
  <2>2. CASE /\ \E e \in EntriesOfRic(t.msg.ric) :
                  Send(toXapp, e.org.xapp, [kind |-> t.msg.kind, id |-> e.org.id,
                                            org |-> t.msg.org, sn |-> t.msg.sn])
             /\ running' = running \ {t}
             /\ UNCHANGED abort
    <3>1. PICK e \in map :
            Send(toXapp, e.org.xapp, [kind |-> t.msg.kind, id |-> e.org.id,
                                      org |-> t.msg.org, sn |-> t.msg.sn])
      BY <2>2 DEF EntriesOfRic
    <3>2. e.org.xapp \in XApps /\ e.org.id \in Ids
      BY DEF TypeOK, Entry, Origin
    <3>3. [kind |-> t.msg.kind, id |-> e.org.id, org |-> t.msg.org,
           sn |-> t.msg.sn] \in E42Message
      BY <3>2 DEF TypeOK, Work, E2Message, E42Message
    <3>4. toXapp' \in [XApps -> Seq(E42Message)]
      BY <3>1, <3>2, <3>3, AppendType DEF Send, TypeOK
    <3> QED
      BY <1>14, <2>2, <3>4 DEF NotifyXapp, TypeOK, xappVars, nodeVars
  <2> QED
    BY <1>14, <2>1, <2>2 DEF NotifyXapp, Asserts
<1>15. ASSUME NEW n \in Nodes, NodeSubscribe(n)
       PROVE  TypeOK'
  <2> DEFINE m == Head(toNode[n])
  <2>1. m \in E2Request /\ toNode' \in [Nodes -> Seq(E2Request)]
    BY <1>15, TailType DEF NodeSubscribe, NodeAnswers, TypeOK
  <2>2. [kind |-> "subResp", ric |-> m.ric, org |-> m.org, sn |-> 0] \in E2Message
    BY <2>1 DEF E2Request, E2Message, Answers
  <2>3. fromNode' \in [Nodes -> Seq(E2Message)]
    BY <1>15, <2>2, AppendType DEF NodeSubscribe, NodeAnswers, Send, TypeOK
  <2>4. [ric |-> m.ric, org |-> m.org, sn |-> 0] \in Sub
    BY <2>1 DEF E2Request, Sub
  <2>5. subs' \in [Nodes -> SUBSET Sub]
    BY <1>15, <2>4 DEF NodeSubscribe, TypeOK
  <2> QED
    BY <1>15, <2>1, <2>3, <2>5 DEF NodeSubscribe, TypeOK, xappVars, ricVars
<1>16. ASSUME NEW n \in Nodes, NodeDelete(n)
       PROVE  TypeOK'
  <2> DEFINE m == Head(toNode[n])
  <2>1. PICK s \in subs[n] :
          /\ subs' = [subs EXCEPT ![n] = @ \ {s}]
          /\ NodeAnswers(n, m, "delResp", s.org)
    BY <1>16 DEF NodeDelete
  <2>2. m \in E2Request /\ toNode' \in [Nodes -> Seq(E2Request)]
    BY <1>16, <2>1, TailType DEF NodeDelete, NodeAnswers, TypeOK
  <2>3. [kind |-> "delResp", ric |-> m.ric, org |-> s.org, sn |-> 0] \in E2Message
    BY <2>2 DEF TypeOK, E2Request, E2Message, Answers, Sub
  <2>4. fromNode' \in [Nodes -> Seq(E2Message)]
    BY <2>1, <2>3, AppendType DEF NodeAnswers, Send, TypeOK
  <2>5. subs' \in [Nodes -> SUBSET Sub]
    BY <2>1 DEF TypeOK
  <2> QED
    BY <1>16, <2>2, <2>4, <2>5 DEF NodeDelete, TypeOK, xappVars, ricVars
<1>17. ASSUME NEW n \in Nodes, NodeControl(n)
       PROVE  TypeOK'
  <2> DEFINE m == Head(toNode[n])
  <2>1. PICK k \in {"ctrlAck", "ctrlFail"} : NodeAnswers(n, m, k, m.org)
    BY <1>17 DEF NodeControl
  <2>2. m \in E2Request /\ toNode' \in [Nodes -> Seq(E2Request)]
    BY <2>1, TailType DEF NodeAnswers, TypeOK
  <2>3. [kind |-> k, ric |-> m.ric, org |-> m.org, sn |-> 0] \in E2Message
    BY <2>2 DEF E2Request, E2Message, Answers
  <2>4. fromNode' \in [Nodes -> Seq(E2Message)]
    BY <2>1, <2>3, AppendType DEF NodeAnswers, Send, TypeOK
  <2>5. executed' \subseteq Origin
    BY <1>17, <2>2 DEF NodeControl, TypeOK, E2Request
  <2> QED
    BY <1>17, <2>2, <2>4, <2>5 DEF NodeControl, TypeOK, xappVars, ricVars
<1>18. ASSUME NEW n \in Nodes, NEW s \in subs[n], NodeIndicate(n, s)
       PROVE  TypeOK'
  <2>1. s \in Sub
    BY DEF TypeOK
  <2>2. /\ [s EXCEPT !.sn = @ + 1] \in Sub
        /\ [kind |-> "ind", ric |-> s.ric, org |-> s.org, sn |-> s.sn + 1] \in E2Message
    BY <2>1 DEF Sub, E2Message
  <2>3. fromNode' \in [Nodes -> Seq(E2Message)]
    BY <1>18, <2>2, AppendType DEF NodeIndicate, Send, TypeOK
  <2>4. subs' \in [Nodes -> SUBSET Sub]
    BY <1>18, <2>2 DEF NodeIndicate, TypeOK
  <2> QED
    BY <1>18, <2>3, <2>4 DEF NodeIndicate, TypeOK, xappVars, ricVars
<1>19. CASE UNCHANGED vars
  BY <1>19 DEF vars, TypeOK
<1> QED
  BY <1>1, <1>2, <1>3, <1>4, <1>5, <1>6, <1>7, <1>8, <1>9, <1>10, <1>11, <1>12,
     <1>13, <1>14, <1>15, <1>16, <1>17, <1>18, <1>19
  DEF Next, XappNext, IappNext, LoopNext, WorkerNext, NodeNext

\* Every variable keeps the shape of the data it models.
THEOREM TypeCorrect == Spec => []TypeOK
<1>1. Init => TypeOK
  BY RoutingAssumption DEF Init, TypeOK, Stages
<1> QED
  BY <1>1, TypeInductive, PTL DEF Spec

-----------------------------------------------------------------------------
(* Routing.  Every request on its way to a node, every subscription there    *)
(* and every message on its way back carries a RIC request id for which the *)
(* iApp has, or is about to have, an entry that leads to the origin.         *)

Leads(entries, ric, org) == \E e \in entries : e.ric = ric /\ e.org = org

Known(ric, org) == Leads(map \cup adding, ric, org)

MapIsFunction ==
  /\ \A e, f \in map : e.ric = f.ric => e = f
  /\ \A e, f \in adding : e = f

RequestsKnown ==
  \A n \in Nodes : \A k \in 1..Len(toNode[n]) :
    Known(toNode[n][k].ric, toNode[n][k].org)

MessagesKnown ==
  \A n \in Nodes : \A k \in 1..Len(fromNode[n]) :
    Known(fromNode[n][k].ric, fromNode[n][k].org)

TasksKnown == \A m \in tasks : Known(m.ric, m.org)

WorkKnown == \A t \in running : Known(t.msg.ric, t.msg.org)

SubsKnown == \A n \in Nodes : \A s \in subs[n] : Known(s.ric, s.org)

\* The origin of whatever an xApp receives is in the map, and so is that of a
\* subscription it holds or is about to delete.
Mapped(x, i) == \E e \in map : e.org = [xapp |-> x, id |-> i]

ConfirmationsMapped ==
  /\ \A x \in XApps : \A k \in 1..Len(toXapp[x]) : Mapped(x, toXapp[x][k].id)
  /\ \A x \in XApps, i \in Ids : proc[x][i] = "active" => Mapped(x, i)
  /\ \A x \in XApps : \A k \in 1..Len(fromXapp[x]) :
       fromXapp[x][k].kind = "del" => Mapped(x, fromXapp[x][k].id)

\* The inductive invariant.  RoutedHome alone is not inductive: it says nothing
\* of the messages that are still to be routed.
RoutingInv ==
  /\ TypeOK
  /\ MapIsFunction
  /\ RequestsKnown /\ MessagesKnown /\ TasksKnown /\ WorkKnown /\ SubsKnown
  /\ ConfirmationsMapped
  /\ RoutedHome
  /\ MapLookupsSucceed

\* What a message sent or received leaves in a channel.
LEMMA AppendElements ==
  ASSUME NEW S, NEW M, NEW ch \in [S -> Seq(M)], NEW s \in S, NEW m \in M
  PROVE  LET new == [ch EXCEPT ![s] = Append(@, m)]
         IN  \A t \in S : \A k \in 1..Len(new[t]) :
               \/ t = s /\ new[t][k] = m
               \/ k \in 1..Len(ch[t]) /\ new[t][k] = ch[t][k]
  OBVIOUS

LEMMA TailElements ==
  ASSUME NEW S, NEW M, NEW ch \in [S -> Seq(M)], NEW s \in S, ch[s] # <<>>
  PROVE  LET new == [ch EXCEPT ![s] = Tail(@)]
         IN  \A t \in S : \A k \in 1..Len(new[t]) :
               \E j \in 1..Len(ch[t]) : new[t][k] = ch[t][j]
<1> DEFINE new == [ch EXCEPT ![s] = Tail(@)]
<1> SUFFICES ASSUME NEW t \in S, NEW k \in 1..Len(new[t])
             PROVE  \E j \in 1..Len(ch[t]) : new[t][k] = ch[t][j]
  OBVIOUS
<1>1. CASE t = s
  <2>1. new[t] = Tail(ch[t])
    BY <1>1
  <2>2. k + 1 \in 1..Len(ch[t]) /\ new[t][k] = ch[t][k + 1]
    BY <1>1, <2>1
  <2> QED
    BY <2>2
<1>2. CASE t # s
  BY <1>2
<1> QED
  BY <1>1, <1>2

LEMMA HeadElement ==
  ASSUME NEW S, NEW M, NEW ch \in [S -> Seq(M)], NEW s \in S, ch[s] # <<>>
  PROVE  1 \in 1..Len(ch[s]) /\ Head(ch[s]) = ch[s][1]
  OBVIOUS

\* Entries only ever move from adding to map, so what was known stays known.
LEMMA StaysKnown ==
  ASSUME map \cup adding \subseteq (map \cup adding)'
  PROVE  \A ric, org : Known(ric, org) => Leads((map \cup adding)', ric, org)
  BY DEF Known, Leads

LEMMA StaysMapped ==
  ASSUME NEW x, NEW i, Mapped(x, i), map \subseteq map'
  PROVE  Mapped(x, i)'
  BY DEF Mapped

\* What a step that leaves a channel or a set alone leaves true.
LEMMA Frame ==
  ASSUME RoutingInv, map \subseteq map', map \cup adding \subseteq (map \cup adding)'
  PROVE  /\ UNCHANGED toNode => RequestsKnown'
         /\ UNCHANGED fromNode => MessagesKnown'
         /\ tasks' \subseteq tasks => TasksKnown'
         /\ UNCHANGED running => WorkKnown'
         /\ UNCHANGED subs => SubsKnown'
         /\ UNCHANGED <<toXapp, proc, fromXapp>> => ConfirmationsMapped'
         /\ UNCHANGED toXapp => RoutedHome'
         /\ UNCHANGED <<map, adding>> => MapIsFunction'
         /\ UNCHANGED abort => MapLookupsSucceed'
<1> USE DEF Known
<1>1. UNCHANGED toNode => RequestsKnown'
  BY StaysKnown DEF RoutingInv, RequestsKnown
<1>2. UNCHANGED fromNode => MessagesKnown'
  BY StaysKnown DEF RoutingInv, MessagesKnown
<1>3. tasks' \subseteq tasks => TasksKnown'
  BY StaysKnown DEF RoutingInv, TasksKnown
<1>4. UNCHANGED running => WorkKnown'
  BY StaysKnown DEF RoutingInv, WorkKnown
<1>5. UNCHANGED subs => SubsKnown'
  BY StaysKnown DEF RoutingInv, SubsKnown
<1>6. UNCHANGED <<toXapp, proc, fromXapp>> => ConfirmationsMapped'
  BY StaysMapped DEF RoutingInv, ConfirmationsMapped
<1>7. UNCHANGED toXapp => RoutedHome'
  BY DEF RoutingInv, RoutedHome
<1>8. UNCHANGED <<map, adding>> => MapIsFunction'
  BY DEF RoutingInv, MapIsFunction
<1>9. UNCHANGED abort => MapLookupsSucceed'
  BY DEF RoutingInv, MapLookupsSucceed
<1> QED
  BY <1>1, <1>2, <1>3, <1>4, <1>5, <1>6, <1>7, <1>8, <1>9

\* The request a node answers is known.
LEMMA RequestTaken ==
  ASSUME RoutingInv, NEW n \in Nodes, NEW m, NEW kind, NEW org,
         NodeAnswers(n, m, kind, org)
  PROVE  Known(m.ric, m.org) /\ m.org \in Origin
<1>1. toNode \in [Nodes -> Seq(E2Request)] /\ toNode[n] # <<>> /\ m = Head(toNode[n])
  BY DEF RoutingInv, TypeOK, NodeAnswers
<1>2. m \in E2Request /\ 1 \in 1..Len(toNode[n]) /\ m = toNode[n][1]
  BY <1>1
<1> QED
  BY <1>2 DEF RoutingInv, RequestsKnown, E2Request

\* The node n takes request m off its channel and answers under an origin that
\* is known for the RIC request id of m.
LEMMA AnswersStayKnown ==
  ASSUME RoutingInv, map \cup adding \subseteq (map \cup adding)',
         NEW n \in Nodes, NEW m, NEW kind \in Answers, NEW org \in Origin,
         NodeAnswers(n, m, kind, org), Known(m.ric, org)
  PROVE  RequestsKnown' /\ MessagesKnown'
<1> DEFINE ans == [kind |-> kind, ric |-> m.ric, org |-> org, sn |-> 0]
<1>1. /\ toNode[n] # <<>>
      /\ m = Head(toNode[n])
      /\ toNode' = [toNode EXCEPT ![n] = Tail(@)]
      /\ fromNode' = [fromNode EXCEPT ![n] = Append(@, ans)]
  BY DEF NodeAnswers, Send
<1>2. TypeOK
  BY DEF RoutingInv
<1>3. m \in E2Request
  BY <1>1, <1>2, TailType DEF TypeOK
<1>4. ans \in E2Message /\ Known(ans.ric, ans.org)
  BY <1>3 DEF E2Request, E2Message
<1> HIDE DEF ans
<1>5. \A o \in Nodes : \A l \in 1..Len(toNode'[o]) :
        \E j \in 1..Len(toNode[o]) : toNode'[o][l] = toNode[o][j]
  BY <1>1, <1>2, TailElements DEF TypeOK
<1>6. \A o \in Nodes : \A l \in 1..Len(fromNode'[o]) :
        \/ fromNode'[o][l] = ans
        \/ l \in 1..Len(fromNode[o]) /\ fromNode'[o][l] = fromNode[o][l]
  BY <1>1, <1>2, <1>4, AppendElements DEF TypeOK
<1>7. RequestsKnown'
  BY <1>5, StaysKnown DEF RoutingInv, RequestsKnown, Known
<1>8. MessagesKnown'
  BY <1>4, <1>6, StaysKnown DEF RoutingInv, MessagesKnown, Known
<1> QED
  BY <1>7, <1>8

\* One step of any thread keeps the routing invariant.
LEMMA RoutingInductive == RoutingInv /\ [Next]_vars => RoutingInv'
<1> SUFFICES ASSUME RoutingInv, [Next]_vars PROVE RoutingInv'
  OBVIOUS
<1>0. TypeOK /\ TypeOK'
  BY TypeInductive DEF RoutingInv
<1> DEFINE Grows == /\ map \subseteq map'
                    /\ map \cup adding \subseteq (map \cup adding)'
<1>1. ASSUME NEW x \in XApps, NEW i \in Ids, NEW n \in Nodes, XappRequest(x, i, n)
      PROVE  RoutingInv'
  <2>1. Grows
    BY <1>1 DEF XappRequest, ricVars
  <2>2. PICK k \in {"sub", "ctrl"} :
          /\ proc' = [proc EXCEPT ![x][i] =
                        IF k = "sub" THEN "subscribing" ELSE "controlling"]
          /\ fromXapp' = [fromXapp EXCEPT ![x] =
                            Append(@, [kind |-> k, id |-> i, node |-> n])]
    BY <1>1 DEF XappRequest, Send
  <2>3. [kind |-> k, id |-> i, node |-> n] \in E42Request
    BY DEF E42Request
  <2>4. UNCHANGED <<map, toXapp>>
    BY <1>1 DEF XappRequest, ricVars
  <2>5. \A y \in XApps, j \in Ids : proc'[y][j] = "active" => proc[y][j] = "active"
    BY <1>0, <2>2 DEF TypeOK
  <2>6. ASSUME NEW y \in XApps, NEW l \in 1..Len(fromXapp'[y]),
               fromXapp'[y][l].kind = "del"
        PROVE  Mapped(y, fromXapp'[y][l].id)
    <3>1. l \in 1..Len(fromXapp[y]) /\ fromXapp'[y][l] = fromXapp[y][l]
      BY <1>0, <2>2, <2>3, <2>6, AppendElements DEF TypeOK
    <3> QED
      BY <2>6, <3>1 DEF RoutingInv, ConfirmationsMapped
  <2>7. ConfirmationsMapped'
    BY <2>4, <2>5, <2>6 DEF RoutingInv, ConfirmationsMapped, Mapped
  <2> QED
    BY <1>0, <1>1, <2>1, <2>7, Frame DEF RoutingInv, XappRequest, ricVars, nodeVars
<1>2. ASSUME NEW x \in XApps, NEW i \in Ids, XappDelete(x, i)
      PROVE  RoutingInv'
  <2>1. Grows
    BY <1>2 DEF XappDelete, ricVars
  <2>2. UNCHANGED <<map, toXapp>>
    BY <1>2 DEF XappDelete, ricVars
  <2>3. \A y \in XApps, j \in Ids : proc'[y][j] = "active" => proc[y][j] = "active"
    BY <1>0, <1>2 DEF TypeOK, XappDelete
  <2>4. [kind |-> "del", id |-> i] \in E42Request
    BY DEF E42Request
  <2>5. ASSUME NEW y \in XApps, NEW l \in 1..Len(fromXapp'[y]),
               fromXapp'[y][l].kind = "del"
        PROVE  Mapped(y, fromXapp'[y][l].id)
    <3>1. \/ y = x /\ fromXapp'[y][l] = [kind |-> "del", id |-> i]
          \/ l \in 1..Len(fromXapp[y]) /\ fromXapp'[y][l] = fromXapp[y][l]
      BY <1>0, <1>2, <2>4, AppendElements DEF TypeOK, XappDelete, Send
    <3> QED
      BY <1>2, <2>5, <3>1 DEF RoutingInv, ConfirmationsMapped, XappDelete
  <2>6. ConfirmationsMapped'
    BY <2>2, <2>3, <2>5 DEF RoutingInv, ConfirmationsMapped, Mapped
  <2> QED
    BY <1>0, <1>2, <2>1, <2>6, Frame DEF RoutingInv, XappDelete, ricVars, nodeVars
<1>3. ASSUME NEW x \in XApps, XappReceive(x)
      PROVE  RoutingInv'
  <2> DEFINE m == Head(toXapp[x])
  <2>1. Grows
    BY <1>3 DEF XappReceive, ricVars
  <2>2. UNCHANGED <<map, fromXapp>>
    BY <1>3 DEF XappReceive, ricVars
  <2>3. /\ toXapp[x] # <<>>
        /\ toXapp' = [toXapp EXCEPT ![x] = Tail(@)]
    BY <1>3 DEF XappReceive
  <2>4. m \in E42Message /\ Mapped(x, m.id)
    BY <1>0, <2>3, HeadElement DEF TypeOK, RoutingInv, ConfirmationsMapped
  <2>5. \/ UNCHANGED proc
        \/ proc' = [proc EXCEPT ![x][m.id] = AfterAnswer(@, m.kind)]
    BY <1>3 DEF XappReceive
  <2>6. \A y \in XApps, j \in Ids :
          proc'[y][j] = "active" => proc[y][j] = "active" \/ (y = x /\ j = m.id)
    <3> HIDE DEF m
    <3> QED
      BY <1>0, <2>5 DEF TypeOK
  <2>7. \A y \in XApps, j \in Ids : proc'[y][j] = "active" => Mapped(y, j)
    BY <2>4, <2>6 DEF RoutingInv, ConfirmationsMapped
  <2>8. \A y \in XApps : \A l \in 1..Len(toXapp'[y]) :
          \E j \in 1..Len(toXapp[y]) : toXapp'[y][l] = toXapp[y][j]
    <3>1. toXapp \in [XApps -> Seq(E42Message)]
      BY <1>0 DEF TypeOK
    <3> QED
      BY <3>1, <2>3, TailElements
  <2>9. \A y \in XApps : \A l \in 1..Len(toXapp'[y]) : Mapped(y, toXapp'[y][l].id)
    BY <2>8 DEF RoutingInv, ConfirmationsMapped
  <2>10. ConfirmationsMapped'
    BY <2>2, <2>7, <2>9 DEF RoutingInv, ConfirmationsMapped, Mapped
  <2>11. RoutedHome'
    <3> SUFFICES ASSUME NEW y \in XApps, NEW l \in 1..Len(toXapp'[y])
                 PROVE  toXapp'[y][l].org = [xapp |-> y, id |-> toXapp'[y][l].id]
      BY DEF RoutedHome
    <3>1. PICK j \in 1..Len(toXapp[y]) : toXapp'[y][l] = toXapp[y][j]
      BY <2>8
    <3> QED
      BY <3>1 DEF RoutingInv, RoutedHome
  <2> QED
    BY <1>0, <1>3, <2>1, <2>10, <2>11, Frame
    DEF RoutingInv, XappReceive, ricVars, nodeVars
<1>4. ASSUME NEW x \in XApps, NEW fd \in Fds, ForwardRequest(x, fd)
      PROVE  RoutingInv'
  <2> DEFINE m == Head(fromXapp[x])
             ric == reqId % IdMod
             org == [xapp |-> x, id |-> m.id]
             req == [kind |-> m.kind, ric |-> ric, org |-> org]
  <2>1. /\ adding = {}
        /\ map' = map
        /\ adding' = {[ric |-> ric, org |-> org, node |-> m.node]}
        /\ fromXapp[x] # <<>>
        /\ fromXapp' = [fromXapp EXCEPT ![x] = Tail(@)]
        /\ toNode' = [toNode EXCEPT ![m.node] = Append(@, req)]
        /\ m.kind \in {"sub", "ctrl"}
    BY <1>4 DEF ForwardRequest, Send
  <2>2. UNCHANGED <<proc, toXapp, tasks, running, fromNode, subs, abort>>
    BY <1>4 DEF ForwardRequest, nodeVars
  <2>3. Grows
    BY <2>1
  <2>4. m \in E42Request
    BY <1>0, <2>1, HeadElement DEF TypeOK
  <2>5. m.node \in Nodes /\ m.id \in Ids
    BY <2>1, <2>4 DEF E42Request
  <2>6. req \in E2Request
    BY <1>0, <2>1, <2>5, RoutingAssumption, SMT
    DEF E2Request, Origin, Requests, TypeOK, RoutingAssumption
  <2> HIDE DEF m
  <2>7. Leads((map \cup adding)', ric, org)
    <3>1. [ric |-> ric, org |-> org, node |-> m.node] \in adding'
      BY <2>1
    <3> HIDE DEF ric, org
    <3> QED
      BY <3>1 DEF Leads
  <2> HIDE DEF ric, org
  <2>8. RequestsKnown'
    <3> SUFFICES ASSUME NEW n \in Nodes, NEW k \in 1..Len(toNode'[n])
                 PROVE  Leads((map \cup adding)', toNode'[n][k].ric, toNode'[n][k].org)
      BY DEF RequestsKnown, Known
    <3> HIDE DEF req
    <3>1. \/ toNode'[n][k] = req
          \/ k \in 1..Len(toNode[n]) /\ toNode'[n][k] = toNode[n][k]
      BY <1>0, <2>1, <2>5, <2>6, AppendElements DEF TypeOK
    <3>2. CASE toNode'[n][k] = req
      BY <2>7, <3>2 DEF req
    <3>3. CASE k \in 1..Len(toNode[n]) /\ toNode'[n][k] = toNode[n][k]
      BY <2>3, <3>3, StaysKnown DEF RoutingInv, RequestsKnown, Known
    <3> QED
      BY <3>1, <3>2, <3>3
  <2>9. \A y \in XApps : \A l \in 1..Len(fromXapp'[y]) :
          \E j \in 1..Len(fromXapp[y]) : fromXapp'[y][l] = fromXapp[y][j]
    <3>1. fromXapp \in [XApps -> Seq(E42Request)]
      BY <1>0 DEF TypeOK
    <3> QED
      BY <3>1, <2>1, TailElements
  <2>10. ConfirmationsMapped'
    <3>1. \A y \in XApps : \A k \in 1..Len(toXapp'[y]) : Mapped(y, toXapp'[y][k].id)
      BY <2>2 DEF RoutingInv, ConfirmationsMapped
    <3>2. \A y \in XApps, i \in Ids : proc'[y][i] = "active" => Mapped(y, i)
      BY <2>2 DEF RoutingInv, ConfirmationsMapped
    <3>3. ASSUME NEW y \in XApps, NEW l \in 1..Len(fromXapp'[y]), fromXapp'[y][l].kind = "del"
          PROVE  Mapped(y, fromXapp'[y][l].id)
      <4>1. PICK j \in 1..Len(fromXapp[y]) : fromXapp'[y][l] = fromXapp[y][j]
        BY <2>9
      <4>2. Mapped(y, fromXapp[y][j].id)
        BY <3>3, <4>1 DEF RoutingInv, ConfirmationsMapped
      <4> QED
        BY <4>1, <4>2
    <3> QED
      BY <2>1, <3>1, <3>2, <3>3 DEF ConfirmationsMapped, Mapped
  <2>11. MapIsFunction'
    BY <2>1 DEF RoutingInv, MapIsFunction
  <2> QED
    BY <1>0, <2>2, <2>3, <2>8, <2>10, <2>11, Frame DEF RoutingInv
<1>5. ASSUME AddMapRicId
      PROVE  RoutingInv'
  <2>1. PICK e \in adding :
          \/ /\ \A f \in map : f.ric # e.ric
             /\ map' = map \cup {e}
             /\ adding' = {}
             /\ UNCHANGED abort
          \/ /\ abort' = "ric_req_id already in the map"
             /\ UNCHANGED <<map, adding>>
    BY <1>5 DEF AddMapRicId, Unlock
  <2>2. \A f \in adding : f = e
    BY DEF RoutingInv, MapIsFunction
  <2>3. Grows
    BY <2>1, <2>2
  <2>4. MapIsFunction'
    BY <2>1 DEF RoutingInv, MapIsFunction
  <2>5. MapLookupsSucceed'
    BY <2>1 DEF RoutingInv, MapLookupsSucceed
  <2> QED
    BY <1>0, <1>5, <2>3, <2>4, <2>5, Frame
    DEF RoutingInv, AddMapRicId, xappVars, nodeVars
<1>6. ASSUME NEW x \in XApps, NEW fd \in Fds, ForwardDelete(x, fd)
      PROVE  RoutingInv'
  <2> DEFINE m == Head(fromXapp[x])
             org == [xapp |-> x, id |-> m.id]
  <2>1. /\ fromXapp[x] # <<>>
        /\ fromXapp' = [fromXapp EXCEPT ![x] = Tail(@)]
        /\ m.kind = "del"
        /\ UNCHANGED <<proc, toXapp, map, adding, tasks, running, fromNode, subs>>
    BY <1>6 DEF ForwardDelete, nodeVars
  <2>2. Grows
    BY <2>1
  <2>3. EntriesOfOrigin(org) # {}
    <3>1. 1 \in 1..Len(fromXapp[x]) /\ m = fromXapp[x][1]
      BY <1>0, <2>1, HeadElement DEF TypeOK
    <3>2. Mapped(x, m.id)
      BY <2>1, <3>1 DEF RoutingInv, ConfirmationsMapped
    <3> QED
      BY <3>2 DEF Mapped, EntriesOfOrigin
  <2>4. PICK e \in EntriesOfOrigin(org) :
          /\ toNode' = [toNode EXCEPT ![e.node] =
                          Append(@, [kind |-> "del", ric |-> e.ric, org |-> org])]
          /\ UNCHANGED abort
    BY <1>6, <2>3 DEF ForwardDelete, Send
  <2> DEFINE req == [kind |-> "del", ric |-> e.ric, org |-> org]
  <2>5. e \in map /\ e.org = org
    BY DEF EntriesOfOrigin
  <2>6. e.node \in Nodes /\ req \in E2Request
    BY <1>0, <2>5 DEF TypeOK, Entry, E2Request, Requests
  <2>7. Leads((map \cup adding)', e.ric, org)
    BY <2>1, <2>5 DEF Leads
  <2> HIDE DEF m, org
  <2>8. RequestsKnown'
    <3> SUFFICES ASSUME NEW n \in Nodes, NEW k \in 1..Len(toNode'[n])
                 PROVE  Leads((map \cup adding)', toNode'[n][k].ric, toNode'[n][k].org)
      BY DEF RequestsKnown, Known
    <3>1. \/ toNode'[n][k] = req
          \/ k \in 1..Len(toNode[n]) /\ toNode'[n][k] = toNode[n][k]
      <4> HIDE DEF req
      <4>1. toNode' = [toNode EXCEPT ![e.node] = Append(@, req)]
        BY <2>4 DEF req
      <4> QED
        BY <1>0, <2>6, <4>1, AppendElements DEF TypeOK
    <3>2. CASE toNode'[n][k] = req
      BY <2>7, <3>2
    <3>3. CASE k \in 1..Len(toNode[n]) /\ toNode'[n][k] = toNode[n][k]
      BY <2>2, <3>3, StaysKnown DEF RoutingInv, RequestsKnown, Known
    <3> QED
      BY <3>1, <3>2, <3>3
  <2>9. \A y \in XApps : \A l \in 1..Len(fromXapp'[y]) :
          \E j \in 1..Len(fromXapp[y]) : fromXapp'[y][l] = fromXapp[y][j]
    <3>1. fromXapp \in [XApps -> Seq(E42Request)]
      BY <1>0 DEF TypeOK
    <3> QED
      BY <3>1, <2>1, TailElements
  <2>10. ConfirmationsMapped'
    <3>1. UNCHANGED <<proc, toXapp, map>>
      BY <2>1
    <3> QED
      BY <2>9, <3>1 DEF RoutingInv, ConfirmationsMapped, Mapped
  <2> QED
    BY <1>0, <2>1, <2>2, <2>4, <2>8, <2>10, Frame DEF RoutingInv
<1>7. ASSUME NEW n \in Nodes, RecvSctp(n)
      PROVE  RoutingInv'
  <2>1. /\ fromNode[n] # <<>>
        /\ fromNode' = [fromNode EXCEPT ![n] = Tail(@)]
        /\ tasks' = tasks \cup {Head(fromNode[n])}
        /\ UNCHANGED <<proc, fromXapp, toXapp, map, adding, running, toNode, subs,
                       abort>>
    BY <1>7 DEF RecvSctp, xappVars, nodeVars
  <2>2. Grows
    BY <2>1
  <2>3. TasksKnown'
    <3>1. 1 \in 1..Len(fromNode[n]) /\ Head(fromNode[n]) = fromNode[n][1]
      BY <1>0, <2>1, HeadElement DEF TypeOK
    <3>2. Known(Head(fromNode[n]).ric, Head(fromNode[n]).org)
      BY <3>1 DEF RoutingInv, MessagesKnown
    <3> QED
      BY <2>1, <2>2, <3>2, StaysKnown DEF RoutingInv, TasksKnown, Known
  <2>4. \A o \in Nodes : \A l \in 1..Len(fromNode'[o]) :
          \E j \in 1..Len(fromNode[o]) : fromNode'[o][l] = fromNode[o][j]
    <3>1. fromNode \in [Nodes -> Seq(E2Message)]
      BY <1>0 DEF TypeOK
    <3> QED
      BY <3>1, <2>1, TailElements
  <2>5. MessagesKnown'
    BY <2>2, <2>4, StaysKnown DEF RoutingInv, MessagesKnown, Known
  <2> QED
    BY <1>0, <2>1, <2>2, <2>3, <2>5, Frame DEF RoutingInv
<1>8. ASSUME NEW fd \in timers, Expire(fd)
      PROVE  RoutingInv'
  BY <1>0, <1>8, Frame DEF RoutingInv, Expire, xappVars, nodeVars
<1>9. ASSUME NEW fd \in fired, EpollTimer(fd)
      PROVE  RoutingInv'
  BY <1>0, <1>9, Frame DEF RoutingInv, EpollTimer, xappVars, nodeVars
<1>10. ASSUME PendEvent
       PROVE  RoutingInv'
  <2>1. MapLookupsSucceed'
    BY <1>10 DEF PendEvent, RoutingInv, MapLookupsSucceed
  <2> QED
    BY <1>0, <1>10, <2>1, Frame DEF RoutingInv, PendEvent, xappVars, nodeVars
<1>11. ASSUME NEW m \in tasks, StopPending(m)
       PROVE  RoutingInv'
  <2>1. /\ tasks' \subseteq tasks
        /\ UNCHANGED <<proc, fromXapp, toXapp, map, adding, fromNode, toNode, subs>>
    BY <1>11 DEF StopPending, xappVars, nodeVars
  <2>2. Grows
    BY <2>1
  <2>3. \A t \in running' : t \in running \/ t.msg = m
    <3>1. \/ UNCHANGED running
          \/ \E p : running' = running \cup {[msg |-> m, at |-> "rm_fd", fd |-> {p.fd}]}
      BY <1>11 DEF StopPending
    <3> QED
      BY <3>1
  <2>4. WorkKnown'
    BY <2>2, <2>3, StaysKnown DEF RoutingInv, WorkKnown, TasksKnown, Known
  <2>5. MapLookupsSucceed'
    BY <1>11 DEF StopPending, RoutingInv, MapLookupsSucceed
  <2> QED
    BY <1>0, <2>1, <2>2, <2>4, <2>5, Frame DEF RoutingInv
<1>12. ASSUME NEW m \in tasks, HandleIndication(m)
       PROVE  RoutingInv'
  <2>1. /\ tasks' \subseteq tasks
        /\ UNCHANGED <<proc, fromXapp, toXapp, map, adding, fromNode, toNode, subs,
                       abort>>
    BY <1>12 DEF HandleIndication, xappVars, nodeVars
  <2>2. Grows
    BY <2>1
  <2>3. \A t \in running' : t \in running \/ t.msg = m
    BY <1>12 DEF HandleIndication
  <2>4. WorkKnown'
    BY <2>2, <2>3, StaysKnown DEF RoutingInv, WorkKnown, TasksKnown, Known
  <2> QED
    BY <1>0, <2>1, <2>2, <2>4, Frame DEF RoutingInv
<1>13. ASSUME NEW t \in running, RmFd(t)
       PROVE  RoutingInv'
  <2>1. UNCHANGED <<proc, fromXapp, toXapp, map, adding, tasks, fromNode, toNode,
                    subs, abort>>
    BY <1>13 DEF RmFd, xappVars, nodeVars
  <2>2. Grows
    BY <2>1
  <2>3. \A u \in running' : \E v \in running : u.msg = v.msg
    BY <1>0, <1>13 DEF RmFd, TypeOK, Work
  <2>4. WorkKnown'
    BY <2>2, <2>3, StaysKnown DEF RoutingInv, WorkKnown, Known
  <2> QED
    BY <1>0, <2>1, <2>2, <2>4, Frame DEF RoutingInv
<1>14. ASSUME NEW t \in running, NotifyXapp(t)
       PROVE  RoutingInv'
  <2>1. UNCHANGED <<proc, fromXapp, map, adding, tasks, fromNode, toNode, subs>>
    BY <1>14 DEF NotifyXapp, xappVars, nodeVars
  <2>2. Grows
    BY <2>1
  <2>3. CASE t.msg.ric = 0 /\ abort' = "ric_req_id > 0" /\ UNCHANGED <<toXapp, running>>
    <3>1. MapLookupsSucceed'
      BY <2>3 DEF MapLookupsSucceed
    <3> QED
      BY <1>0, <2>1, <2>2, <2>3, <3>1, Frame DEF RoutingInv
  <2>4. CASE MapReadable /\ EntriesOfRic(t.msg.ric) = {}
    BY <2>4 DEF RoutingInv, WorkKnown, Known, Leads, MapReadable, EntriesOfRic
  <2>5. CASE /\ MapReadable
             /\ \E e \in EntriesOfRic(t.msg.ric) :
                  Send(toXapp, e.org.xapp, [kind |-> t.msg.kind, id |-> e.org.id,
                                            org |-> t.msg.org, sn |-> t.msg.sn])
             /\ running' = running \ {t}
             /\ UNCHANGED abort
    <3>1. PICK e \in map :
            /\ e.ric = t.msg.ric
            /\ Send(toXapp, e.org.xapp, [kind |-> t.msg.kind, id |-> e.org.id,
                                         org |-> t.msg.org, sn |-> t.msg.sn])
      BY <2>5 DEF EntriesOfRic
    <3> DEFINE x == e.org.xapp
               msg == [kind |-> t.msg.kind, id |-> e.org.id,
                       org |-> t.msg.org, sn |-> t.msg.sn]
    <3>2. e.org = t.msg.org
      BY <2>5, <3>1 DEF RoutingInv, WorkKnown, Known, Leads, MapReadable, MapIsFunction
    <3>3. e.org \in Origin
      BY <1>0 DEF TypeOK, Entry
    <3>4. /\ x \in XApps
          /\ e.org = [xapp |-> x, id |-> e.org.id]
      BY <3>3 DEF Origin
    <3>5. msg \in E42Message
      BY <1>0, <3>2, <3>3 DEF TypeOK, Work, E2Message, E42Message, Origin
    <3>6. toXapp' = [toXapp EXCEPT ![x] = Append(@, msg)]
      BY <3>1 DEF Send
    <3>7. msg.id = e.org.id /\ msg.org = e.org
      BY <3>2
    <3> HIDE DEF x, msg
    <3>8. \A y \in XApps : \A k \in 1..Len(toXapp'[y]) :
            \/ y = x /\ toXapp'[y][k] = msg
            \/ k \in 1..Len(toXapp[y]) /\ toXapp'[y][k] = toXapp[y][k]
      BY <1>0, <3>4, <3>5, <3>6, AppendElements DEF TypeOK
    <3>9. RoutedHome'
      BY <3>4, <3>7, <3>8 DEF RoutingInv, RoutedHome
    <3>10. Mapped(x, msg.id)
      BY <3>4, <3>7 DEF Mapped
    <3>11. ConfirmationsMapped'
      BY <2>1, <3>8, <3>10 DEF RoutingInv, ConfirmationsMapped, Mapped
    <3>12. WorkKnown'
      BY <2>2, <2>5, StaysKnown DEF RoutingInv, WorkKnown, Known
    <3> QED
      BY <1>0, <2>1, <2>2, <2>5, <3>9, <3>11, <3>12, Frame DEF RoutingInv
  <2> QED
    BY <1>14, <2>3, <2>4, <2>5 DEF NotifyXapp
<1>15. ASSUME NEW n \in Nodes, NodeSubscribe(n)
       PROVE  RoutingInv'
  <2>1. PICK m : m = Head(toNode[n])
    OBVIOUS
  <2>2. /\ NodeAnswers(n, m, "subResp", m.org)
        /\ subs' = [subs EXCEPT ![n] =
                      @ \cup {[ric |-> m.ric, org |-> m.org, sn |-> 0]}]
    BY <1>15, <2>1 DEF NodeSubscribe, NodeAnswers, Send
  <2>3. UNCHANGED <<proc, fromXapp, toXapp, map, adding, tasks, running, abort>>
    BY <1>15 DEF NodeSubscribe, xappVars, ricVars
  <2>4. Grows
    BY <2>3
  <2>5. Known(m.ric, m.org) /\ m.org \in Origin
    BY <2>2, RequestTaken
  <2>6. RequestsKnown' /\ MessagesKnown'
    BY <2>2, <2>4, <2>5, AnswersStayKnown DEF Answers
  <2>7. \A o \in Nodes : \A u \in subs'[o] :
          u \in subs[o] \/ (u.ric = m.ric /\ u.org = m.org)
    BY <1>0, <2>2 DEF TypeOK
  <2>8. SubsKnown'
    BY <2>4, <2>5, <2>7, StaysKnown DEF RoutingInv, SubsKnown, Known
  <2> QED
    BY <1>0, <2>3, <2>4, <2>6, <2>8, Frame DEF RoutingInv
<1>16. ASSUME NEW n \in Nodes, NodeDelete(n)
       PROVE  RoutingInv'
  <2>1. PICK m : m = Head(toNode[n])
    OBVIOUS
  <2>2. PICK s \in subs[n] :
          /\ s.ric = m.ric
          /\ subs' = [subs EXCEPT ![n] = @ \ {s}]
          /\ NodeAnswers(n, m, "delResp", s.org)
    BY <1>16, <2>1 DEF NodeDelete, NodeAnswers, Send
  <2>3. UNCHANGED <<proc, fromXapp, toXapp, map, adding, tasks, running, abort>>
    BY <1>16 DEF NodeDelete, xappVars, ricVars
  <2>4. Grows
    BY <2>3
  <2>5. Known(m.ric, s.org) /\ s.org \in Origin
    BY <1>0, <2>2 DEF RoutingInv, SubsKnown, TypeOK, Sub
  <2>6. RequestsKnown' /\ MessagesKnown'
    BY <2>2, <2>4, <2>5, AnswersStayKnown DEF Answers
  <2>7. SubsKnown'
    BY <1>0, <2>2, <2>4, StaysKnown DEF RoutingInv, SubsKnown, TypeOK, Known
  <2> QED
    BY <1>0, <2>3, <2>4, <2>6, <2>7, Frame DEF RoutingInv
<1>17. ASSUME NEW n \in Nodes, NodeControl(n)
       PROVE  RoutingInv'
  <2>1. PICK m : m = Head(toNode[n])
    OBVIOUS
  <2>2. PICK k \in {"ctrlAck", "ctrlFail"} : NodeAnswers(n, m, k, m.org)
    BY <1>17, <2>1 DEF NodeControl, NodeAnswers, Send
  <2>3. UNCHANGED <<proc, fromXapp, toXapp, map, adding, tasks, running, subs, abort>>
    BY <1>17 DEF NodeControl, xappVars, ricVars
  <2>4. Grows
    BY <2>3
  <2>5. Known(m.ric, m.org) /\ m.org \in Origin
    BY <2>2, RequestTaken
  <2>6. RequestsKnown' /\ MessagesKnown'
    BY <2>2, <2>4, <2>5, AnswersStayKnown DEF Answers
  <2> QED
    BY <1>0, <2>3, <2>4, <2>6, Frame DEF RoutingInv
<1>18. ASSUME NEW n \in Nodes, NEW s \in subs[n], NodeIndicate(n, s)
       PROVE  RoutingInv'
  <2> DEFINE ind == [kind |-> "ind", ric |-> s.ric, org |-> s.org, sn |-> s.sn + 1]
  <2>1. /\ fromNode' = [fromNode EXCEPT ![n] = Append(@, ind)]
        /\ subs' = [subs EXCEPT ![n] = (@ \ {s}) \cup {[s EXCEPT !.sn = @ + 1]}]
        /\ UNCHANGED <<proc, fromXapp, toXapp, map, adding, tasks, running, toNode,
                       abort>>
    BY <1>18 DEF NodeIndicate, Send, xappVars, ricVars
  <2>2. Grows
    BY <2>1
  <2>3. s \in Sub /\ Known(s.ric, s.org)
    BY <1>0 DEF RoutingInv, SubsKnown, TypeOK
  <2>4. /\ ind \in E2Message
        /\ Known(ind.ric, ind.org)
    BY <2>3 DEF Sub, E2Message
  <2> HIDE DEF ind
  <2>5. \A o \in Nodes : \A l \in 1..Len(fromNode'[o]) :
          \/ fromNode'[o][l] = ind
          \/ l \in 1..Len(fromNode[o]) /\ fromNode'[o][l] = fromNode[o][l]
    BY <1>0, <2>1, <2>4, AppendElements DEF TypeOK
  <2>6. MessagesKnown'
    BY <2>2, <2>4, <2>5, StaysKnown DEF RoutingInv, MessagesKnown, Known
  <2>7. \A o \in Nodes : \A u \in subs'[o] :
          \/ u \in subs[o]
          \/ u.ric = s.ric /\ u.org = s.org
    BY <1>0, <2>1, <2>3 DEF TypeOK, Sub
  <2>8. SubsKnown'
    BY <2>2, <2>3, <2>7, StaysKnown DEF RoutingInv, SubsKnown, Known
  <2> QED
    BY <1>0, <2>1, <2>2, <2>6, <2>8, Frame DEF RoutingInv
<1>19. CASE UNCHANGED vars
  BY <1>0, <1>19, Frame DEF RoutingInv, vars
<1> QED
  BY <1>1, <1>2, <1>3, <1>4, <1>5, <1>6, <1>7, <1>8, <1>9, <1>10, <1>11, <1>12,
     <1>13, <1>14, <1>15, <1>16, <1>17, <1>18, <1>19
  DEF Next, XappNext, IappNext, LoopNext, WorkerNext, NodeNext

LEMMA RoutingInit == Init => RoutingInv
<1> SUFFICES ASSUME Init PROVE RoutingInv
  OBVIOUS
<1>1. TypeOK
  BY RoutingAssumption DEF Init, TypeOK, Stages
<1> QED
  BY <1>1
  DEF Init, RoutingInv, MapIsFunction, RequestsKnown, MessagesKnown, TasksKnown,
      WorkKnown, SubsKnown, ConfirmationsMapped, RoutedHome, MapLookupsSucceed

LEMMA RoutingInvariant == Spec => []RoutingInv
  BY RoutingInit, RoutingInductive, PTL DEF Spec

\* Every message an xApp receives belongs to the request it names.
THEOREM AnswersRoutedHome == Spec => []RoutedHome
<1>1. RoutingInv => RoutedHome
  BY DEF RoutingInv
<1> QED
  BY <1>1, RoutingInvariant, PTL

\* No lookup in map_ric_id fails, in either direction, under any interleaving.
THEOREM MapLookupsNeverFail == Spec => []MapLookupsSucceed
<1>1. RoutingInv => MapLookupsSucceed
  BY DEF RoutingInv
<1> QED
  BY <1>1, RoutingInvariant, PTL
=============================================================================
