------------------------------- MODULE E42Xapp -------------------------------
(***************************************************************************)
(* The xApp SDK.  An application calls a blocking API (report_sm, rm_report *)
(* and control_sm of e42_xapp_api.h); inside, three threads share the       *)
(* registry of active procedures, the pending events and a flag with its    *)
(* condition variable:                                                      *)
(*   - the caller registers a procedure, opens its pending event, sends the *)
(*     request and waits on the flag,                                       *)
(*   - the event loop of the xApp settles the answer and sets the flag, and *)
(*     hands indications over to the dispatcher,                            *)
(*   - the dispatcher runs the application's callbacks.                     *)
(* One caller, as in every application of the repository.  The RIC is the   *)
(* environment: it answers each request once, and since its workers run in  *)
(* parallel its messages come in any order.  A failed assert ends the       *)
(* process, E2 nodes and the RIC run on.                                    *)
(***************************************************************************)
EXTENDS Integers, Sequences, FiniteSets

CONSTANTS
  Ids,        \* keys the registry of active procedures hands out
  MaxInd,     \* bound: indications sent per subscription
  MaxResend,  \* bound: times the E42 setup request is sent again
  Late        \* TRUE when answers may miss the 5000 ms of their pending event

ASSUME XappAssumption ==
  Ids \subseteq Nat /\ MaxInd \in Nat /\ MaxResend \in Nat /\ Late \in BOOLEAN

VARIABLES
  stage,      \* per identifier, what the application knows of the procedure
  pc,         \* where the caller is
  cur,        \* the identifier its call is about, at most one
  procs,      \* act_proc: the identifiers registered
  pending,    \* pending_event_xapp_ds_t: events whose timers are armed
  flag,       \* sync_ui_t.flag_sync
  ack,        \* sync_ui_t.msg_ack, with msg_error its negation
  loop,       \* outcome the event loop is about to signal, at most one
  connected,  \* e42_xapp_t.connected
  resent,     \* E42 setup requests sent again
  queue,      \* msg_dispatcher_xapp_t.q
  disp,       \* where the dispatcher is
  qStop,      \* tsnq_t.stop_token
  stop,       \* how far try_stop_xapp_api got
  toRic,      \* requests in flight to the RIC
  toXapp,     \* messages in flight from the RIC
  subs,       \* subscriptions active in the E2 nodes
  executed,   \* identifiers whose control command was executed (history)
  abort       \* the assert that failed, or "none"

callVars == <<stage, pc, cur>>
syncVars == <<flag, ack>>
dispVars == <<queue, disp, qStop>>
ricVars  == <<subs, executed>>
vars == <<stage, pc, cur, procs, pending, flag, ack, loop, connected, resent,
          queue, disp, qStop, stop, toRic, toXapp, subs, executed, abort>>

-----------------------------------------------------------------------------
Stages == {"idle", "subscribing", "active", "deleting", "removed",
           "controlling", "acked", "failed"}

Kinds == {"sub", "del", "ctrl"}

\* An event and, but for the setup, the identifier it is about.
Event == [ev : Kinds, id : Ids] \cup [ev : {"setup"}]

Request == [kind : Kinds, id : Ids] \cup [kind : {"setup"}, sn : 0..MaxResend]

Ind     == [kind : {"ind"}, id : Ids, sn : 1..MaxInd]
Answer  == [kind : {"subResp", "delResp", "ctrlAck", "ctrlFail"}, id : Ids]
Message == Ind \cup Answer \cup [kind : {"setup"}, sn : 0..MaxResend]

Asserts == {"connected == false", "Timeout waiting for an answer",
            "Unforeseen path", "ric_req_id not registered",
            "Trying to extract a key not found in the tree"}

\* The kind of request the caller is in the middle of.
KindAt == [subscribing |-> "sub", deleting |-> "del", controlling |-> "ctrl"]
KindOf(i) == KindAt[stage[i]]

Up == abort = "none"

\* init_e42_xapp, and start_e42_xapp up to its event loop: the setup request is
\* sent and its pending event opened.
Init ==
  /\ stage = [i \in Ids |-> "idle"]
  /\ pc = "connecting"
  /\ cur = {}
  /\ procs = {}
  /\ pending = {[ev |-> "setup"]}
  /\ flag = FALSE
  /\ ack = FALSE
  /\ loop = {}
  /\ connected = FALSE
  /\ resent = 0
  /\ queue = <<>>
  /\ disp = "check"
  /\ qStop = FALSE
  /\ stop = "no"
  /\ toRic = <<[kind |-> "setup", sn |-> 0]>>
  /\ toXapp = {}
  /\ subs = {}
  /\ executed = {}
  /\ abort = "none"

-----------------------------------------------------------------------------
(* The caller *)

\* init_xapp_api polls the flag until the setup response arrived.
Connected ==
  /\ Up
  /\ pc = "connecting"
  /\ connected
  /\ pc' = "idle"
  /\ UNCHANGED <<stage, cur, procs, pending, syncVars, loop, connected, resent,
                 dispVars, stop, toRic, toXapp, ricVars, abort>>

\* add_act_proc hands out the keys of the registry in increasing order.
NextKey(i) == stage[i] = "idle" /\ \A j \in Ids : j < i => stage[j] # "idle"

\* Mutant of OpensFirst: a subscription too is sent first.
NeverOpensFirst(kind) == FALSE

\* Whether the handler of a request opens its pending event before it sends.
OpensFirst(kind) == kind = "sub"

\* The call for procedure i begins.
Calls(i, st) ==
  /\ stage' = [stage EXCEPT ![i] = st]
  /\ cur' = {i}
  /\ pc' = IF OpensFirst(KindAt[st]) THEN "open" ELSE "send"

\* report_sm_sync_xapp and control_sm_sync_xapp register the procedure.
StartRequest(i) ==
  /\ Up
  /\ pc = "idle"
  /\ stop = "no"
  /\ NextKey(i)
  /\ procs' = procs \cup {i}
  /\ Calls(i, "subscribing") \/ Calls(i, "controlling")
  /\ UNCHANGED <<pending, syncVars, loop, connected, resent, dispVars, stop,
                 toRic, toXapp, ricVars, abort>>

\* rm_report_sm_sync_xapp with a handle the application holds.
StartDelete(i) ==
  /\ Up
  /\ pc = "idle"
  /\ stop = "no"
  /\ stage[i] = "active"
  /\ \/ i \in procs /\ Calls(i, "deleting") /\ UNCHANGED abort
     \/ /\ i \notin procs
        /\ abort' = "ric_req_id not registered"
        /\ UNCHANGED callVars
  /\ UNCHANGED <<procs, pending, syncVars, loop, connected, resent, dispVars,
                 stop, toRic, toXapp, ricVars>>

\* add_pending_event_xapp.
OpenPending(i) ==
  /\ Up
  /\ pc = "open"
  /\ i \in cur
  /\ pending' = pending \cup {[ev |-> KindOf(i), id |-> i]}
  /\ pc' = IF OpensFirst(KindOf(i)) THEN "send" ELSE "wait"
  /\ UNCHANGED <<stage, cur, procs, syncVars, loop, connected, resent, dispVars,
                 stop, toRic, toXapp, ricVars, abort>>

\* e2ap_send_bytes_xapp.
SendRequest(i) ==
  /\ Up
  /\ pc = "send"
  /\ i \in cur
  /\ toRic' = Append(toRic, [kind |-> KindOf(i), id |-> i])
  /\ pc' = IF OpensFirst(KindOf(i)) THEN "wait" ELSE "open"
  /\ UNCHANGED <<stage, cur, procs, pending, syncVars, loop, connected, resent,
                 dispVars, stop, toXapp, ricVars, abort>>

\* Mutant of ResetFlags: the flags of the last call are kept.
ResetForgotten == UNCHANGED syncVars

\* The flags cond_wait_sync_ui clears, whatever was signalled before.
ResetFlags == flag' = FALSE /\ ack' = FALSE

\* cond_wait_sync_ui up to the wait.
EnterWait ==
  /\ Up
  /\ pc = "wait"
  /\ ResetFlags
  /\ pc' = "waiting"
  /\ UNCHANGED <<stage, cur, procs, pending, loop, connected, resent, dispVars,
                 stop, toRic, toXapp, ricVars, abort>>

\* cond_wait_sync_ui finds the flag set.
WakeUp ==
  /\ Up
  /\ pc = "waiting"
  /\ flag
  /\ pc' = IF ack THEN "ok" ELSE "error"
  /\ UNCHANGED <<stage, cur, procs, pending, syncVars, loop, connected, resent,
                 dispVars, stop, toRic, toXapp, ricVars, abort>>

\* Mutant of Elapsed: a wait without a timeout.
NeverElapsed == FALSE

\* The 6 s of the wait outlast the 5 s of the pending event, which was opened
\* before: the event loop would have ended the process when that timer expired.
Elapsed == loop = {} /\ {p \in pending : p.ev # "setup"} = {}

CondTimeout ==
  /\ Up
  /\ pc = "waiting"
  /\ ~flag
  /\ Elapsed
  /\ abort' = "Unforeseen path"
  /\ UNCHANGED <<callVars, procs, pending, syncVars, loop, connected, resent,
                 dispVars, stop, toRic, toXapp, ricVars>>

UnregisterAll(i) == procs \ {i}

\* rm_act_proc after a delete or a control; a subscription stays active.
Unregister(i) == IF stage[i] = "subscribing" THEN procs ELSE procs \ {i}

\* Mutant of Outcome: a delete's bookkeeping is forgotten.
OutcomeOfDeleteForgotten(i) ==
  CASE stage[i] = "subscribing" -> "active"
    [] stage[i] = "deleting"    -> "deleting"
    [] stage[i] = "controlling" -> IF pc = "ok" THEN "acked" ELSE "failed"

\* The stage an answer leads to.  A report and a delete ignore what
\* cond_wait_sync_ui returns.
Outcome(i) ==
  CASE stage[i] = "subscribing" -> "active"
    [] stage[i] = "deleting"    -> "removed"
    [] stage[i] = "controlling" -> IF pc = "ok" THEN "acked" ELSE "failed"

\* The call returns.
Return(i) ==
  /\ Up
  /\ pc \in {"ok", "error"}
  /\ i \in cur
  /\ procs' = Unregister(i)
  /\ stage' = [stage EXCEPT ![i] = Outcome(i)]
  /\ cur' = {}
  /\ pc' = "idle"
  /\ UNCHANGED <<pending, syncVars, loop, connected, resent, dispVars, stop,
                 toRic, toXapp, ricVars, abort>>

-----------------------------------------------------------------------------
(* The event loop *)

Running == Up /\ loop = {} /\ stop \in {"no", "asked"}

\* e2ap_handle_e42_setup_response_xapp.
SetupResponse(m) ==
  /\ Running
  /\ m \in toXapp
  /\ m.kind = "setup"
  /\ toXapp' = toXapp \ {m}
  /\ \/ /\ ~connected
        /\ pending' = pending \ {[ev |-> "setup"]}
        /\ connected' = TRUE
        /\ UNCHANGED abort
     \/ /\ connected
        /\ abort' = "connected == false"
        /\ UNCHANGED <<pending, connected>>
  /\ UNCHANGED <<callVars, procs, syncVars, loop, resent, dispVars, stop, toRic,
                 ricVars>>

\* The timer of the setup expires: the request is sent again, the timer, a
\* periodic one, stays.
ResendSetup ==
  /\ Running
  /\ [ev |-> "setup"] \in pending
  /\ resent < MaxResend
  /\ resent' = resent + 1
  /\ toRic' = Append(toRic, [kind |-> "setup", sn |-> resent + 1])
  /\ UNCHANGED <<callVars, procs, pending, syncVars, loop, connected, dispVars,
                 stop, toXapp, ricVars, abort>>

\* The timer of any other pending event expires.
RequestTimeout ==
  /\ Late
  /\ Running
  /\ \E p \in pending : p.ev # "setup"
  /\ abort' = "Timeout waiting for an answer"
  /\ UNCHANGED <<callVars, procs, pending, syncVars, loop, connected, resent,
                 dispVars, stop, toRic, toXapp, ricVars>>

\* The pending events an answer settles: cmp_pending_event compares the event
\* and not the identifier.
Settled(m) ==
  {p \in pending :
     CASE m.kind = "subResp" -> p.ev = "sub"
       [] m.kind = "delResp" -> p.ev = "del"
       [] OTHER              -> p.ev = "ctrl"}

\* An answer: find_act_proc, then rm_pending_event_xapp.  A control failure of
\* an unknown procedure skips both.
SettleAnswer(m) ==
  /\ Running
  /\ m \in toXapp
  /\ m \in Answer
  /\ toXapp' = toXapp \ {m}
  /\ \/ /\ m.id \in procs
        /\ \E p \in Settled(m) : pending' = pending \ {p}
        /\ loop' = {m.kind # "ctrlFail"}
        /\ UNCHANGED abort
     \/ /\ m.id \in procs
        /\ Settled(m) = {}
        /\ abort' = "Trying to extract a key not found in the tree"
        /\ UNCHANGED <<pending, loop>>
     \/ /\ m.id \notin procs
        /\ IF m.kind = "ctrlFail"
           THEN loop' = {FALSE} /\ UNCHANGED abort
           ELSE abort' = "ric_req_id not registered" /\ UNCHANGED loop
        /\ UNCHANGED pending
  /\ UNCHANGED <<callVars, procs, syncVars, connected, resent, dispVars, stop,
                 toRic, ricVars>>

\* signal_sync_ui and signal_error_sync_ui.
Signal ==
  /\ Up
  /\ \E ok \in loop : flag' = TRUE /\ ack' = ok
  /\ loop' = {}
  /\ UNCHANGED <<callVars, procs, pending, connected, resent, dispVars, stop,
                 toRic, toXapp, ricVars, abort>>

\* Mutant of Wakes: a push that does not signal.
PushesSilently == disp

\* pthread_cond_signal: a dispatcher that waits looks again.
Wakes == IF disp = "waiting" THEN "check" ELSE disp

\* An indication of a registered procedure goes to the dispatcher, any other is
\* dropped.
Indication(m) ==
  /\ Running
  /\ m \in toXapp
  /\ m.kind = "ind"
  /\ toXapp' = toXapp \ {m}
  /\ \/ /\ m.id \in procs
        /\ queue' = Append(queue, m)
        /\ disp' = Wakes
     \/ /\ m.id \notin procs
        /\ UNCHANGED <<queue, disp>>
  /\ UNCHANGED <<callVars, procs, pending, syncVars, loop, connected, resent,
                 qStop, stop, toRic, ricVars, abort>>

-----------------------------------------------------------------------------
(* The dispatcher *)

\* wait_and_pop_tsnq under the mutex of the queue, and the callback.
Dispatch ==
  /\ Up
  /\ \/ /\ disp = "check" /\ qStop
        /\ disp' = "stopped"
        /\ UNCHANGED queue
     \/ /\ disp = "check" /\ ~qStop /\ queue = <<>>
        /\ disp' = "waiting"
        /\ UNCHANGED queue
     \/ /\ disp = "check" /\ ~qStop /\ queue # <<>>
        /\ disp' = "callback"
        /\ queue' = Tail(queue)
     \/ /\ disp = "callback"
        /\ disp' = "check"
        /\ UNCHANGED queue
  /\ UNCHANGED <<callVars, procs, pending, syncVars, loop, connected, resent,
                 qStop, stop, toRic, toXapp, ricVars, abort>>

-----------------------------------------------------------------------------
(* Stopping *)

\* try_stop_xapp_api: false unless the dispatcher's queue is empty.
TryStop ==
  /\ Up
  /\ pc = "idle"
  /\ stop = "no"
  /\ queue = <<>>
  /\ stop' = "asked"
  /\ UNCHANGED <<callVars, procs, pending, syncVars, loop, connected, resent,
                 dispVars, toRic, toXapp, ricVars, abort>>

\* The event loop sees stop_token between two events.
LoopStops ==
  /\ Running
  /\ stop = "asked"
  /\ stop' = "loop"
  /\ UNCHANGED <<callVars, procs, pending, syncVars, loop, connected, resent,
                 dispVars, toRic, toXapp, ricVars, abort>>

\* Mutant of StopToken: the token after the signal.
StopTokenAfterSignal ==
  \/ stop = "loop" /\ disp' = Wakes /\ stop' = "freed" /\ UNCHANGED qStop
  \/ stop = "freed" /\ qStop' = TRUE /\ stop' = "signalled" /\ UNCHANGED disp

\* free_e42_xapp once the event loop stopped: the pending events, the flag and
\* the registry are freed, then free_tsnq sets its token without the mutex and
\* signals with it.
StopToken ==
  \/ stop = "loop" /\ qStop' = TRUE /\ stop' = "freed" /\ UNCHANGED disp
  \/ stop = "freed" /\ disp' = Wakes /\ stop' = "signalled" /\ UNCHANGED qStop

FreeXapp ==
  /\ Up
  /\ StopToken
  /\ pending' = {}
  /\ procs' = {}
  /\ UNCHANGED <<callVars, syncVars, loop, connected, resent, queue, toRic,
                 toXapp, ricVars, abort>>

\* free_tsnq polls `stopped', then the dispatcher and the event loop are joined.
Joined ==
  /\ Up
  /\ stop = "signalled"
  /\ disp = "stopped"
  /\ stop' = "joined"
  /\ queue' = <<>>
  /\ UNCHANGED <<callVars, procs, pending, syncVars, loop, connected, resent,
                 disp, qStop, toRic, toXapp, ricVars, abort>>

-----------------------------------------------------------------------------
(* The RIC and its E2 nodes *)

Replies(m) ==
  /\ toRic' = Tail(toRic)
  /\ toXapp' = toXapp \cup {m}

RicAnswers ==
  /\ toRic # <<>>
  /\ LET m == Head(toRic)
     IN  \/ /\ m.kind = "setup"
            /\ Replies(m)
            /\ UNCHANGED ricVars
         \/ /\ m.kind = "sub"
            /\ Replies([kind |-> "subResp", id |-> m.id])
            /\ subs' = subs \cup {[id |-> m.id, sn |-> 0]}
            /\ UNCHANGED executed
         \/ /\ m.kind = "del"
            /\ Replies([kind |-> "delResp", id |-> m.id])
            /\ subs' = {s \in subs : s.id # m.id}
            /\ UNCHANGED executed
         \/ /\ m.kind = "ctrl"
            /\ Replies([kind |-> "ctrlAck", id |-> m.id])
            /\ executed' = executed \cup {m.id}
            /\ UNCHANGED subs
         \/ /\ m.kind = "ctrl"
            /\ Replies([kind |-> "ctrlFail", id |-> m.id])
            /\ UNCHANGED ricVars
  /\ UNCHANGED <<callVars, procs, pending, syncVars, loop, connected, resent,
                 dispVars, stop, abort>>

NodeIndicates(s) ==
  /\ s \in subs
  /\ s.sn < MaxInd
  /\ subs' = (subs \ {s}) \cup {[s EXCEPT !.sn = @ + 1]}
  /\ toXapp' = toXapp \cup {[kind |-> "ind", id |-> s.id, sn |-> s.sn + 1]}
  /\ UNCHANGED <<callVars, procs, pending, syncVars, loop, connected, resent,
                 dispVars, stop, toRic, executed, abort>>

-----------------------------------------------------------------------------
CallerNext ==
  \/ Connected \/ EnterWait \/ WakeUp \/ CondTimeout
  \/ \E i \in Ids : \/ StartRequest(i) \/ StartDelete(i)
                    \/ OpenPending(i) \/ SendRequest(i) \/ Return(i)
  \/ TryStop \/ FreeXapp \/ Joined

LoopNext ==
  \/ ResendSetup \/ RequestTimeout \/ Signal \/ LoopStops
  \/ \E m \in toXapp : SetupResponse(m) \/ SettleAnswer(m) \/ Indication(m)

RicNext == RicAnswers \/ \E s \in subs : NodeIndicates(s)

Next == CallerNext \/ LoopNext \/ Dispatch \/ RicNext

Spec == Init /\ [][Next]_vars

(***************************************************************************)
(* The three threads are scheduled and armed timers expire.  Nothing        *)
(* obliges the application to call or to stop, nor the RIC to answer.       *)
(***************************************************************************)
Fairness ==
  /\ WF_vars(\/ Connected \/ EnterWait \/ WakeUp \/ CondTimeout
             \/ FreeXapp \/ Joined
             \/ \E i \in Ids : OpenPending(i) \/ SendRequest(i) \/ Return(i))
  /\ WF_vars(\/ Signal \/ LoopStops
             \/ \E m \in toXapp : SetupResponse(m) \/ SettleAnswer(m) \/ Indication(m))
  /\ WF_vars(RequestTimeout)
  /\ WF_vars(Dispatch)

FairSpec == Spec /\ Fairness

-----------------------------------------------------------------------------
(* Properties *)

\* Every variable has the shape of the data it models, and a procedure is in
\* the middle of a call exactly when the caller is in that call.
TypeOK ==
  /\ stage \in [Ids -> Stages]
  /\ pc \in {"connecting", "idle", "open", "send", "wait", "waiting", "ok", "error"}
  /\ cur = {i \in Ids : stage[i] \in DOMAIN KindAt}
  /\ Cardinality(cur) = IF pc \in {"connecting", "idle"} THEN 0 ELSE 1
  /\ procs \subseteq Ids
  /\ pending \subseteq Event
  /\ flag \in BOOLEAN /\ ack \in BOOLEAN
  /\ loop \in {{}, {TRUE}, {FALSE}}
  /\ connected \in BOOLEAN
  /\ resent \in 0..MaxResend
  /\ queue \in Seq(Ind)
  /\ disp \in {"check", "waiting", "callback", "stopped"}
  /\ qStop \in BOOLEAN
  /\ stop \in {"no", "asked", "loop", "freed", "signalled", "joined"}
  /\ toRic \in Seq(Request)
  /\ toXapp \subseteq Message
  /\ subs \subseteq [id : Ids, sn : 0..MaxInd]
  /\ executed \subseteq Ids
  /\ abort \in Asserts \cup {"none"}

\* The registry holds a procedure from the call that starts it to the return of
\* the call that ends it, so that every answer and every delete finds it
\* (find_act_proc in the handlers and in rm_report_sm_sync_xapp).
ProceduresAreFound == abort # "ric_req_id not registered"

\* The answer to a subscription finds its pending event, however fast the RIC
\* is, since e2ap_handle_e42_ric_subscription_request_xapp opens it before it
\* sends.
SubscriptionFindsPending ==
  abort = "Trying to extract a key not found in the tree" =>
    \A i \in cur : stage[i] # "subscribing"


\* cond_wait_sync_ui asserts that its wait never times out: an answer that came
\* in time has woken it.
NeverUnforeseen == abort # "Unforeseen path"

\* A call of the API never hangs: it returns or an assert ends the process, even
\* when the RIC never answers or its answer comes at the worst moment.
CallsEnd == pc \notin {"connecting", "idle"} ~> (pc = "idle" \/ ~Up)

\* Whatever the event loop hands over reaches a callback, or is dropped by a
\* stop: no push of the queue goes unnoticed by the dispatcher.
IndicationsDispatched ==
  \A i \in Ids, k \in 1..MaxInd :
    LET Queued == \E j \in 1..Len(queue) : queue[j].id = i /\ queue[j].sn = k
    IN  Queued ~> (~Queued \/ ~Up)

\* A stop that try_stop_xapp_api starts is completed: the event loop sees its
\* token, and the dispatcher, waiting or in a callback, sees the token of the
\* queue.
StopCompletes == stop = "asked" ~> (stop = "joined" \/ ~Up)

\* What the application learns from the API is what the abstract service
\* promises it.
Service == INSTANCE E2Service WITH
  XApps     <- {"xApp"},
  proc      <- [x \in {"xApp"} |-> stage],
  installed <- {<<"xApp", s.id>> : s \in subs},
  executed  <- {<<"xApp", i>> : i \in executed}

\* A call returns success only after an E2 node did what was asked: the flags of
\* sync_ui_t never pass the outcome of one call to another.
ImplementsService == Service!Spec
=============================================================================
