--------------------------- MODULE ExtensionCache ---------------------------
(***************************************************************************)
(* The panel's copy of the extensions' states (pbx/pbx.cpp).  At start-up  *)
(* PBX::initialise asks the adapter for every extension and then registers *)
(* with the event monitor.  From then on the monitor thread handles one    *)
(* event at a time: it asks the adapter for the extension the event names, *)
(* replaces the entry in mExtensions and calls the registered callbacks.   *)
(* The other threads read mExtensions at any moment, without a lock.       *)
(*                                                                         *)
(* An RPC behaves as RpcContract allows: a call that is given up returns   *)
(* nothing; in the default build its reply may arrive late, and a later    *)
(* call then takes it for its own.                                         *)
(***************************************************************************)
EXTENDS Integers, Sequences, FiniteSetsExt

CONSTANTS
    Numbers,     \* the extension numbers of the PBX
    Details,     \* what the adapter may say of an extension: [state, peers]
    EEPBX,       \* the build variant that matches replies to requests
    MaxChanges,  \* bound: events the adapter publishes
    MaxTimeouts  \* bound: calls that are given up

eOffline == 0
eIdle == 1
eRing == 2
eRinging == 3
eIncall == 4

eUnChecked == "unchecked"
RollCallResults == {"ok", "failed"}
RollCallStates == RollCallResults \cup {eUnChecked}

ASSUME CacheAssumption ==
    /\ Details \subseteq [state : {eOffline, eIdle},
                          peers : SUBSET {eOffline, eRing, eRinging, eIncall}]
    /\ "" \notin Numbers
    /\ EEPBX \in BOOLEAN
    /\ MaxChanges \in Nat
    /\ MaxTimeouts \in Nat

VARIABLES
    truth,         \* the state of each extension at the PBX
    events,        \* events published and not yet taken, oldest first: [n, roll]
    boot,          \* how far PBX::initialise is
    mExtensions,   \* the cache: number -> [detail, roll]
    pc,            \* where the monitor thread is in eventMessageReceived
    number,        \* its local number, "" outside the handler
    msg,           \* its argument: the roll-call result of the event, if it has one
    rollCallState, \* its local rollCallState
    extens,        \* its local extens: the reply of its RPC
    late,          \* replies to calls that gave up, on their way: [token, reply]
    rolled,        \* the last roll-call result published for each extension (history)
    rollLost,      \* extensions with a roll-call result that the cache never got, and
                   \* none that it got since (history)
    lost,          \* extensions whose last refresh brought no fresh state (history)
    changes,       \* events published so far (bounded)
    timeouts       \* calls given up so far (bounded)

pbx == <<truth, events, changes>>
locals == <<pc, number, msg, rollCallState, extens>>
calls == <<late, timeouts>>
cacheVars == <<truth, events, boot, mExtensions, pc, number, msg, rollCallState,
               extens, late, rolled, rollLost, lost, changes, timeouts>>

\* PBX::Extension::getState: the busiest channel, or the registration when there is none.
GetState(detail) ==
    IF detail.peers = {} THEN detail.state ELSE Max(detail.peers \cup {eOffline})

\* A reply of get-extension-detail maps the extensions asked for to their details.
\* The reply to any other call, or no reply at all, names no extension.
Replies == UNION {[ns -> Details] : ns \in SUBSET Numbers}
Snapshot(ns) == [n \in ns |-> truth[n]]
Nothing == [n \in {} |-> 0]

Fresh(reply, n) == n \in DOMAIN reply /\ reply[n] = truth[n]

\* An event of a change of n is on its way; the result of a roll call is no such event.
Pending(n) == \E i \in DOMAIN events : events[i].n = n /\ events[i].roll = eUnChecked

TypeOK ==
    /\ truth \in [Numbers -> Details]
    /\ events \in Seq([n : Numbers, roll : RollCallStates])
    /\ boot \in {"starting", "loaded", "listening"}
    /\ DOMAIN mExtensions \subseteq Numbers
    /\ mExtensions \in [DOMAIN mExtensions -> [detail : Details, roll : RollCallStates]]
    /\ pc \in {"waiting", "asking", "replacing", "inserting", "firing"}
    /\ number \in Numbers \cup {""}
    /\ number = "" <=> pc = "waiting"
    /\ msg \in RollCallStates
    /\ rollCallState \in RollCallStates
    /\ extens \in Replies
    /\ pc \in {"replacing", "inserting"} => number \in DOMAIN extens
    /\ late \subseteq [token : 1..MaxTimeouts, reply : Replies]
    /\ rolled \in [Numbers -> RollCallStates]
    /\ rollLost \cup lost \subseteq Numbers
    /\ changes \in 0..MaxChanges
    /\ timeouts \in 0..MaxTimeouts

CacheInit ==
    /\ truth \in [Numbers -> Details]
    /\ events = <<>>
    /\ boot = "starting"
    /\ mExtensions = [n \in {} |-> 0]
    /\ pc = "waiting"
    /\ number = ""
    /\ msg = eUnChecked
    /\ rollCallState = eUnChecked
    /\ extens = Nothing
    /\ late = {}
    /\ rolled = [n \in Numbers |-> eUnChecked]
    /\ rollLost = {}
    /\ lost = {}
    /\ changes = 0
    /\ timeouts = 0

-----------------------------------------------------------------------------
(* The PBX adapter.                                                        *)

Publish(n, roll) ==
    /\ changes < MaxChanges
    /\ changes' = changes + 1
    /\ events' = Append(events, [n |-> n, roll |-> roll])

\* A channel or the registration of an extension changes: PeerStatus, NewState, Hangup.
Change(n, detail) ==
    /\ detail # truth[n]
    /\ truth' = [truth EXCEPT ![n] = detail]
    /\ Publish(n, eUnChecked)
    /\ UNCHANGED <<boot, mExtensions, locals, calls, rolled, rollLost, lost>>

RollCallResult(n, result) ==
    /\ Publish(n, result)
    /\ rolled' = [rolled EXCEPT ![n] = result]
    /\ UNCHANGED <<truth, boot, mExtensions, locals, calls, rollLost, lost>>

-----------------------------------------------------------------------------
(* One RPC that asks for the extensions ns and returns reply.              *)

ReturnsOwn(ns, reply) ==
    /\ reply = Snapshot(ns)
    /\ UNCHANGED calls

\* The reply of a call that gave up is taken, and the own one is late in turn.
ReturnsLate(ns, reply) ==
    /\ \E l \in late :
          /\ reply = l.reply
          /\ late' = (late \ {l}) \cup {[l EXCEPT !.reply = Snapshot(ns)]}
    /\ UNCHANGED timeouts

GivesUp(ns, reply) ==
    /\ timeouts < MaxTimeouts
    /\ timeouts' = timeouts + 1
    /\ reply = Nothing
    /\ \/ UNCHANGED late
       \/ /\ ~EEPBX
          /\ late' = late \cup {[token |-> timeouts + 1, reply |-> Snapshot(ns)]}

Rpc(ns, reply) ==
    \/ ReturnsOwn(ns, reply)
    \/ ReturnsLate(ns, reply)
    \/ GivesUp(ns, reply)

\* What an RPC may return.
Answers(ns) == {Snapshot(ns), Nothing} \cup {l.reply : l \in late}

\* The GUI thread makes a call of another kind.
OtherCall ==
    /\ boot = "listening"
    /\ \E reply \in Answers({}) : Rpc({}, reply)
    /\ UNCHANGED <<pbx, boot, mExtensions, locals, rolled, rollLost, lost>>

-----------------------------------------------------------------------------
(* PBX::initialise, in the GUI thread.                                     *)

Loaded(reply) == [n \in DOMAIN reply |-> [detail |-> reply[n], roll |-> eUnChecked]]

BootLoad(reply) ==
    /\ boot = "starting"
    /\ Rpc(Numbers, reply)
    /\ mExtensions' = Loaded(reply)
    /\ boot' = "loaded"
    /\ lost' = {n \in Numbers : ~Fresh(reply, n)}
    /\ UNCHANGED <<pbx, locals, rolled, rollLost>>

BootListen ==
    /\ boot = "loaded"
    /\ boot' = "listening"
    /\ UNCHANGED <<pbx, mExtensions, locals, calls, rolled, rollLost, lost>>

-----------------------------------------------------------------------------
(* EventMonitor::run and PBX::eventMessageReceived, in the monitor thread. *)

\* No callback is registered yet: the event goes by.
Drop ==
    /\ pc = "waiting"
    /\ events # <<>>
    /\ boot # "listening"
    /\ events' = Tail(events)
    /\ lost' = lost \cup {Head(events).n}
    /\ rollLost' = IF Head(events).roll = eUnChecked THEN rollLost
                   ELSE rollLost \cup {Head(events).n}
    /\ UNCHANGED <<truth, changes, boot, mExtensions, locals, calls, rolled>>

Receive ==
    /\ pc = "waiting"
    /\ events # <<>>
    /\ boot = "listening"
    /\ events' = Tail(events)
    /\ pc' = "asking"
    /\ number' = Head(events).n
    /\ msg' = Head(events).roll
    /\ rollCallState' = msg'
    /\ UNCHANGED <<truth, changes, boot, mExtensions, extens, calls, rolled, rollLost, lost>>

Return ==
    /\ pc' = "waiting"
    /\ number' = ""
    /\ msg' = eUnChecked
    /\ rollCallState' = eUnChecked
    /\ extens' = Nothing

\* Bug: a call that brings nothing is taken for a success with the cached state.
RefreshFromCache ==
    /\ pc = "asking"
    /\ \E reply \in Answers({number}) :
          /\ Rpc({number}, reply)
          /\ extens' = IF number \notin DOMAIN reply /\ number \in DOMAIN mExtensions
                       THEN [n \in {number} |-> mExtensions[n].detail] ELSE reply
          /\ IF number \in DOMAIN extens'
             THEN pc' = "replacing" /\ UNCHANGED <<number, msg, rollCallState>>
             ELSE /\ pc' = "waiting"
                  /\ number' = ""
                  /\ msg' = eUnChecked
                  /\ rollCallState' = eUnChecked
          /\ lost' = lost \ {number}
    /\ UNCHANGED <<pbx, boot, mExtensions, rolled, rollLost>>

\* Bug: the reply is not searched for the extension.
RefreshUnchecked ==
    /\ pc = "asking"
    /\ \E reply \in Answers({number}) :
          /\ Rpc({number}, reply)
          /\ extens' = reply
          /\ pc' = "replacing"
          /\ lost' = IF Fresh(reply, number) THEN lost \ {number} ELSE lost \cup {number}
    /\ UNCHANGED <<pbx, boot, mExtensions, number, msg, rollCallState, rolled, rollLost>>

\* The RPC of line 41 returns.  Without the extension in the reply the event is forgotten.
Refresh ==
    /\ pc = "asking"
    /\ \E reply \in Answers({number}) :
          /\ Rpc({number}, reply)
          /\ IF number \in DOMAIN reply
             THEN /\ extens' = reply
                  /\ pc' = "replacing"
                  /\ UNCHANGED <<number, msg, rollCallState, rollLost>>
             ELSE /\ Return
                  /\ rollLost' = IF msg = eUnChecked THEN rollLost ELSE rollLost \cup {number}
          /\ lost' = IF Fresh(reply, number) THEN lost \ {number} ELSE lost \cup {number}
    /\ UNCHANGED <<pbx, boot, mExtensions, rolled>>

\* The roll-call result of an event is no longer on its way: it is stored.
RollTaken == rollLost' = IF msg = eUnChecked THEN rollLost ELSE rollLost \ {number}

\* Bug: the roll-call result already known is not carried over.
ReplaceForgetsRoll ==
    /\ pc = "replacing"
    /\ mExtensions' = [n \in DOMAIN mExtensions \ {number} |-> mExtensions[n]]
    /\ RollTaken
    /\ pc' = "inserting"
    /\ UNCHANGED <<pbx, boot, number, msg, rollCallState, extens, calls, rolled, lost>>

\* Bug: of an extension already known only the roll-call result is stored.
ReplaceRollOnly ==
    /\ pc = "replacing"
    /\ RollTaken
    /\ IF number \in DOMAIN mExtensions
       THEN /\ mExtensions' = [mExtensions EXCEPT ![number].roll =
                                   IF rollCallState = eUnChecked THEN @ ELSE rollCallState]
            /\ pc' = "firing"
       ELSE pc' = "inserting" /\ UNCHANGED mExtensions
    /\ UNCHANGED <<pbx, boot, number, msg, rollCallState, extens, calls, rolled, lost>>

\* The old entry is taken out, keeping its roll-call result if the event has none.
Replace ==
    /\ pc = "replacing"
    /\ rollCallState' = IF number \in DOMAIN mExtensions /\ rollCallState = eUnChecked
                        THEN mExtensions[number].roll ELSE rollCallState
    /\ mExtensions' = [n \in DOMAIN mExtensions \ {number} |-> mExtensions[n]]
    /\ RollTaken
    /\ pc' = "inserting"
    /\ UNCHANGED <<pbx, boot, number, msg, extens, calls, rolled, lost>>

\* Until here the other threads find no entry for number.
Insert ==
    /\ pc = "inserting"
    /\ mExtensions' =
          [n \in DOMAIN mExtensions \cup {number} |->
              IF n = number THEN [detail |-> extens[n], roll |-> rollCallState]
              ELSE mExtensions[n]]
    /\ pc' = "firing"
    /\ UNCHANGED <<pbx, boot, number, msg, rollCallState, extens, calls, rolled, rollLost, lost>>

\* The callbacks registered with PBX run here, and the handler returns.
Fire ==
    /\ pc = "firing"
    /\ Return
    /\ UNCHANGED <<pbx, boot, mExtensions, calls, rolled, rollLost, lost>>

-----------------------------------------------------------------------------

Adapter ==
    \/ \E n \in Numbers, detail \in Details : Change(n, detail)
    \/ \E n \in Numbers, result \in RollCallResults : RollCallResult(n, result)

Boot ==
    \/ \E reply \in Answers(Numbers) : BootLoad(reply)
    \/ BootListen

\* The handler up to its callbacks.
Handle ==
    \/ Drop
    \/ Receive
    \/ Refresh
    \/ Replace
    \/ Insert

CacheNext == Adapter \/ Boot \/ Handle \/ Fire \/ OtherCall

CacheSpec == CacheInit /\ [][CacheNext]_cacheVars

\* The monitor thread keeps running, and every RPC returns: LockReleased of RpcClient.
FairCacheSpec == CacheSpec /\ WF_cacheVars(Boot) /\ WF_cacheVars(Handle \/ Fire)

-----------------------------------------------------------------------------
(* Properties.                                                             *)

\* The state of n that the cache holds, or will hold when the handler has stored it.
Stored(n) ==
    IF number = n /\ pc \in {"replacing", "inserting"}
    THEN Fresh(extens, n)
    ELSE n \in DOMAIN mExtensions /\ mExtensions[n].detail = truth[n]

\* No change gets lost between threads: unless the last event of an extension was
\* dropped before line 84 or its RPC brought no fresh state, the cache holds the
\* present state of the extension, or an event that will refresh it is on its way.
Tracks ==
    boot # "starting" => \A n \in Numbers \ lost :
        Pending(n) \/ (pc = "asking" /\ number = n) \/ Stored(n)

\* The result of a roll call of n is on its way: to the handler, and to the cache.
RollPending(n) == \E i \in DOMAIN events : events[i].n = n /\ events[i].roll # eUnChecked
Rolling(n) ==
    \/ RollPending(n)
    \/ number = n /\ msg # eUnChecked /\ pc # "firing"

\* "Keep the former roll-call state" (pbx.cpp:46): the cache shows the result of the last
\* roll call that was announced of an extension, however many refreshes follow it, each of
\* which takes the entry out and puts a new one in.  Until then the result is on its way.
\* Left out are extensions whose result went by before line 84 or met a failed RPC.
RollKept == \A n \in DOMAIN mExtensions \ rollLost :
    Rolling(n) \/ mExtensions[n].roll = rolled[n]

Current(n) == n \in DOMAIN mExtensions /\ mExtensions[n].detail = truth[n]

\* The cache catches up with every change whose refresh is not lost.
CatchesUp == \A n \in Numbers :
    (boot = "listening" /\ ~Current(n)) ~> (Current(n) \/ n \in lost)

\* The cache holds the real-time state of the extension (FastFuncZone.cpp:396 and
\* 515 say so of it) when every event has been handled and no call was given up.
CacheFresh ==
    boot = "listening" /\ events = <<>> /\ pc = "waiting" /\ timeouts = 0 =>
        \A n \in Numbers : Current(n)
=============================================================================
