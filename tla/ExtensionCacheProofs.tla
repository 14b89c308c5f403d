------------------------ MODULE ExtensionCacheProofs ------------------------
(***************************************************************************)
(* ExtensionCache keeps TypeOK, Tracks and RollKept for every set of       *)
(* extensions, every set of details, both builds and any number of changes *)
(* and of calls given up.  The inductive invariant adds what the handler's *)
(* local variables hold at each of its steps.                              *)
(***************************************************************************)
EXTENDS ExtensionCache, SequenceTheorems, TLAPS

\* Before the callback is registered the monitor thread handles nothing.
HandlerInv == boot # "listening" => pc = "waiting"

\* The i-th event is the last result of a roll call of n.
LastRoll(i, n) ==
    /\ events[i].n = n /\ events[i].roll # eUnChecked
    /\ \A j \in DOMAIN events : j > i => ~(events[j].n = n /\ events[j].roll # eUnChecked)

\* The result announced last is the last one on its way; when none is, the handler holds
\* it in msg, and while it replaces the entry in rollCallState.  An extension that is not
\* in the cache has no result to keep, unless a refresh is just replacing it.
RollsInOrder == \A n \in Numbers : \A i \in DOMAIN events :
    LastRoll(i, n) => events[i].roll = rolled[n]

RollHeld ==
    /\ pc \in {"asking", "replacing"} => rollCallState = msg
    /\ \A n \in Numbers : number = n /\ msg # eUnChecked => RollPending(n) \/ msg = rolled[n]
    /\ pc = "inserting" =>
          number \in rollLost \/ RollPending(number) \/ rollCallState = rolled[number]

NoRoll ==
    /\ \A n \in Numbers \ (DOMAIN mExtensions \cup rollLost) :
          Rolling(n) \/ rolled[n] = eUnChecked \/ (pc = "inserting" /\ number = n)
    /\ boot = "starting" =>
          \A n \in Numbers \ rollLost : RollPending(n) \/ rolled[n] = eUnChecked

RollInv == RollsInOrder /\ RollHeld /\ NoRoll

IInv == TypeOK /\ HandlerInv /\ Tracks /\ RollKept /\ RollInv

-----------------------------------------------------------------------------
(* Constants.                                                              *)

LEMMA Bounds == MaxChanges \in Nat /\ MaxTimeouts \in Nat
BY CacheAssumption DEF CacheAssumption

LEMMA NoNumber == "" \notin Numbers
BY CacheAssumption DEF CacheAssumption

-----------------------------------------------------------------------------
(* Replies.                                                                *)

\* A map of extensions to details is a reply.
LEMMA ReplyIntro ==
    ASSUME NEW ns \in SUBSET Numbers, NEW r \in [ns -> Details]
    PROVE  r \in Replies
BY DEF Replies

\* A reply names extensions and gives each a detail.
LEMMA ReplyElim ==
    ASSUME NEW r \in Replies
    PROVE  /\ DOMAIN r \in SUBSET Numbers
           /\ \A n \in DOMAIN r : r[n] \in Details
           /\ r = [n \in DOMAIN r |-> r[n]]
<1>1. PICK ns \in SUBSET Numbers : r \in [ns -> Details]
  BY DEF Replies
<1> QED BY <1>1

\* What an RPC may return is a reply.
LEMMA NothingIsReply == Nothing \in Replies
<1>1. Nothing \in [{} -> Details]
  BY DEF Nothing
<1> QED BY <1>1, ReplyIntro

LEMMA SnapshotIsReply ==
    ASSUME TypeOK, NEW ns \in SUBSET Numbers
    PROVE  Snapshot(ns) \in Replies
<1>1. Snapshot(ns) \in [ns -> Details]
  BY DEF Snapshot, TypeOK
<1> QED BY <1>1, ReplyIntro

\* An RPC returns a reply and leaves well-formed replies on their way.
LEMMA RpcTyped ==
    ASSUME TypeOK, NEW ns \in SUBSET Numbers, NEW reply, Rpc(ns, reply)
    PROVE  /\ reply \in Replies
           /\ late' \subseteq [token : 1..MaxTimeouts, reply : Replies]
           /\ timeouts' \in 0..MaxTimeouts
<1>1. Snapshot(ns) \in Replies
  BY SnapshotIsReply
<1>2. CASE ReturnsOwn(ns, reply)
  BY <1>1, <1>2 DEF ReturnsOwn, calls, TypeOK
<1>3. CASE ReturnsLate(ns, reply)
  <2>1. PICK l \in late :
           /\ reply = l.reply
           /\ late' = (late \ {l}) \cup {[l EXCEPT !.reply = Snapshot(ns)]}
    BY <1>3 DEF ReturnsLate
  <2>2. l \in [token : 1..MaxTimeouts, reply : Replies]
    BY DEF TypeOK
  <2>3. [l EXCEPT !.reply = Snapshot(ns)] \in [token : 1..MaxTimeouts, reply : Replies]
    BY <1>1, <2>2
  <2> QED BY <1>3, <2>1, <2>2, <2>3 DEF ReturnsLate, TypeOK
<1>4. CASE GivesUp(ns, reply)
  <2>0. timeouts \in 0..MaxTimeouts /\ timeouts < MaxTimeouts /\ timeouts' = timeouts + 1
    BY <1>4 DEF GivesUp, TypeOK
  <2>1. timeouts + 1 \in 1..MaxTimeouts /\ timeouts' \in 0..MaxTimeouts
    BY <2>0, Bounds
  <2>2. reply \in Replies
    BY <1>4, NothingIsReply DEF GivesUp
  <2>3. [token |-> timeouts + 1, reply |-> Snapshot(ns)]
           \in [token : 1..MaxTimeouts, reply : Replies]
    BY <1>1, <2>1
  <2> QED BY <1>4, <2>1, <2>2, <2>3 DEF GivesUp, TypeOK
<1> QED BY <1>2, <1>3, <1>4 DEF Rpc

-----------------------------------------------------------------------------
(* The invariant holds at the start.                                       *)

LEMMA Initially == CacheInit => IInv
<1> SUFFICES ASSUME CacheInit PROVE IInv
  OBVIOUS
<1>1. /\ truth \in [Numbers -> Details]
      /\ events = <<>>
      /\ boot = "starting" /\ pc = "waiting" /\ number = ""
      /\ mExtensions = [n \in {} |-> 0]
      /\ msg = eUnChecked /\ rollCallState = eUnChecked
      /\ rolled = [n \in Numbers |-> eUnChecked]
  BY DEF CacheInit
<1>2. late = {} /\ lost = {} /\ rollLost = {} /\ extens = Nothing
  BY DEF CacheInit
<1>3. changes = 0 /\ timeouts = 0
  BY DEF CacheInit
<1>4. TypeOK
  <2>1. \A S : <<>> \in Seq(S)
    OBVIOUS
  <2>2. events \in Seq([n : Numbers, roll : RollCallStates])
    BY <1>1, <2>1
  <2>3. eUnChecked \in RollCallStates
    BY DEF RollCallStates
  <2>4. rolled \in [Numbers -> RollCallStates]
    BY <1>1, <2>3
  <2>5. DOMAIN mExtensions = {}
    BY <1>1
  <2>6. mExtensions \in [DOMAIN mExtensions -> [detail : Details, roll : RollCallStates]]
    BY <1>1, <2>5
  <2>7. changes \in 0..MaxChanges /\ timeouts \in 0..MaxTimeouts
    BY <1>3, Bounds
  <2>8. number \in Numbers \cup {""} /\ (number = "" <=> pc = "waiting")
    BY <1>1
  <2>9. extens \in Replies
    BY <1>2, NothingIsReply
  <2> QED BY <1>1, <1>2, <2>2, <2>3, <2>4, <2>5, <2>6, <2>7, <2>8, <2>9 DEF TypeOK
<1>5. HandlerInv /\ Tracks
  BY <1>1 DEF HandlerInv, Tracks
<1>6. RollKept /\ RollInv
  <2>1. \A i \in DOMAIN events : FALSE
    <3>0. \A S : <<>> \in Seq(S)
      OBVIOUS
    <3>1. events = <<>> /\ events \in Seq({})
      BY <1>1, <3>0
    <3>2. Len(events) = 0 /\ DOMAIN events = 1..Len(events)
      BY <3>1
    <3> QED BY <3>2
  <2>2. mExtensions = [n \in {} |-> 0] /\ DOMAIN mExtensions = {}
    BY <1>1
  <2>3. RollKept
    BY <2>2 DEF RollKept
  <2>4. RollsInOrder
    BY <2>1 DEF RollsInOrder
  <2>5. RollHeld /\ NoRoll
    BY <1>1, <2>2, NoNumber DEF RollHeld, NoRoll
  <2> QED BY <2>3, <2>4, <2>5 DEF RollInv
<1> QED BY <1>4, <1>5, <1>6 DEF IInv

-----------------------------------------------------------------------------
(* The case split of every step.                                           *)

\* The actions of CacheNext, with what an RPC returned named.
LEMMA Cases ==
    ASSUME CacheNext
    PROVE  \/ \E n \in Numbers, detail \in Details : Change(n, detail)
           \/ \E n \in Numbers, result \in RollCallResults : RollCallResult(n, result)
           \/ \E reply \in Answers(Numbers) : BootLoad(reply)
           \/ BootListen
           \/ Drop
           \/ Receive
           \/ Refresh
           \/ Replace
           \/ Insert
           \/ Fire
           \/ OtherCall
BY DEF CacheNext, Adapter, Boot, Handle

-----------------------------------------------------------------------------
(* TypeOK is kept.                                                         *)

\* Publishing appends an event.
LEMMA PublishTyped ==
    ASSUME TypeOK, NEW n \in Numbers, NEW roll \in RollCallStates, Publish(n, roll)
    PROVE  /\ events' \in Seq([n : Numbers, roll : RollCallStates])
           /\ changes' \in 0..MaxChanges
<1>1. events \in Seq([n : Numbers, roll : RollCallStates])
  BY DEF TypeOK
<1>2. changes \in 0..MaxChanges /\ changes < MaxChanges /\ changes' = changes + 1
  BY DEF TypeOK, Publish
<1>3. [n |-> n, roll |-> roll] \in [n : Numbers, roll : RollCallStates]
  OBVIOUS
<1>4. events' = Append(events, [n |-> n, roll |-> roll])
  BY DEF Publish
<1>5. events' \in Seq([n : Numbers, roll : RollCallStates])
  BY <1>1, <1>3, <1>4
<1>6. changes' \in 0..MaxChanges
  BY <1>2, Bounds
<1> QED BY <1>5, <1>6

\* Taking an event leaves a queue of events, and the event has a number and a result.
LEMMA TakeTyped ==
    ASSUME TypeOK, events # <<>>
    PROVE  /\ Tail(events) \in Seq([n : Numbers, roll : RollCallStates])
           /\ Head(events).n \in Numbers
           /\ Head(events).roll \in RollCallStates
<1>1. events \in Seq([n : Numbers, roll : RollCallStates])
  BY DEF TypeOK
<1>2. Head(events) \in [n : Numbers, roll : RollCallStates]
  BY <1>1, HeadTailProperties
<1>3. Tail(events) \in Seq([n : Numbers, roll : RollCallStates])
  BY <1>1, HeadTailProperties
<1> QED BY <1>2, <1>3

\* The roll-call states.
LEMMA RollTypes == eUnChecked \in RollCallStates /\ RollCallResults \subseteq RollCallStates
BY DEF RollCallStates

\* Returning from the handler resets its local variables.
LEMMA ReturnTyped ==
    ASSUME Return
    PROVE  /\ pc' = "waiting" /\ number' = ""
           /\ msg' \in RollCallStates /\ rollCallState' \in RollCallStates
           /\ extens' \in Replies
BY RollTypes, NothingIsReply DEF Return

LEMMA TypeStep ==
    ASSUME TypeOK, [CacheNext]_cacheVars
    PROVE  TypeOK'
<1>1. ASSUME NEW n \in Numbers, NEW detail \in Details, Change(n, detail)
      PROVE  TypeOK'
  <2>1. Publish(n, eUnChecked)
    BY <1>1 DEF Change
  <2>2. /\ events' \in Seq([n : Numbers, roll : RollCallStates])
        /\ changes' \in 0..MaxChanges
    BY <2>1, PublishTyped, RollTypes
  <2>3. truth' \in [Numbers -> Details]
    BY <1>1 DEF Change, TypeOK
  <2>4. UNCHANGED <<boot, mExtensions, pc, number, msg, rollCallState, extens, late,
                    timeouts, rolled, rollLost, lost>>
    BY <1>1 DEF Change, locals, calls
  <2> QED BY <2>2, <2>3, <2>4 DEF TypeOK
<1>2. ASSUME NEW n \in Numbers, NEW result \in RollCallResults, RollCallResult(n, result)
      PROVE  TypeOK'
  <2>1. Publish(n, result)
    BY <1>2 DEF RollCallResult
  <2>2. /\ events' \in Seq([n : Numbers, roll : RollCallStates])
        /\ changes' \in 0..MaxChanges
    BY <2>1, PublishTyped, RollTypes
  <2>3. rolled' \in [Numbers -> RollCallStates]
    BY <1>2, RollTypes DEF RollCallResult, TypeOK
  <2> QED BY <1>2, <2>2, <2>3 DEF RollCallResult, TypeOK, locals, calls
<1>3. ASSUME NEW reply \in Answers(Numbers), BootLoad(reply)
      PROVE  TypeOK'
  <2>1. Rpc(Numbers, reply)
    BY <1>3 DEF BootLoad
  <2>2. /\ reply \in Replies
        /\ late' \subseteq [token : 1..MaxTimeouts, reply : Replies]
        /\ timeouts' \in 0..MaxTimeouts
    BY <2>1, RpcTyped
  <2>3. /\ DOMAIN mExtensions' \subseteq Numbers
        /\ mExtensions' \in [DOMAIN mExtensions' -> [detail : Details, roll : RollCallStates]]
    <3>1. mExtensions' = [n \in DOMAIN reply |-> [detail |-> reply[n], roll |-> eUnChecked]]
      BY <1>3 DEF BootLoad, Loaded
    <3>2. DOMAIN mExtensions' = DOMAIN reply
      BY <3>1
    <3> QED BY <2>2, <3>1, <3>2, ReplyElim, RollTypes
  <2>4. lost' \subseteq Numbers /\ boot' = "loaded"
    BY <1>3 DEF BootLoad
  <2> QED BY <1>3, <2>2, <2>3, <2>4 DEF BootLoad, TypeOK, locals, pbx
<1>4. CASE BootListen
  BY <1>4 DEF BootListen, TypeOK, locals, calls, pbx
<1>5. CASE Drop
  <2>1. Head(events).n \in Numbers /\ events' \in Seq([n : Numbers, roll : RollCallStates])
    BY <1>5, TakeTyped DEF Drop
  <2>2. rollLost' \cup lost' \subseteq Numbers
    BY <1>5, <2>1 DEF Drop, TypeOK
  <2> QED BY <1>5, <2>1, <2>2 DEF Drop, TypeOK, locals, calls
<1>6. CASE Receive
  <2>1. Head(events).n \in Numbers /\ events' \in Seq([n : Numbers, roll : RollCallStates])
    BY <1>6, TakeTyped DEF Receive
  <2>2. msg' \in RollCallStates /\ rollCallState' \in RollCallStates
    BY <1>6, TakeTyped DEF Receive
  <2>3. pc' = "asking" /\ number' \in Numbers /\ number' # ""
    BY <1>6, <2>1, NoNumber DEF Receive
  <2> QED BY <1>6, <2>1, <2>2, <2>3 DEF Receive, TypeOK, calls
<1>7. CASE Refresh
  <2>1. pc = "asking" /\ number \in Numbers
    BY <1>7 DEF Refresh, TypeOK
  <2>2. PICK reply \in Answers({number}) :
          /\ Rpc({number}, reply)
          /\ IF number \in DOMAIN reply
             THEN /\ extens' = reply
                  /\ pc' = "replacing"
                  /\ UNCHANGED <<number, msg, rollCallState, rollLost>>
             ELSE /\ Return
                  /\ rollLost' = IF msg = eUnChecked THEN rollLost ELSE rollLost \cup {number}
          /\ lost' = IF Fresh(reply, number) THEN lost \ {number} ELSE lost \cup {number}
    BY <1>7 DEF Refresh
  <2>3. /\ reply \in Replies
        /\ late' \subseteq [token : 1..MaxTimeouts, reply : Replies]
        /\ timeouts' \in 0..MaxTimeouts
    BY <2>1, <2>2, RpcTyped
  <2>4. rollLost' \cup lost' \subseteq Numbers
    BY <2>1, <2>2 DEF TypeOK
  <2>5. UNCHANGED <<truth, events, changes, boot, mExtensions, rolled>>
    BY <1>7 DEF Refresh, pbx
  <2>6. CASE number \in DOMAIN reply
    <3>1. extens' \in Replies /\ number' \in DOMAIN extens' /\ pc' = "replacing"
      BY <2>2, <2>3, <2>6
    <3>2. number' = number /\ msg' = msg /\ rollCallState' = rollCallState
      BY <2>2, <2>6
    <3> QED BY <2>1, <2>3, <2>4, <2>5, <3>1, <3>2 DEF TypeOK
  <2>7. CASE number \notin DOMAIN reply
    <3>1. Return
      BY <2>2, <2>7
    <3> QED BY <2>3, <2>4, <2>5, <3>1, ReturnTyped DEF TypeOK
  <2> QED BY <2>6, <2>7
<1>8. CASE Replace
  <2>1. pc = "replacing" /\ number \in Numbers /\ number \in DOMAIN extens
    BY <1>8 DEF Replace, TypeOK
  <2>2. /\ mExtensions' = [n \in DOMAIN mExtensions \ {number} |-> mExtensions[n]]
        /\ DOMAIN mExtensions' = DOMAIN mExtensions \ {number}
    BY <1>8 DEF Replace
  <2>3. /\ DOMAIN mExtensions' \subseteq Numbers
        /\ mExtensions' \in [DOMAIN mExtensions' -> [detail : Details, roll : RollCallStates]]
    BY <2>2 DEF TypeOK
  <2>4. rollCallState' \in RollCallStates
    <3>1. ASSUME number \in DOMAIN mExtensions
          PROVE  mExtensions[number].roll \in RollCallStates
      BY <3>1 DEF TypeOK
    <3>2. rollCallState \in RollCallStates
      BY DEF TypeOK
    <3> QED BY <1>8, <3>1, <3>2 DEF Replace
  <2>5. rollLost' \subseteq Numbers
    BY <1>8 DEF Replace, RollTaken, TypeOK
  <2>6. pc' = "inserting" /\ number' = number /\ extens' = extens
    BY <1>8 DEF Replace
  <2> QED BY <1>8, <2>1, <2>3, <2>4, <2>5, <2>6 DEF Replace, TypeOK, pbx, calls
<1>9. CASE Insert
  <2>1. pc = "inserting" /\ number \in Numbers /\ number \in DOMAIN extens
    BY <1>9 DEF Insert, TypeOK
  <2>2. /\ mExtensions' = [n \in DOMAIN mExtensions \cup {number} |->
              IF n = number THEN [detail |-> extens[n], roll |-> rollCallState]
              ELSE mExtensions[n]]
        /\ DOMAIN mExtensions' = DOMAIN mExtensions \cup {number}
    BY <1>9 DEF Insert
  <2>3. extens[number] \in Details /\ rollCallState \in RollCallStates
    BY <2>1, ReplyElim DEF TypeOK
  <2>4. /\ DOMAIN mExtensions' \subseteq Numbers
        /\ mExtensions' \in [DOMAIN mExtensions' -> [detail : Details, roll : RollCallStates]]
    BY <2>1, <2>2, <2>3 DEF TypeOK
  <2>5. pc' = "firing" /\ number' = number
    BY <1>9 DEF Insert
  <2> QED BY <1>9, <2>1, <2>4, <2>5 DEF Insert, TypeOK, pbx, calls
<1>10. CASE Fire
  BY <1>10, ReturnTyped DEF Fire, TypeOK, pbx, calls
<1>11. CASE OtherCall
  <2>1. PICK reply \in Answers({}) : Rpc({}, reply)
    BY <1>11 DEF OtherCall
  <2>2. /\ late' \subseteq [token : 1..MaxTimeouts, reply : Replies]
        /\ timeouts' \in 0..MaxTimeouts
    BY <2>1, RpcTyped
  <2> QED BY <1>11, <2>2 DEF OtherCall, TypeOK, pbx, locals
<1>12. CASE UNCHANGED cacheVars
  BY <1>12 DEF cacheVars, TypeOK
<1> QED
  BY <1>1, <1>2, <1>3, <1>4, <1>5, <1>6, <1>7, <1>8, <1>9, <1>10, <1>11, <1>12, Cases

-----------------------------------------------------------------------------
(* HandlerInv is kept.                                                     *)

LEMMA HandlerStep ==
    ASSUME TypeOK, HandlerInv, [CacheNext]_cacheVars
    PROVE  HandlerInv'
<1> USE DEF HandlerInv
<1>1. ASSUME NEW n \in Numbers, NEW detail \in Details, Change(n, detail)
      PROVE  HandlerInv'
  BY <1>1 DEF Change, locals
<1>2. ASSUME NEW n \in Numbers, NEW result \in RollCallResults, RollCallResult(n, result)
      PROVE  HandlerInv'
  BY <1>2 DEF RollCallResult, locals
<1>3. ASSUME NEW reply \in Answers(Numbers), BootLoad(reply)
      PROVE  HandlerInv'
  BY <1>3 DEF BootLoad, locals
<1>4. CASE BootListen
  BY <1>4 DEF BootListen
<1>5. CASE Drop
  BY <1>5 DEF Drop, locals
<1>6. CASE Receive
  BY <1>6 DEF Receive
<1>7. CASE Refresh
  BY <1>7 DEF Refresh
<1>8. CASE Replace
  BY <1>8 DEF Replace
<1>9. CASE Insert
  BY <1>9 DEF Insert
<1>10. CASE Fire
  BY <1>10 DEF Fire, Return
<1>11. CASE OtherCall
  BY <1>11 DEF OtherCall, locals
<1>12. CASE UNCHANGED cacheVars
  BY <1>12 DEF cacheVars
<1> QED
  BY <1>1, <1>2, <1>3, <1>4, <1>5, <1>6, <1>7, <1>8, <1>9, <1>10, <1>11, <1>12, Cases

-----------------------------------------------------------------------------
(* Tracks is kept.                                                         *)

\* The event of a change is pending, and those that were pending still are.
LEMMA PublishPends ==
    ASSUME TypeOK, NEW n \in Numbers, NEW roll \in RollCallStates, Publish(n, roll)
    PROVE  /\ roll = eUnChecked => Pending(n)'
           /\ \A k \in Numbers : Pending(k) => Pending(k)'
<1>1. events \in Seq([n : Numbers, roll : RollCallStates])
  BY DEF TypeOK
<1>2. [n |-> n, roll |-> roll] \in [n : Numbers, roll : RollCallStates]
  OBVIOUS
<1>3. events' = Append(events, [n |-> n, roll |-> roll])
  BY DEF Publish
<1>4. /\ \A i \in DOMAIN events : i \in DOMAIN events' /\ events'[i] = events[i]
      /\ \E i \in DOMAIN events' : events'[i] = [n |-> n, roll |-> roll]
  BY <1>1, <1>2, <1>3
<1>5. roll = eUnChecked => Pending(n)'
  BY <1>4 DEF Pending
<1>6. \A k \in Numbers : Pending(k) => Pending(k)'
  BY <1>4 DEF Pending
<1> QED BY <1>5, <1>6

\* Taking the oldest event leaves the others pending.
LEMMA TakePends ==
    ASSUME TypeOK, events # <<>>, events' = Tail(events)
    PROVE  \A k \in Numbers : Pending(k) =>
              Pending(k)' \/ (k = Head(events).n /\ Head(events).roll = eUnChecked)
<1>1. events \in Seq([n : Numbers, roll : RollCallStates])
  BY DEF TypeOK
<1>2. \A i \in DOMAIN events : i = 1 \/ (i - 1 \in DOMAIN Tail(events)
                                         /\ Tail(events)[i - 1] = events[i])
  BY <1>1
<1>3. Head(events) = events[1]
  BY <1>1
<1> QED BY <1>2, <1>3 DEF Pending

\* One extension is tracked.
Tracked(n) == Pending(n) \/ (pc = "asking" /\ number = n) \/ Stored(n)

LEMMA TracksStep ==
    ASSUME TypeOK, HandlerInv, Tracks, [CacheNext]_cacheVars
    PROVE  Tracks'
<1>0. boot # "starting" => \A n \in Numbers \ lost : Tracked(n)
  BY DEF Tracks, Tracked
<1> SUFFICES ASSUME boot' # "starting", NEW k \in Numbers, k \notin lost'
             PROVE  Tracked(k)'
  BY DEF Tracks, Tracked
<1>1. ASSUME NEW n \in Numbers, NEW detail \in Details, Change(n, detail)
      PROVE  Tracked(k)'
  <2>1. Pending(n)' /\ (Pending(k) => Pending(k)')
    BY <1>1, PublishPends, RollTypes DEF Change
  <2>2. UNCHANGED <<boot, mExtensions, pc, number, extens, lost>>
    BY <1>1 DEF Change, locals
  <2>3. Tracked(k)
    BY <1>0, <2>2
  <2>4. k # n => truth'[k] = truth[k]
    BY <1>1 DEF Change, TypeOK
  <2> QED BY <2>1, <2>2, <2>3, <2>4 DEF Tracked, Stored, Fresh
<1>2. ASSUME NEW n \in Numbers, NEW result \in RollCallResults, RollCallResult(n, result)
      PROVE  Tracked(k)'
  <2>1. Pending(k) => Pending(k)'
    BY <1>2, PublishPends, RollTypes DEF RollCallResult
  <2>2. UNCHANGED <<truth, boot, mExtensions, pc, number, extens, lost>>
    BY <1>2 DEF RollCallResult, locals
  <2> QED BY <1>0, <2>1, <2>2 DEF Tracked, Stored, Fresh
<1>3. ASSUME NEW reply \in Answers(Numbers), BootLoad(reply)
      PROVE  Tracked(k)'
  <2>1. Fresh(reply, k)
    BY <1>3 DEF BootLoad
  <2>2. mExtensions' = [n \in DOMAIN reply |-> [detail |-> reply[n], roll |-> eUnChecked]]
    BY <1>3 DEF BootLoad, Loaded
  <2>3. pc' = "waiting" /\ truth' = truth
    BY <1>3 DEF BootLoad, HandlerInv, locals, pbx
  <2> QED BY <2>1, <2>2, <2>3 DEF Tracked, Stored, Fresh
<1>4. CASE BootListen
  BY <1>0, <1>4 DEF BootListen, Tracked, Stored, Fresh, Pending, locals, pbx
<1>5. CASE Drop
  <2>1. k \notin lost /\ k # Head(events).n
    BY <1>5 DEF Drop
  <2>2. Pending(k) => Pending(k)'
    BY <1>5, <2>1, TakePends DEF Drop
  <2>3. UNCHANGED <<truth, boot, mExtensions, pc, number, extens>>
    BY <1>5 DEF Drop, locals
  <2> QED BY <1>0, <2>1, <2>2, <2>3 DEF Tracked, Stored, Fresh
<1>6. CASE Receive
  <2>1. Pending(k) => Pending(k)' \/ k = Head(events).n
    BY <1>6, TakePends DEF Receive
  <2>2. /\ pc = "waiting" /\ pc' = "asking" /\ number' = Head(events).n
        /\ UNCHANGED <<truth, boot, mExtensions, lost>>
    BY <1>6 DEF Receive
  <2> QED BY <1>0, <2>1, <2>2 DEF Tracked, Stored, Fresh
<1>7. CASE Refresh
  <2>1. /\ pc = "asking"
        /\ UNCHANGED <<truth, events, boot, mExtensions>>
    BY <1>7 DEF Refresh, pbx
  <2>2. PICK reply :
          /\ IF number \in DOMAIN reply
             THEN /\ extens' = reply
                  /\ pc' = "replacing"
                  /\ UNCHANGED <<number, msg, rollCallState, rollLost>>
             ELSE /\ Return
                  /\ rollLost' = IF msg = eUnChecked THEN rollLost ELSE rollLost \cup {number}
          /\ lost' = IF Fresh(reply, number) THEN lost \ {number} ELSE lost \cup {number}
    BY <1>7 DEF Refresh
  <2>3. CASE k = number
    <3>1. Fresh(reply, k)
      BY <2>2, <2>3
    <3>2. extens' = reply /\ pc' = "replacing" /\ number' = number
      BY <2>2, <2>3, <3>1 DEF Fresh
    <3> QED BY <2>1, <2>3, <3>1, <3>2 DEF Tracked, Stored, Fresh
  <2>4. CASE k # number
    <3>1. k \notin lost
      BY <2>2, <2>4
    <3>2. Pending(k) \/ (k \in DOMAIN mExtensions /\ mExtensions[k].detail = truth[k])
      BY <1>0, <2>1, <2>4, <3>1 DEF Tracked, Stored
    <3>3. number' = number \/ pc' = "waiting"
      BY <2>2 DEF Return
    <3> QED BY <2>1, <2>4, <3>2, <3>3 DEF Tracked, Stored, Pending
  <2> QED BY <2>3, <2>4
<1>8. CASE Replace
  <2>1. /\ pc = "replacing" /\ pc' = "inserting"
        /\ UNCHANGED <<truth, events, boot, number, extens, lost>>
        /\ mExtensions' = [n \in DOMAIN mExtensions \ {number} |-> mExtensions[n]]
    BY <1>8 DEF Replace, pbx
  <2>2. Pending(k) \/ Stored(k)
    BY <1>0, <2>1 DEF Tracked
  <2>3. k # number /\ k \in DOMAIN mExtensions =>
           k \in DOMAIN mExtensions' /\ mExtensions'[k] = mExtensions[k]
    BY <2>1
  <2> QED BY <2>1, <2>2, <2>3 DEF Tracked, Stored, Fresh, Pending
<1>9. CASE Insert
  <2>1. /\ pc = "inserting" /\ pc' = "firing"
        /\ UNCHANGED <<truth, events, boot, number, extens, lost>>
        /\ mExtensions' = [n \in DOMAIN mExtensions \cup {number} |->
              IF n = number THEN [detail |-> extens[n], roll |-> rollCallState]
              ELSE mExtensions[n]]
    BY <1>9 DEF Insert, pbx
  <2>2. Pending(k) \/ Stored(k)
    BY <1>0, <2>1 DEF Tracked
  <2>3. CASE k = number
    <3>1. k \in DOMAIN mExtensions' /\ mExtensions'[k].detail = extens[k]
      BY <2>1, <2>3
    <3> QED BY <2>1, <2>2, <2>3, <3>1 DEF Tracked, Stored, Fresh, Pending
  <2>4. CASE k # number
    <3>1. k \in DOMAIN mExtensions =>
             k \in DOMAIN mExtensions' /\ mExtensions'[k] = mExtensions[k]
      BY <2>1, <2>4
    <3> QED BY <2>1, <2>2, <2>4, <3>1 DEF Tracked, Stored, Fresh, Pending
  <2> QED BY <2>3, <2>4
<1>10. CASE Fire
  <2>1. /\ pc = "firing" /\ pc' = "waiting"
        /\ UNCHANGED <<truth, events, boot, mExtensions, lost>>
    BY <1>10 DEF Fire, Return, pbx
  <2>2. Pending(k) \/ (k \in DOMAIN mExtensions /\ mExtensions[k].detail = truth[k])
    BY <1>0, <2>1 DEF Tracked, Stored
  <2> QED BY <2>1, <2>2 DEF Tracked, Stored, Pending
<1>11. CASE OtherCall
  BY <1>0, <1>11 DEF OtherCall, Tracked, Stored, Fresh, Pending, pbx, locals
<1>12. CASE UNCHANGED cacheVars
  BY <1>0, <1>12 DEF cacheVars, Tracked, Stored, Fresh, Pending
<1> QED
  BY <1>1, <1>2, <1>3, <1>4, <1>5, <1>6, <1>7, <1>8, <1>9, <1>10, <1>11, <1>12, Cases

-----------------------------------------------------------------------------
(* RollKept is kept.                                                       *)

\* Publishing an event puts it after the others.
LEMMA PublishRolls ==
    ASSUME TypeOK, NEW n \in Numbers, NEW roll \in RollCallStates, Publish(n, roll)
    PROVE  /\ \A k \in Numbers : RollPending(k)' <=> RollPending(k) \/ (k = n /\ roll # eUnChecked)
           /\ \A k \in Numbers : \A i \in DOMAIN events' : LastRoll(i, k)' =>
                 \/ k = n /\ events'[i].roll = roll /\ roll # eUnChecked
                 \/ /\ i \in DOMAIN events /\ events'[i] = events[i] /\ LastRoll(i, k)
                    /\ k # n \/ roll = eUnChecked
<1> DEFINE e == [n |-> n, roll |-> roll]
           last == Len(events) + 1
<1>1. events \in Seq([n : Numbers, roll : RollCallStates]) /\ events' = Append(events, e)
  BY DEF TypeOK, Publish
<1>2. e \in [n : Numbers, roll : RollCallStates]
  OBVIOUS
<1>3. /\ last \in DOMAIN events' /\ events'[last] = e
      /\ \A i \in DOMAIN events : i \in DOMAIN events' /\ events'[i] = events[i] /\ last > i
      /\ \A i \in DOMAIN events' : i = last \/ i \in DOMAIN events
  BY <1>1, <1>2
<1>4. \A k \in Numbers : RollPending(k)' <=> RollPending(k) \/ (k = n /\ roll # eUnChecked)
  BY <1>3 DEF RollPending
<1>5. ASSUME NEW k \in Numbers, NEW i \in DOMAIN events', LastRoll(i, k)'
      PROVE  \/ k = n /\ events'[i].roll = roll /\ roll # eUnChecked
             \/ /\ i \in DOMAIN events /\ events'[i] = events[i] /\ LastRoll(i, k)
                /\ k # n \/ roll = eUnChecked
  <2>1. CASE i = last
    BY <1>3, <1>5, <2>1 DEF LastRoll
  <2>2. CASE i # last
    BY <1>3, <1>5, <2>2 DEF LastRoll
  <2> QED BY <2>1, <2>2
<1> QED BY <1>4, <1>5

\* Taking the oldest event leaves the others in their order.
LEMMA TakeRolls ==
    ASSUME TypeOK, events # <<>>, events' = Tail(events)
    PROVE  /\ \A k \in Numbers : RollPending(k) <=>
                 RollPending(k)' \/ (k = Head(events).n /\ Head(events).roll # eUnChecked)
           /\ RollsInOrder /\ rolled' = rolled => RollsInOrder'
           /\ RollsInOrder => \A k \in Numbers :
                 k = Head(events).n /\ Head(events).roll # eUnChecked =>
                    RollPending(k)' \/ Head(events).roll = rolled[k]
<1>1. events \in Seq([n : Numbers, roll : RollCallStates])
  BY DEF TypeOK
<1>2. /\ 1 \in DOMAIN events /\ Head(events) = events[1] /\ DOMAIN events \subseteq Nat
      /\ \A i \in DOMAIN events : i = 1 \/ (i - 1 \in DOMAIN events' /\ events'[i - 1] = events[i])
      /\ \A i \in DOMAIN events' : i \in Nat /\ i + 1 \in DOMAIN events /\ events'[i] = events[i + 1]
  BY <1>1
<1>3. \A k \in Numbers : RollPending(k) <=>
         RollPending(k)' \/ (k = Head(events).n /\ Head(events).roll # eUnChecked)
  <2> SUFFICES ASSUME NEW k \in Numbers
               PROVE  RollPending(k) <=>
                         RollPending(k)' \/ (k = Head(events).n /\ Head(events).roll # eUnChecked)
    OBVIOUS
  <2>1. ASSUME NEW i \in DOMAIN events, events[i].n = k, events[i].roll # eUnChecked, i # 1
        PROVE  RollPending(k)'
    <3>1. i - 1 \in DOMAIN events' /\ events'[i - 1] = events[i]
      BY <1>2, <2>1
    <3> QED BY <2>1, <3>1 DEF RollPending
  <2>2. ASSUME NEW i \in DOMAIN events', events'[i].n = k, events'[i].roll # eUnChecked
        PROVE  RollPending(k)
    BY <1>2, <2>2 DEF RollPending
  <2> QED BY <1>2, <2>1, <2>2 DEF RollPending
<1>4. ASSUME RollsInOrder, rolled' = rolled
      PROVE  RollsInOrder'
  <2> SUFFICES ASSUME NEW k \in Numbers, NEW i \in DOMAIN events', LastRoll(i, k)'
               PROVE  events'[i].roll = rolled[k]
    BY <1>4 DEF RollsInOrder
  <2>1. i + 1 \in DOMAIN events /\ events'[i] = events[i + 1]
    BY <1>2
  <2>2. LastRoll(i + 1, k)
    <3> SUFFICES ASSUME NEW j \in DOMAIN events, j > i + 1
                 PROVE  ~(events[j].n = k /\ events[j].roll # eUnChecked)
      BY <2>1 DEF LastRoll
    <3>1. j - 1 \in DOMAIN events' /\ j - 1 > i /\ events'[j - 1] = events[j]
      BY <1>2
    <3> QED BY <3>1 DEF LastRoll
  <2> QED BY <1>4, <2>1, <2>2 DEF RollsInOrder
<1>5. ASSUME RollsInOrder, NEW k \in Numbers, k = Head(events).n, Head(events).roll # eUnChecked,
             ~RollPending(k)'
      PROVE  Head(events).roll = rolled[k]
  <2>1. LastRoll(1, k)
    <3> SUFFICES ASSUME NEW j \in DOMAIN events, j > 1
                 PROVE  ~(events[j].n = k /\ events[j].roll # eUnChecked)
      BY <1>2, <1>5 DEF LastRoll
    <3>1. j - 1 \in DOMAIN events' /\ events'[j - 1] = events[j]
      BY <1>2
    <3> QED BY <1>5, <3>1 DEF RollPending
  <2> QED BY <1>2, <1>5, <2>1 DEF RollsInOrder
<1> QED BY <1>3, <1>4, <1>5

\* Steps that touch neither the events, the cache nor the handler's variables keep both.
LEMMA RollUntouched ==
    ASSUME RollKept, RollInv,
           UNCHANGED <<events, mExtensions, pc, number, msg, rollCallState, rolled, rollLost>>,
           boot' = "starting" => boot = "starting"
    PROVE  RollKept' /\ RollInv'
BY DEF RollKept, RollInv, RollsInOrder, RollHeld, NoRoll, LastRoll, Rolling, RollPending

\* A step that leaves the events and the results announced alone keeps their order.
LEMMA OrderKept ==
    ASSUME RollsInOrder, UNCHANGED <<events, rolled>>
    PROVE  RollsInOrder' /\ \A k : RollPending(k)' = RollPending(k)
BY DEF RollsInOrder, LastRoll, RollPending

\* An event that is published is the last one, and says what the last roll call found.
LEMMA PublishRollStep ==
    ASSUME TypeOK, RollKept, RollInv, NEW n \in Numbers, NEW roll \in RollCallStates,
           Publish(n, roll),
           rolled' = IF roll = eUnChecked THEN rolled ELSE [rolled EXCEPT ![n] = roll],
           UNCHANGED <<boot, mExtensions, pc, number, msg, rollCallState, rollLost>>
    PROVE  RollKept' /\ RollInv'
<1>1. rolled \in [Numbers -> RollCallStates] /\ DOMAIN mExtensions \subseteq Numbers
  BY DEF TypeOK
<1>2. \A k \in Numbers : RollPending(k)' <=> RollPending(k) \/ (k = n /\ roll # eUnChecked)
  BY PublishRolls
<1>3. \A k \in Numbers : rolled'[k] = rolled[k] \/ RollPending(k)'
  BY <1>1, <1>2
<1>4. RollsInOrder'
  <2> SUFFICES ASSUME NEW k \in Numbers, NEW i \in DOMAIN events', LastRoll(i, k)'
               PROVE  events'[i].roll = rolled'[k]
    BY DEF RollsInOrder
  <2>1. CASE k = n /\ events'[i].roll = roll /\ roll # eUnChecked
    BY <1>1, <2>1
  <2>2. CASE i \in DOMAIN events /\ events'[i] = events[i] /\ LastRoll(i, k)
             /\ (k # n \/ roll = eUnChecked)
    <3>1. rolled'[k] = rolled[k]
      BY <1>1, <2>2
    <3> QED BY <2>2, <3>1 DEF RollInv, RollsInOrder
  <2> QED BY <2>1, <2>2, PublishRolls
<1>5. RollHeld'
  BY <1>2, <1>3 DEF RollInv, RollHeld, TypeOK
<1>6. NoRoll'
  BY <1>1, <1>2, <1>3 DEF RollInv, NoRoll, Rolling
<1>7. RollKept'
  BY <1>1, <1>2, <1>3 DEF RollKept, Rolling
<1> QED BY <1>4, <1>5, <1>6, <1>7 DEF RollInv

LEMMA RollStep ==
    ASSUME TypeOK, HandlerInv, RollKept, RollInv, [CacheNext]_cacheVars
    PROVE  RollKept' /\ RollInv'
<1>0. DOMAIN mExtensions \subseteq Numbers /\ RollsInOrder /\ RollHeld /\ NoRoll
  BY DEF TypeOK, RollInv
<1>1. ASSUME NEW n \in Numbers, NEW detail \in Details, Change(n, detail)
      PROVE  RollKept' /\ RollInv'
  BY <1>1, PublishRollStep, RollTypes DEF Change, locals
<1>2. ASSUME NEW n \in Numbers, NEW result \in RollCallResults, RollCallResult(n, result)
      PROVE  RollKept' /\ RollInv'
  <2>1. result \in RollCallStates /\ result # eUnChecked
    BY RollTypes DEF RollCallResults, eUnChecked
  <2> QED BY <1>2, <2>1, PublishRollStep DEF RollCallResult, locals
<1>3. ASSUME NEW reply \in Answers(Numbers), BootLoad(reply)
      PROVE  RollKept' /\ RollInv'
  <2>1. Rpc(Numbers, reply) /\ reply \in Replies
    BY <1>3, RpcTyped DEF BootLoad
  <2>2. /\ mExtensions' = [n \in DOMAIN reply |-> [detail |-> reply[n], roll |-> eUnChecked]]
        /\ DOMAIN mExtensions' \subseteq Numbers
    BY <1>3, <2>1, ReplyElim DEF BootLoad, Loaded
  <2>3. /\ boot = "starting" /\ boot' = "loaded" /\ pc = "waiting" /\ pc' = "waiting"
        /\ UNCHANGED <<events, number, msg, rollCallState, rolled, rollLost>>
    BY <1>3 DEF BootLoad, HandlerInv, locals, pbx
  <2>4. \A n \in Numbers \ rollLost : RollPending(n) \/ rolled[n] = eUnChecked
    BY <1>0, <2>3 DEF NoRoll
  <2>5. RollsInOrder' /\ \A k : RollPending(k)' = RollPending(k)
    BY <1>0, <2>3, OrderKept
  <2>6. RollKept'
    BY <2>2, <2>3, <2>4, <2>5 DEF RollKept, Rolling
  <2>7. RollHeld' /\ NoRoll'
    BY <1>0, <2>3, <2>4, <2>5 DEF RollHeld, NoRoll, Rolling
  <2> QED BY <2>5, <2>6, <2>7 DEF RollInv
<1>4. CASE BootListen
  BY <1>4, RollUntouched DEF BootListen, locals, pbx
<1>5. CASE Drop
  <2>1. /\ events # <<>> /\ events' = Tail(events) /\ pc = "waiting" /\ boot' = boot
        /\ UNCHANGED <<mExtensions, pc, number, msg, rollCallState, rolled>>
        /\ rollLost' = IF Head(events).roll = eUnChecked THEN rollLost
                       ELSE rollLost \cup {Head(events).n}
    BY <1>5 DEF Drop, locals
  <2>2. number = ""
    BY <2>1 DEF TypeOK
  <2>3. \A k \in Numbers : k \notin rollLost' => k \notin rollLost /\ (RollPending(k)' <=> RollPending(k))
    BY <2>1, TakeRolls
  <2>4. RollsInOrder'
    BY <1>0, <2>1, TakeRolls
  <2>5. RollKept'
    BY <1>0, <2>1, <2>3 DEF RollKept, Rolling
  <2>6. RollHeld' /\ NoRoll'
    BY <1>0, <2>1, <2>2, <2>3, NoNumber DEF RollHeld, NoRoll, Rolling
  <2> QED BY <2>4, <2>5, <2>6 DEF RollInv
<1>6. CASE Receive
  <2>1. /\ events # <<>> /\ events' = Tail(events)
        /\ pc = "waiting" /\ pc' = "asking" /\ boot' = "listening"
        /\ number' = Head(events).n /\ msg' = Head(events).roll /\ rollCallState' = msg'
        /\ UNCHANGED <<mExtensions, rolled, rollLost>>
    BY <1>6 DEF Receive
  <2>2. number = ""
    BY <2>1 DEF TypeOK
  <2>3. \A k \in Numbers : Rolling(k)' <=> Rolling(k)
    BY <2>1, <2>2, TakeRolls, NoNumber DEF Rolling
  <2>4. RollsInOrder'
    BY <1>0, <2>1, TakeRolls
  <2>5. RollHeld'
    <3>1. \A k \in Numbers : k = number' /\ msg' # eUnChecked => RollPending(k)' \/ msg' = rolled'[k]
      BY <1>0, <2>1, TakeRolls
    <3> QED BY <2>1, <3>1 DEF RollHeld
  <2>6. RollKept' /\ NoRoll'
    BY <1>0, <2>1, <2>3 DEF RollKept, NoRoll
  <2> QED BY <2>4, <2>5, <2>6 DEF RollInv
<1>7. CASE Refresh
  <2>1. /\ pc = "asking" /\ boot = "listening" /\ number \in Numbers
        /\ UNCHANGED <<events, boot, mExtensions, rolled>>
    BY <1>7 DEF Refresh, HandlerInv, TypeOK, pbx
  <2>2. RollsInOrder' /\ \A k : RollPending(k)' = RollPending(k)
    BY <1>0, <2>1, OrderKept
  <2>3. CASE pc' = "replacing" /\ UNCHANGED <<number, msg, rollCallState, rollLost>>
    <3>1. RollHeld'
      BY <1>0, <2>1, <2>2, <2>3 DEF RollHeld
    <3>2. RollKept' /\ NoRoll'
      BY <1>0, <2>1, <2>2, <2>3 DEF RollKept, NoRoll, Rolling
    <3> QED BY <2>2, <3>1, <3>2 DEF RollInv
  <2>4. CASE /\ Return
             /\ rollLost' = IF msg = eUnChecked THEN rollLost ELSE rollLost \cup {number}
    <3>1. pc' = "waiting" /\ number' = "" /\ msg' = eUnChecked
      BY <2>4 DEF Return
    <3>2. \A k : k \notin rollLost' => k \notin rollLost /\ Rolling(k)' = Rolling(k)
      BY <2>1, <2>2, <2>4, <3>1 DEF Rolling
    <3>3. RollHeld'
      BY <3>1 DEF RollHeld
    <3>4. RollKept' /\ NoRoll'
      BY <1>0, <2>1, <3>1, <3>2 DEF RollKept, NoRoll
    <3> QED BY <2>2, <3>3, <3>4 DEF RollInv
  <2> QED BY <1>7, <2>3, <2>4 DEF Refresh
<1>8. CASE Replace
  <2>1. /\ pc = "replacing" /\ pc' = "inserting" /\ boot' = boot /\ boot = "listening"
        /\ number' = number /\ number \in Numbers
        /\ mExtensions' = [n \in DOMAIN mExtensions \ {number} |-> mExtensions[n]]
        /\ UNCHANGED <<events, msg, rolled>>
        /\ rollLost' = IF msg = eUnChecked THEN rollLost ELSE rollLost \ {number}
    BY <1>8 DEF Replace, RollTaken, HandlerInv, TypeOK, pbx
  <2>2. RollsInOrder' /\ \A k : RollPending(k)' = RollPending(k)
    BY <1>0, <2>1, OrderKept
  <2>3. number \notin rollLost' => RollPending(number) \/ rollCallState' = rolled[number]
    <3>1. rollCallState = msg
      BY <1>0, <2>1 DEF RollHeld
    <3>2. rollCallState' = IF number \in DOMAIN mExtensions /\ rollCallState = eUnChecked
                           THEN mExtensions[number].roll ELSE rollCallState
      BY <1>8 DEF Replace
    <3>3. CASE msg # eUnChecked
      BY <1>0, <2>1, <3>1, <3>2, <3>3 DEF RollHeld
    <3>4. CASE msg = eUnChecked
      BY <1>0, <2>1, <3>1, <3>2, <3>4 DEF RollKept, NoRoll, Rolling
    <3> QED BY <3>3, <3>4
  <2>4. RollHeld'
    BY <1>0, <2>1, <2>2, <2>3 DEF RollHeld
  <2>5. \A k \in Numbers \ {number} : (k \notin rollLost' => k \notin rollLost)
                                      /\ Rolling(k)' = Rolling(k)
    BY <2>1, <2>2 DEF Rolling
  <2>6. RollKept' /\ NoRoll'
    BY <1>0, <2>1, <2>5 DEF RollKept, NoRoll
  <2> QED BY <2>2, <2>4, <2>6 DEF RollInv
<1>9. CASE Insert
  <2>1. /\ pc = "inserting" /\ pc' = "firing" /\ boot' = boot /\ boot = "listening"
        /\ UNCHANGED <<events, number, msg, rollCallState, rolled, rollLost>>
        /\ mExtensions' = [n \in DOMAIN mExtensions \cup {number} |->
              IF n = number THEN [detail |-> extens[n], roll |-> rollCallState]
              ELSE mExtensions[n]]
    BY <1>9 DEF Insert, HandlerInv, pbx
  <2>2. RollsInOrder' /\ \A k : RollPending(k)' = RollPending(k)
    BY <1>0, <2>1, OrderKept
  <2>3. number \in rollLost \/ RollPending(number) \/ rollCallState = rolled[number]
    BY <1>0, <2>1 DEF RollHeld
  <2>4. \A k \in Numbers \ {number} : Rolling(k)' = Rolling(k)
    BY <2>1, <2>2 DEF Rolling
  <2>5. RollKept'
    BY <1>0, <2>1, <2>2, <2>3, <2>4 DEF RollKept, Rolling
  <2>6. RollHeld' /\ NoRoll'
    BY <1>0, <2>1, <2>2, <2>4 DEF RollHeld, NoRoll
  <2> QED BY <2>2, <2>5, <2>6 DEF RollInv
<1>10. CASE Fire
  <2>1. /\ pc = "firing" /\ pc' = "waiting" /\ number' = "" /\ msg' = eUnChecked
        /\ UNCHANGED <<boot, events, mExtensions, rolled, rollLost>>
    BY <1>10 DEF Fire, Return, pbx
  <2>2. RollsInOrder' /\ \A k : RollPending(k)' = RollPending(k)
    BY <1>0, <2>1, OrderKept
  <2>3. \A k : Rolling(k)' = Rolling(k)
    BY <2>1, <2>2 DEF Rolling
  <2>4. RollHeld'
    BY <2>1 DEF RollHeld
  <2>5. RollKept' /\ NoRoll'
    BY <1>0, <2>1, <2>2, <2>3 DEF RollKept, NoRoll
  <2> QED BY <2>2, <2>4, <2>5 DEF RollInv
<1>11. CASE OtherCall
  BY <1>11, RollUntouched DEF OtherCall, locals, pbx
<1>12. CASE UNCHANGED cacheVars
  BY <1>12, RollUntouched DEF cacheVars
<1> QED
  BY <1>1, <1>2, <1>3, <1>4, <1>5, <1>6, <1>7, <1>8, <1>9, <1>10, <1>11, <1>12, Cases

-----------------------------------------------------------------------------
(* The theorems.                                                           *)

\* The inductive invariant holds in every state of every behaviour.
THEOREM CacheInvariance == CacheSpec => []IInv
<1>1. CacheInit => IInv
  BY Initially
<1>2. IInv /\ [CacheNext]_cacheVars => IInv'
  BY TypeStep, HandlerStep, TracksStep, RollStep DEF IInv
<1> QED BY <1>1, <1>2, PTL DEF CacheSpec

\* The variables keep their types, and between its RPC and its store the handler holds
\* a reply that names the extension of its event (the check of line 42).
THEOREM CacheTypeCorrect == CacheSpec => []TypeOK
<1>1. IInv => TypeOK
  BY DEF IInv
<1> QED BY <1>1, CacheInvariance, PTL

\* No change gets lost between the adapter, the event monitor and the cache: the
\* events that were dropped or whose RPC failed account for every stale entry.
THEOREM CacheTracks == CacheSpec => []Tracks
<1>1. IInv => Tracks
  BY DEF IInv
<1> QED BY <1>1, CacheInvariance, PTL

\* The result of the last roll call announced of an extension is in the cache or on its way
\* to it, through all later refreshes (pbx.cpp:46), unless the event that carried it went by
\* before line 84 or met a failed RPC.
THEOREM RollCallsKept == CacheSpec => []RollKept
<1>1. IInv => RollKept
  BY DEF IInv
<1> QED BY <1>1, CacheInvariance, PTL
=============================================================================
