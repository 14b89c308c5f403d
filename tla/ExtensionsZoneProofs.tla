------------------------ MODULE ExtensionsZoneProofs ------------------------
(***************************************************************************)
(* ExtensionsZone keeps ZoneTypeOK, IconsFollow and DynamicGroupsExact for *)
(* every set of extensions and of members, both builds and any number of   *)
(* events and of calls given up.  The zone never sees the exchange, but    *)
(* the argument compares both the cache and the panel with it: whatever    *)
(* differs is expected to be refreshed and signalled, is signalled, or is  *)
(* missed; what the panel shows may also have been unseen.                 *)
(***************************************************************************)
EXTENDS ExtensionsZone, ExtensionCacheProofs

\* A refresh of n is to come or under way, and the zone will be told of it.
Expected(n) == Pending(n) \/ (number = n /\ msg = eUnChecked)

TrueState(n) == GetState(truth[n])

\* The zone is built when the cache is kept up, and signals are for a zone that is built.
BuiltInv ==
    /\ mRinggroupNumber # "none" => boot = "listening"
    /\ registered => mRinggroupNumber # "none"

\* Signals are connected when the callback is registered.
QuietInv == ~registered => signals = <<>>

\* The extension just stored is in the cache.
StoredInv == pc = "firing" => number \in DOMAIN mExtensions

\* What the cache has lost the zone has missed.
MissedInv == lost \subseteq missed

\* A look-up in the cache finds the present state, or nothing while a refresh replaces it.
CacheInv == boot # "starting" => \A n \in Numbers \ missed :
    \/ Expected(n)
    \/ pc = "inserting" /\ number = n
    \/ n \in DOMAIN mExtensions /\ mExtensions[n].detail = truth[n]

\* The i-th signal is the last state signal for n.
LastFor(i, n) ==
    /\ signals[i].n = n /\ "state" \in DOMAIN signals[i]
    /\ \A j \in DOMAIN signals : j > i => ~(signals[j].n = n /\ "state" \in DOMAIN signals[j])

\* The last signal for an extension carries its present state.
SignalInv == \A n \in Numbers \ missed : \A i \in DOMAIN signals :
    LastFor(i, n) => Expected(n) \/ signals[i].state = TrueState(n)

\* An icon shows the present state.
IconInv == mRinggroupNumber # "none" => \A n \in DOMAIN panel \ (missed \cup unseen) :
    Expected(n) \/ Signalled(n) \/ panel[n].icon = TrueState(n)

\* A dynamic group holds the extensions whose present state is one of its states.
GroupInv == mRinggroupNumber \in Dynamic => \A n \in Numbers \ (missed \cup unseen) :
    \/ Expected(n) \/ Signalled(n)
    \/ n \in DOMAIN panel <=> TrueState(n) \in StatesIn(mRinggroupNumber)

\* The types, for proofs.
PanelOK ==
    /\ mRinggroupNumber \in {"none", "all", "ringgroup"} \cup Dynamic
    /\ registered \in BOOLEAN
    /\ DOMAIN panel \subseteq Numbers
    /\ panel \in [DOMAIN panel -> [icon : States, roll : RollCallStates]]
    /\ signals \in Seq(StateSignal \cup RollSignal)
    /\ missed \subseteq Numbers
    /\ unseen \subseteq Numbers

ZoneInv ==
    /\ IInv /\ PanelOK
    /\ BuiltInv /\ QuietInv /\ StoredInv /\ MissedInv /\ CacheInv
    /\ SignalInv /\ IconInv /\ GroupInv

-----------------------------------------------------------------------------
(* States and signals.                                                     *)

\* The busiest channel is one of the channels.
LEMMA StateTyped ==
    ASSUME NEW d \in Details
    PROVE  GetState(d) \in States
<1>1. d.state \in {0, 1} /\ d.peers \subseteq {0, 2, 3, 4}
  BY CacheAssumption DEF CacheAssumption, eOffline, eIdle, eRing, eRinging, eIncall
<1>2. CASE d.peers = {}
  BY <1>1, <1>2 DEF GetState, States, eOffline, eIncall
<1>3. CASE d.peers # {}
  <2> DEFINE S == d.peers \cup {0}
  <2>1. S \subseteq {0, 2, 3, 4} /\ 0 \in S
    BY <1>1
  <2>2. \E x \in S : \A y \in S : x >= y
    <3>1. CASE 4 \in S
      BY <2>1, <3>1
    <3>2. CASE 4 \notin S /\ 3 \in S
      BY <2>1, <3>2
    <3>3. CASE 4 \notin S /\ 3 \notin S /\ 2 \in S
      BY <2>1, <3>3
    <3>4. CASE 4 \notin S /\ 3 \notin S /\ 2 \notin S
      BY <2>1, <3>4
    <3> QED BY <3>1, <3>2, <3>3, <3>4
  <2>3. Max(S) \in S
    BY <2>2 DEF Max
  <2>4. GetState(d) = Max(S)
    BY <1>3 DEF GetState, eOffline
  <2> QED BY <2>1, <2>3, <2>4 DEF States, eOffline, eIncall
<1> QED BY <1>2, <1>3

LEMMA CachedTyped ==
    ASSUME TypeOK, NEW n \in DOMAIN mExtensions
    PROVE  CachedState(n) \in States
<1>1. mExtensions[n].detail \in Details
  BY DEF TypeOK
<1> QED BY <1>1, StateTyped DEF CachedState

LEMMA SignalKinds ==
    /\ \A s \in StateSignal : "state" \in DOMAIN s /\ s.n \in Numbers /\ s.state \in States
    /\ \A s \in RollSignal : "state" \notin DOMAIN s /\ s.n \in Numbers /\ s.roll \in RollCallStates
BY RollTypes DEF StateSignal, RollSignal

LEMMA SignalTyped ==
    ASSUME PanelOK, NEW i \in DOMAIN signals
    PROVE  signals[i] \in StateSignal \cup RollSignal /\ signals[i].n \in Numbers
<1>1. signals[i] \in StateSignal \cup RollSignal
  BY DEF PanelOK
<1> QED BY <1>1, SignalKinds

\* A signal that is emitted comes after the others.
LEMMA EmitAfter ==
    ASSUME PanelOK, NEW s \in StateSignal \cup RollSignal, signals' = Append(signals, s)
    PROVE  /\ signals' \in Seq(StateSignal \cup RollSignal)
           /\ \A i \in DOMAIN signals : i \in DOMAIN signals' /\ signals'[i] = signals[i]
           /\ \E last \in DOMAIN signals' :
                 /\ signals'[last] = s
                 /\ \A i \in DOMAIN signals' \ {last} : i \in DOMAIN signals /\ last > i
<1>1. signals \in Seq(StateSignal \cup RollSignal)
  BY DEF PanelOK
<1>2. /\ signals' \in Seq(StateSignal \cup RollSignal)
      /\ \A i \in DOMAIN signals : i \in DOMAIN signals' /\ signals'[i] = signals[i]
  BY <1>1
<1>3. /\ Len(signals) + 1 \in DOMAIN signals' /\ signals'[Len(signals) + 1] = s
      /\ \A i \in DOMAIN signals' \ {Len(signals) + 1} : i \in DOMAIN signals /\ Len(signals) + 1 > i
  BY <1>1
<1> QED BY <1>2, <1>3

\* The oldest signal is taken and the others move up.
LEMMA TakeFirst ==
    ASSUME PanelOK, signals # <<>>, signals' = Tail(signals)
    PROVE  /\ signals' \in Seq(StateSignal \cup RollSignal)
           /\ 1 \in DOMAIN signals /\ Head(signals) = signals[1]
           /\ \A i \in DOMAIN signals' : i + 1 \in DOMAIN signals /\ signals'[i] = signals[i + 1]
           /\ \A i \in DOMAIN signals : i # 1 => i - 1 \in DOMAIN signals' /\ signals'[i - 1] = signals[i]
           /\ DOMAIN signals \subseteq Nat /\ DOMAIN signals' \subseteq Nat
<1>1. signals \in Seq(StateSignal \cup RollSignal)
  BY DEF PanelOK
<1>2. Tail(signals) \in Seq(StateSignal \cup RollSignal) /\ Len(signals') = Len(signals) - 1
  BY <1>1
<1>3. DOMAIN signals = 1..Len(signals) /\ DOMAIN signals' = 1..Len(signals')
  BY <1>1, <1>2
<1>4. Len(signals) \in Nat /\ Len(signals) > 0
  BY <1>1
<1>5. \A i \in 1..Len(signals) - 1 : signals'[i] = signals[i + 1]
  BY <1>1, <1>4
<1> QED BY <1>1, <1>2, <1>3, <1>4, <1>5

-----------------------------------------------------------------------------
(* The steps of the cache.                                                 *)

LEMMA ZoneStepsCache ==
    ASSUME [ZoneNext]_vars
    PROVE  [CacheNext]_cacheVars
BY DEF ZoneNext, vars, CacheStep, FireCallback, BuildZone, Register, LoadGroup, LoadRinggroup,
       TakeSignal, CacheNext

LEMMA CacheKept ==
    ASSUME IInv, [CacheNext]_cacheVars
    PROVE  IInv'
BY TypeStep, HandlerStep, TracksStep, RollStep DEF IInv

\* What CacheStep leaves alone.
LEMMA CacheStepFrame ==
    ASSUME CacheStep
    PROVE  /\ mRinggroupNumber' = mRinggroupNumber /\ registered' = registered
           /\ panel' = panel /\ signals' = signals /\ unseen' = unseen
           /\ missed' = missed \cup lost'
           /\ [CacheNext]_cacheVars
BY DEF CacheStep, zone, CacheNext

\* An extension that is expected stays so, and one that changes is expected.
LEMMA ExpectedKept ==
    ASSUME IInv, CacheStep, NEW n \in Numbers, n \notin missed'
    PROVE  (Expected(n) => Expected(n)') /\ (truth'[n] = truth[n] \/ Expected(n)')
<1>0. TypeOK /\ n # "" /\ n \notin lost'
  BY NoNumber, CacheStepFrame DEF IInv
<1>1. ASSUME NEW k \in Numbers, NEW detail \in Details, Change(k, detail)
      PROVE  (Expected(n) => Expected(n)') /\ (truth'[n] = truth[n] \/ Expected(n)')
  <2>1. Pending(k)' /\ (Pending(n) => Pending(n)')
    BY <1>0, <1>1, PublishPends, RollTypes DEF Change
  <2>2. UNCHANGED <<number, msg>> /\ (k # n => truth'[n] = truth[n])
    BY <1>0, <1>1 DEF Change, locals, TypeOK
  <2> QED BY <2>1, <2>2 DEF Expected
<1>2. ASSUME NEW k \in Numbers, NEW result \in RollCallResults, RollCallResult(k, result)
      PROVE  (Expected(n) => Expected(n)') /\ truth' = truth
  <2>1. Pending(n) => Pending(n)'
    BY <1>0, <1>2, PublishPends, RollTypes DEF RollCallResult
  <2> QED BY <1>2, <2>1 DEF RollCallResult, locals, Expected
<1>3. ASSUME NEW reply, BootLoad(reply)
      PROVE  (Expected(n) => Expected(n)') /\ truth' = truth
  BY <1>3 DEF BootLoad, Expected, Pending, pbx, locals
<1>4. CASE BootListen
  BY <1>4 DEF BootListen, Expected, Pending, pbx, locals
<1>5. CASE Drop
  <2>1. n # Head(events).n
    BY <1>0, <1>5 DEF Drop
  <2>2. Pending(n) => Pending(n)'
    BY <1>0, <1>5, <2>1, TakePends DEF Drop
  <2> QED BY <1>5, <2>2 DEF Drop, locals, Expected
<1>6. CASE Receive
  <2>1. number = ""
    BY <1>0, <1>6 DEF Receive, TypeOK
  <2>2. Pending(n) => Pending(n)' \/ (n = Head(events).n /\ Head(events).roll = eUnChecked)
    BY <1>0, <1>6, TakePends DEF Receive
  <2> QED BY <1>0, <1>6, <2>1, <2>2 DEF Receive, Expected
<1>7. CASE Refresh
  <2>1. PICK reply :
          /\ IF number \in DOMAIN reply
             THEN /\ extens' = reply
                  /\ pc' = "replacing"
                  /\ UNCHANGED <<number, msg, rollCallState, rollLost>>
             ELSE /\ Return
                  /\ rollLost' = IF msg = eUnChecked THEN rollLost ELSE rollLost \cup {number}
          /\ lost' = IF Fresh(reply, number) THEN lost \ {number} ELSE lost \cup {number}
    BY <1>7 DEF Refresh
  <2>2. n = number => number \in DOMAIN reply
    BY <1>0, <2>1 DEF Fresh
  <2>3. n = number => number' = number /\ msg' = msg
    BY <2>1, <2>2
  <2> QED BY <1>7, <2>3 DEF Refresh, pbx, Expected, Pending
<1>8. CASE Replace
  BY <1>8 DEF Replace, Expected, Pending, pbx
<1>9. CASE Insert
  BY <1>9 DEF Insert, Expected, Pending, pbx
<1>10. CASE OtherCall
  BY <1>10 DEF OtherCall, Expected, Pending, pbx, locals
<1> QED BY <1>1, <1>2, <1>3, <1>4, <1>5, <1>6, <1>7, <1>8, <1>9, <1>10
        DEF CacheStep, Adapter, Boot, Handle

\* The present state of n in the cache.
InStep(n) == n \in DOMAIN mExtensions /\ mExtensions[n].detail = truth[n]

LEMMA CacheInvCache ==
    ASSUME IInv, MissedInv, CacheInv, CacheStep
    PROVE  CacheInv'
<1> SUFFICES ASSUME boot' # "starting", NEW n \in Numbers, n \notin missed', ~Expected(n)'
             PROVE  (pc' = "inserting" /\ number' = n) \/ InStep(n)'
  BY DEF CacheInv, InStep
<1>0. /\ TypeOK /\ n # "" /\ n \notin lost' /\ n \notin missed
      /\ ~Expected(n) /\ truth'[n] = truth[n]
  BY NoNumber, CacheStepFrame, ExpectedKept DEF IInv
<1>1. IInv'
  BY CacheStepFrame, CacheKept
<1>2. boot # "starting" => (pc = "inserting" /\ number = n) \/ InStep(n)
  BY <1>0 DEF CacheInv, InStep
<1>3. ASSUME UNCHANGED <<boot, mExtensions, pc, number>>
      PROVE  (pc' = "inserting" /\ number' = n) \/ InStep(n)'
  BY <1>0, <1>2, <1>3 DEF InStep
<1>4. CASE Adapter
  BY <1>3, <1>4 DEF Adapter, Change, RollCallResult, locals
<1>5. ASSUME NEW reply, BootLoad(reply)
      PROVE  InStep(n)'
  <2>1. Fresh(reply, n) /\ truth' = truth
    BY <1>0, <1>5 DEF BootLoad, pbx
  <2>2. mExtensions' = [k \in DOMAIN reply |-> [detail |-> reply[k], roll |-> eUnChecked]]
    BY <1>5 DEF BootLoad, Loaded
  <2> QED BY <2>1, <2>2 DEF InStep, Fresh
<1>6. CASE BootListen
  BY <1>0, <1>2, <1>6 DEF BootListen, locals, InStep
<1>7. CASE Drop
  BY <1>3, <1>7 DEF Drop, locals
<1>8. CASE Receive
  BY <1>0, <1>2, <1>8 DEF Receive, InStep
<1>9. CASE Refresh
  BY <1>0, <1>2, <1>9 DEF Refresh, InStep
<1>10. CASE Replace
  <2>1. /\ pc = "replacing" /\ pc' = "inserting" /\ boot' = boot /\ number' = number
        /\ mExtensions' = [k \in DOMAIN mExtensions \ {number} |-> mExtensions[k]]
    BY <1>10 DEF Replace
  <2> QED BY <1>0, <1>2, <2>1 DEF InStep
<1>11. CASE Insert
  <2>1. /\ pc' = "firing" /\ boot' = boot /\ number' = number
        /\ mExtensions' = [k \in DOMAIN mExtensions \cup {number} |->
              IF k = number THEN [detail |-> extens[k], roll |-> rollCallState]
              ELSE mExtensions[k]]
    BY <1>11 DEF Insert
  <2>2. CASE n = number
    BY <1>0, <1>1, <2>1, <2>2 DEF IInv, Tracks, Stored, Expected, InStep
  <2>3. CASE n # number
    BY <1>0, <1>2, <2>1, <2>3 DEF InStep
  <2> QED BY <2>2, <2>3
<1>12. CASE OtherCall
  BY <1>3, <1>12 DEF OtherCall, locals
<1> QED BY <1>4, <1>5, <1>6, <1>7, <1>8, <1>9, <1>10, <1>11, <1>12 DEF CacheStep, Boot, Handle

LEMMA ZoneCacheStep ==
    ASSUME ZoneInv, CacheStep
    PROVE  ZoneInv'
<1> USE DEF ZoneInv
<1>1. IInv' /\ CacheInv'
  BY CacheStepFrame, CacheKept, CacheInvCache
<1>2. PanelOK' /\ MissedInv'
  <2>1. lost' \subseteq Numbers
    BY <1>1 DEF IInv, TypeOK
  <2> QED BY <2>1, CacheStepFrame DEF PanelOK, MissedInv
<1>3. BuiltInv' /\ QuietInv'
  <2>1. boot = "listening" => boot' = "listening"
    BY DEF CacheStep, Adapter, Boot, Handle, OtherCall, Change, RollCallResult, BootLoad, BootListen,
           Drop, Receive, Refresh, Replace, Insert
  <2> QED BY <2>1, CacheStepFrame DEF BuiltInv, QuietInv
<1>8. StoredInv'
  BY <1>1 DEF StoredInv, IInv, HandlerInv, CacheStep, Adapter, Boot, Handle, OtherCall, Change,
              RollCallResult, BootLoad, BootListen, Drop, Receive, Refresh, Replace, Insert, Return,
              locals
<1>4. \A n \in Numbers : n \notin missed' =>
         n \notin missed /\ (Expected(n) => Expected(n)')
                         /\ (Expected(n)' \/ TrueState(n)' = TrueState(n))
  BY CacheStepFrame, ExpectedKept DEF TrueState
<1>5. SignalInv'
  BY <1>4, CacheStepFrame DEF SignalInv, LastFor
<1>6. IconInv'
  BY <1>4, CacheStepFrame DEF IconInv, Signalled, PanelOK
<1>7. GroupInv'
  BY <1>4, CacheStepFrame DEF GroupInv, Signalled
<1> QED BY <1>1, <1>2, <1>3, <1>5, <1>6, <1>7, <1>8

-----------------------------------------------------------------------------
(* The callback.                                                           *)

LEMMA FireFrame ==
    ASSUME IInv, FireCallback
    PROVE  /\ pc = "firing" /\ number \in Numbers /\ number' = "" /\ pc' = "waiting"
           /\ UNCHANGED <<truth, events, boot, mExtensions, lost>>
           /\ UNCHANGED <<mRinggroupNumber, registered, panel, unseen>>
           /\ boot = "listening"
BY DEF IInv, TypeOK, HandlerInv, FireCallback, Fire, Return, pbx

\* The extension just stored is in step with the exchange, if it is not lost.
LEMMA StoredAtFire ==
    ASSUME IInv, pc = "firing", boot = "listening", number \in Numbers, number \notin lost
    PROVE  Pending(number) \/ InStep(number)
BY DEF IInv, Tracks, Stored, InStep

\* An extension that is not missed after the callback and was not the one just stored, or
\* was stored for a roll call, was not missed before, and is expected as before.
LEMMA FireOthers ==
    ASSUME IInv, FireCallback, NEW n \in Numbers, n \notin missed',
           n # number \/ msg # eUnChecked
    PROVE  n \notin missed /\ (Expected(n) => Expected(n)') /\ TrueState(n)' = TrueState(n)
<1>1. n \notin missed
  BY FireFrame DEF FireCallback, Emit
<1>2. Expected(n) => Pending(n)
  BY DEF Expected
<1> QED BY <1>1, <1>2, FireFrame DEF Expected, Pending, TrueState

\* What the callback emits.
Emitted == IF msg # eUnChecked THEN [n |-> number, roll |-> msg]
           ELSE [n |-> number, state |-> CachedState(number)]

LEMMA FireEmits ==
    ASSUME ZoneInv, FireCallback, registered
    PROVE  /\ Emitted \in StateSignal \cup RollSignal
           /\ signals' = Append(signals, Emitted)
           /\ missed' = IF msg # eUnChecked THEN missed ELSE (missed \ {number}) \cup lost
<1>1. number \in Numbers /\ number \in DOMAIN mExtensions /\ msg \in RollCallStates
  BY FireFrame DEF ZoneInv, StoredInv, IInv, TypeOK
<1>2. CachedState(number) \in States
  BY <1>1, CachedTyped DEF ZoneInv, IInv
<1>3. Emitted \in StateSignal \cup RollSignal
  BY <1>1, <1>2 DEF Emitted, StateSignal, RollSignal, RollCallStates
<1> QED BY <1>3 DEF FireCallback, Emit, Emitted

\* After a state signal the extension just stored is missed, in step or expected.
LEMMA FireStored ==
    ASSUME ZoneInv, FireCallback, NEW n \in Numbers, n = number, n \notin missed', msg = eUnChecked
    PROVE  registered /\ (Expected(n)' \/ InStep(n))
<1>1. registered
  BY DEF FireCallback
<1>2. n \notin lost
  BY <1>1, FireEmits
<1>3. Pending(n) \/ InStep(n)
  BY <1>2, FireFrame, StoredAtFire DEF ZoneInv
<1>4. Pending(n) => Pending(n)'
  BY FireFrame DEF Pending, ZoneInv
<1> QED BY <1>1, <1>3, <1>4 DEF Expected

LEMMA FireSignals ==
    ASSUME ZoneInv, FireCallback
    PROVE  SignalInv'
<1> SUFFICES ASSUME NEW n \in Numbers, n \notin missed', NEW i \in DOMAIN signals', LastFor(i, n)'
             PROVE  Expected(n)' \/ signals'[i].state = TrueState(n)'
  BY DEF SignalInv
<1>0. IInv /\ PanelOK /\ SignalInv
  BY DEF ZoneInv
<1>1. CASE ~registered
  <2>1. n # number /\ signals' = signals
    BY <1>1 DEF FireCallback
  <2>2. LastFor(i, n)
    BY <2>1 DEF LastFor
  <2> QED BY <1>0, <2>1, <2>2, FireOthers DEF SignalInv
<1>2. CASE registered
  <2>1. PICK last \in DOMAIN signals' :
           /\ signals'[last] = Emitted
           /\ \A j \in DOMAIN signals' \ {last} : j \in DOMAIN signals /\ last > j
    BY <1>0, <1>2, FireEmits, EmitAfter
  <2>2. \A j \in DOMAIN signals : j \in DOMAIN signals' /\ signals'[j] = signals[j]
    BY <1>0, <1>2, FireEmits, EmitAfter
  <2>3. CASE i = last
    \* the new signal carries the state in the cache
    <3>1. "state" \in DOMAIN Emitted /\ Emitted.n = n
      BY <2>1, <2>3 DEF LastFor
    <3>2. msg = eUnChecked
      BY <3>1 DEF Emitted
    <3>3. n = number /\ signals'[i].state = CachedState(n)
      BY <2>1, <2>3, <3>1, <3>2 DEF Emitted
    <3>4. Expected(n)' \/ InStep(n)
      BY <3>2, <3>3, FireStored
    <3> QED BY <1>0, <3>3, <3>4, FireFrame DEF InStep, CachedState, TrueState
  <2>4. CASE i # last
    <3>1. i \in DOMAIN signals /\ LastFor(i, n)
      BY <2>1, <2>2, <2>4 DEF LastFor
    <3>2. n # number \/ msg # eUnChecked
      <4>1. ~("state" \in DOMAIN Emitted /\ Emitted.n = n)
        BY <2>1, <2>4 DEF LastFor
      <4> QED BY <4>1 DEF Emitted
    <3>3. n \notin missed /\ (Expected(n) => Expected(n)') /\ TrueState(n)' = TrueState(n)
      BY <1>0, <3>2, FireOthers
    <3>4. Expected(n) \/ signals[i].state = TrueState(n)
      BY <1>0, <3>1, <3>3 DEF SignalInv
    <3> QED BY <2>2, <3>1, <3>3, <3>4
  <2> QED BY <2>3, <2>4
<1> QED BY <1>1, <1>2

\* What the panel shows of n stays right.
LEMMA FireShown ==
    ASSUME ZoneInv, FireCallback, NEW n \in Numbers, n \notin missed'
    PROVE  \/ Signalled(n)'
           \/ /\ n \notin missed /\ (Expected(n) => Expected(n)') /\ TrueState(n)' = TrueState(n)
              /\ Signalled(n) => Signalled(n)'
<1>0. IInv /\ PanelOK
  BY DEF ZoneInv
<1>1. Signalled(n) => Signalled(n)'
  <2>1. CASE registered
    BY <1>0, <2>1, FireEmits, EmitAfter DEF Signalled
  <2>2. CASE ~registered
    BY <2>2 DEF FireCallback, Signalled
  <2> QED BY <2>1, <2>2
<1>2. CASE n = number /\ msg = eUnChecked
  <2>1. registered
    BY <1>2, FireStored
  <2>2. \E last \in DOMAIN signals' : signals'[last] = [n |-> number, state |-> CachedState(number)]
    BY <1>0, <1>2, <2>1, FireEmits, EmitAfter DEF Emitted
  <2> QED BY <1>2, <2>2 DEF Signalled
<1>3. CASE n # number \/ msg # eUnChecked
  BY <1>0, <1>1, <1>3, FireOthers
<1> QED BY <1>2, <1>3

LEMMA ZoneFireStep ==
    ASSUME ZoneInv, FireCallback
    PROVE  ZoneInv'
<1>0. /\ IInv /\ PanelOK /\ BuiltInv /\ MissedInv
      /\ CacheInv /\ IconInv /\ GroupInv
  BY DEF ZoneInv
<1>1. IInv'
  BY <1>0, CacheKept DEF FireCallback, CacheNext
<1>2. PanelOK'
  <2>1. signals' \in Seq(StateSignal \cup RollSignal) /\ missed' \subseteq Numbers
    <3>1. CASE registered
      <4>1. lost \subseteq Numbers
        BY <1>0 DEF IInv, TypeOK
      <4> QED BY <1>0, <3>1, <4>1, FireEmits, EmitAfter DEF PanelOK
    <3>2. CASE ~registered
      BY <1>0, <3>2, FireFrame DEF FireCallback, PanelOK
    <3> QED BY <3>1, <3>2
  <2> QED BY <1>0, <2>1, FireFrame DEF PanelOK
<1>3. BuiltInv' /\ QuietInv' /\ StoredInv'
  <2>1. BuiltInv'
    <3>1. boot' = "listening" /\ mRinggroupNumber' = mRinggroupNumber /\ registered' = registered
      BY <1>0, FireFrame
    <3> QED BY <1>0, <3>1 DEF BuiltInv
  <2>2. StoredInv'
    BY <1>0, FireFrame DEF StoredInv
  <2>3. QuietInv'
    BY <1>0, FireFrame DEF FireCallback, ZoneInv, QuietInv
  <2> QED BY <2>1, <2>2, <2>3
<1>4. MissedInv'
  BY <1>0, FireFrame DEF FireCallback, Emit, MissedInv
<1>5. CacheInv'
  <2> SUFFICES ASSUME NEW n \in Numbers, n \notin missed'
               PROVE  Expected(n)' \/ InStep(n)'
    BY DEF CacheInv, InStep
  <2>1. CASE n = number /\ msg = eUnChecked
    BY <1>0, <2>1, FireFrame, FireStored DEF InStep
  <2>2. CASE n # number \/ msg # eUnChecked
    BY <1>0, <2>2, FireFrame, FireOthers DEF CacheInv, InStep
  <2> QED BY <2>1, <2>2
<1>6. IconInv'
  BY <1>0, FireFrame, FireShown DEF IconInv, PanelOK
<1>7. GroupInv'
  BY <1>0, FireFrame, FireShown DEF GroupInv
<1> QED BY <1>1, <1>2, <1>3, <1>4, <1>5, <1>6, <1>7, FireSignals DEF ZoneInv

-----------------------------------------------------------------------------
(* The GUI thread.                                                         *)

\* What a look-up finds of an extension that it does not miss.
LEMMA LookUp ==
    ASSUME ZoneInv, boot = "listening", NEW n \in Numbers \ missed, n \notin Unseen
    PROVE  \/ Expected(n)
           \/ n \in DOMAIN mExtensions /\ CachedState(n) = TrueState(n)
<1>1. \/ Expected(n)
      \/ pc = "inserting" /\ number = n
      \/ n \in DOMAIN mExtensions /\ mExtensions[n].detail = truth[n]
  BY DEF ZoneInv, CacheInv
<1>2. CASE pc = "inserting" /\ number = n
  BY <1>2 DEF Unseen, Expected
<1> QED BY <1>1, <1>2 DEF CachedState, TrueState

\* The cache, and what it says of the exchange, in a step of the GUI thread.
LEMMA GuiFrame ==
    ASSUME ZoneInv, UNCHANGED <<cacheVars, missed>>
    PROVE  /\ IInv' /\ StoredInv' /\ MissedInv' /\ CacheInv'
           /\ boot' = boot
           /\ \A n : Expected(n)' = Expected(n) /\ TrueState(n)' = TrueState(n)
<1>1. IInv'
  BY CacheKept DEF ZoneInv
<1>2. UNCHANGED <<truth, events, boot, mExtensions, pc, number, msg, lost>>
  BY DEF cacheVars
<1>3. \A n : Expected(n)' = Expected(n) /\ TrueState(n)' = TrueState(n)
  BY <1>2 DEF Expected, Pending, TrueState
<1> QED BY <1>1, <1>2, <1>3 DEF ZoneInv, StoredInv, MissedInv, CacheInv

LEMMA ButtonTyped ==
    ASSUME TypeOK, NEW n \in DOMAIN mExtensions
    PROVE  Button(n) \in [icon : States, roll : RollCallStates]
BY CachedTyped, RollTypes DEF Button

\* A group is loaded.
LEMMA ShowStep ==
    ASSUME ZoneInv, boot = "listening", UNCHANGED <<cacheVars, registered, signals, missed>>,
           NEW group \in {"all", "ringgroup"} \cup Dynamic, mRinggroupNumber' = group,
           NEW ns \in SUBSET DOMAIN mExtensions, Show(ns),
           group \in Dynamic => ns = {n \in DOMAIN mExtensions : CachedState(n) \in StatesIn(group)}
    PROVE  ZoneInv'
<1>1. /\ panel' = [n \in ns |-> Button(n)]
      /\ unseen' = Unseen
  BY DEF Show
<1>2. /\ IInv' /\ StoredInv' /\ MissedInv' /\ CacheInv'
      /\ boot' = boot
      /\ \A n : Expected(n)' = Expected(n) /\ TrueState(n)' = TrueState(n)
  BY <1>1, GuiFrame
<1>3. IInv /\ TypeOK /\ PanelOK /\ SignalInv
  BY DEF ZoneInv, IInv
<1>4. DOMAIN panel' = ns /\ ns \subseteq Numbers /\ \A n \in ns : panel'[n] = Button(n)
  BY <1>1, <1>3 DEF TypeOK
<1>5. PanelOK'
  <2>1. panel' \in [DOMAIN panel' -> [icon : States, roll : RollCallStates]]
    BY <1>1, <1>3, <1>4, ButtonTyped
  <2>2. unseen' \subseteq Numbers
    BY <1>1, <1>3 DEF Unseen, TypeOK
  <2> QED BY <1>3, <1>4, <2>1, <2>2 DEF PanelOK, Dynamic
<1>6. BuiltInv' /\ QuietInv'
  BY <1>2 DEF ZoneInv, BuiltInv, QuietInv, Dynamic
<1>7. SignalInv'
  BY <1>1, <1>2, <1>3 DEF SignalInv, LastFor
<1>8. IconInv'
  <2> SUFFICES ASSUME NEW n \in ns, n \notin missed, n \notin Unseen
               PROVE  Expected(n) \/ panel'[n].icon = TrueState(n)
    BY <1>1, <1>2, <1>4 DEF IconInv
  <2> QED BY <1>1, <1>4, LookUp DEF Button
<1>9. GroupInv'
  <2> SUFFICES ASSUME group \in Dynamic, NEW n \in Numbers, n \notin missed, n \notin Unseen
               PROVE  Expected(n) \/ (n \in DOMAIN panel' <=> TrueState(n) \in StatesIn(group))
    BY <1>1, <1>2 DEF GroupInv
  <2> QED BY <1>1, <1>4, LookUp
<1> QED BY <1>2, <1>5, <1>6, <1>7, <1>8, <1>9 DEF ZoneInv

LEMMA LoadStep ==
    ASSUME ZoneInv, boot = "listening", UNCHANGED <<cacheVars, registered, signals>>,
           missed' = missed, NEW group \in {"all"} \cup Dynamic, Load(group)
    PROVE  ZoneInv'
BY ShowStep DEF Load

LEMMA RinggroupStep ==
    ASSUME ZoneInv, LoadRinggroup
    PROVE  ZoneInv'
<1>1. boot = "listening"
  BY DEF ZoneInv, BuiltInv, LoadRinggroup
<1>2. CASE Show(Members \cap DOMAIN mExtensions)
  BY <1>1, <1>2, ShowStep DEF LoadRinggroup, Dynamic
<1>3. CASE UNCHANGED <<panel, unseen>>
  <2>1. /\ IInv' /\ StoredInv' /\ MissedInv' /\ CacheInv'
        /\ boot' = boot
        /\ \A n : Expected(n)' = Expected(n) /\ TrueState(n)' = TrueState(n)
    BY <1>3, GuiFrame DEF LoadRinggroup
  <2>2. /\ mRinggroupNumber' = "ringgroup" /\ mRinggroupNumber # "none"
        /\ registered' = registered /\ signals' = signals /\ missed' = missed
    BY DEF LoadRinggroup, ZoneInv, BuiltInv
  <2>3. PanelOK' /\ BuiltInv' /\ QuietInv'
    BY <1>1, <1>3, <2>1, <2>2 DEF ZoneInv, PanelOK, BuiltInv, QuietInv
  <2>4. SignalInv' /\ IconInv' /\ GroupInv'
    BY <1>3, <2>1, <2>2 DEF ZoneInv, SignalInv, LastFor, IconInv, Signalled, GroupInv, Dynamic
  <2> QED BY <2>1, <2>3, <2>4 DEF ZoneInv
<1> QED BY <1>2, <1>3 DEF LoadRinggroup

LEMMA RegisterStep ==
    ASSUME ZoneInv, Register \/ UNCHANGED vars
    PROVE  ZoneInv'
<1>1. UNCHANGED <<cacheVars, mRinggroupNumber, panel, signals, missed, unseen>>
  BY DEF Register, vars, zone
<1>2. registered' \in BOOLEAN /\ (registered' => mRinggroupNumber # "none")
      /\ (registered => registered')
  <2>1. CASE Register
    BY <2>1 DEF Register
  <2>2. CASE UNCHANGED vars
    BY <2>2 DEF vars, zone, ZoneInv, BuiltInv, PanelOK
  <2> QED BY <2>1, <2>2
<1>3. /\ IInv' /\ StoredInv' /\ MissedInv' /\ CacheInv'
      /\ boot' = boot
      /\ \A n : Expected(n)' = Expected(n) /\ TrueState(n)' = TrueState(n)
  BY <1>1, GuiFrame
<1>4. PanelOK' /\ BuiltInv' /\ QuietInv'
  BY <1>1, <1>2, <1>3 DEF ZoneInv, PanelOK, BuiltInv, QuietInv
<1>5. SignalInv' /\ IconInv' /\ GroupInv'
  BY <1>1, <1>3 DEF ZoneInv, SignalInv, LastFor, IconInv, Signalled, GroupInv
<1> QED BY <1>3, <1>4, <1>5 DEF ZoneInv

-----------------------------------------------------------------------------
(* A signal is taken.                                                      *)

\* What the slot leaves alone, and what it does to the panel.
LEMMA SlotTyped ==
    ASSUME ZoneInv, TakeSignal
    PROVE  panel' \in [DOMAIN panel' -> [icon : States, roll : RollCallStates]]
           /\ DOMAIN panel' \subseteq Numbers
<1>0. PanelOK /\ TypeOK /\ 1 \in DOMAIN signals /\ Head(signals) = signals[1]
  BY TakeFirst DEF ZoneInv, IInv, TakeSignal
<1> DEFINE s == Head(signals)
<1>1. s \in StateSignal \cup RollSignal
  BY <1>0, SignalTyped
<1>2. CASE "state" \in DOMAIN s
  <2>1. s.n \in Numbers /\ s.state \in States /\ Update(s.n, s.state)
    BY <1>1, <1>2, SignalKinds DEF TakeSignal
  <2>2. CASE s.n \in DOMAIN mExtensions
    <3>1. Button(s.n) \in [icon : States, roll : RollCallStates]
      BY <1>0, <2>2, ButtonTyped
    <3>2. CASE Add(s.n)
      BY <1>0, <2>1, <3>1, <3>2 DEF Add, PanelOK
    <3>3. CASE Remove(s.n)
      BY <1>0, <3>3 DEF Remove, PanelOK
    <3>4. CASE s.n \in DOMAIN panel /\ panel' = [panel EXCEPT ![s.n].icon = s.state]
      BY <1>0, <2>1, <3>4 DEF PanelOK
    <3>5. CASE UNCHANGED panel
      BY <1>0, <3>5 DEF PanelOK
    <3> QED BY <2>1, <2>2, <3>2, <3>3, <3>4, <3>5 DEF Update
  <2>3. CASE s.n \notin DOMAIN mExtensions
    BY <1>0, <2>1, <2>3 DEF Update, PanelOK
  <2> QED BY <2>2, <2>3
<1>3. CASE "state" \notin DOMAIN s
  <2>1. s.roll \in RollCallStates /\ UpdateRoll(s.n, s.roll)
    BY <1>1, <1>3, SignalKinds DEF TakeSignal
  <2> QED BY <1>0, <2>1 DEF UpdateRoll, PanelOK
<1> QED BY <1>2, <1>3

\* The other buttons are as they were, and so is every icon after the result of a roll call.
LEMMA SlotOthers ==
    ASSUME ZoneInv, TakeSignal, NEW n \in Numbers,
           ~("state" \in DOMAIN Head(signals) /\ Head(signals).n = n)
    PROVE  /\ n \in DOMAIN panel' <=> n \in DOMAIN panel
           /\ n \in DOMAIN panel => panel'[n].icon = panel[n].icon
           /\ Signalled(n) => Signalled(n)'
<1>0. PanelOK
  BY DEF ZoneInv
<1> DEFINE s == Head(signals)
<1>1. Signalled(n) => Signalled(n)'
  BY <1>0, TakeFirst DEF TakeSignal, Signalled
<1>2. CASE "state" \in DOMAIN s
  <2>1. s.n # n /\ Update(s.n, s.state)
    BY <1>2 DEF TakeSignal
  <2> QED BY <1>0, <1>1, <2>1 DEF Update, Add, Remove, PanelOK
<1>3. CASE "state" \notin DOMAIN s
  <2>1. UpdateRoll(s.n, s.roll)
    BY <1>3 DEF TakeSignal
  <2> QED BY <1>0, <1>1, <2>1 DEF UpdateRoll, PanelOK
<1> QED BY <1>2, <1>3

\* The last state signal for n, taken when the cache shows n as it is, leaves the button in
\* step with the exchange, or away from a group it does not belong to.
LEMMA SlotLast ==
    ASSUME ZoneInv, TakeSignal, NEW n \in Numbers, n \notin missed, n \notin Unseen,
           "state" \in DOMAIN Head(signals), Head(signals).n = n,
           ~Expected(n), ~Signalled(n)'
    PROVE  /\ n \in DOMAIN panel' => panel'[n].icon = TrueState(n)
           /\ mRinggroupNumber \in Dynamic =>
                 (n \in DOMAIN panel' <=> TrueState(n) \in StatesIn(mRinggroupNumber))
<1>0. PanelOK /\ TypeOK /\ BuiltInv /\ SignalInv
  BY DEF ZoneInv, IInv
<1> DEFINE s == Head(signals)
<1>1. signals # <<>> /\ signals' = Tail(signals)
  BY DEF TakeSignal
<1>2. 1 \in DOMAIN signals /\ s = signals[1] /\ DOMAIN signals \subseteq Nat
  BY <1>0, <1>1, TakeFirst
<1>3. LastFor(1, n)
  <2> SUFFICES ASSUME NEW j \in DOMAIN signals, j > 1, signals[j].n = n, "state" \in DOMAIN signals[j]
               PROVE  FALSE
    BY <1>2 DEF LastFor
  <2>1. j - 1 \in DOMAIN signals' /\ signals'[j - 1] = signals[j]
    BY <1>0, <1>1, TakeFirst
  <2> QED BY <2>1 DEF Signalled
<1>4. s.state = TrueState(n)
  BY <1>0, <1>2, <1>3 DEF SignalInv
<1>5. boot = "listening"
  BY <1>0, <1>2 DEF BuiltInv, ZoneInv, QuietInv
<1>6. n \in DOMAIN mExtensions /\ CachedState(n) = TrueState(n)
  BY <1>5, LookUp
<1>7. Update(n, TrueState(n))
  BY <1>4 DEF TakeSignal
<1>8. CASE mRinggroupNumber \in Dynamic => TrueState(n) \in StatesIn(mRinggroupNumber)
  BY <1>0, <1>6, <1>7, <1>8 DEF Update, Add, Button, PanelOK
<1>9. CASE mRinggroupNumber \in Dynamic /\ TrueState(n) \notin StatesIn(mRinggroupNumber)
  BY <1>0, <1>6, <1>7, <1>9 DEF Update, Remove, PanelOK
<1> QED BY <1>8, <1>9

LEMMA ZoneTakeStep ==
    ASSUME ZoneInv, TakeSignal
    PROVE  ZoneInv'
<1>0. IInv /\ PanelOK /\ SignalInv /\ IconInv /\ GroupInv
  BY DEF ZoneInv
<1>1. /\ UNCHANGED <<cacheVars, mRinggroupNumber, registered>>
      /\ signals # <<>> /\ signals' = Tail(signals) /\ missed' = missed
  BY DEF TakeSignal
<1>2. /\ IInv' /\ StoredInv' /\ MissedInv' /\ CacheInv'
      /\ boot' = boot
      /\ \A n : Expected(n)' = Expected(n) /\ TrueState(n)' = TrueState(n)
  BY <1>1, GuiFrame
<1>3. /\ signals' \in Seq(StateSignal \cup RollSignal)
      /\ \A i \in DOMAIN signals' : i + 1 \in DOMAIN signals /\ signals'[i] = signals[i + 1]
      /\ \A i \in DOMAIN signals : i # 1 => i - 1 \in DOMAIN signals' /\ signals'[i - 1] = signals[i]
      /\ DOMAIN signals \subseteq Nat /\ DOMAIN signals' \subseteq Nat
  BY <1>0, <1>1, TakeFirst
<1>4. PanelOK'
  <2>1. unseen' \subseteq Numbers
    BY <1>0 DEF TakeSignal, PanelOK, Unseen, IInv, TypeOK
  <2> QED BY <1>0, <1>1, <1>3, <2>1, SlotTyped DEF PanelOK
<1>5. BuiltInv' /\ QuietInv'
  BY <1>1, <1>2, <1>3 DEF ZoneInv, BuiltInv, QuietInv
<1>6. SignalInv'
  <2> SUFFICES ASSUME NEW n \in Numbers, n \notin missed', NEW i \in DOMAIN signals', LastFor(i, n)'
               PROVE  Expected(n)' \/ signals'[i].state = TrueState(n)'
    BY DEF SignalInv
  <2>1. i + 1 \in DOMAIN signals /\ signals'[i] = signals[i + 1]
    BY <1>3
  <2>2. LastFor(i + 1, n)
    <3> SUFFICES ASSUME NEW j \in DOMAIN signals, j > i + 1
                 PROVE  ~(signals[j].n = n /\ "state" \in DOMAIN signals[j])
      BY <2>1 DEF LastFor
    <3>1. j - 1 \in DOMAIN signals' /\ j - 1 > i /\ signals'[j - 1] = signals[j]
      BY <1>3
    <3> QED BY <3>1 DEF LastFor
  <2> QED BY <1>0, <1>1, <1>2, <2>1, <2>2 DEF SignalInv
<1>7. ASSUME NEW n \in Numbers, n \notin missed, n \notin unseen'
      PROVE  /\ mRinggroupNumber # "none" /\ n \in DOMAIN panel' =>
                   Expected(n) \/ Signalled(n)' \/ panel'[n].icon = TrueState(n)
             /\ mRinggroupNumber \in Dynamic =>
                   \/ Expected(n) \/ Signalled(n)'
                   \/ n \in DOMAIN panel' <=> TrueState(n) \in StatesIn(mRinggroupNumber)
  <2>1. CASE "state" \in DOMAIN Head(signals) /\ Head(signals).n = n
    <3>1. n \notin Unseen
      BY <1>7, <2>1 DEF TakeSignal
    <3> QED BY <1>7, <2>1, <3>1, SlotLast
  <2>2. CASE ~("state" \in DOMAIN Head(signals) /\ Head(signals).n = n)
    <3>1. n \notin unseen
      BY <1>7, <2>2 DEF TakeSignal
    <3> QED BY <1>0, <1>1, <1>7, <2>2, <3>1, SlotOthers DEF IconInv, GroupInv
  <2> QED BY <2>1, <2>2
<1>8. IconInv' /\ GroupInv'
  BY <1>1, <1>2, <1>4, <1>7 DEF IconInv, GroupInv, PanelOK
<1> QED BY <1>2, <1>4, <1>5, <1>6, <1>8 DEF ZoneInv

-----------------------------------------------------------------------------
(* The theorems.                                                           *)

LEMMA ZoneInitially == ZoneInit => ZoneInv
<1> SUFFICES ASSUME ZoneInit PROVE ZoneInv
  OBVIOUS
<1>1. IInv
  BY Initially DEF ZoneInit
<1>2. /\ boot = "starting" /\ pc = "waiting" /\ lost = {} /\ missed = {} /\ unseen = {}
      /\ signals = <<>> /\ registered = FALSE /\ mRinggroupNumber = "none"
      /\ DOMAIN panel = {} /\ panel = [n \in {} |-> 0]
  BY DEF ZoneInit, CacheInit
<1>3. PanelOK
  <2>1. panel \in [{} -> [icon : States, roll : RollCallStates]]
    BY <1>2
  <2>2. signals \in Seq(StateSignal \cup RollSignal)
    BY <1>2
  <2> QED BY <1>2, <2>1, <2>2 DEF PanelOK
<1>4. BuiltInv /\ QuietInv /\ StoredInv /\ MissedInv
  BY <1>2 DEF BuiltInv, QuietInv, StoredInv, MissedInv
<1>5. CacheInv
  BY <1>2 DEF CacheInv
<1>6. SignalInv
  BY <1>2 DEF SignalInv
<1>7. IconInv /\ GroupInv
  BY <1>2 DEF IconInv, GroupInv, Dynamic
<1> QED BY <1>1, <1>3, <1>4, <1>5, <1>6, <1>7 DEF ZoneInv

\* The inductive invariant holds in every state of every behaviour.
THEOREM ZoneInvariance == ZoneSpec => []ZoneInv
<1>1. ASSUME ZoneInv, [ZoneNext]_vars PROVE ZoneInv'
  <2>1. CASE CacheStep
    BY <1>1, <2>1, ZoneCacheStep
  <2>2. CASE FireCallback
    BY <1>1, <2>2, ZoneFireStep
  <2>3. CASE BuildZone
    BY <1>1, <2>3, LoadStep DEF BuildZone
  <2>4. ASSUME NEW group \in {"all"} \cup Dynamic, LoadGroup(group) PROVE ZoneInv'
    BY <1>1, <2>4, LoadStep DEF LoadGroup, ZoneInv, BuiltInv
  <2>5. CASE LoadRinggroup
    BY <1>1, <2>5, RinggroupStep
  <2>6. CASE TakeSignal
    BY <1>1, <2>6, ZoneTakeStep
  <2>7. CASE Register \/ UNCHANGED vars
    BY <1>1, <2>7, RegisterStep
  <2> QED BY <1>1, <2>1, <2>2, <2>3, <2>4, <2>5, <2>6, <2>7 DEF ZoneNext
<1>2. ZoneInv /\ [ZoneNext]_vars => ZoneInv'
  BY <1>1
<1> QED BY <1>2, ZoneInitially, PTL DEF ZoneSpec

\* Buttons, signals and the group on show are well-formed.
THEOREM ZoneTypeCorrect == ZoneSpec => []ZoneTypeOK
<1>1. ZoneInv => ZoneTypeOK
  BY DEF ZoneInv, IInv, PanelOK, ZoneTypeOK
<1> QED BY <1>1, ZoneInvariance, PTL

\* The icon of a button is the cached state, or what will make it so is on its way
\* (ExtensionsZone.cpp:68-133, 216-236, 336-354), for every extension none of whose
\* refreshes was lost since its last state signal, and that the GUI thread did not last
\* look up in the middle of a roll call's refresh (pbx.cpp:48).
THEOREM IconsAreRight == ZoneSpec => []IconsFollow
<1>1. ZoneInv => IconsFollow
  <2> SUFFICES ASSUME ZoneInv, registered, NEW n \in DOMAIN panel \ (missed \cup unseen), ~Unsettled(n)
               PROVE  n \in DOMAIN mExtensions /\ panel[n].icon = CachedState(n)
    BY DEF IconsFollow
  <2>1. ~Expected(n) /\ ~Signalled(n) /\ number # n
    BY DEF Unsettled, Expected
  <2>2. mRinggroupNumber # "none" /\ boot = "listening" /\ n \in Numbers
    BY DEF ZoneInv, BuiltInv, PanelOK
  <2>3. panel[n].icon = TrueState(n)
    BY <2>1, <2>2 DEF ZoneInv, IconInv
  <2>4. n \in DOMAIN mExtensions /\ CachedState(n) = TrueState(n)
    BY <2>1, <2>2, LookUp DEF Unseen
  <2> QED BY <2>3, <2>4
<1> QED BY <1>1, ZoneInvariance, PTL

\* The groups "current calls" and "online" hold exactly the extensions in such a state, or
\* what will make them so is on its way (ExtensionsZone.cpp:79-130), with the exceptions
\* of IconsAreRight: a lost refresh, and a look-up in the middle of a roll call's refresh.
THEOREM GroupsAreExact == ZoneSpec => []DynamicGroupsExact
<1>1. ZoneInv => DynamicGroupsExact
  <2> SUFFICES ASSUME ZoneInv, registered, mRinggroupNumber \in Dynamic,
                      NEW n \in DOMAIN mExtensions \ (missed \cup unseen), ~Unsettled(n)
               PROVE  n \in DOMAIN panel <=> CachedState(n) \in StatesIn(mRinggroupNumber)
    BY DEF DynamicGroupsExact
  <2>1. ~Expected(n) /\ ~Signalled(n) /\ number # n
    BY DEF Unsettled, Expected
  <2>2. boot = "listening" /\ n \in Numbers
    BY DEF ZoneInv, BuiltInv, IInv, TypeOK
  <2>3. n \in DOMAIN panel <=> TrueState(n) \in StatesIn(mRinggroupNumber)
    BY <2>1, <2>2 DEF ZoneInv, GroupInv
  <2>4. CachedState(n) = TrueState(n)
    BY <2>1, <2>2, LookUp DEF Unseen
  <2> QED BY <2>3, <2>4
<1> QED BY <1>1, ZoneInvariance, PTL
=============================================================================
