--------------------------- MODULE ExtensionsZone ---------------------------
(***************************************************************************)
(* The panel of extension buttons (ui/mainwidget/ExtensionsZone.cpp) over  *)
(* the cache of ExtensionCache.  The monitor thread, having stored an      *)
(* extension, runs the zone's callback, which emits a signal; the GUI      *)
(* thread takes the signals one by one and updates the button, or adds or  *)
(* removes it when the group on show is "current calls" or "online".  In   *)
(* between the user loads other groups, reading the cache as it is then.   *)
(***************************************************************************)
EXTENDS ExtensionCache

CONSTANT Members   \* the extensions of the ring group the user may load

VARIABLES
    mRinggroupNumber, \* the group on show: "none" until the zone is built
    registered,       \* whether the callback is registered and the signals connected
    panel,            \* the buttons: number -> [icon, roll]
    signals,          \* signals emitted and not yet taken, oldest first
    missed,           \* extensions with a refresh that was lost or not signalled,
                      \* and no state signal since (history)
    unseen            \* extensions that the GUI thread last looked up while a refresh for
                      \* a roll call had taken them out of the cache (history)

zone == <<mRinggroupNumber, registered, panel, signals>>
vars == <<cacheVars, zone, missed, unseen>>

States == eOffline..eIncall
Busy == {eRing, eRinging, eIncall}
Dynamic == {"current", "online"}

CachedState(n) == GetState(mExtensions[n].detail)

\* The states an extension of a dynamic group may have.
StatesIn(group) ==
    CASE group = "current" -> Busy
      [] group = "online" -> States \ {eOffline}
      [] group = "all" -> States

StateSignal == [n : Numbers, state : States]
RollSignal == [n : Numbers, roll : RollCallResults]

ZoneTypeOK ==
    /\ TypeOK
    /\ mRinggroupNumber \in {"none", "all", "ringgroup"} \cup Dynamic
    /\ registered \in BOOLEAN
    /\ DOMAIN panel \subseteq Numbers
    /\ \A n \in DOMAIN panel : panel[n] \in [icon : States, roll : RollCallStates]
    /\ \A i \in DOMAIN signals : signals[i] \in StateSignal \cup RollSignal
    /\ missed \cup unseen \subseteq Numbers

ZoneInit ==
    /\ CacheInit
    /\ mRinggroupNumber = "none"
    /\ registered = FALSE
    /\ panel = [n \in {} |-> 0]
    /\ signals = <<>>
    /\ missed = {}
    /\ unseen = {}

-----------------------------------------------------------------------------
(* The monitor thread.                                                     *)

\* Steps that involve no callback.
CacheStep ==
    /\ Adapter \/ Boot \/ Handle \/ OtherCall
    /\ missed' = missed \cup lost'
    /\ UNCHANGED <<zone, unseen>>

\* Bug: the signal carries the state before the refresh, that the zone had asked for.
EmitShown ==
    /\ IF msg # eUnChecked
       THEN signals' = Append(signals, [n |-> number, roll |-> msg])
       ELSE signals' = Append(signals, [n |-> number,
                state |-> IF number \in DOMAIN panel THEN panel[number].icon
                          ELSE CachedState(number)])
    /\ missed' = IF msg # eUnChecked THEN missed ELSE (missed \ {number}) \cup lost

\* Bug: every event is passed on as the result of a roll call.
EmitAllAsRoll ==
    /\ signals' = Append(signals, [n |-> number, roll |-> msg])
    /\ UNCHANGED missed

\* ExtensionsZone::eventMessageReceived: a roll-call result is passed on as it is and
\* nothing else is; for any other event the state is read from the cache.
Emit ==
    /\ IF msg # eUnChecked
       THEN signals' = Append(signals, [n |-> number, roll |-> msg])
       ELSE signals' = Append(signals, [n |-> number, state |-> CachedState(number)])
    /\ missed' = IF msg # eUnChecked THEN missed ELSE (missed \ {number}) \cup lost

FireCallback ==
    /\ Fire
    /\ IF registered
       THEN Emit
       ELSE missed' = missed \cup {number} /\ UNCHANGED signals
    /\ UNCHANGED <<mRinggroupNumber, registered, panel, unseen>>

-----------------------------------------------------------------------------
(* The GUI thread.                                                         *)

\* A new UiExtension shows the cached state and no roll-call result.
Button(n) == [icon |-> CachedState(n), roll |-> eUnChecked]

\* The GUI thread cannot see the extension a refresh has taken out of the cache.  The
\* signal that follows makes up for it, unless the refresh is for a roll call: nothing
\* then follows, and what the GUI thread was about to show is forgotten.
Unseen == IF pc = "inserting" /\ msg # eUnChecked THEN {number} ELSE {}

Show(ns) ==
    /\ panel' = [n \in ns |-> Button(n)]
    /\ unseen' = Unseen

\* Bug: the groups "current calls" and "online" are filled without a filter.
LoadUnfiltered(group) ==
    /\ mRinggroupNumber' = group
    /\ Show(DOMAIN mExtensions)

\* loadExtensFromRinggroup for the groups that are kept by the panel itself.
Load(group) ==
    /\ mRinggroupNumber' = group
    /\ Show({n \in DOMAIN mExtensions : CachedState(n) \in StatesIn(group)})

\* The zone is built when PBX::initialise has returned.
BuildZone ==
    /\ mRinggroupNumber = "none"
    /\ boot = "listening"
    /\ Load("all")
    /\ UNCHANGED <<cacheVars, registered, signals, missed>>

Register ==
    /\ mRinggroupNumber # "none"
    /\ ~registered
    /\ registered' = TRUE
    /\ UNCHANGED <<cacheVars, mRinggroupNumber, panel, signals, missed, unseen>>

LoadGroup(group) ==
    /\ registered
    /\ Load(group)
    /\ UNCHANGED <<cacheVars, registered, signals, missed>>

\* The adapter is asked for the members; without an answer the old buttons stay,
\* under the new number.
LoadRinggroup ==
    /\ registered
    /\ mRinggroupNumber' = "ringgroup"
    /\ \/ Show(Members \cap DOMAIN mExtensions)
       \/ UNCHANGED <<panel, unseen>>
    /\ UNCHANGED <<cacheVars, registered, signals, missed>>

Add(n) == panel' = [k \in DOMAIN panel \cup {n} |-> IF k = n THEN Button(n) ELSE panel[k]]
Remove(n) == panel' = [k \in DOMAIN panel \ {n} |-> panel[k]]

\* Bug: no button is added to a group that is on show.
UpdateShown(n, state) ==
    IF n \in DOMAIN panel \cap DOMAIN mExtensions
    THEN IF mRinggroupNumber \in Dynamic /\ CachedState(n) \notin StatesIn(mRinggroupNumber)
         THEN Remove(n)
         ELSE panel' = [panel EXCEPT ![n].icon = state]
    ELSE UNCHANGED panel

\* extenStateChangedSlot, and through it UiExtension::stateChangedSlot.  Each of its
\* branches looks the extension up again, and does nothing in the middle of a refresh.
Update(n, state) ==
    LET kept == mRinggroupNumber \in Dynamic => state \in StatesIn(mRinggroupNumber)
        left == CachedState(n) \notin StatesIn(mRinggroupNumber)
    IN  IF n \notin DOMAIN mExtensions THEN UNCHANGED panel
        ELSE \/ n \notin DOMAIN panel /\ mRinggroupNumber \in Dynamic /\ kept /\ Add(n)
             \/ n \notin DOMAIN panel /\ ~(mRinggroupNumber \in Dynamic /\ kept) /\ UNCHANGED panel
             \/ n \in DOMAIN panel /\ kept /\ panel' = [panel EXCEPT ![n].icon = state]
             \/ n \in DOMAIN panel /\ ~kept /\ left /\ Remove(n)
             \/ n \in DOMAIN panel /\ ~kept /\ ~left /\ UNCHANGED panel

\* extenRollCallResultSlot.
UpdateRoll(n, result) ==
    panel' = IF n \in DOMAIN panel THEN [panel EXCEPT ![n].roll = result] ELSE panel

TakeSignal ==
    /\ signals # <<>>
    /\ LET s == Head(signals)
       IN  IF "state" \in DOMAIN s
           THEN Update(s.n, s.state) /\ unseen' = (unseen \ {s.n}) \cup ({s.n} \cap Unseen)
           ELSE UpdateRoll(s.n, s.roll) /\ UNCHANGED unseen
    /\ signals' = Tail(signals)
    /\ UNCHANGED <<cacheVars, mRinggroupNumber, registered, missed>>

-----------------------------------------------------------------------------

ZoneNext ==
    \/ CacheStep
    \/ FireCallback
    \/ BuildZone
    \/ Register
    \/ \E group \in {"all"} \cup Dynamic : LoadGroup(group)
    \/ LoadRinggroup
    \/ TakeSignal

ZoneSpec == ZoneInit /\ [][ZoneNext]_vars

\* Both threads keep running; nothing makes the user load a group.
FairZoneSpec ==
    /\ ZoneSpec
    /\ WF_vars((Boot \/ Handle) /\ CacheStep)
    /\ WF_vars(FireCallback)
    /\ WF_vars(BuildZone \/ Register)
    /\ WF_vars(TakeSignal)

-----------------------------------------------------------------------------
(* Properties.                                                             *)

Signalled(n) == \E i \in DOMAIN signals : signals[i].n = n /\ "state" \in DOMAIN signals[i]

\* A refresh of n is under way, or one that was made has not reached the panel.
Unsettled(n) ==
    \/ Pending(n)
    \/ number = n
    \/ Signalled(n)

\* The icon of a button is the cached state, or a refresh or a signal that will make it
\* so is on its way, whatever the order of stores, signals and group changes (lines
\* 68-133, 216-236).  Two things do leave an old icon: a refresh that was lost (missed),
\* and, with no call failing, a state signal taken or a group loaded while a refresh for
\* a roll call has the entry out of the cache (unseen: pbx.cpp:48, lines 336-339).  The
\* icon then stays old until the next signal or group change.
IconsFollow ==
    registered => \A n \in DOMAIN panel \ (missed \cup unseen) :
        Unsettled(n) \/ (n \in DOMAIN mExtensions /\ panel[n].icon = CachedState(n))

\* The groups "current calls" and "online" hold exactly the extensions in such a state,
\* though they are loaded once and then kept up by signals that may be old by the time
\* they are taken (lines 79-103, 105-130); missed and unseen are left out as above.
DynamicGroupsExact ==
    registered /\ mRinggroupNumber \in Dynamic =>
        \A n \in DOMAIN mExtensions \ (missed \cup unseen) :
            Unsettled(n) \/ (n \in DOMAIN panel <=> CachedState(n) \in StatesIn(mRinggroupNumber))

\* An extension that gets into a call appears in the "current calls" group as long as
\* that group is on show, unless a refresh of it was lost or looked up half-done.
CallsAppear == \A n \in Numbers :
    LET busy == truth[n].peers \cap Busy # {}
    IN  (registered /\ mRinggroupNumber = "current" /\ busy) ~>
            \/ n \in DOMAIN panel \/ mRinggroupNumber # "current" \/ ~busy
            \/ n \in missed \cup unseen
=============================================================================
