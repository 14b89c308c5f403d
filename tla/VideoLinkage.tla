---------------------------- MODULE VideoLinkage ----------------------------
(***************************************************************************)
(* The video windows that open with a call (VideoLinkage/, and the two     *)
(* connects of MainWindow.cpp:180-183): an operator's call to an extension *)
(* comes as a signal of the first operator zone, a call of an extension to *)
(* the operators' ring group or a broadcast as a signal of the panel.  The *)
(* slots compare the cache with what they have opened, and open and close  *)
(* windows; the player of a window starts and stops in its own time.       *)
(***************************************************************************)
EXTENDS OperatorZone, Orders, SequencesExt

CONSTANTS
    Urls,     \* the number of cameras of each extension: 1 or 2
    MaxSide   \* the windows are MaxSide * MaxSide (3 * 3 in the code)

ASSUME VideoAssumption ==
    /\ Exts \subseteq Nat \ {0} /\ IsFiniteSet(Exts) /\ Ops \cap Exts = {}
    /\ Urls \in [Exts -> 1..2]
    /\ MaxSide \in Nat \ {0}

VARIABLES
    extCalls,          \* the calls of each extension that are not an operator's, as cached
    linkSignals,       \* the numbers with a signal posted to the video linkage
    configured,        \* the extensions in settings.ini
    mActiveExtenNumber,\* extensions called by each operator
    mPasvExtenNumber,  \* extensions that called the ring group
    mBroadcastExtenNumber,
    mAlreadyUseExten,  \* extensions whose windows have been opened
    mVideoWidgets,     \* the windows in their order: [key, player], key 0 for no label
    side,              \* the layout chosen: side * side windows are visible
    removed            \* extensions taken out of settings.ini (history)

videoLists == <<mActiveExtenNumber, mPasvExtenNumber, mBroadcastExtenNumber>>
screen == <<mAlreadyUseExten, mVideoWidgets, side>>
videoVars == <<extCalls, linkSignals, configured, videoLists, screen, removed>>
linkVars == <<opVars, videoVars>>

Windows == MaxSide * MaxSide
Kinds == {"group", "broadcast"}
Free == [key |-> 0, player |-> "idle"]

VideoTypeOK ==
    /\ OpTypeOK
    /\ extCalls \in [Exts -> SUBSET Kinds]
    /\ linkSignals \subseteq Ops \cup Exts
    /\ configured \subseteq Exts
    /\ mActiveExtenNumber \in [Ops -> SUBSET Exts]
    /\ mPasvExtenNumber \subseteq Exts
    /\ mBroadcastExtenNumber \subseteq Exts
    /\ mAlreadyUseExten \subseteq Exts
    /\ mVideoWidgets \in [1..Windows -> [key : Exts \cup {0},
                                         player : {"idle", "opening", "playing"}]]
    /\ side \in 1..MaxSide
    /\ removed \subseteq Exts

VideoInit ==
    /\ OpInit
    /\ extCalls = [e \in Exts |-> {}]
    /\ linkSignals = {}
    /\ configured = Exts
    /\ mActiveExtenNumber = [op \in Ops |-> {}]
    /\ mPasvExtenNumber = {}
    /\ mBroadcastExtenNumber = {}
    /\ mAlreadyUseExten = {}
    /\ mVideoWidgets = [i \in 1..Windows |-> Free]
    /\ side = MaxSide
    /\ removed = {}

-----------------------------------------------------------------------------
(* The windows.                                                            *)

IsPlaying(w) == w.player = "playing"
IsIdle(w) == ~IsPlaying(w)

\* changeLayout: the windows that play come first, the others follow in reverse.
Sorted(windows) ==
    LET order == InOrder({i \in 1..Windows : IsPlaying(windows[i])})
                     \o Reverse(InOrder({i \in 1..Windows : IsIdle(windows[i])}))
    IN  [i \in 1..Windows |-> windows[order[i]]]

\* The smallest layout for a number of windows.
SideFor(count) ==
    IF count > Windows THEN MaxSide
    ELSE CHOOSE s \in 1..MaxSide : s * s >= count /\ (s - 1) * (s - 1) < count

\* The windows that play before the first that does not.
Occupied(windows) == LET free == {i \in 1..Windows : IsIdle(windows[i])}
                     IN  (CHOOSE i \in free : \A j \in free : i <= j) - 1

\* A window for each camera of each of these extensions, in the order of QMap; a camera of
\* extension e is 2 * e or 2 * e + 1.
Wanted(keys) ==
    LET cameras == InOrder(UNION {{2 * e + c : c \in 0..Urls[e] - 1} : e \in keys})
    IN  [i \in DOMAIN cameras |-> cameras[i] \div 2]

\* open.  The first window is counted before the layout changes and the windows with it.
Open(s, extensions) ==
    LET keys == extensions \cap configured
        occupied == Occupied(s.windows)
        count == Len(Wanted(keys)) + occupied
        wanted == Wanted(keys \ s.already)
        fit == SubSeq(wanted, 1, IF Len(wanted) <= Windows - occupied THEN Len(wanted)
                                 ELSE Windows - occupied)
        windows == IF SideFor(count) = s.side THEN s.windows ELSE Sorted(s.windows)
    IN  IF extensions = {} \/ count = 0 THEN s
        ELSE [side |-> SideFor(count),
              already |-> s.already \cup Range(fit),
              windows |-> [i \in 1..Windows |->
                  IF i - occupied \in DOMAIN fit
                  THEN [key |-> fit[i - occupied], player |-> "opening"] ELSE windows[i]]]

\* close.
Close(s, extensions) ==
    LET hit == \E i \in 1..Windows : s.windows[i].key \in extensions
        windows == [i \in 1..Windows |->
                        IF s.windows[i].key \in extensions THEN Free ELSE s.windows[i]]
    IN  IF extensions = {} \/ s.already = {} THEN s
        ELSE [s EXCEPT !.already = @ \ extensions, !.windows = IF hit THEN Sorted(windows) ELSE @]

\* Opens these and then closes those.  With every window playing, open reads past the list
\* of windows: undefined behaviour, which is left out.
OpenAndClose(opened, closed) ==
    LET s == Close(Open([already |-> mAlreadyUseExten, windows |-> mVideoWidgets, side |-> side],
                        opened), closed)
    IN  /\ opened = {} \/ \E i \in 1..Windows : IsIdle(mVideoWidgets[i])
        /\ mAlreadyUseExten' = s.already
        /\ mVideoWidgets' = s.windows
        /\ side' = s.side

\* The player of a window gets its stream, or loses it or never gets it.
PlayerStarts(i) ==
    /\ mVideoWidgets[i].player = "opening"
    /\ mVideoWidgets' = [mVideoWidgets EXCEPT ![i].player = "playing"]
    /\ UNCHANGED <<opVars, extCalls, linkSignals, configured, videoLists, mAlreadyUseExten, side, removed>>

PlayerStops(i) ==
    /\ mVideoWidgets[i].player # "idle"
    /\ mVideoWidgets' = [mVideoWidgets EXCEPT ![i].player = "idle"]
    /\ UNCHANGED <<opVars, extCalls, linkSignals, configured, videoLists, mAlreadyUseExten, side, removed>>

ChangeLayout(s) ==
    /\ s # side
    /\ side' = s
    /\ mVideoWidgets' = Sorted(mVideoWidgets)
    /\ UNCHANGED <<opVars, extCalls, linkSignals, configured, videoLists, mAlreadyUseExten, removed>>

-----------------------------------------------------------------------------
(* Calls and settings.                                                     *)

\* The operator zone has a signal of its own for the video linkage.  Only the first zone's
\* is connected.
OperatorCall(op, S) ==
    /\ OpCall(op, S)
    /\ linkSignals' = IF renewed \/ op \notin opButtons THEN linkSignals ELSE linkSignals \cup {op}
    /\ UNCHANGED <<extCalls, configured, videoLists, screen, removed>>

ExtensionCall(e, kinds) ==
    /\ Change
    /\ kinds # extCalls[e]
    /\ extCalls' = [extCalls EXCEPT ![e] = kinds]
    /\ linkSignals' = linkSignals \cup {e}
    /\ UNCHANGED <<opCalls, opZone, renewed, configured, videoLists, screen, removed>>

\* SettingsDialog: the button "save" of an entry, and "remove" after a question.
Configure(e) ==
    /\ Change
    /\ \/ e \notin configured /\ configured' = configured \cup {e} /\ UNCHANGED removed
       \/ e \in configured /\ configured' = configured \ {e} /\ removed' = removed \cup {e}
    /\ UNCHANGED <<opCalls, opZone, renewed, extCalls, linkSignals, videoLists, screen>>

\* operatorExtenStateChanged.
OperatorExtenStateChanged(op) ==
    LET called == opCalls[op] \cap configured
    IN  /\ op \in linkSignals
        /\ linkSignals' = linkSignals \ {op}
        /\ mActiveExtenNumber' = [mActiveExtenNumber EXCEPT ![op] = called]
        /\ OpenAndClose(called \ mActiveExtenNumber[op], mActiveExtenNumber[op] \ called)
        /\ UNCHANGED <<opVars, extCalls, configured, mPasvExtenNumber, mBroadcastExtenNumber, removed>>

\* Bug: an extension whose call to the ring group is over is forgotten, but not closed.
ExtenStateChangedForgetting(e) ==
    LET calls == IF e \in configured THEN extCalls[e] ELSE {}
        now(kind, list) == IF kind \in calls THEN list \cup {e} ELSE list \ {e}
        pasv == now("group", mPasvExtenNumber)
        broadcast == now("broadcast", mBroadcastExtenNumber)
    IN  /\ e \in linkSignals
        /\ linkSignals' = linkSignals \ {e}
        /\ mPasvExtenNumber' = pasv
        /\ mBroadcastExtenNumber' = broadcast
        /\ OpenAndClose((pasv \ mPasvExtenNumber) \cup (broadcast \ mBroadcastExtenNumber),
                        mBroadcastExtenNumber \ broadcast)
        /\ UNCHANGED <<opVars, extCalls, configured, mActiveExtenNumber, removed>>

\* extenStateChanged: nothing for an extension without an entry, whatever is open for it.
ExtenStateChanged(e) ==
    LET now(kind, list) == IF e \notin configured THEN list
                           ELSE IF kind \in extCalls[e] THEN list \cup {e} ELSE list \ {e}
        pasv == now("group", mPasvExtenNumber)
        broadcast == now("broadcast", mBroadcastExtenNumber)
    IN  /\ e \in linkSignals
        /\ linkSignals' = linkSignals \ {e}
        /\ mPasvExtenNumber' = pasv
        /\ mBroadcastExtenNumber' = broadcast
        /\ OpenAndClose((pasv \ mPasvExtenNumber) \cup (broadcast \ mBroadcastExtenNumber),
                        (mPasvExtenNumber \ pasv) \cup (mBroadcastExtenNumber \ broadcast))
        /\ UNCHANGED <<opVars, extCalls, configured, mActiveExtenNumber, removed>>

-----------------------------------------------------------------------------

\* The zone is built anew; clicks on its buttons do not reach the video linkage.
ZoneRenewed == RefreshOperatorsZone /\ UNCHANGED videoVars

LinkNext ==
    \/ ZoneRenewed
    \/ \E op \in Ops : \/ \E S \in SUBSET Exts : OperatorCall(op, S)
                       \/ OperatorExtenStateChanged(op)
    \/ \E e \in Exts : \/ \E kinds \in SUBSET Kinds : ExtensionCall(e, kinds)
                       \/ Configure(e)
                       \/ ExtenStateChanged(e)
    \/ \E i \in 1..Windows : PlayerStarts(i) \/ PlayerStops(i)
    \/ \E s \in 1..MaxSide : ChangeLayout(s)

LinkSpec == VideoInit /\ [][LinkNext]_linkVars

-----------------------------------------------------------------------------
(* Properties.                                                             *)

\* A video window does not outlive the calls it was opened for: once the signals are
\* taken, a labelled window belongs to an extension in a call, however calls of several
\* kinds overlapped and windows were re-ordered (videolinkagewidget.cpp:167-241, 245-349).
\* Not so for an extension taken out of the settings meanwhile, or when the operator zone
\* the linkage is connected to is gone.
NoGhostVideo == linkSignals = {} /\ ~renewed => \A i \in 1..Windows :
    LET e == mVideoWidgets[i].key
    IN  e # 0 /\ e \notin removed => extCalls[e] # {} \/ \E op \in Ops : e \in opCalls[op]
=============================================================================
