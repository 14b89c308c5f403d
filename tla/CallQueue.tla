------------------------------ MODULE CallQueue ------------------------------
(***************************************************************************)
(* Who waits for an operator (ui/mainwidget/QueueZone.cpp), and the        *)
(* announcement of emergency calls (MainWindow::eventMessageReceived,      *)
(* ui/dialogs/dlgemergencycall.cpp).  Both hear the same events in the     *)
(* monitor thread.  The zone asked for the number of the queue when it was *)
(* built; the main window asks for it each time, then for the operators,   *)
(* then for each operator.                                                 *)
(***************************************************************************)
EXTENDS Orders, SequencesExt, CallEndings

CONSTANTS
    Callers,        \* channels that may join the queue, each once
    Emergency,      \* those with the emergency number for a caller id
    OwnChannels,    \* those of the operators themselves
    MaxQueueLosses  \* bound: calls that do not get their own reply

ASSUME QueueAssumption ==
    /\ Emergency \subseteq Callers
    /\ OwnChannels \subseteq Callers
    /\ "none" \notin Callers
    /\ MaxQueueLosses \in Nat

VARIABLES
    waiting,        \* the callers in the queue, in the order they came
    queueEvents,    \* events of the adapter that the monitor thread has not handled
    zone,           \* the queue zone: "none", "built" or, when it does not know its queue, "blind"
    windowHears,    \* whether the callback of the main window is registered
    queueSignals,   \* signals posted to the zone
    mQueueListModel,\* the rows, top first
    deciding,       \* the caller the main window decides about, or "none"
    asking,         \* what it asks for: "queue", "operators" or "details"
    extList,        \* the operators it has still to ask for
    operatorsMap,   \* the extensions it takes for operators
    dialogSignals,  \* announcements posted
    m_verInfo,      \* the emergency calls in the dialog
    dialogShown,    \* whether the dialog is visible
    boxOpen,        \* whether the dialog is being closed and shows its message box
    queueLosses,    \* calls without their own reply so far (bounded)
    before,         \* callers that joined before the zone could hear it (history)
    unannounced,    \* emergency calls that joined before the window could hear it (history)
    misled,         \* those decided about without a reply that was its own (history)
    handled,        \* emergency calls whose button was clicked (history)
    closed          \* whether the dialog was closed since the last announcement (history)

queueHistory == <<before, unannounced, misled, handled, closed>>
queueList == <<queueSignals, mQueueListModel>>
decision == <<deciding, asking, extList, operatorsMap>>
emergencyDialog == <<dialogSignals, m_verInfo, dialogShown, boxOpen>>
queueVars == <<waiting, queueEvents, zone, windowHears, queueList, decision, emergencyDialog,
               queueLosses, queueHistory>>

QueueEvent == [event : {"join", "leave"}, caller : Callers]
Calls(signals) == {signals[i].caller : i \in DOMAIN signals}

QueueTypeOK ==
    /\ IsInjective(waiting) /\ Range(waiting) \subseteq Callers
    /\ \A i \in DOMAIN queueEvents : queueEvents[i] \in QueueEvent
    /\ zone \in {"none", "built", "blind"}
    /\ windowHears \in BOOLEAN
    /\ \A i \in DOMAIN queueSignals : queueSignals[i] \in QueueEvent
    /\ IsInjective(mQueueListModel) /\ Range(mQueueListModel) \subseteq Callers
    /\ deciding \in Callers \cup {"none"}
    /\ asking \in {"queue", "operators", "details"}
    /\ extList \cup operatorsMap \subseteq Callers
    /\ Range(dialogSignals) \subseteq Callers
    /\ Range(m_verInfo) \subseteq Callers
    /\ dialogShown \in BOOLEAN
    /\ boxOpen \in BOOLEAN
    /\ queueLosses \in 0..MaxQueueLosses
    /\ before \cup unannounced \cup misled \cup handled \subseteq Callers
    /\ closed \in BOOLEAN

QueueInit ==
    /\ waiting = <<>>
    /\ queueEvents = <<>>
    /\ zone = "none"
    /\ windowHears = FALSE
    /\ queueSignals = <<>>
    /\ mQueueListModel = <<>>
    /\ deciding = "none"
    /\ asking = "queue"
    /\ extList = {}
    /\ operatorsMap = {}
    /\ dialogSignals = <<>>
    /\ m_verInfo = <<>>
    /\ dialogShown = FALSE
    /\ boxOpen = FALSE
    /\ queueLosses = 0
    /\ before = {}
    /\ unannounced = {}
    /\ misled = {}
    /\ handled = {}
    /\ closed = FALSE

-----------------------------------------------------------------------------
(* The adapter and the monitor thread.                                     *)

Known == Range(waiting) \cup Range(mQueueListModel) \cup Calls(queueEvents) \cup Calls(queueSignals)
             \cup Range(dialogSignals) \cup Range(m_verInfo)
             \cup before \cup unannounced \cup misled \cup handled \cup {deciding}

Joins(c) ==
    /\ c \notin Known
    /\ waiting' = Append(waiting, c)
    /\ queueEvents' = Append(queueEvents, [event |-> "join", caller |-> c])
    /\ UNCHANGED <<zone, windowHears, queueList, decision, emergencyDialog, queueLosses,
                   queueHistory>>

\* An operator answers, or the caller gives up.
Leaves(c) ==
    /\ c \in Range(waiting)
    /\ waiting' = RemoveFirst(waiting, c)
    /\ queueEvents' = Append(queueEvents, [event |-> "leave", caller |-> c])
    /\ UNCHANGED <<zone, windowHears, queueList, decision, emergencyDialog, queueLosses,
                   queueHistory>>

\* A call of this part ends one way or the other.
QueueCallEnds(end) ==
    IF end = "own" THEN UNCHANGED queueLosses
    ELSE queueLosses < MaxQueueLosses /\ queueLosses' = queueLosses + 1

\* Whether getOperatorQueueNumber brings the number of the queue: an abandoned reply may be
\* an older answer to the same question, or another text.
KnowsQueue(end) == IF end = "own" THEN {TRUE} ELSE IF end = "none" THEN {FALSE} ELSE BOOLEAN

\* QueueZone's constructor: without the number of its queue the zone passes all events over.
BuildQueueZone(end) ==
    /\ zone = "none"
    /\ QueueCallEnds(end)
    /\ \E knows \in KnowsQueue(end) : zone' = IF knows THEN "built" ELSE "blind"
    /\ UNCHANGED <<waiting, queueEvents, windowHears, queueList, decision, emergencyDialog,
                   queueHistory>>

\* MainWindow.cpp:189, when its activities are built.
RegisterWindow ==
    /\ zone # "none"
    /\ windowHears' = TRUE
    /\ UNCHANGED <<waiting, queueEvents, zone, queueList, decision, emergencyDialog, queueLosses,
                   queueHistory>>

\* The callbacks of the zone and of the main window.  The window goes on to ask about an
\* emergency call that joins.
MonitorHears ==
    /\ queueEvents # <<>>
    /\ deciding = "none"
    /\ queueEvents' = Tail(queueEvents)
    /\ LET e == Head(queueEvents)
       IN  /\ queueSignals' = IF zone = "built" THEN Append(queueSignals, e) ELSE queueSignals
           /\ deciding' = IF e.event = "join" /\ e.caller \in Emergency /\ windowHears
                          THEN e.caller ELSE "none"
           /\ before' = IF e.event = "join" /\ zone # "built" THEN before \cup {e.caller}
                        ELSE before
           /\ unannounced' = IF e.event = "join" /\ ~windowHears THEN unannounced \cup {e.caller}
                             ELSE unannounced
    /\ UNCHANGED <<waiting, zone, windowHears, mQueueListModel, asking, extList, operatorsMap,
                   emergencyDialog, queueLosses, misled, handled, closed>>

\* A call on behalf of the decision ends.
DecisionCallEnds(end) ==
    /\ QueueCallEnds(end)
    /\ misled' = IF end = "own" THEN misled ELSE misled \cup {deciding}
    /\ UNCHANGED <<waiting, queueEvents, zone, windowHears, queueList, emergencyDialog,
                   before, unannounced, handled, closed>>

\* getOperatorQueueNumber: without the number the call passes for one of another queue.
AskQueue(end) ==
    /\ deciding # "none" /\ asking = "queue"
    /\ DecisionCallEnds(end)
    /\ \E knows \in KnowsQueue(end) :
          IF knows THEN asking' = "operators" /\ UNCHANGED deciding
          ELSE deciding' = "none" /\ UNCHANGED asking
    /\ UNCHANGED <<extList, operatorsMap>>

\* The operators in the reply to getOperators.  An abandoned one may be an older list.
Extens(end) == IF end = "own" THEN {OwnChannels} ELSE IF end = "none" THEN {{}} ELSE SUBSET Callers

AskOperators(end) ==
    /\ deciding # "none" /\ asking = "operators"
    /\ DecisionCallEnds(end)
    /\ extList' \in Extens(end)
    /\ asking' = "details"
    /\ UNCHANGED <<deciding, operatorsMap>>

\* The extensions in the reply to getExtensionDetailed, whichever was asked for.
Detailed(end, c) == IF end = "own" THEN {{c}} ELSE IF end = "none" THEN {{}} ELSE SUBSET Callers

AskDetail(end) ==
    /\ deciding # "none" /\ asking = "details"
    /\ DecisionCallEnds(end)
    /\ \E c \in extList :
          /\ extList' = extList \ {c}
          /\ \E found \in Detailed(end, c) : operatorsMap' = operatorsMap \cup found
    /\ UNCHANGED <<deciding, asking>>

\* A call from the channel of an operator is not announced.
Announce ==
    /\ deciding # "none" /\ asking = "details"
    /\ extList = {}
    /\ dialogSignals' = IF deciding \in operatorsMap THEN dialogSignals
                        ELSE Append(dialogSignals, deciding)
    /\ deciding' = "none"
    /\ asking' = "queue"
    /\ operatorsMap' = {}
    /\ UNCHANGED <<waiting, queueEvents, zone, windowHears, queueList, extList, m_verInfo,
                   dialogShown, boxOpen, queueLosses, queueHistory>>

-----------------------------------------------------------------------------
(* The GUI thread.                                                         *)

\* Bug: the oldest row is taken off, whoever it was that left.
QueueEventLast(rows, e) ==
    IF e.event = "join" THEN <<e.caller>> \o rows
    ELSE SubSeq(rows, 1, Len(rows) - 1)

\* Bug: a join is shown twice.
QueueEventTwice(rows, e) ==
    IF e.event = "join" THEN <<e.caller, e.caller>> \o rows
    ELSE RemoveFirst(rows, e.caller)

\* queueEventSlot: a new row comes on top, and the first row of the channel goes.
QueueEventSlot(rows, e) ==
    IF e.event = "join" THEN <<e.caller>> \o rows
    ELSE RemoveFirst(rows, e.caller)

TakeQueueSignal ==
    /\ queueSignals # <<>>
    /\ queueSignals' = Tail(queueSignals)
    /\ mQueueListModel' = QueueEventSlot(mQueueListModel, Head(queueSignals))
    /\ UNCHANGED <<waiting, queueEvents, zone, windowHears, decision, emergencyDialog, queueLosses,
                   queueHistory>>

\* onEmergencyCallDlgSlot, AddEmergencyCallInfo and PushButton.
AddEmergencyCallInfo ==
    /\ dialogSignals # <<>>
    /\ dialogSignals' = Tail(dialogSignals)
    /\ m_verInfo' = Append(m_verInfo, Head(dialogSignals))
    /\ dialogShown' = TRUE
    /\ closed' = FALSE
    /\ UNCHANGED <<waiting, queueEvents, zone, windowHears, queueList, decision, boxOpen,
                   queueLosses, before, unannounced, misled, handled>>

\* OnClick and DelButton: the dialog goes with its last button.
ClickEmergency(c) ==
    /\ dialogShown /\ ~boxOpen
    /\ c \in Range(m_verInfo)
    /\ m_verInfo' = RemoveFirst(m_verInfo, c)
    /\ dialogShown' = (m_verInfo' # <<>>)
    /\ handled' = handled \cup {c}
    /\ UNCHANGED <<waiting, queueEvents, zone, windowHears, queueList, decision, dialogSignals,
                   boxOpen, queueLosses, before, unannounced, misled, closed>>

\* closeEvent: a message box, whose event loop goes on taking signals but lets nobody click
\* in the dialog.
CloseEmergency ==
    /\ dialogShown /\ ~boxOpen
    /\ boxOpen' = TRUE
    /\ UNCHANGED <<waiting, queueEvents, zone, windowHears, queueList, decision, dialogSignals,
                   m_verInfo, dialogShown, queueLosses, queueHistory>>

\* The dialog goes; its buttons stay in it, those that came while the box was open too.
Hides ==
    /\ dialogShown' = FALSE
    /\ closed' = TRUE
    /\ UNCHANGED <<waiting, queueEvents, zone, windowHears, queueList, decision, dialogSignals,
                   m_verInfo, queueLosses, before, unannounced, misled, handled>>

\* The box is answered, and the dialog closes all the same.
BoxAnswered == boxOpen /\ boxOpen' = FALSE /\ Hides

\* QDialog::reject, on the escape key: no closeEvent.
RejectEmergency == dialogShown /\ ~boxOpen /\ UNCHANGED boxOpen /\ Hides

-----------------------------------------------------------------------------

QueueNext ==
    \/ \E c \in Callers : Joins(c) \/ Leaves(c) \/ ClickEmergency(c)
    \/ \E end \in Endings :
          BuildQueueZone(end) \/ AskQueue(end) \/ AskOperators(end) \/ AskDetail(end)
    \/ RegisterWindow
    \/ MonitorHears \/ Announce
    \/ TakeQueueSignal \/ AddEmergencyCallInfo
    \/ CloseEmergency \/ BoxAnswered \/ RejectEmergency

QueueSpec == QueueInit /\ [][QueueNext]_queueVars

-----------------------------------------------------------------------------
(* Properties.                                                             *)

\* Once the events are handled and the signals taken, the list shows exactly those who
\* wait, the last to come on top; every emergency call has a button in a dialog that is
\* visible, and an operator's own call has none (QueueZone.cpp:16-53, MainWindow.cpp:40-66,
\* dlgemergencycall.cpp:21-105).  Not so for what came before the zone was built or knew its
\* queue and before the window could hear, for a call decided about without a reply that was
\* its own - but that one only, whatever happens to it -, for what the user has clicked, and
\* for a dialog that was closed since: that hides also what came while its box was open.
CallsShown ==
    queueEvents = <<>> /\ queueSignals = <<>> /\ dialogSignals = <<>> /\ deciding = "none" =>
        /\ Range(mQueueListModel) = Range(waiting) \ before
        /\ \A c, d \in Range(mQueueListModel) :
               Precedes(mQueueListModel, c, d) <=> Precedes(waiting, d, c)
        /\ \A c \in (Range(waiting) \cap Emergency)
                      \ (OwnChannels \cup unannounced \cup misled \cup handled) :
               c \in Range(m_verInfo) /\ (dialogShown \/ closed)
        /\ \A c \in OwnChannels \ misled : c \notin Range(m_verInfo)
=============================================================================
