---------------------------- MODULE OperatorZone ----------------------------
(***************************************************************************)
(* The operators' buttons and the three-way call (OperatorZone.cpp,        *)
(* MainWidget::refreshOperatorsZone, FastFuncZone::onBtn3WayClicked).  The *)
(* monitor thread posts a signal to an operator's button when a refresh of *)
(* the operator is stored; the GUI thread then reads the cache and acts as *)
(* if the button had been clicked.  On return from the settings the zone   *)
(* is deleted and built anew.                                              *)
(***************************************************************************)
EXTENDS Integers, FiniteSets

CONSTANTS
    Ops,       \* the operators
    Exts,      \* the extensions an operator may call
    MaxChanges \* bound: calls that begin or end, and visits to the settings

ASSUME OpAssumption == IsFiniteSet(Ops) /\ MaxChanges \in Nat

VARIABLES
    opCalls,   \* the extensions each operator is in a call with, as cached
    opButtons, \* mOpExtens: the operators with a button
    opShown,   \* the operators whose button shows a call
    opToggled, \* the operators whose button is toggled
    opSignals, \* the operators with a signal posted to their button
    enabled3,  \* whether the three-way button is enabled
    asking3,   \* the operator whose channels were read for the dial pad on show, or "none"
    changes,   \* changes so far (bounded)
    renewed,   \* whether the zone is no longer the first one, that the video linkage listens to
    outdated   \* whether it has been since enabled3 was last set (history)

opZone == <<opButtons, opShown, opToggled, opSignals, enabled3, asking3, outdated>>
opVars == <<opCalls, opZone, changes, renewed>>

InCall == {op \in Ops : opCalls[op] # {}}

OpTypeOK ==
    /\ opCalls \in [Ops -> SUBSET Exts]
    /\ opButtons \subseteq Ops
    /\ opShown \subseteq opButtons
    /\ opToggled \subseteq opButtons
    /\ opSignals \subseteq opButtons
    /\ enabled3 \in BOOLEAN
    /\ asking3 \in Ops \cup {"none"}
    /\ changes \in 0..MaxChanges
    /\ renewed \in BOOLEAN
    /\ outdated \in BOOLEAN

OpInit ==
    /\ opCalls = [op \in Ops |-> {}]
    /\ opButtons = Ops
    /\ opShown = {}
    /\ opToggled = {}
    /\ opSignals = {}
    /\ enabled3 = FALSE
    /\ asking3 = "none"
    /\ changes = 0
    /\ renewed = FALSE
    /\ outdated = FALSE

\* A change within the bound.
Change == changes < MaxChanges /\ changes' = changes + 1

\* The cache has a new state of op, and eventMessageReceived signals it.
OpCall(op, S) ==
    /\ Change
    /\ S # opCalls[op]
    /\ opCalls' = [opCalls EXCEPT ![op] = S]
    /\ opSignals' = opSignals \cup ({op} \cap opButtons)
    /\ UNCHANGED <<opButtons, opShown, opToggled, enabled3, asking3, renewed, outdated>>

\* Bug: a button that is not toggled, or not in a call, leaves the three-way button alone.
OpExtenClickedOneSided(op, inCall, on) ==
    /\ outdated' = FALSE
    /\ IF op \in on /\ op \in inCall
       THEN enabled3' = TRUE /\ opToggled' = {op}
       ELSE enabled3' = enabled3 /\ opToggled' = on \ {op}

\* opExtenClicked, for buttons that show inCall and are toggled as in on.
OpExtenClicked(op, inCall, on) ==
    /\ outdated' = FALSE
    /\ IF op \in on /\ op \in inCall
       THEN enabled3' = TRUE /\ opToggled' = {op}
       ELSE enabled3' = FALSE /\ opToggled' = on \ {op}

\* OperatorExten::stateChangedSlot.  While a refresh has the operator out of the cache the
\* slot does nothing, and the signal of that refresh follows.
TakeOpSignal(op) ==
    /\ op \in opSignals
    /\ opSignals' = opSignals \ {op}
    /\ opShown' = (opShown \ {op}) \cup ({op} \cap InCall)
    /\ OpExtenClicked(op, opShown', opToggled)
    /\ UNCHANGED <<opCalls, opButtons, asking3, changes, renewed>>

\* A click toggles the button and then calls opExtenClicked.
ClickOp(op) ==
    /\ asking3 = "none"
    /\ op \in opButtons
    /\ OpExtenClicked(op, opShown, IF op \in opToggled THEN opToggled \ {op}
                                   ELSE opToggled \cup {op})
    /\ UNCHANGED <<opCalls, opButtons, opShown, opSignals, asking3, changes, renewed>>

\* onBtn3WayClicked up to the dial pad: the channels are those in the cache.
Click3Way ==
    /\ asking3 = "none"
    /\ enabled3
    /\ opToggled # {}
    /\ asking3' \in opToggled \cap InCall
    /\ UNCHANGED <<opCalls, opButtons, opShown, opToggled, opSignals, enabled3, changes, renewed,
                   outdated>>

\* The dial pad is closed; with a number the call is moved into a conference of three, by
\* the channels read before.
Dial3Way ==
    /\ asking3 # "none"
    /\ asking3' = "none"
    /\ UNCHANGED <<opCalls, opButtons, opShown, opToggled, opSignals, enabled3, changes, renewed,
                   outdated>>

\* MainWidget::onResume after the settings, which may have changed the operators; a reply
\* that is lost leaves operators out.  Nothing sets the three-way button.
RefreshOperatorsZone ==
    /\ Change
    /\ asking3 = "none"
    /\ opButtons' \in SUBSET Ops
    /\ opShown' = opButtons' \cap InCall
    /\ opToggled' = {}
    /\ opSignals' = {}
    /\ renewed' = TRUE
    /\ outdated' = TRUE
    /\ UNCHANGED <<opCalls, enabled3, asking3>>

-----------------------------------------------------------------------------

OpNext ==
    \/ \E op \in Ops : \/ \E S \in SUBSET Exts : OpCall(op, S)
                       \/ TakeOpSignal(op)
                       \/ ClickOp(op)
    \/ Click3Way \/ Dial3Way
    \/ RefreshOperatorsZone

OpSpec == OpInit /\ [][OpNext]_opVars

-----------------------------------------------------------------------------
(* Properties.                                                             *)

\* The three-way button is enabled only with exactly one operator toggled, in a call or
\* with the end of the call still posted: the signals of one operator, the clicks on
\* another and the end of a call all go through opExtenClicked (OperatorZone.cpp:80-95).
\* A zone built anew forgets the toggled button, but not the three-way button.
ThreeWayHonest == enabled3 /\ ~outdated =>
    \E op \in Ops : opToggled = {op} /\ (op \in InCall \/ op \in opSignals)
=============================================================================
