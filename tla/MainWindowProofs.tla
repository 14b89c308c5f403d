--------------------------- MODULE MainWindowProofs ---------------------------
(***************************************************************************)
(* Proofs about the parts of the main window, for any extensions, groups,  *)
(* operators, windows, plans, dates and records.                           *)
(*                                                                         *)
(* ThreeWayHonest: what a button shows may be old, but then the signal     *)
(* that will change it is posted.                                          *)
(*                                                                         *)
(* SelectionMirrors, PagerRight: inductive with the types and the fact     *)
(* that the buttons are sequences.                                         *)
(*                                                                         *)
(* NoGhostVideo: a label is of an extension that has been opened, one that *)
(* has been opened is in a list, and an entry of a list is a call or the   *)
(* signal of its end is posted.                                            *)
(*                                                                         *)
(* OnRecord: a plan not saved yet has an id of its own to come, and every  *)
(* way out of the editor saves or has nothing to save.                     *)
(*                                                                         *)
(* MovesOneStep: at most one row is ticked, and the loop of a move does    *)
(* not meet it again.                                                      *)
(*                                                                         *)
(* TaskRunsAsChosen: what runs once has one day at most, and the date that *)
(* is computed in pieces is the date that many days ahead.                 *)
(*                                                                         *)
(* ReachesLastTicked: where one callee is to be chosen, the numbers ticked *)
(* are those of one row.                                                   *)
(*                                                                         *)
(* MainTypeOK: the invariants of the parts, and the types of the layout    *)
(* and of the calls, which these leave open.                               *)
(***************************************************************************)
EXTENDS MCMainWindow, SequenceLemmas

-----------------------------------------------------------------------------
(* The operators' buttons and the three-way call.                          *)

\* A button shows a call that goes on, or the end of the call is still posted.
ShownInv == \A op \in opShown : op \in InCall \/ op \in opSignals

OpInv == OpTypeOK /\ ShownInv /\ ThreeWayHonest

LEMMA OpInitially == OpInit => OpInv
<1> SUFFICES ASSUME OpInit PROVE OpInv
  OBVIOUS
<1>1. OpTypeOK
  <2>1. changes \in 0..MaxChanges
    BY OpAssumption DEF OpAssumption, OpInit
  <2> QED BY <2>1 DEF OpInit, OpTypeOK
<1>2. ShownInv /\ ThreeWayHonest
  BY DEF OpInit, ShownInv, ThreeWayHonest
<1> QED BY <1>1, <1>2 DEF OpInv

\* A call that begins or ends leaves the other operators as they were.
LEMMA InCallOthers ==
    ASSUME OpTypeOK, NEW op \in Ops, NEW S \in SUBSET Exts, OpCall(op, S)
    PROVE  \A other \in Ops \ {op} : other \in InCall' <=> other \in InCall
BY DEF OpTypeOK, OpCall, InCall

\* The toggled buttons after opExtenClicked are among those before.
LEMMA Toggles ==
    ASSUME NEW op, NEW inCall, NEW on, OpExtenClicked(op, inCall, on)
    PROVE  opToggled' \subseteq on /\ enabled3' \in BOOLEAN /\ outdated' \in BOOLEAN
<1>1. CASE op \in on /\ op \in inCall
  BY <1>1 DEF OpExtenClicked
<1>2. CASE ~(op \in on /\ op \in inCall)
  BY <1>2 DEF OpExtenClicked
<1> QED BY <1>1, <1>2

LEMMA OpTypeStep == OpTypeOK /\ [OpNext]_opVars => OpTypeOK'
<1> SUFFICES ASSUME OpTypeOK, [OpNext]_opVars PROVE OpTypeOK'
  OBVIOUS
<1> USE OpAssumption DEF OpAssumption, OpTypeOK, Change, InCall
<1>1. ASSUME NEW op \in Ops, NEW S \in SUBSET Exts, OpCall(op, S) PROVE OpTypeOK'
  BY <1>1 DEF OpCall
<1>2. ASSUME NEW op \in Ops, TakeOpSignal(op) PROVE OpTypeOK'
  <2>1. opShown' \subseteq opButtons' /\ opSignals' \subseteq opButtons'
    BY <1>2 DEF TakeOpSignal
  <2>2. opToggled' \subseteq opButtons' /\ enabled3' \in BOOLEAN /\ outdated' \in BOOLEAN
    BY <1>2, Toggles DEF TakeOpSignal
  <2> QED BY <1>2, <2>1, <2>2 DEF TakeOpSignal
<1>3. ASSUME NEW op \in Ops, ClickOp(op) PROVE OpTypeOK'
  BY <1>3 DEF ClickOp, OpExtenClicked
<1>4. CASE Click3Way
  BY <1>4 DEF Click3Way
<1>5. CASE Dial3Way
  BY <1>5 DEF Dial3Way
<1>6. CASE RefreshOperatorsZone
  BY <1>6 DEF RefreshOperatorsZone
<1>7. CASE UNCHANGED opVars
  BY <1>7 DEF opVars, opZone
<1> QED BY <1>1, <1>2, <1>3, <1>4, <1>5, <1>6, <1>7 DEF OpNext

LEMMA ShownStep == OpInv /\ [OpNext]_opVars => ShownInv'
<1> SUFFICES ASSUME OpTypeOK, ShownInv, [OpNext]_opVars PROVE ShownInv'
  BY DEF OpInv
<1>1. ASSUME NEW op \in Ops, NEW S \in SUBSET Exts, OpCall(op, S) PROVE ShownInv'
  BY <1>1, InCallOthers DEF OpCall, ShownInv, OpTypeOK
<1>2. ASSUME NEW op \in Ops, TakeOpSignal(op) PROVE ShownInv'
  BY <1>2 DEF TakeOpSignal, ShownInv, InCall
<1>3. ASSUME NEW op \in Ops, ClickOp(op) PROVE ShownInv'
  BY <1>3 DEF ClickOp, ShownInv, InCall
<1>4. CASE Click3Way
  BY <1>4 DEF Click3Way, ShownInv, InCall
<1>5. CASE Dial3Way
  BY <1>5 DEF Dial3Way, ShownInv, InCall
<1>6. CASE RefreshOperatorsZone
  BY <1>6 DEF RefreshOperatorsZone, ShownInv, InCall
<1>7. CASE UNCHANGED opVars
  BY <1>7 DEF opVars, opZone, ShownInv, InCall
<1> QED BY <1>1, <1>2, <1>3, <1>4, <1>5, <1>6, <1>7 DEF OpNext

LEMMA HonestStep == OpInv /\ [OpNext]_opVars => ThreeWayHonest'
<1> SUFFICES ASSUME OpTypeOK, ShownInv, ThreeWayHonest, [OpNext]_opVars PROVE ThreeWayHonest'
  BY DEF OpInv
<1>1. ASSUME NEW op \in Ops, NEW S \in SUBSET Exts, OpCall(op, S) PROVE ThreeWayHonest'
  BY <1>1, InCallOthers DEF OpCall, ThreeWayHonest, OpTypeOK
<1>2. ASSUME NEW op \in Ops, TakeOpSignal(op) PROVE ThreeWayHonest'
  \* the button that was toggled last shows what is in the cache
  BY <1>2 DEF TakeOpSignal, OpExtenClicked, ThreeWayHonest, InCall
<1>3. ASSUME NEW op \in Ops, ClickOp(op) PROVE ThreeWayHonest'
  BY <1>3 DEF ClickOp, OpExtenClicked, ThreeWayHonest, ShownInv, InCall
<1>4. CASE Click3Way
  BY <1>4 DEF Click3Way, ThreeWayHonest, InCall
<1>5. CASE Dial3Way
  BY <1>5 DEF Dial3Way, ThreeWayHonest, InCall
<1>6. CASE RefreshOperatorsZone
  BY <1>6 DEF RefreshOperatorsZone, ThreeWayHonest
<1>7. CASE UNCHANGED opVars
  BY <1>7 DEF opVars, opZone, ThreeWayHonest, InCall
<1> QED BY <1>1, <1>2, <1>3, <1>4, <1>5, <1>6, <1>7 DEF OpNext

\* The extensions' calls and the settings leave the operators' zone alone.
LEMMA ZoneUntouched ==
    ASSUME OpInv, Change, UNCHANGED <<opCalls, opZone, renewed>>
    PROVE  OpInv'
<1>1. changes' \in 0..MaxChanges
  BY OpAssumption DEF OpInv, OpTypeOK, Change
<1> QED
  BY <1>1 DEF OpInv, OpTypeOK, ShownInv, ThreeWayHonest, InCall, opZone

\* A step of the main window is one of the zone, or leaves it alone.
LEMMA OpStep == OpInv /\ [MainNext]_mainVars => OpInv'
<1> SUFFICES ASSUME OpInv, [MainNext]_mainVars PROVE OpInv'
  OBVIOUS
<1>1. CASE [OpNext]_opVars
  BY <1>1, OpTypeStep, ShownStep, HonestStep DEF OpInv
<1>2. CASE LinkNext
  <2>1. CASE ZoneRenewed
    BY <1>1, <2>1 DEF ZoneRenewed, OpNext
  <2>2. ASSUME NEW op \in Ops, NEW S \in SUBSET Exts, OperatorCall(op, S) PROVE OpInv'
    BY <1>1, <2>2 DEF OperatorCall, OpNext
  <2>3. ASSUME NEW e \in Exts,
               (\E kinds \in SUBSET Kinds : ExtensionCall(e, kinds)) \/ Configure(e)
        PROVE  OpInv'
    BY <2>3, ZoneUntouched DEF ExtensionCall, Configure
  <2>4. CASE UNCHANGED opVars
    BY <1>1, <2>4
  <2>5. ASSUME NEW op \in Ops, OperatorExtenStateChanged(op) PROVE UNCHANGED opVars
    BY <2>5 DEF OperatorExtenStateChanged
  <2>6. ASSUME NEW e \in Exts, ExtenStateChanged(e) PROVE UNCHANGED opVars
    BY <2>6 DEF ExtenStateChanged
  <2>7. ASSUME NEW i \in 1..Windows, PlayerStarts(i) \/ PlayerStops(i) PROVE UNCHANGED opVars
    BY <2>7 DEF PlayerStarts, PlayerStops
  <2>8. ASSUME NEW s, ChangeLayout(s) PROVE UNCHANGED opVars
    BY <2>8 DEF ChangeLayout
  <2> QED BY <1>2, <2>1, <2>2, <2>3, <2>4, <2>5, <2>6, <2>7, <2>8 DEF LinkNext
<1> QED BY <1>1, <1>2 DEF MainNext, mainVars, linkVars

\* The three-way button is enabled only for one toggled operator who is in a call, or
\* whose signal of the end of that call is posted (OperatorZone.cpp:80-95), from the last
\* click or signal on until the zone is built anew.
THEOREM ThreeWayIsHonest == MainSpec => []ThreeWayHonest
<1>1. MainInit => OpInv
  BY OpInitially DEF MainInit, VideoInit
<1>2. OpInv => ThreeWayHonest
  BY DEF OpInv
<1> QED BY <1>1, <1>2, OpStep, PTL DEF MainSpec

-----------------------------------------------------------------------------
(* Choosing extensions.                                                    *)

\* The buttons are sequences.
PanelSequences == items \in Seq(Extens) /\ pages \in Seq(Extens)

\* The inductive invariant.
SelInv == SelTypeOK /\ PanelSequences /\ SelectionMirrors /\ PagerRight

\* A panel in the order of QMap.
LEMMA PanelInOrder ==
    ASSUME NEW S \in SUBSET Extens
    PROVE  InOrder(S) \in Seq(Extens) /\ Range(InOrder(S)) = S /\ IsInjective(InOrder(S))
<1>1. S \in SUBSET Int /\ IsFiniteSet(S)
  BY SelAssumption, FS_Subset
<1>2. InOrder(S) \in Seq(S) /\ Range(InOrder(S)) = S /\ IsInjective(InOrder(S))
  BY <1>1, InOrderIs
<1> QED BY <1>2

\* There is a whole number of pages.
LEMMA PageCountInt == \A n \in Nat, perPage \in PageSizes : PageCount(n, perPage) \in Int
BY SelAssumption DEF PageCount

\* What switchPage makes of the pager.
LEMMA Switched ==
    ASSUME NEW p \in Nat, NEW count \in Int, NEW perPage \in PageSizes
    PROVE  LET to == SwitchPage(p, count, perPage)
           IN  /\ to \in [page : Nat, next : BOOLEAN, prev : BOOLEAN, perPage : PageSizes]
               /\ to.perPage = perPage
               /\ to.page = 0 \/ to.page < count
               /\ to.next <=> to.page < count - 1
               /\ to.prev <=> to.page > 0
<1> DEFINE q == IF p >= count - 1 THEN count - 1 ELSE p
           page == IF q <= 0 THEN 0 ELSE q
           to == SwitchPage(p, count, perPage)
<1>1. q \in Int /\ page \in Nat
  OBVIOUS
<1>2. /\ page = 0 \/ page < count
      /\ p < count - 1 <=> page < count - 1
      /\ q > 0 <=> page > 0
  OBVIOUS
<1>3. to = [page |-> page, next |-> p < count - 1, prev |-> q > 0, perPage |-> perPage]
  BY DEF SwitchPage
<1>4. (p < count - 1) \in BOOLEAN /\ (q > 0) \in BOOLEAN
  OBVIOUS
<1> HIDE DEF q, page, to
<1>5. /\ to.page = page /\ to.perPage = perPage
      /\ to.next = (p < count - 1) /\ to.prev = (q > 0)
  BY <1>3
<1>6. to \in [page : Nat, next : BOOLEAN, prev : BOOLEAN, perPage : PageSizes]
  BY <1>1, <1>3, <1>4
<1> QED BY <1>2, <1>5, <1>6 DEF to

\* The pager is right for the pages it has, and they are the items that there are.
LEMMA Refreshed ==
    ASSUME NEW its \in Seq(Extens), NEW perPage \in PageSizes, pager.page \in Nat,
           Refresh(its, perPage), items' = its
    PROVE  /\ pages' \in Seq(Extens) /\ dangling' = FALSE
           /\ pager' \in [page : Nat, next : BOOLEAN, prev : BOOLEAN, perPage : PageSizes]
           /\ PagerRight'
<1> DEFINE count == PageCount(Len(its), perPage)
<1>1. count \in Int
  BY PageCountInt
<1>2. /\ pages' = its /\ dangling' = FALSE
      /\ pager' = SwitchPage(pager.page, count, perPage)
  BY DEF Refresh
<1>3. count = PageCount(Len(its), perPage)
  OBVIOUS
<1> HIDE DEF count
<1>4. /\ pager' \in [page : Nat, next : BOOLEAN, prev : BOOLEAN, perPage : PageSizes]
      /\ pager'.perPage = perPage
      /\ pager'.page = 0 \/ pager'.page < count
      /\ pager'.next <=> pager'.page < count - 1
      /\ pager'.prev <=> pager'.page > 0
  BY <1>1, <1>2, Switched
<1>5. PageCount(Len(pages'), pager'.perPage) = count
  BY <1>2, <1>3, <1>4
<1> QED BY <1>2, <1>4, <1>5 DEF PagerRight

\* A step that leaves the pager alone.
LEMMA PagerKept ==
    ASSUME PagerRight, UNCHANGED <<pages, pager>>,
           (pages # items' \/ dangling') => timedRefresh'
    PROVE  PagerRight'
BY DEF PagerRight

\* What a step on the selection alone must keep.
LEMMA SelectionKept ==
    ASSUME SelInv, UNCHANGED panelPages,
           toggledGroup' \in Groups \cup {"none"}, current' \in Groups,
           boxChecked' \in BOOLEAN, onShow' \in Groups, dialog' \in Dialogs \cup {"none"},
           selected' \subseteq Extens, toggled' = selected' \cap Shown
    PROVE  SelInv'
<1>1. Shown' = Shown
  BY DEF Shown, panelPages
<1>2. SelTypeOK'
  BY <1>1 DEF SelInv, SelTypeOK, panelPages
<1>3. PanelSequences' /\ PagerRight'
  BY DEF SelInv, PanelSequences, PagerRight, panelPages
<1>4. SelectionMirrors'
  BY <1>1 DEF SelectionMirrors
<1> QED BY <1>2, <1>3, <1>4 DEF SelInv

\* Extensions taken out of the selection leave the buttons too.
LEMMA Deselected ==
    ASSUME SelInv, NEW S, Deselect(S)
    PROVE  /\ selected' \subseteq Extens /\ toggled' = selected' \cap Shown /\ boxChecked' \in BOOLEAN
<1> DEFINE last == selected \cap S # {} /\ selected \subseteq S
           box == last /\ boxChecked /\ current = toggledGroup
<1>1. /\ selected' = selected \ S
      /\ toggled' = (IF box THEN {} ELSE toggled \ (selected \cap S))
      /\ boxChecked' = (boxChecked /\ ~box)
  BY DEF Deselect
<1>2. toggled = selected \cap Shown /\ selected \subseteq Extens
  BY DEF SelInv, SelTypeOK, SelectionMirrors
<1>3. box => selected \subseteq S
  OBVIOUS
<1> HIDE DEF box
<1>4. boxChecked' \in BOOLEAN
  BY <1>1
<1>5. CASE box
  BY <1>1, <1>2, <1>3, <1>4, <1>5
<1>6. CASE ~box
  BY <1>1, <1>2, <1>4, <1>6
<1> QED BY <1>5, <1>6

\* The groups come with these items, or with what there was.
LEMMA Loaded ==
    ASSUME SelInv, NEW group \in Groups, NEW kept \in SUBSET selected, Load(group, kept)
    PROVE  \/ \E S \in SUBSET Extens : LoadExtensions(S, kept)
           \/ toggled' = toggled \cap kept /\ UNCHANGED <<items, pages, dangling, pager>>
BY SelAssumption DEF Load

\* Every choice, signal and visit keeps the selection's invariant.
LEMMA SelStep == SelInv /\ [SelNext]_selVars => SelInv'
<1> SUFFICES ASSUME SelInv, [SelNext]_selVars PROVE SelInv'
  OBVIOUS
<1>0. /\ SelTypeOK /\ PanelSequences /\ SelectionMirrors /\ PagerRight
      /\ selected \subseteq Extens /\ Shown \subseteq Extens /\ toggled = selected \cap Shown
      /\ boxChecked \in BOOLEAN /\ pager.page \in Nat /\ pager.perPage \in PageSizes
      /\ items \in Seq(Extens) /\ pages \in Seq(Extens)
  BY DEF SelInv, SelTypeOK, PanelSequences, SelectionMirrors
<1>r. ASSUME NEW perPage \in PageSizes, Refresh(items, perPage), timedRefresh' \in BOOLEAN,
             UNCHANGED <<selection, items, dialog>>
      PROVE  SelInv'
  <2>1. /\ pages' \in Seq(Extens) /\ dangling' = FALSE
        /\ pager' \in [page : Nat, next : BOOLEAN, prev : BOOLEAN, perPage : PageSizes]
        /\ PagerRight'
    BY <1>0, <1>r, Refreshed
  <2>2. Shown' = Shown /\ Range(pages') \subseteq Extens
    BY <1>r, <2>1, RangeIn DEF Shown
  <2>3. SelTypeOK'
    BY <1>0, <1>r, <2>1, <2>2 DEF SelTypeOK, selection
  <2>4. PanelSequences' /\ SelectionMirrors'
    BY <1>0, <1>r, <2>1, <2>2 DEF PanelSequences, SelectionMirrors, selection
  <2> QED BY <2>1, <2>3, <2>4 DEF SelInv
<1>1. CASE PagerTick
  BY <1>0, <1>1, <1>r DEF PagerTick
<1>2. ASSUME NEW step \in {-1, 1}, TurnPage(step) PROVE SelInv'
  <2> DEFINE count == PageCount(Len(pages), pager.perPage)
             p == pager.page + step
  <2>1. p \in Nat
    BY <1>0, <1>2 DEF TurnPage, PagerRight
  <2>2. count \in Int
    BY <1>0, PageCountInt
  <2>3. /\ pager' = SwitchPage(p, count, pager.perPage)
        /\ UNCHANGED <<selection, items, pages, dangling, timedRefresh, dialog>>
    BY <1>2 DEF TurnPage
  <2>4. count = PageCount(Len(pages), pager.perPage)
    OBVIOUS
  <2> HIDE DEF count, p
  <2>5. /\ pager' \in [page : Nat, next : BOOLEAN, prev : BOOLEAN, perPage : PageSizes]
        /\ pager'.perPage = pager.perPage
        /\ pager'.page = 0 \/ pager'.page < count
        /\ pager'.next <=> pager'.page < count - 1
        /\ pager'.prev <=> pager'.page > 0
    BY <1>0, <2>1, <2>2, <2>3, Switched
  <2>6. PagerRight'
    BY <1>0, <2>3, <2>4, <2>5 DEF PagerRight
  <2>7. Shown' = Shown
    BY <2>3 DEF Shown
  <2>8. SelTypeOK'
    BY <1>0, <2>3, <2>5, <2>7 DEF SelTypeOK, selection
  <2>9. PanelSequences' /\ SelectionMirrors'
    BY <1>0, <2>3, <2>7 DEF PanelSequences, SelectionMirrors, selection
  <2> QED BY <2>6, <2>8, <2>9 DEF SelInv
<1>3. ASSUME NEW perPage \in PageSizes, OnTypeChange(perPage) PROVE SelInv'
  BY <1>0, <1>3, <1>r DEF OnTypeChange, SelTypeOK
<1>d. ASSUME NEW S, Deselect(S), UNCHANGED <<toggledGroup, current, onShow, panelPages>>,
             dialog' \in Dialogs \cup {"none"}
      PROVE  SelInv'
  BY <1>0, <1>d, Deselected, SelectionKept DEF SelTypeOK
<1>4. ASSUME NEW n \in Extens, ClickExtension(n) PROVE SelInv'
  <2>1. CASE n \in toggled
    BY <1>0, <1>4, <2>1, <1>d DEF ClickExtension, SelTypeOK
  <2>2. CASE n \notin toggled
    <3>1. /\ toggled' = toggled \cup {n} /\ selected' = selected \cup {n} /\ n \in Shown
          /\ UNCHANGED <<boxChecked, toggledGroup, current, onShow, panelPages, dialog>>
      BY <1>4, <2>2 DEF ClickExtension
    <3>2. toggled' = selected' \cap Shown
      BY <1>0, <3>1
    <3>3. selected' \subseteq Extens
      BY <1>0, <3>1
    <3> QED BY <1>0, <3>1, <3>2, <3>3, SelectionKept DEF SelTypeOK
  <2> QED BY <2>1, <2>2
<1>5. ASSUME NEW n \in Extens, AddButton(n) PROVE SelInv'
  <2>1. /\ items' = Append(items, n) /\ n \notin Shown /\ timedRefresh' = TRUE
        /\ toggled' = toggled \cup ({n} \cap selected)
        /\ UNCHANGED <<toggledGroup, current, boxChecked, onShow, selected, pages, dangling, pager, dialog>>
    BY <1>5 DEF AddButton
  <2>2. items' \in Seq(Extens) /\ Shown' = Shown \cup {n} /\ IsInjective(items')
    BY <1>0, <2>1, AppendOrder DEF Shown, SelTypeOK
  <2>3. PagerRight'
    BY <1>0, <2>1, PagerKept
  <2>4. SelectionMirrors'
    BY <1>0, <2>1, <2>2 DEF SelectionMirrors
  <2>5. SelTypeOK'
    BY <1>0, <2>1, <2>2, <2>4 DEF SelTypeOK, SelectionMirrors
  <2>6. PanelSequences'
    BY <1>0, <2>1, <2>2 DEF PanelSequences
  <2> QED BY <2>3, <2>4, <2>5, <2>6 DEF SelInv
<1>6. ASSUME NEW n \in Extens, RemoveButton(n) PROVE SelInv'
  <2>1. /\ items' = RemoveFirst(items, n) /\ timedRefresh' = TRUE
        /\ toggled' = toggled \ {n} /\ dangling' = (dangling \/ n \in Range(pages))
        /\ UNCHANGED <<toggledGroup, current, boxChecked, onShow, selected, pages, pager, dialog>>
    BY <1>6 DEF RemoveButton
  <2>2. items' \in Seq(Extens) /\ Shown' = Shown \ {n} /\ IsInjective(items')
    <3>1. IsInjective(items)
      BY <1>0 DEF SelTypeOK
    <3>2. /\ RemoveFirst(items, n) \in Seq(Extens)
          /\ Range(RemoveFirst(items, n)) \subseteq Range(items)
          /\ Range(items) \ {n} \subseteq Range(RemoveFirst(items, n))
          /\ IsInjective(RemoveFirst(items, n)) /\ n \notin Range(RemoveFirst(items, n))
      BY <1>0, <3>1, RemoveOrder
    <3> QED BY <2>1, <3>2 DEF Shown
  <2>3. PagerRight'
    BY <1>0, <2>1, PagerKept
  <2>4. SelectionMirrors'
    BY <1>0, <2>1, <2>2 DEF SelectionMirrors
  <2>5. SelTypeOK'
    <3>1. dangling' \in BOOLEAN
      BY <2>1
    <3> QED BY <1>0, <2>1, <2>2, <2>4, <3>1 DEF SelTypeOK, SelectionMirrors
  <2>6. PanelSequences'
    BY <1>0, <2>1, <2>2 DEF PanelSequences
  <2> QED BY <2>3, <2>4, <2>5, <2>6 DEF SelInv
<1>7. ASSUME NEW S, ClickSelected(S) PROVE SelInv'
  BY <1>0, <1>7, <1>d DEF ClickSelected, SelTypeOK
<1>8. CASE ClickBox
  <2>1. /\ boxChecked' = ~boxChecked /\ ToggleAll(boxChecked')
        /\ UNCHANGED <<toggledGroup, current, onShow, panelPages, dialog>>
    BY <1>8 DEF ClickBox
  <2>2. selected' \subseteq Extens /\ toggled' = selected' \cap Shown
    BY <1>0, <2>1 DEF ToggleAll
  <2> QED BY <1>0, <2>1, <2>2, SelectionKept DEF SelTypeOK
<1>k. KeptByBox \subseteq selected
  BY DEF KeptByBox
<1>9. ASSUME NEW group \in Groups, ToggleGroupOn(group) PROVE SelInv'
  <2>1. /\ toggledGroup' = group /\ current' = group /\ onShow' = group /\ boxChecked' = FALSE
        /\ selected' = KeptByBox /\ Load(group, KeptByBox)
        /\ UNCHANGED <<timedRefresh, dialog>>
    BY <1>9 DEF ToggleGroupOn
  <2>2. CASE \E S \in SUBSET Extens : LoadExtensions(S, KeptByBox)
    <3>1. PICK S \in SUBSET Extens : LoadExtensions(S, KeptByBox)
      BY <2>2
    <3>2. /\ items' = InOrder(S) /\ toggled' = S \cap KeptByBox
          /\ Refresh(items', pager.perPage)
      BY <3>1 DEF LoadExtensions
    <3>3. items' \in Seq(Extens) /\ Shown' = S /\ IsInjective(items')
      BY <3>2, PanelInOrder DEF Shown
    <3>4. /\ pages' \in Seq(Extens) /\ dangling' = FALSE
          /\ pager' \in [page : Nat, next : BOOLEAN, prev : BOOLEAN, perPage : PageSizes]
          /\ PagerRight'
      BY <1>0, <3>2, <3>3, Refreshed
    <3>5. SelectionMirrors'
      BY <2>1, <3>2, <3>3 DEF SelectionMirrors
    <3>6. PanelSequences' /\ Range(pages') \subseteq Extens
      BY <3>3, <3>4, RangeIn DEF PanelSequences
    <3>7. SelTypeOK'
      BY <1>0, <1>k, <2>1, <3>2, <3>3, <3>4, <3>6 DEF SelTypeOK
    <3> QED BY <3>4, <3>5, <3>6, <3>7 DEF SelInv
  <2>3. CASE toggled' = toggled \cap KeptByBox /\ UNCHANGED <<items, pages, dangling, pager>>
    <3>1. toggled' = selected' \cap Shown /\ selected' \subseteq Extens
      BY <1>0, <1>k, <2>1, <2>3
    <3>2. UNCHANGED panelPages
      BY <2>1, <2>3 DEF panelPages
    <3> QED BY <1>0, <2>1, <3>1, <3>2, SelectionKept DEF SelTypeOK
  <2> QED BY <1>k, <2>1, <2>2, <2>3, Loaded
<1>10. CASE ToggleGroupOff
  <2>1. /\ toggledGroup' = "none" /\ current' = "all" /\ boxChecked' = FALSE
        /\ selected' = KeptByBox /\ toggled' = toggled \cap KeptByBox
        /\ UNCHANGED <<onShow, panelPages, dialog>>
    BY <1>10 DEF ToggleGroupOff
  <2>2. toggled' = selected' \cap Shown /\ selected' \subseteq Extens
    BY <1>0, <1>k, <2>1
  <2> QED BY <1>0, <2>1, <2>2, SelectionKept DEF SelTypeOK, Groups
<1>11. ASSUME DeselectAll \/ UNCHANGED <<selection, panelPages>>, dialog' \in Dialogs \cup {"none"}
       PROVE  SelInv'
  <2>1. CASE DeselectAll
    BY <1>11, <2>1, <1>d DEF DeselectAll
  <2>2. CASE UNCHANGED <<selection, panelPages>>
    BY <1>0, <1>11, <2>2, SelectionKept DEF SelTypeOK, selection
  <2> QED BY <1>11, <2>1, <2>2
<1>12. ASSUME NEW button, Command(button) PROVE SelInv'
  BY <1>0, <1>11, <1>12 DEF Command, SelTypeOK
<1>13. ASSUME NEW button, OpenDialog(button) PROVE SelInv'
  BY <1>11, <1>13 DEF OpenDialog
<1>14. CASE CloseDialog
  BY <1>11, <1>14 DEF CloseDialog
<1>15. CASE UNCHANGED selVars
  BY <1>0, <1>11, <1>15 DEF selVars, SelTypeOK
<1> QED BY <1>1, <1>2, <1>3, <1>4, <1>5, <1>6, <1>7, <1>8, <1>9, <1>10, <1>12, <1>13, <1>14, <1>15
        DEF SelNext

\* It holds when the panel has been built.
LEMMA SelInitially == SelInit => SelInv
<1> SUFFICES ASSUME SelInit PROVE SelInv
  OBVIOUS
<1>1. items \in Seq(Extens) /\ Shown = Extens /\ IsInjective(items) /\ pages = items
  BY PanelInOrder DEF SelInit, Shown
<1> DEFINE perPage == Least(PageSizes)
           count == PageCount(Len(items), perPage)
<1>2. perPage \in PageSizes
  <2>1. PageSizes \subseteq Nat /\ PageSizes # {}
    BY SelAssumption
  <2>2. PICK k \in PageSizes : \A j \in PageSizes : ~ (<<j, k>> \in OpToRel(<, Nat))
    BY <2>1, WFMin, NatLessThanWellFounded
  <2>3. \A j \in PageSizes : ~(j < k)
    BY <2>1, <2>2 DEF OpToRel
  <2>4. \A j \in PageSizes : k <= j
    BY <2>1, <2>3
  <2> QED BY <2>4 DEF Least
<1>3. count \in Int
  BY <1>1, <1>2, PageCountInt
<1>4. pager = SwitchPage(0, count, perPage)
  BY DEF SelInit
<1>5. count = PageCount(Len(items), perPage)
  OBVIOUS
<1> HIDE DEF count, perPage
<1>6. /\ pager \in [page : Nat, next : BOOLEAN, prev : BOOLEAN, perPage : PageSizes]
      /\ pager.perPage = perPage
      /\ pager.page = 0 \/ pager.page < count
      /\ pager.next <=> pager.page < count - 1
      /\ pager.prev <=> pager.page > 0
  BY <1>2, <1>3, <1>4, Switched
<1>7. PagerRight
  BY <1>1, <1>5, <1>6 DEF PagerRight, SelInit
<1>8. SelTypeOK /\ SelectionMirrors /\ PanelSequences
  BY <1>1, <1>6 DEF SelTypeOK, SelInit, SelectionMirrors, PanelSequences, Groups, Shown
<1> QED BY <1>7, <1>8 DEF SelInv

\* The selection acts as specified whatever else the main window does.
LEMMA MainSelection == MainSpec => SelSpec
<1>1. MainInit => SelInit
  BY DEF MainInit
<1>2. [MainNext]_mainVars => [SelNext]_selVars
  BY DEF MainNext, mainVars, formVars
<1> QED BY <1>1, <1>2, PTL DEF MainSpec, SelSpec

\* The types, the mirrored selection and the pager hold together in every state.
THEOREM SelectionInvariance == MainSpec => []SelInv
BY SelInitially, SelStep, MainSelection, PTL DEF SelSpec

\* A button of the panel is toggled exactly when its extension is selected, for any number of
\* extensions, groups and pages (ExtensionsZone.cpp:229-233, 250-266,
\* SelectedExtensZone.cpp:50-65, RinggroupsZone.cpp:94-118).
THEOREM PanelMirrorsSelection == MainSpec => []SelectionMirrors
<1>1. SelInv => SelectionMirrors
  BY DEF SelInv
<1> QED BY <1>1, SelectionInvariance, PTL

\* The pager is on a page that exists, offers exactly the pages there are, and shows the
\* items there are or has its timer running (multitablewidgets.cpp:83-90, 120-142, 170-201).
THEOREM PagerIsRight == MainSpec => []PagerRight
<1>1. SelInv => PagerRight
  BY DEF SelInv
<1> QED BY <1>1, SelectionInvariance, PTL

-----------------------------------------------------------------------------
(* The video windows.                                                      *)

\* A window, and what is on the screen.
Window == [key : Exts \cup {0}, player : {"idle", "opening", "playing"}]

\* What is on the screen: each label is of an extension whose windows have been opened.
ScreenOK(s) ==
    /\ s = [already |-> s.already, windows |-> s.windows, side |-> s.side]
    /\ s.already \subseteq Exts
    /\ s.windows \in [1..Windows -> Window]
    /\ \A i \in 1..Windows : s.windows[i].key # 0 => s.windows[i].key \in s.already

Screen == [already |-> mAlreadyUseExten, windows |-> mVideoWidgets, side |-> side]

\* The types that the argument needs.
LinkTyping ==
    /\ opCalls \in [Ops -> SUBSET Exts]
    /\ ~renewed => opButtons = Ops
    /\ renewed \in BOOLEAN
    /\ extCalls \in [Exts -> SUBSET Kinds]
    /\ configured \subseteq Exts /\ Exts \subseteq configured \cup removed
    /\ mActiveExtenNumber \in [Ops -> SUBSET Exts]
    /\ mPasvExtenNumber \subseteq Exts /\ mBroadcastExtenNumber \subseteq Exts

\* An extension whose windows have been opened is in one of the lists.
OpenedListed == \A e \in mAlreadyUseExten \ removed :
    \/ e \in mPasvExtenNumber \cup mBroadcastExtenNumber
    \/ \E op \in Ops : e \in mActiveExtenNumber[op]

\* An entry of a list is a call, or the signal of its end is posted.
OperatorsExplained == ~renewed => \A op \in Ops : \A e \in mActiveExtenNumber[op] :
    e \in opCalls[op] \/ op \in linkSignals
OthersExplained == \A e \in mPasvExtenNumber \cup mBroadcastExtenNumber :
    extCalls[e] # {} \/ e \in linkSignals \/ e \in removed

\* As long as nothing reaches the video linkage it has opened nothing.
LinkRests == part # "video" =>
    /\ mAlreadyUseExten = {} /\ mPasvExtenNumber = {} /\ mBroadcastExtenNumber = {}
    /\ \A op \in Ops : mActiveExtenNumber[op] = {}

\* The inductive invariant.
LinkInv ==
    LinkTyping /\ ScreenOK(Screen) /\ OpenedListed /\ OperatorsExplained /\ OthersExplained

\* There is a number of windows.
LEMMA WindowsNat == Windows \in Nat
BY VideoAssumption DEF Windows

\* The windows in another order.
LEMMA SortedIs ==
    ASSUME NEW w \in [1..Windows -> Window]
    PROVE  /\ Sorted(w) \in [1..Windows -> Window]
           /\ \A i \in 1..Windows : \E j \in 1..Windows : Sorted(w)[i] = w[j]
<1> DEFINE P == {i \in 1..Windows : IsPlaying(w[i])}
           Q == {i \in 1..Windows : IsIdle(w[i])}
           p == InOrder(P)
           q == InOrder(Q)
           r == Reverse(q)
           order == p \o r
<1>1. /\ P \cup Q = 1..Windows /\ P \cap Q = {} /\ P \subseteq 1..Windows /\ Q \subseteq 1..Windows
      /\ IsFiniteSet(1..Windows) /\ Cardinality(1..Windows) = Windows /\ Windows \in Nat
  BY WindowsNat, FS_Interval DEF IsIdle
<1> HIDE DEF P, Q
<1>2. IsFiniteSet(P) /\ IsFiniteSet(Q) /\ P \in SUBSET Int /\ Q \in SUBSET Int
  BY <1>1, FS_Subset
<1>3. Cardinality(P) + Cardinality(Q) = Windows
  <2>1. Cardinality(P \cup Q) = Cardinality(P) + Cardinality(Q) - Cardinality(P \cap Q)
    BY <1>2, FS_Union
  <2>2. Cardinality(P \cap Q) = 0
    BY <1>1, FS_EmptySet
  <2>3. Cardinality(P) \in Nat /\ Cardinality(Q) \in Nat
    BY <1>2, FS_CardinalityType
  <2>4. Cardinality(P \cup Q) = Windows
    BY <1>1
  <2> QED BY <2>1, <2>2, <2>3, <2>4
<1>4. p \in Seq(P) /\ Len(p) = Cardinality(P) /\ q \in Seq(Q) /\ Len(q) = Cardinality(Q)
  BY <1>2, InOrderIs
<1> HIDE DEF p, q
<1>5. r \in Seq(Q) /\ Len(r) = Len(q)
  BY <1>4 DEF Reverse
<1> HIDE DEF r
<1>6. order \in Seq(1..Windows) /\ Len(order) = Windows
  <2>1. p \in Seq(1..Windows) /\ r \in Seq(1..Windows)
    BY <1>1, <1>4, <1>5
  <2>2. order \in Seq(1..Windows) /\ Len(order) = Len(p) + Len(r)
    BY <2>1, ConcatProperties
  <2> QED BY <1>3, <1>4, <1>5, <2>2
<1>7. Sorted(w) = [i \in 1..Windows |-> w[order[i]]]
  BY Zenon DEF Sorted, P, Q, p, q, r
<1> HIDE DEF order
<1>8. \A i \in 1..Windows : order[i] \in 1..Windows
  BY <1>6
<1> QED BY <1>7, <1>8

\* The windows wanted are of these extensions.
LEMMA WantedOf ==
    ASSUME NEW keys \in SUBSET Exts
    PROVE  Wanted(keys) \in Seq(keys)
<1> DEFINE C == UNION {{2 * e + c : c \in 0..Urls[e] - 1} : e \in keys}
           even == [e \in keys |-> 2 * e]
           odd == [e \in keys |-> 2 * e + 1]
           Even == {2 * e : e \in keys}
           Odd == {2 * e + 1 : e \in keys}
           cameras == InOrder(C)
<1>1. /\ keys \subseteq Nat /\ IsFiniteSet(keys)
      /\ \A e \in keys : Urls[e] \in 1..2
  BY VideoAssumption, FS_Subset
<1>2. \A n \in C : \E e \in keys : n = 2 * e \/ n = 2 * e + 1
  <2> SUFFICES ASSUME NEW e \in keys, NEW c \in 0..Urls[e] - 1
               PROVE  2 * e + c = 2 * e \/ 2 * e + c = 2 * e + 1
    OBVIOUS
  <2>1. c = 0 \/ c = 1
    BY <1>1
  <2> QED BY <1>1, <2>1
<1>3. IsFiniteSet(C)
  <2>1. even \in Surjection(keys, Even) /\ odd \in Surjection(keys, Odd)
    BY DEF Surjection
  <2>2. IsFiniteSet(Even) /\ IsFiniteSet(Odd)
    BY <1>1, <2>1, FS_Surjection
  <2>3. IsFiniteSet(Even \cup Odd)
    BY <2>2, FS_Union
  <2>4. C \subseteq Even \cup Odd
    BY <1>2
  <2> QED BY <2>3, <2>4, FS_Subset
<1>4. C \in SUBSET Int
  BY <1>1, <1>2
<1>5. \A n \in C : n \div 2 \in keys
  <2> TAKE n \in C
  <2>1. PICK e \in keys : n = 2 * e \/ n = 2 * e + 1
    BY <1>2
  <2>2. e \in Nat
    BY <1>1
  <2>3. n \div 2 = e
    BY <2>1, <2>2
  <2> QED BY <2>3
<1> HIDE DEF C
<1>6. cameras \in Seq(C)
  BY <1>3, <1>4, InOrderIs
<1>7. Wanted(keys) = [i \in DOMAIN cameras |-> cameras[i] \div 2]
  BY Zenon DEF Wanted, C
<1> HIDE DEF cameras
<1>8. DOMAIN cameras = 1..Len(cameras) /\ Len(cameras) \in Nat
      /\ \A i \in DOMAIN cameras : cameras[i] \in C
  BY <1>6
<1> QED BY <1>5, <1>7, <1>8

\* The windows counted before the first that is free are some or none.
LEMMA OccupiedNat ==
    ASSUME NEW w, \E i \in 1..Windows : IsIdle(w[i])
    PROVE  Occupied(w) \in Nat
<1> DEFINE free == {i \in 1..Windows : IsIdle(w[i])}
<1>1. free # {} /\ free \subseteq Nat
  BY WindowsNat
<1>2. PICK k \in free : \A j \in free : ~ (<<j, k>> \in OpToRel(<, Nat))
  BY <1>1, WFMin, NatLessThanWellFounded
<1>3. \A j \in free : ~(j < k)
  BY <1>1, <1>2 DEF OpToRel
<1>4. \A j \in free : k <= j
  BY <1>1, <1>3
<1>5. (CHOOSE i \in free : \A j \in free : i <= j) \in free
  BY <1>4
<1> DEFINE first == CHOOSE i \in free : \A j \in free : i <= j
<1>6. Occupied(w) = first - 1
  BY DEF Occupied
<1>7. first \in 1..Windows
  BY <1>5
<1> HIDE DEF first
<1> QED BY <1>6, <1>7, WindowsNat

\* open keeps the screen in order and opens for no other extensions.
LEMMA OpenKeeps ==
    ASSUME NEW s, ScreenOK(s), NEW extensions \in SUBSET Exts,
           extensions = {} \/ \E i \in 1..Windows : IsIdle(s.windows[i])
    PROVE  /\ ScreenOK(Open(s, extensions))
           /\ s.already \subseteq Open(s, extensions).already
           /\ Open(s, extensions).already \subseteq s.already \cup extensions
<1> DEFINE keys == extensions \cap configured
           occupied == Occupied(s.windows)
           count == Len(Wanted(keys)) + occupied
           wanted == Wanted(keys \ s.already)
           n == IF Len(wanted) <= Windows - occupied THEN Len(wanted) ELSE Windows - occupied
           fit == SubSeq(wanted, 1, n)
           windows == IF SideFor(count) = s.side THEN s.windows ELSE Sorted(s.windows)
           new == [i \in 1..Windows |->
                      IF i - occupied \in DOMAIN fit
                      THEN [key |-> fit[i - occupied], player |-> "opening"] ELSE windows[i]]
           t == [side |-> SideFor(count), already |-> s.already \cup Range(fit), windows |-> new]
<1>1. Open(s, extensions) = IF extensions = {} \/ count = 0 THEN s ELSE t
  BY Zenon DEF Open
<1>2. wanted \in Seq(keys \ s.already)
  BY WantedOf
<1>3. extensions # {} => occupied \in Int
  BY OccupiedNat
<1>4. /\ windows \in [1..Windows -> Window]
      /\ \A i \in 1..Windows : windows[i].key # 0 => windows[i].key \in s.already
  BY SortedIs DEF ScreenOK
<1> HIDE DEF windows, count, wanted, occupied
<1>5. extensions # {} => \A j \in DOMAIN fit : fit[j] \in keys \ s.already
  <2> SUFFICES ASSUME extensions # {}, NEW j \in DOMAIN fit PROVE fit[j] \in keys \ s.already
    OBVIOUS
  <2>1. n \in Int /\ n <= Len(wanted)
    BY <1>2, <1>3, WindowsNat
  <2> HIDE DEF n
  <2>2. /\ DOMAIN fit = 1..(IF n >= 1 THEN n ELSE 0)
        /\ \A k \in DOMAIN fit : fit[k] = wanted[k]
    BY <1>2, <2>1
  <2>3. j \in 1..Len(wanted)
    BY <1>2, <2>1, <2>2
  <2>4. fit[j] = wanted[j]
    BY <2>2
  <2> DEFINE fresh == keys \ s.already
  <2>5. wanted \in Seq(fresh)
    BY <1>2
  <2> HIDE DEF fresh, fit
  <2>6. wanted[j] \in fresh
    BY <2>3, <2>5
  <2> QED BY <2>4, <2>6 DEF fresh
<1> HIDE DEF fit
<1>6. \A i \in 1..Windows : \/ new[i] = windows[i]
                            \/ \E e \in Range(fit) : new[i] = [key |-> e, player |-> "opening"]
  BY DEF Range
<1>7. extensions # {} => Range(fit) \subseteq keys
  BY <1>5 DEF Range
<1>8. extensions # {} => new \in [1..Windows -> Window]
  <2> SUFFICES ASSUME extensions # {}, NEW i \in 1..Windows PROVE new[i] \in Window
    OBVIOUS
  <2>1. CASE new[i] = windows[i]
    BY <1>4, <2>1
  <2>2. CASE \E e \in Range(fit) : new[i] = [key |-> e, player |-> "opening"]
    <3>1. PICK e \in Range(fit) : new[i] = [key |-> e, player |-> "opening"]
      BY <2>2
    <3>2. e \in Exts
      BY <1>7
    <3> QED BY <3>1, <3>2 DEF Window
  <2> QED BY <1>6, <2>1, <2>2
<1>9. \A i \in 1..Windows : new[i].key # 0 => new[i].key \in s.already \cup Range(fit)
  BY <1>4, <1>6
<1>10. extensions # {} => s.already \cup Range(fit) \subseteq Exts
  BY <1>7 DEF ScreenOK
<1> HIDE DEF new
<1>11. extensions # {} => ScreenOK(t)
  BY <1>8, <1>9, <1>10 DEF ScreenOK
<1>12. t.already = s.already \cup Range(fit)
  OBVIOUS
<1> QED BY <1>1, <1>7, <1>11, <1>12

\* close keeps the screen in order and leaves no window of these extensions.
LEMMA CloseKeeps ==
    ASSUME NEW s, ScreenOK(s), NEW extensions
    PROVE  /\ ScreenOK(Close(s, extensions))
           /\ Close(s, extensions).already = s.already \ extensions
<1> DEFINE windows == [i \in 1..Windows |->
                          IF s.windows[i].key \in extensions THEN Free ELSE s.windows[i]]
           hit == \E i \in 1..Windows : s.windows[i].key \in extensions
           to == IF hit THEN Sorted(windows) ELSE s.windows
           t == [already |-> s.already \ extensions, windows |-> to, side |-> s.side]
<1>1. CASE extensions = {} \/ s.already = {}
  <2>1. Close(s, extensions) = s
    BY <1>1 DEF Close
  <2>2. s.already = s.already \ extensions
    BY <1>1
  <2> QED BY <2>1, <2>2
<1>2. CASE ~(extensions = {} \/ s.already = {})
  <2>1. Close(s, extensions) = [s EXCEPT !.already = @ \ extensions,
                                         !.windows = IF hit THEN Sorted(windows) ELSE @]
    BY <1>2, Zenon DEF Close
  <2>2. Close(s, extensions) = t
    BY <2>1 DEF ScreenOK
  <2>3. /\ windows \in [1..Windows -> Window]
        /\ \A i \in 1..Windows : windows[i].key # 0 => windows[i].key \in s.already \ extensions
    BY DEF ScreenOK, Free, Window
  <2> HIDE DEF windows
  <2>4. /\ to \in [1..Windows -> Window]
        /\ \A i \in 1..Windows : to[i].key # 0 => to[i].key \in s.already \ extensions
    <3>1. CASE hit
      <4>1. to = Sorted(windows)
        BY <3>1
      <4> HIDE DEF to, hit
      <4>2. /\ to \in [1..Windows -> Window]
            /\ \A i \in 1..Windows : \E j \in 1..Windows : to[i] = windows[j]
        BY <2>3, <4>1, SortedIs
      <4> QED BY <2>3, <4>2
    <3>2. CASE ~hit
      <4>1. to = s.windows /\ \A i \in 1..Windows : s.windows[i].key \notin extensions
        BY <3>2
      <4> QED BY <4>1 DEF ScreenOK
    <3> QED BY <3>1, <3>2
  <2> HIDE DEF to, hit
  <2>5. s.already \ extensions \subseteq Exts
    BY DEF ScreenOK
  <2>6. ScreenOK(t)
    BY <2>4, <2>5 DEF ScreenOK
  <2> QED BY <2>2, <2>6
<1> QED BY <1>1, <1>2

\* What a slot makes of the screen.
LEMMA OpenAndCloseKeeps ==
    ASSUME ScreenOK(Screen), NEW opened \in SUBSET Exts, NEW closed, OpenAndClose(opened, closed)
    PROVE  /\ ScreenOK(Screen)'
           /\ mAlreadyUseExten' \subseteq (mAlreadyUseExten \cup opened) \ closed
<1> DEFINE o == Open(Screen, opened)
           s == Close(o, closed)
<1>1. ScreenOK(o) /\ o.already \subseteq mAlreadyUseExten \cup opened
  <2>1. opened = {} \/ \E i \in 1..Windows : IsIdle(Screen.windows[i])
    BY DEF OpenAndClose, Screen
  <2>2. ScreenOK(o) /\ o.already \subseteq Screen.already \cup opened
    BY <2>1, OpenKeeps
  <2> QED BY <2>2 DEF Screen
<1>2. mAlreadyUseExten' = s.already /\ mVideoWidgets' = s.windows /\ side' = s.side
  BY DEF OpenAndClose, Screen
<1> HIDE DEF o
<1>3. ScreenOK(s) /\ s.already = o.already \ closed
  BY <1>1, CloseKeeps
<1> HIDE DEF s
<1>4. Screen' = s
  BY <1>2, <1>3 DEF ScreenOK, Screen
<1>5. ScreenOK(s) <=> ScreenOK(Screen')
  BY <1>4
<1>6. ScreenOK(Screen)'
  BY <1>3, <1>4 DEF ScreenOK
<1> QED BY <1>1, <1>2, <1>3, <1>6

\* The invariant is strong enough.
LEMMA LinkRuled ==
    ASSUME LinkInv
    PROVE  NoGhostVideo
<1> SUFFICES ASSUME linkSignals = {}, ~renewed, NEW i \in 1..Windows,
                    mVideoWidgets[i].key # 0, mVideoWidgets[i].key \notin removed
             PROVE  \/ extCalls[mVideoWidgets[i].key] # {}
                    \/ \E op \in Ops : mVideoWidgets[i].key \in opCalls[op]
  BY DEF NoGhostVideo
<1>1. mVideoWidgets[i].key \in mAlreadyUseExten
  BY DEF LinkInv, ScreenOK, Screen
<1> QED BY <1>1 DEF LinkInv, OpenedListed, OperatorsExplained, OthersExplained

\* At first every list is empty and no window has a label.
LEMMA LinkInitially == MainInit => LinkInv /\ LinkRests
<1> SUFFICES ASSUME MainInit PROVE LinkInv /\ LinkRests
  OBVIOUS
<1>1. VideoInit /\ OpInit
  BY DEF MainInit, VideoInit
<1>2. mVideoWidgets \in [1..Windows -> Window] /\ \A i \in 1..Windows : mVideoWidgets[i].key = 0
  BY <1>1 DEF VideoInit, Free, Window
<1>3. ScreenOK(Screen)
  BY <1>1, <1>2 DEF VideoInit, ScreenOK, Screen
<1>4. LinkTyping
  BY <1>1 DEF VideoInit, OpInit, LinkTyping
<1>5. OpenedListed /\ OperatorsExplained /\ OthersExplained /\ LinkRests
  BY <1>1 DEF VideoInit, OpenedListed, OperatorsExplained, OthersExplained, LinkRests
<1> QED BY <1>3, <1>4, <1>5 DEF LinkInv

\* Steps that change no list.
LEMMA ListsStay ==
    ASSUME LinkInv, LinkTyping', ScreenOK(Screen)', UNCHANGED <<videoLists, mAlreadyUseExten>>,
           removed \subseteq removed', OperatorsExplained', OthersExplained'
    PROVE  LinkInv'
<1>1. OpenedListed'
  BY DEF LinkInv, OpenedListed, videoLists
<1> QED BY <1>1 DEF LinkInv

\* Every call, signal, setting and player keeps the invariant.
LEMMA LinkStep == LinkInv /\ [LinkNext]_linkVars => LinkInv'
<1> SUFFICES ASSUME LinkInv, [LinkNext]_linkVars PROVE LinkInv'
  OBVIOUS
<1>0. /\ LinkTyping /\ ScreenOK(Screen) /\ OpenedListed /\ OperatorsExplained /\ OthersExplained
  BY DEF LinkInv
<1>s. ASSUME UNCHANGED screen PROVE ScreenOK(Screen)'
  <2>1. Screen' = Screen
    BY <1>s DEF Screen, screen
  <2> QED BY <1>0, <2>1 DEF ScreenOK
<1>1. CASE ZoneRenewed
  <2>1. /\ UNCHANGED videoVars /\ UNCHANGED opCalls /\ renewed' = TRUE
    BY <1>1 DEF ZoneRenewed, RefreshOperatorsZone
  <2>2. UNCHANGED <<screen, videoLists, mAlreadyUseExten, extCalls, linkSignals, configured, removed>>
    BY <2>1 DEF videoVars, screen
  <2>3. LinkTyping'
    BY <1>0, <2>1, <2>2 DEF LinkTyping, videoLists
  <2>4. OperatorsExplained' /\ OthersExplained'
    BY <1>0, <2>1, <2>2 DEF OperatorsExplained, OthersExplained, videoLists
  <2> QED BY <1>s, <2>2, <2>3, <2>4, ListsStay
<1>2. ASSUME NEW op \in Ops, NEW S \in SUBSET Exts, OperatorCall(op, S) PROVE LinkInv'
  <2>1. /\ opCalls' = [opCalls EXCEPT ![op] = S] /\ UNCHANGED <<opButtons, renewed>>
        /\ linkSignals' = (IF renewed \/ op \notin opButtons THEN linkSignals ELSE linkSignals \cup {op})
        /\ UNCHANGED <<extCalls, configured, videoLists, screen, removed>>
    BY <1>2 DEF OperatorCall, OpCall
  <2>2. LinkTyping'
    BY <1>0, <2>1 DEF LinkTyping, videoLists
  <2>3. linkSignals \subseteq linkSignals' /\ (~renewed => op \in linkSignals')
    BY <1>0, <2>1 DEF LinkTyping
  <2>4. \A other \in Ops \ {op} : opCalls'[other] = opCalls[other]
    BY <1>0, <2>1 DEF LinkTyping
  <2>5. OperatorsExplained'
    BY <1>0, <2>1, <2>3, <2>4 DEF OperatorsExplained, videoLists
  <2>6. OthersExplained'
    BY <1>0, <2>1, <2>3 DEF OthersExplained, videoLists
  <2> QED BY <1>s, <2>1, <2>2, <2>5, <2>6, ListsStay DEF screen
<1>3. ASSUME NEW op \in Ops, OperatorExtenStateChanged(op) PROVE LinkInv'
  <2> DEFINE called == opCalls[op] \cap configured
             opened == called \ mActiveExtenNumber[op]
             closed == mActiveExtenNumber[op] \ called
  <2>1. /\ linkSignals' = linkSignals \ {op}
        /\ mActiveExtenNumber' = [mActiveExtenNumber EXCEPT ![op] = called]
        /\ OpenAndClose(opened, closed)
        /\ UNCHANGED <<opVars, extCalls, configured, mPasvExtenNumber, mBroadcastExtenNumber, removed>>
    BY <1>3, Zenon DEF OperatorExtenStateChanged
  <2>2. UNCHANGED <<opCalls, opButtons, renewed>>
    BY <2>1 DEF opVars, opZone
  <2>3. called \subseteq Exts /\ opened \in SUBSET Exts
    BY <1>0 DEF LinkTyping
  <2>4. ScreenOK(Screen)' /\ mAlreadyUseExten' \subseteq (mAlreadyUseExten \cup opened) \ closed
    BY <1>0, <2>1, <2>3, OpenAndCloseKeeps
  <2>5. /\ mActiveExtenNumber'[op] = called
        /\ \A other \in Ops \ {op} : mActiveExtenNumber'[other] = mActiveExtenNumber[other]
        /\ mActiveExtenNumber' \in [Ops -> SUBSET Exts]
    BY <1>0, <2>1, <2>3 DEF LinkTyping
  <2>6. LinkTyping'
    BY <1>0, <2>1, <2>2, <2>5 DEF LinkTyping
  <2>7. OpenedListed'
    BY <1>0, <2>1, <2>4, <2>5 DEF OpenedListed
  <2>8. OperatorsExplained'
    BY <1>0, <2>1, <2>2, <2>5 DEF OperatorsExplained
  <2>9. OthersExplained'
    BY <1>0, <2>1, VideoAssumption DEF OthersExplained, LinkTyping
  <2> QED BY <2>4, <2>6, <2>7, <2>8, <2>9 DEF LinkInv
<1>4. ASSUME NEW e \in Exts, NEW kinds \in SUBSET Kinds, ExtensionCall(e, kinds) PROVE LinkInv'
  <2>1. /\ extCalls' = [extCalls EXCEPT ![e] = kinds] /\ linkSignals' = linkSignals \cup {e}
        /\ UNCHANGED <<opCalls, opButtons, renewed, configured, videoLists, screen, removed>>
    BY <1>4 DEF ExtensionCall, opZone
  <2>2. LinkTyping'
    BY <1>0, <2>1 DEF LinkTyping, videoLists
  <2>3. \A other \in Exts \ {e} : extCalls'[other] = extCalls[other]
    BY <1>0, <2>1 DEF LinkTyping
  <2>4. OperatorsExplained'
    BY <1>0, <2>1 DEF OperatorsExplained, videoLists
  <2>5. OthersExplained'
    BY <1>0, <2>1, <2>3 DEF OthersExplained, videoLists, LinkTyping
  <2> QED BY <1>s, <2>1, <2>2, <2>4, <2>5, ListsStay DEF screen
<1>5. ASSUME NEW e \in Exts, Configure(e) PROVE LinkInv'
  <2>1. /\ \/ configured' = configured \cup {e} /\ UNCHANGED removed
           \/ configured' = configured \ {e} /\ removed' = removed \cup {e}
        /\ UNCHANGED <<opCalls, opButtons, renewed, extCalls, linkSignals, videoLists, screen>>
    BY <1>5 DEF Configure, opZone
  <2>2. LinkTyping'
    BY <1>0, <2>1 DEF LinkTyping, videoLists
  <2>3. OperatorsExplained' /\ OthersExplained'
    BY <1>0, <2>1 DEF OperatorsExplained, OthersExplained, videoLists
  <2> QED BY <1>s, <2>1, <2>2, <2>3, ListsStay DEF screen
<1>6. ASSUME NEW e \in Exts, ExtenStateChanged(e) PROVE LinkInv'
  <2> DEFINE now(kind, list_) == IF e \notin configured THEN list_
                                 ELSE IF kind \in extCalls[e] THEN list_ \cup {e} ELSE list_ \ {e}
             pasv == now("group", mPasvExtenNumber)
             broadcast == now("broadcast", mBroadcastExtenNumber)
             opened == (pasv \ mPasvExtenNumber) \cup (broadcast \ mBroadcastExtenNumber)
             closed == (mPasvExtenNumber \ pasv) \cup (mBroadcastExtenNumber \ broadcast)
  <2>1. /\ linkSignals' = linkSignals \ {e}
        /\ mPasvExtenNumber' = pasv /\ mBroadcastExtenNumber' = broadcast
        /\ OpenAndClose(opened, closed)
        /\ UNCHANGED <<opVars, extCalls, configured, mActiveExtenNumber, removed>>
    BY <1>6, Zenon DEF ExtenStateChanged
  <2>2. UNCHANGED <<opCalls, opButtons, renewed>>
    BY <2>1 DEF opVars, opZone
  <2>3. pasv \subseteq Exts /\ broadcast \subseteq Exts
    BY <1>0 DEF LinkTyping
  <2>4. ScreenOK(Screen)' /\ mAlreadyUseExten' \subseteq (mAlreadyUseExten \cup opened) \ closed
    BY <1>0, <2>1, <2>3, OpenAndCloseKeeps
  <2>5. LinkTyping'
    BY <1>0, <2>1, <2>2, <2>3 DEF LinkTyping
  <2>6. \A x \in pasv \cup broadcast :
            \/ x # e /\ x \in mPasvExtenNumber \cup mBroadcastExtenNumber
            \/ x = e /\ (extCalls[e] # {} \/ e \notin configured)
    OBVIOUS
  <2> HIDE DEF pasv, broadcast
  <2>7. OpenedListed'
    BY <1>0, <2>1, <2>4 DEF OpenedListed
  <2>8. OperatorsExplained'
    BY <1>0, <2>1, <2>2, VideoAssumption DEF OperatorsExplained
  <2>9. OthersExplained'
    BY <1>0, <2>1, <2>6 DEF OthersExplained, LinkTyping
  <2> QED BY <2>4, <2>5, <2>7, <2>8, <2>9 DEF LinkInv
<1>7. ASSUME UNCHANGED <<opVars, extCalls, linkSignals, configured, videoLists, mAlreadyUseExten, removed>>,
             ScreenOK(Screen)'
      PROVE  LinkInv'
  <2>1. UNCHANGED <<opCalls, opButtons, renewed>>
    BY <1>7 DEF opVars, opZone
  <2>2. LinkTyping'
    BY <1>0, <1>7, <2>1 DEF LinkTyping, videoLists
  <2>3. OperatorsExplained' /\ OthersExplained'
    BY <1>0, <1>7, <2>1 DEF OperatorsExplained, OthersExplained, videoLists
  <2> QED BY <1>7, <2>2, <2>3, ListsStay
<1>8. ASSUME NEW w \in [1..Windows -> Window], mVideoWidgets' = w, UNCHANGED mAlreadyUseExten,
             \A i \in 1..Windows : \E j \in 1..Windows : w[i].key = mVideoWidgets[j].key
      PROVE  ScreenOK(Screen)'
  BY <1>0, <1>8 DEF ScreenOK, Screen
<1>9. ASSUME NEW i \in 1..Windows, PlayerStarts(i) \/ PlayerStops(i) PROVE LinkInv'
  <2>1. PICK p \in {"playing", "idle"} : mVideoWidgets' = [mVideoWidgets EXCEPT ![i].player = p]
    BY <1>9 DEF PlayerStarts, PlayerStops
  <2>2. UNCHANGED <<opVars, extCalls, linkSignals, configured, videoLists, mAlreadyUseExten, removed>>
    BY <1>9 DEF PlayerStarts, PlayerStops
  <2>3. mVideoWidgets \in [1..Windows -> Window]
    BY <1>0 DEF ScreenOK, Screen
  <2> DEFINE w == [mVideoWidgets EXCEPT ![i].player = p]
  <2>4. w \in [1..Windows -> Window] /\ \A j \in 1..Windows : w[j].key = mVideoWidgets[j].key
    BY <2>3 DEF Window
  <2> HIDE DEF w
  <2>5. mVideoWidgets' = w
    BY <2>1 DEF w
  <2> QED BY <2>2, <2>4, <2>5, <1>7, <1>8
<1>10. ASSUME NEW s, ChangeLayout(s) PROVE LinkInv'
  <2>1. /\ mVideoWidgets' = Sorted(mVideoWidgets)
        /\ UNCHANGED <<opVars, extCalls, linkSignals, configured, videoLists, mAlreadyUseExten, removed>>
    BY <1>10 DEF ChangeLayout
  <2>2. mVideoWidgets \in [1..Windows -> Window]
    BY <1>0 DEF ScreenOK, Screen
  <2> DEFINE w == Sorted(mVideoWidgets)
  <2>3. w \in [1..Windows -> Window] /\ \A i \in 1..Windows : \E j \in 1..Windows : w[i].key = mVideoWidgets[j].key
    BY <2>2, SortedIs
  <2> HIDE DEF w
  <2>4. mVideoWidgets' = w
    BY <2>1 DEF w
  <2> QED BY <2>1, <2>3, <2>4, <1>7, <1>8
<1>11. CASE UNCHANGED linkVars
  <2>1. UNCHANGED <<opVars, extCalls, linkSignals, configured, videoLists, mAlreadyUseExten, removed, screen>>
    BY <1>11 DEF linkVars, videoVars, screen
  <2> QED BY <2>1, <1>s, <1>7
<1> QED BY <1>1, <1>2, <1>3, <1>4, <1>5, <1>6, <1>9, <1>10, <1>11 DEF LinkNext

\* The operators' buttons alone leave the lists empty, as the linkage found them.
LEMMA OperatorsAlone ==
    ASSUME LinkInv, LinkRests, part # "video", OpNext, UNCHANGED videoVars
    PROVE  LinkInv'
<1>1. UNCHANGED <<extCalls, linkSignals, configured, videoLists, screen, removed, mAlreadyUseExten,
                  mVideoWidgets, side, mActiveExtenNumber, mPasvExtenNumber, mBroadcastExtenNumber>>
  BY DEF videoVars, screen, videoLists
<1>2. LinkTyping
  BY DEF LinkInv
<1>3. /\ opCalls' \in [Ops -> SUBSET Exts]
      /\ ~renewed' => opButtons' = Ops
      /\ renewed' \in BOOLEAN
  <2>1. ASSUME NEW op \in Ops, NEW S \in SUBSET Exts, OpCall(op, S)
        PROVE  opCalls' = [opCalls EXCEPT ![op] = S] /\ UNCHANGED <<opButtons, renewed>>
    BY <2>1 DEF OpCall
  <2>2. ASSUME NEW op \in Ops, TakeOpSignal(op) \/ ClickOp(op)
        PROVE  UNCHANGED <<opCalls, opButtons, renewed>>
    BY <2>2 DEF TakeOpSignal, ClickOp
  <2>3. ASSUME Click3Way \/ Dial3Way PROVE UNCHANGED <<opCalls, opButtons, renewed>>
    BY <2>3 DEF Click3Way, Dial3Way
  <2>4. ASSUME RefreshOperatorsZone PROVE renewed' = TRUE /\ UNCHANGED opCalls
    BY <2>4 DEF RefreshOperatorsZone
  <2> QED BY <1>2, <2>1, <2>2, <2>3, <2>4 DEF OpNext, LinkTyping
<1>4. LinkTyping'
  BY <1>1, <1>2, <1>3 DEF LinkTyping
<1>5. Screen' = Screen
  BY <1>1 DEF Screen
<1>6. ScreenOK(Screen)'
  BY <1>5 DEF LinkInv, ScreenOK
<1>7. OperatorsExplained' /\ OthersExplained'
  BY <1>1 DEF LinkInv, LinkRests, OperatorsExplained, OthersExplained
<1> QED BY <1>1, <1>4, <1>6, <1>7, ListsStay

\* A step of the main window is one of the linkage, one of the operators' buttons alone, or
\* leaves both alone.
LEMMA LinkStays == LinkInv /\ LinkRests /\ [MainNext]_mainVars => LinkInv' /\ LinkRests'
<1> SUFFICES ASSUME LinkInv, LinkRests, [MainNext]_mainVars PROVE LinkInv' /\ LinkRests'
  OBVIOUS
<1>1. part' = part
  BY DEF MainNext, mainVars
<1>2. CASE part = "video" /\ LinkNext
  <2>1. LinkInv'
    BY <1>2, LinkStep
  <2> QED BY <1>1, <1>2, <2>1 DEF LinkRests
<1>3. CASE part = "operators" /\ OpNext /\ UNCHANGED videoVars
  <2>1. LinkInv'
    BY <1>3, OperatorsAlone
  <2>2. LinkRests'
    BY <1>1, <1>3 DEF LinkRests, videoVars, videoLists, screen
  <2> QED BY <2>1, <2>2
<1>4. CASE UNCHANGED linkVars
  <2>1. LinkInv'
    BY <1>4, LinkStep
  <2>2. LinkRests'
    BY <1>1, <1>4 DEF LinkRests, linkVars, videoVars, videoLists, screen
  <2> QED BY <2>1, <2>2
<1> QED BY <1>2, <1>3, <1>4 DEF MainNext, mainVars

\* Once the signals are taken, a labelled video window is of an extension in a call, for any
\* number of windows, cameras, operators and calls of any kind that overlap
\* (videolinkagewidget.cpp:167-241, 245-349).
THEOREM NoGhostWindows == MainSpec => []NoGhostVideo
BY LinkInitially, LinkStays, LinkRuled, PTL DEF MainSpec

\* The smallest layout that has room.
LEMMA SideForIs == \A count \in Nat \ {0} : SideFor(count) \in 1..MaxSide
<1> TAKE count \in Nat \ {0}
<1>1. MaxSide \in Nat \ {0}
  BY VideoAssumption DEF VideoAssumption
<1>2. CASE count > Windows
  BY <1>1, <1>2 DEF SideFor
<1>3. CASE ~(count > Windows)
  <2> DEFINE roomy == {s \in 1..MaxSide : s * s >= count}
  <2>1. roomy \subseteq Nat /\ roomy # {}
    <3>1. MaxSide * MaxSide >= count /\ MaxSide \in 1..MaxSide
      BY <1>1, <1>3, WindowsNat DEF Windows
    <3> QED BY <1>1, <3>1
  <2>2. PICK k \in roomy : \A j \in roomy : ~ (<<j, k>> \in OpToRel(<, Nat))
    BY <2>1, WFMin, NatLessThanWellFounded
  <2>3. k \in 1..MaxSide /\ k * k >= count
    OBVIOUS
  <2>4. (k - 1) * (k - 1) < count
    <3>1. CASE k = 1
      <4>1. (k - 1) * (k - 1) = 0
        BY <3>1
      <4> QED BY <4>1
    <3>2. CASE k # 1
      <4> DEFINE j == k - 1
      <4>1. j \in 1..MaxSide /\ j < k /\ j \in Nat /\ k \in Nat
        BY <2>3, <3>2, <1>1
      <4>2. j \notin roomy
        BY <2>2, <4>1 DEF OpToRel
      <4>3. j * j \in Nat
        BY <4>1
      <4>4. ~(j * j >= count)
        BY <4>1, <4>2
      <4> QED BY <4>3, <4>4
    <3> QED BY <3>1, <3>2
  <2>5. (CHOOSE s \in 1..MaxSide : s * s >= count /\ (s - 1) * (s - 1) < count) \in 1..MaxSide
    <3> DEFINE Fits(s) == s * s >= count /\ (s - 1) * (s - 1) < count
    <3>1. \E s \in 1..MaxSide : Fits(s)
      BY <2>3, <2>4
    <3> HIDE DEF Fits
    <3>2. (CHOOSE s \in 1..MaxSide : Fits(s)) \in 1..MaxSide
      BY <3>1
    <3> QED BY <3>2 DEF Fits
  <2> QED BY <1>3, <2>5 DEF SideFor
<1> QED BY <1>2, <1>3

\* The layout is one of those there are.
ScreenTyped ==
    /\ side \in 1..MaxSide
    /\ linkSignals \subseteq Ops \cup Exts
    /\ removed \subseteq Exts

\* What opens and closes windows leaves a layout that there is.
LEMMA SideKept ==
    ASSUME ScreenOK(Screen), side \in 1..MaxSide, NEW opened \in SUBSET Exts, NEW closed,
           OpenAndClose(opened, closed)
    PROVE  side' \in 1..MaxSide
<1> DEFINE s == Open(Screen, opened)
<1>1. side' = Close(s, closed).side
  BY DEF OpenAndClose, Screen
<1>2. opened = {} \/ \E i \in 1..Windows : IsIdle(Screen.windows[i])
  BY DEF OpenAndClose, Screen
<1>3. ScreenOK(s)
  BY <1>2, OpenKeeps
<1>4. s.side \in 1..MaxSide
  <2> DEFINE keys == opened \cap configured
             count == Len(Wanted(keys)) + Occupied(Screen.windows)
  <2>1. opened = {} \/ count = 0 => s = Screen
    BY DEF Open
  <2>2. ~(opened = {} \/ count = 0) => s.side = SideFor(count)
    BY DEF Open
  <2>3. opened # {} => count \in Nat
    <3>1. Wanted(keys) \in Seq(keys)
      BY WantedOf
    <3>2. Len(Wanted(keys)) \in Nat
      BY <3>1
    <3>3. opened # {} => Occupied(Screen.windows) \in Nat
      BY <1>2, OccupiedNat
    <3> QED BY <3>2, <3>3
  <2> HIDE DEF count, s
  <2>4. CASE opened = {} \/ count = 0
    BY <2>1, <2>4 DEF Screen
  <2>5. CASE ~(opened = {} \/ count = 0)
    BY <2>2, <2>3, <2>5, SideForIs
  <2> QED BY <2>4, <2>5
<1> HIDE DEF s
<1>5. Close(s, closed).side = s.side
  BY <1>3 DEF Close, ScreenOK
<1> QED BY <1>1, <1>4, <1>5

\* The layout at first.
LEMMA ScreenInitially == VideoInit => ScreenTyped
BY VideoAssumption DEF VideoInit, ScreenTyped, VideoAssumption

\* Every call, signal, setting and player keeps the layout one of those there are.
LEMMA ScreenStep == LinkInv /\ ScreenTyped /\ [LinkNext]_linkVars => ScreenTyped'
<1> SUFFICES ASSUME LinkInv, ScreenTyped, [LinkNext]_linkVars PROVE ScreenTyped'
  OBVIOUS
<1> USE DEF ScreenTyped
<1>0. LinkTyping /\ ScreenOK(Screen)
  BY DEF LinkInv
<1>1. CASE ZoneRenewed \/ UNCHANGED linkVars
  BY <1>1 DEF ZoneRenewed, linkVars, videoVars, screen
<1>2. ASSUME NEW op \in Ops, NEW S, OperatorCall(op, S) PROVE ScreenTyped'
  BY <1>2 DEF OperatorCall, screen
<1>3. ASSUME NEW op \in Ops, OperatorExtenStateChanged(op) PROVE ScreenTyped'
  <2> DEFINE called == opCalls[op] \cap configured
             opened == called \ mActiveExtenNumber[op]
             closed == mActiveExtenNumber[op] \ called
  <2>1. /\ linkSignals' = linkSignals \ {op} /\ OpenAndClose(opened, closed) /\ removed' = removed
    BY <1>3, Zenon DEF OperatorExtenStateChanged
  <2>2. opened \in SUBSET Exts
    BY <1>0 DEF LinkTyping
  <2> HIDE DEF opened, closed
  <2>3. side' \in 1..MaxSide
    BY <1>0, <2>1, <2>2, SideKept
  <2> QED BY <2>1, <2>3
<1>4. ASSUME NEW e \in Exts, NEW kinds, ExtensionCall(e, kinds) PROVE ScreenTyped'
  BY <1>4 DEF ExtensionCall, screen
<1>5. ASSUME NEW e \in Exts, Configure(e) PROVE ScreenTyped'
  BY <1>5 DEF Configure, screen
<1>6. ASSUME NEW e \in Exts, ExtenStateChanged(e) PROVE ScreenTyped'
  <2> DEFINE now(kind, list_) == IF e \notin configured THEN list_
                                 ELSE IF kind \in extCalls[e] THEN list_ \cup {e} ELSE list_ \ {e}
             pasv == now("group", mPasvExtenNumber)
             broadcast == now("broadcast", mBroadcastExtenNumber)
             opened == (pasv \ mPasvExtenNumber) \cup (broadcast \ mBroadcastExtenNumber)
             closed == (mPasvExtenNumber \ pasv) \cup (mBroadcastExtenNumber \ broadcast)
  <2>1. /\ linkSignals' = linkSignals \ {e} /\ OpenAndClose(opened, closed) /\ removed' = removed
    BY <1>6, Zenon DEF ExtenStateChanged
  <2>2. opened \in SUBSET Exts
    BY <1>0 DEF LinkTyping
  <2> HIDE DEF opened, closed
  <2>3. side' \in 1..MaxSide
    BY <1>0, <2>1, <2>2, SideKept
  <2> QED BY <2>1, <2>3
<1>7. ASSUME NEW i, PlayerStarts(i) \/ PlayerStops(i) PROVE ScreenTyped'
  BY <1>7 DEF PlayerStarts, PlayerStops
<1>8. ASSUME NEW s \in 1..MaxSide, ChangeLayout(s) PROVE ScreenTyped'
  BY <1>8 DEF ChangeLayout
<1> QED BY <1>1, <1>2, <1>3, <1>4, <1>5, <1>6, <1>7, <1>8 DEF LinkNext

-----------------------------------------------------------------------------
(* The plan editors.                                                       *)

\* A plan, begun as one of the tasks up to t.
IsPlan(p, t) ==
    /\ p = [id |-> p.id, task |-> p.task, timed |-> p.timed, ready |-> p.ready,
            files |-> p.files, people |-> p.people]
    /\ p.id \in Nat /\ p.task \in 0..t
    /\ p.timed \in BOOLEAN /\ p.ready \in BOOLEAN
    /\ p.id # 0 => Sent(p)

\* The plans on record and in the editor.
PlanShapes ==
    /\ tasks \in Nat /\ created \in Nat
    /\ plans = [id \in DOMAIN plans |-> plans[id]]
    /\ \A id \in DOMAIN plans : id \in 1..created /\ IsPlan(plans[id], tasks) /\ plans[id].id = id
    /\ IsPlan(mPlan, tasks)

\* A task has two plans, or the plan in the editor another's id, only where its creation had no
\* reply of its own.
OnePlanEach ==
    /\ \A p, q \in DOMAIN plans : plans[p].task = plans[q].task => p = q \/ plans[p].task \in replyLost
    /\ mPlan.id = 0 => \A p \in DOMAIN plans : plans[p].task = mPlan.task => mPlan.task \in replyLost
    /\ mPlan.id \in DOMAIN plans => plans[mPlan.id].task = mPlan.task \/ mPlan.task \in replyLost

\* The plan in the editor is on record as it is.
EditorOnRecord ==
    mPlan.id \in DOMAIN plans /\ ~saveFailed /\ (mPlan.timed => activity # "editor") =>
        plans[mPlan.id] = mPlan

\* The inductive invariant.
RecordInv == PlanShapes /\ OnePlanEach /\ EditorOnRecord

\* A plan stays one as the tasks go up.
LEMMA PlanStays ==
    ASSUME NEW p, NEW t \in Nat, NEW t1 \in Nat, t1 >= t, IsPlan(p, t)
    PROVE  IsPlan(p, t1)
BY DEF IsPlan

\* The plan in the editor, as a change of its files and members leaves it.
Like(plan) ==
    /\ plan = [id |-> mPlan.id, task |-> mPlan.task, timed |-> mPlan.timed, ready |-> mPlan.ready,
               files |-> plan.files, people |-> plan.people]

\* A save, however its calls end.
LEMMA SaveKeeps ==
    ASSUME RecordInv, NEW plan, Like(plan), NEW ends \in Ends,
           SaveAndReload(plan, ends), tasks' = tasks
    PROVE  RecordInv'
<1> USE DEF RecordInv
<1> DEFINE end == ends["plan"]
<1>1. /\ plan.id = mPlan.id /\ plan.task = mPlan.task /\ plan.timed = mPlan.timed
      /\ plan.ready = mPlan.ready /\ IsPlan(plan, tasks)
  BY DEF Like, PlanShapes, IsPlan, Sent
<1>2. CASE ~Sent(plan)
  <2>1. plan.id = 0
    BY <1>1, <1>2 DEF IsPlan
  <2>2. plans' = plans /\ created' = created /\ replyLost' = replyLost /\ mPlan' = plan
    BY <1>2 DEF SaveAndReload, LoadData, planHistory
  <2>3. PlanShapes'
    BY <1>1, <2>2 DEF PlanShapes, IsPlan
  <2>4. OnePlanEach'
    BY <1>1, <2>1, <2>2 DEF OnePlanEach, PlanShapes
  <2>5. EditorOnRecord'
    BY <2>1, <2>2 DEF EditorOnRecord, PlanShapes
  <2> QED BY <2>3, <2>4, <2>5
<1>3. CASE Sent(plan) /\ plan.id # 0
  <2>1. PICK done \in Done(end) : Update(plan, done) /\ LoadData(plan, ends)
    BY <1>3 DEF SaveAndReload
  <2>2. /\ plans' = (IF done /\ plan.id \in DOMAIN plans THEN [plans EXCEPT ![plan.id] = plan] ELSE plans)
        /\ created' = created /\ replyLost' = replyLost /\ mPlan' = plan
        /\ saveFailed' = (end # "own")
    BY <1>3, <2>1 DEF SaveAndReload, LoadData, Update
  <2>3. DOMAIN plans' = DOMAIN plans
    BY <2>2
  <2>4. \A id \in DOMAIN plans : plans'[id] = plans[id] \/ (id = plan.id /\ plans'[id] = plan)
    BY <2>2
  <2>5. plans' = [id \in DOMAIN plans' |-> plans'[id]]
    BY <2>2 DEF PlanShapes
  <2>6. PlanShapes'
    BY <1>1, <2>2, <2>3, <2>4, <2>5 DEF PlanShapes, IsPlan
  <2>7. \A id \in DOMAIN plans : \/ plans'[id].task = plans[id].task
                                 \/ id = plan.id /\ plans'[id].task = plan.task /\ plan.task \in replyLost
    BY <1>1, <2>4 DEF OnePlanEach
  <2>8. OnePlanEach'
    <3>1. ASSUME NEW p \in DOMAIN plans, NEW q \in DOMAIN plans, plans'[p].task = plans'[q].task, p # q
          PROVE  plans'[p].task \in replyLost
      <4>1. CASE plans'[p].task = plans[p].task /\ plans'[q].task = plans[q].task
        BY <3>1, <4>1 DEF OnePlanEach
      <4>2. CASE plans'[p].task = plan.task /\ plan.task \in replyLost
        BY <4>2
      <4>3. CASE plans'[q].task = plan.task /\ plan.task \in replyLost
        BY <3>1, <4>3
      <4> QED BY <4>1, <4>2, <4>3, <2>7
    <3>2. mPlan'.id # 0
      BY <1>3, <2>2
    <3>3. mPlan'.id \in DOMAIN plans => plans'[mPlan'.id].task = mPlan'.task \/ mPlan'.task \in replyLost
      BY <1>1, <2>2, <2>7 DEF OnePlanEach
    <3> QED BY <2>2, <2>3, <3>1, <3>2, <3>3 DEF OnePlanEach
  <2>9. EditorOnRecord'
    <3>1. end = "own" => done
      BY DEF Done
    <3> QED BY <2>2, <2>3, <3>1 DEF EditorOnRecord, PlanShapes
  <2> QED BY <2>6, <2>8, <2>9
<1>4. CASE Sent(plan) /\ plan.id = 0
  <2>1. PICK done \in Done(end) : Create(plan, done, end)
                                  /\ \E id \in NewIds(end) : LoadData([plan EXCEPT !.id = id], ends)
    BY <1>4 DEF SaveAndReload
  <2>2. PICK id \in NewIds(end) : LoadData([plan EXCEPT !.id = id], ends)
    BY <2>1
  <2>3. /\ created' = (IF done THEN created + 1 ELSE created)
        /\ plans' = (IF ~done THEN plans
                     ELSE [i \in DOMAIN plans \cup {created'} |->
                              IF i = created' THEN [plan EXCEPT !.id = created'] ELSE plans[i]])
        /\ replyLost' = (IF end = "own" THEN replyLost ELSE replyLost \cup {plan.task})
        /\ mPlan' = [plan EXCEPT !.id = id]
        /\ saveFailed' = (end # "own")
        /\ end = "own" => done /\ id = created'
    <3>1. saveFailed' = (end # "own")
      BY <1>4 DEF SaveAndReload
    <3>2. mPlan' = [plan EXCEPT !.id = id]
      BY <2>2 DEF LoadData
    <3>3. end = "own" => done /\ id = created'
      BY <2>1, <2>2 DEF Done, NewIds
    <3> HIDE DEF end
    <3> QED BY <2>1, <3>1, <3>2, <3>3 DEF Create
  <2>4. created \in Nat /\ created' \in Nat /\ created' >= created /\ tasks \in Nat
    BY <2>3 DEF PlanShapes
  <2>5. \A i \in DOMAIN plans : i \in 1..created /\ i # created + 1
    BY <2>4 DEF PlanShapes
  <2>6. id \in Nat
    <3>1. \A i \in DOMAIN plans' : i \in Nat
      BY <2>3, <2>4, <2>5
    <3> QED BY <2>4, <3>1, PlanAssumption DEF NewIds, NoPlan, PlanAssumption
  <2>7. /\ mPlan'.id = id /\ mPlan'.task = plan.task /\ mPlan'.timed = plan.timed
        /\ mPlan'.ready = plan.ready /\ mPlan'.files = plan.files /\ mPlan'.people = plan.people
        /\ mPlan' = [id |-> mPlan'.id, task |-> mPlan'.task, timed |-> mPlan'.timed,
                     ready |-> mPlan'.ready, files |-> mPlan'.files, people |-> mPlan'.people]
    BY <2>3, <1>1 DEF IsPlan
  <2>8. IsPlan(mPlan', tasks')
    BY <1>1, <1>4, <2>4, <2>6, <2>7 DEF IsPlan, Sent
  <2>9. CASE ~done
    <3>1. /\ plans' = plans /\ created' = created /\ replyLost \subseteq replyLost'
          /\ plan.task \in replyLost' /\ saveFailed'
      BY <2>3, <2>9
    <3>2. PlanShapes'
      BY <2>8, <3>1 DEF PlanShapes, IsPlan
    <3>3. OnePlanEach'
      BY <3>1, <2>7 DEF OnePlanEach
    <3>4. EditorOnRecord'
      BY <3>1 DEF EditorOnRecord
    <3> QED BY <3>2, <3>3, <3>4
  <2>10. CASE done
    <3> DEFINE fresh == [plan EXCEPT !.id = created']
    <3>1. /\ created' = created + 1
          /\ plans' = [i \in DOMAIN plans \cup {created'} |-> IF i = created' THEN fresh ELSE plans[i]]
          /\ replyLost \subseteq replyLost'
      BY <2>3, <2>10
    <3>2. /\ DOMAIN plans' = DOMAIN plans \cup {created'}
          /\ plans'[created'] = fresh
          /\ \A i \in DOMAIN plans : plans'[i] = plans[i]
          /\ plans' = [i \in DOMAIN plans' |-> plans'[i]]
      BY <3>1, <2>5
    <3>3. /\ fresh = [id |-> fresh.id, task |-> fresh.task, timed |-> fresh.timed,
                      ready |-> fresh.ready, files |-> fresh.files, people |-> fresh.people]
          /\ fresh.id = created' /\ fresh.task = plan.task /\ fresh.timed = plan.timed
          /\ fresh.ready = plan.ready
      BY <1>1 DEF IsPlan
    <3>4. created' \in 1..created'
      BY <2>4, <3>1
    <3>5. IsPlan(plans'[created'], tasks')
      BY <1>1, <1>4, <2>4, <3>2, <3>3 DEF IsPlan, Sent
    <3>6. \A i \in DOMAIN plans : IsPlan(plans'[i], tasks') /\ i \in 1..created' /\ plans'[i].id = i
      <4> TAKE i \in DOMAIN plans
      <4>1. IsPlan(plans[i], tasks) /\ plans[i].id = i /\ i \in 1..created
        BY DEF PlanShapes
      <4>2. plans'[i] = plans[i]
        BY <3>2
      <4> QED BY <4>1, <4>2, <2>4 DEF IsPlan
    <3>7. PlanShapes'
      BY <2>4, <2>8, <3>2, <3>3, <3>4, <3>5, <3>6 DEF PlanShapes
    <3>8. \A i \in DOMAIN plans : plans'[i].task = plan.task => plan.task \in replyLost'
      BY <1>1, <1>4, <3>1, <3>2 DEF OnePlanEach
    <3>9. /\ \A p, q \in DOMAIN plans' : plans'[p].task = plans'[q].task => p = q \/ plans'[p].task \in replyLost'
      BY <3>1, <3>2, <3>3, <3>8 DEF OnePlanEach
    <3>10. CASE end # "own"
      <4>1. saveFailed' /\ mPlan'.task \in replyLost'
        BY <2>3, <2>7, <3>10
      <4>2. OnePlanEach'
        BY <4>1, <3>9 DEF OnePlanEach
      <4>3. EditorOnRecord'
        BY <4>1 DEF EditorOnRecord
      <4> QED BY <3>7, <4>2, <4>3
    <3>11. CASE end = "own"
      <4>1. mPlan' = fresh /\ mPlan'.id = created'
        BY <2>3, <2>7, <3>11
      <4>2. OnePlanEach'
        BY <4>1, <3>3, <3>4, <3>9, <3>2 DEF OnePlanEach
      <4>3. EditorOnRecord'
        BY <4>1, <3>2 DEF EditorOnRecord
      <4> QED BY <3>7, <4>2, <4>3
    <3> QED BY <3>10, <3>11
  <2> QED BY <2>9, <2>10
<1> QED BY <1>2, <1>3, <1>4

\* A plan like the one in the editor.
LEMMA LikeChanged ==
    ASSUME RecordInv, NEW S
    PROVE  /\ Like(mPlan)
           /\ Like([mPlan EXCEPT !.people = S])
           /\ Like([mPlan EXCEPT !.files = S])
BY DEF RecordInv, PlanShapes, IsPlan, Like

\* Every step of the editors keeps the invariant.
LEMMA RecordStep == RecordInv /\ [PlanNext]_planVars => RecordInv'
<1> SUFFICES ASSUME RecordInv, [PlanNext]_planVars PROVE RecordInv'
  OBVIOUS
<1> USE DEF RecordInv
<1>0. ASSUME plans' = plans, mPlan' = mPlan, tasks' = tasks, created' = created,
             saveFailed' = saveFailed, replyLost' = replyLost,
             mPlan.timed /\ activity' # "editor" => activity # "editor"
      PROVE  RecordInv'
  BY <1>0 DEF PlanShapes, OnePlanEach, EditorOnRecord, IsPlan
<1>00. ASSUME NEW plan, plans' = plans, created' = created, replyLost' = replyLost, mPlan' = plan,
              activity' = "editor", tasks' \in Nat, tasks' >= tasks, IsPlan(plan, tasks'),
              plan.id = 0 => \A p \in DOMAIN plans : plans[p].task # plan.task,
              plan.id # 0 => plan.id \in DOMAIN plans /\ plan = plans[plan.id]
       PROVE  RecordInv'
  <2>1. \A id \in DOMAIN plans : id \in 1..created /\ IsPlan(plans[id], tasks') /\ plans[id].id = id
    BY <1>00, PlanStays DEF PlanShapes, IsPlan
  <2>2. PlanShapes'
    BY <1>00, <2>1 DEF PlanShapes
  <2>3. OnePlanEach'
    BY <1>00 DEF OnePlanEach, PlanShapes
  <2>4. EditorOnRecord'
    BY <1>00 DEF EditorOnRecord, PlanShapes
  <2> QED BY <2>2, <2>3, <2>4
<1>1. ASSUME NEW ends, NEW timed \in BOOLEAN, BtnNewClicked(timed, ends) PROVE RecordInv'
  <2> DEFINE plan == NewPlan(tasks + 1, timed)
  <2>1. /\ tasks' = tasks + 1 /\ tasks \in Nat
        /\ plans' = plans /\ created' = created /\ replyLost' = replyLost /\ mPlan' = plan
        /\ activity' = "editor"
    BY <1>1 DEF BtnNewClicked, LoadData, LoadActivity, PlanShapes
  <2>2. /\ plan.id = 0 /\ plan.task = tasks + 1 /\ plan.timed = timed /\ plan.ready = FALSE
        /\ plan = [id |-> plan.id, task |-> plan.task, timed |-> plan.timed, ready |-> plan.ready,
                   files |-> plan.files, people |-> plan.people]
    BY DEF NewPlan
  <2>3. plan.id \in Nat /\ plan.task \in 0..tasks'
    BY <2>1, <2>2 DEF PlanShapes
  <2>4. \A p \in DOMAIN plans : plans[p].task # plan.task
    BY <2>1, <2>2 DEF PlanShapes, IsPlan
  <2> HIDE DEF plan
  <2>5. IsPlan(plan, tasks')
    BY <2>2, <2>3, <2>1 DEF IsPlan
  <2>6. tasks' \in Nat /\ tasks' >= tasks
    BY <2>1
  <2> QED BY <1>00, <2>1, <2>2, <2>4, <2>5, <2>6
<1>2. ASSUME NEW ends \in Ends, NEW id \in DOMAIN plans, PopupActionEdit(id, ends) PROVE RecordInv'
  <2>1. PICK plan \in Versions(plans[id], ends["plan"]) : LoadData(plan, ends)
    BY <1>2 DEF PopupActionEdit
  <2>2. /\ plans' = plans /\ created' = created /\ replyLost' = replyLost /\ mPlan' = plan
        /\ activity' = "editor" /\ tasks' = tasks /\ saveFailed' = (ends["plan"] # "own")
    BY <1>2, <2>1 DEF PopupActionEdit, LoadData, LoadActivity
  <2>3. /\ plans[id].id = id /\ id # 0 /\ IsPlan(plans[id], tasks)
    BY DEF PlanShapes
  <2>4. /\ plan.id = id /\ plan.task = plans[id].task /\ IsPlan(plan, tasks)
        /\ ends["plan"] = "own" => plan = plans[id]
    <3>1. CASE ends["plan"] = "own"
      BY <2>1, <2>3, <3>1 DEF Versions
    <3>2. CASE ends["plan"] # "own"
      <4>1. /\ plan.id = plans[id].id /\ plan.task = plans[id].task
            /\ plan.timed = plans[id].timed /\ plan.ready = plans[id].ready
            /\ plan = [id |-> plan.id, task |-> plan.task, timed |-> plan.timed, ready |-> plan.ready,
                       files |-> plan.files, people |-> plan.people]
        BY <2>1, <3>2 DEF Versions
      <4> QED BY <4>1, <2>3, <3>2 DEF IsPlan, Sent
    <3> QED BY <3>1, <3>2
  <2>5. PlanShapes'
    BY <2>2, <2>4 DEF PlanShapes, IsPlan
  <2>6. OnePlanEach' /\ EditorOnRecord'
    BY <2>2, <2>3, <2>4 DEF OnePlanEach, EditorOnRecord
  <2> QED BY <2>5, <2>6
<1>3. ASSUME NEW id \in DOMAIN plans, NEW end, PopupActionDelete(id, end) PROVE RecordInv'
  <2>1. PICK done \in Done(end) :
            plans' = [other \in IF done THEN DOMAIN plans \ {id} ELSE DOMAIN plans |-> plans[other]]
    BY <1>3 DEF PopupActionDelete
  <2>2. /\ mPlan' = mPlan /\ activity' = activity /\ tasks' = tasks /\ created' = created
        /\ saveFailed' = saveFailed /\ replyLost' = replyLost
    BY <1>3 DEF PopupActionDelete, editor, planHistory
  <2>3. /\ DOMAIN plans' \subseteq DOMAIN plans
        /\ \A other \in DOMAIN plans' : plans'[other] = plans[other]
        /\ plans' = [other \in DOMAIN plans' |-> plans'[other]]
    BY <2>1
  <2>4. PlanShapes'
    BY <2>2, <2>3 DEF PlanShapes, IsPlan
  <2>5. OnePlanEach'
    BY <2>2, <2>3 DEF OnePlanEach
  <2>6. EditorOnRecord'
    BY <2>2, <2>3 DEF EditorOnRecord
  <2> QED BY <2>4, <2>5, <2>6
<1>4. ASSUME NEW f, Uploaded(f) \/ BtnDeleteClicked(f) PROVE RecordInv'
  BY <1>0, <1>4 DEF Uploaded, BtnDeleteClicked, editor, planCounts, planHistory
<1>5. ASSUME NEW ends \in Ends, Leave("book", ends) \/ Leave("settings", ends)
      PROVE  RecordInv'
  <2>1. CASE mPlan.timed
    BY <1>5, <2>1, SaveKeeps, LikeChanged DEF Leave
  <2>2. CASE ~mPlan.timed
    BY <1>5, <2>2, <1>0 DEF Leave, editor, planHistory
  <2> QED BY <2>1, <2>2
<1>6. ASSUME NEW ends \in Ends, NEW S, Resume(S, ends) PROVE RecordInv'
  <2> DEFINE plan == [mPlan EXCEPT !.people = @ \cup S]
  <2>1. Like(plan)
    BY LikeChanged
  <2>2. CASE S # {}
    <3>1. SaveAndReload(plan, ends) /\ tasks' = tasks
      BY <1>6, <2>2 DEF Resume
    <3> HIDE DEF plan
    <3> QED BY <3>1, <2>1, SaveKeeps
  <2>3. CASE S = {}
    BY <1>6, <2>3, <1>0 DEF Resume, editor, planHistory
  <2> QED BY <2>2, <2>3
<1>7. ASSUME NEW plan, Like(plan), NEW ends \in Ends, ChangeAndSave(plan, ends)
      PROVE  RecordInv'
  BY <1>7, SaveKeeps DEF ChangeAndSave
<1>8. ASSUME NEW ends \in Ends, NEW S, BtnDeleteMemberClicked(S, ends) PROVE RecordInv'
  BY <1>7, <1>8, LikeChanged DEF BtnDeleteMemberClicked
<1>9. ASSUME NEW ends \in Ends, BtnSmsSaveClicked(ends) PROVE RecordInv'
  BY <1>7, <1>9, LikeChanged DEF BtnSmsSaveClicked
<1>10. ASSUME NEW ends \in Ends, BtnBroadcastFileSaveClicked(ends) PROVE RecordInv'
  BY <1>7, <1>10, LikeChanged DEF BtnBroadcastFileSaveClicked
<1>11. ASSUME NEW i, FileListViewClicked(i) PROVE RecordInv'
  BY <1>0, <1>11 DEF FileListViewClicked, ChangeOnly, planHistory
<1>12. ASSUME TypeSms PROVE RecordInv'
  BY <1>0, <1>12 DEF TypeSms, ChangeOnly, planHistory
<1>13. ASSUME mPlan.timed, ChangeOnly,
              mPlan' = [mPlan EXCEPT !.ready = TRUE] \/ \E files : mPlan' = [mPlan EXCEPT !.files = files]
       PROVE  RecordInv'
  <2>1. /\ plans' = plans /\ created' = created /\ replyLost' = replyLost /\ tasks' = tasks
        /\ activity' = "editor" /\ saveFailed' = saveFailed
    BY <1>13 DEF ChangeOnly, planHistory
  <2>2. /\ mPlan'.id = mPlan.id /\ mPlan'.task = mPlan.task /\ mPlan'.timed = mPlan.timed
        /\ mPlan'.ready \in {TRUE, mPlan.ready}
        /\ mPlan' = [id |-> mPlan'.id, task |-> mPlan'.task, timed |-> mPlan'.timed,
                     ready |-> mPlan'.ready, files |-> mPlan'.files, people |-> mPlan'.people]
    BY <1>13 DEF PlanShapes, IsPlan
  <2>3. IsPlan(mPlan', tasks')
    BY <2>1, <2>2 DEF PlanShapes, IsPlan, Sent
  <2>4. PlanShapes'
    BY <2>1, <2>3 DEF PlanShapes, IsPlan
  <2>5. OnePlanEach'
    BY <2>1, <2>2 DEF OnePlanEach
  <2>6. EditorOnRecord'
    BY <1>13, <2>1, <2>2 DEF EditorOnRecord
  <2> QED BY <2>4, <2>5, <2>6
<1>14. ASSUME NEW moved, Move(moved) PROVE RecordInv'
  BY <1>13, <1>14 DEF Move
<1>15. ASSUME NEW ends, BtnSelectRecordFileClicked(ends) PROVE RecordInv'
  BY <1>13, <1>15 DEF BtnSelectRecordFileClicked
<1>16. ASSUME BtnTimeSettingEditClicked PROVE RecordInv'
  BY <1>13, <1>16 DEF BtnTimeSettingEditClicked
<1>17. ASSUME UNCHANGED planVars PROVE RecordInv'
  BY <1>0, <1>17 DEF planVars, editor, planCounts, planHistory
<1>18. ASSUME BtnMoveUpClicked \/ BtnMoveDownClicked PROVE RecordInv'
  BY <1>14, <1>18 DEF BtnMoveUpClicked, BtnMoveDownClicked
<1> QED
  BY <1>1, <1>2, <1>3, <1>4, <1>5, <1>6, <1>8, <1>9, <1>10, <1>11, <1>12, <1>18, <1>15, <1>16, <1>17
  DEF PlanNext

\* At first there is no plan.
LEMMA RecordInit == PlanInit => RecordInv
BY DEF PlanInit, RecordInv, PlanShapes, OnePlanEach, EditorOnRecord, IsPlan, NewPlan, Sent

\* The plan editors act as specified whatever else the main window does.
LEMMA MainPlans == MainSpec => PlanSpec
<1>1. MainInit => PlanInit
  BY DEF MainInit
<1>2. [MainNext]_mainVars => [PlanNext]_planVars
  BY DEF MainNext, mainVars, formVars
<1> QED BY <1>1, <1>2, PTL DEF MainSpec, PlanSpec

\* A plan begun is one plan on the server and its editor changes no other, unless its creation
\* got no reply of its own; and the plan in an editor is on record as it is, unless the last
\* save or reading of it got none, or a timed broadcast is still in its editor: for any number
\* of plans, files and people, and in both builds (EventPlanEditor.cpp:283-292,
\* TimedBroadcastEditor.cpp:489-531).
THEOREM PlansOnRecord == MainSpec => []OnRecord
<1>1. RecordInv => OnRecord
  BY DEF RecordInv, OnePlanEach, EditorOnRecord, OnRecord
<1> QED BY RecordInit, RecordStep, MainPlans, <1>1, PTL DEF PlanSpec

\* A sequence with the elements at two places exchanged.
Swap(s, i, j) == [s EXCEPT ![i] = s[j], ![j] = s[i]]

\* A move by one place exchanges two neighbours.
LEMMA MovedSwaps ==
    ASSUME NEW S, NEW s \in Seq(S), NEW i \in DOMAIN s, NEW j \in DOMAIN s, j = i + 1 \/ j = i - 1
    PROVE  Moved(s, i, j) = Swap(s, i, j)
<1> DEFINE r == RemoveAt(s, i)
           n == Len(s)
           e == s[i]
           d == InsertAt(r, j, e)
<1>0. n \in Nat /\ DOMAIN s = 1..n /\ i \in 1..n /\ j \in 1..n /\ i \in Int /\ j \in Int /\ e \in S
  OBVIOUS
<1>1. /\ r \in Seq(S) /\ Len(r) = n - 1
      /\ \A m \in 1..(i - 1) : r[m] = s[m]
      /\ \A m \in i..(n - 1) : r[m] = s[m + 1]
  BY <1>0, RemoveAtIs
<1>2. Moved(s, i, j) = d
  BY DEF Moved
<1> HIDE DEF r, e
<1>3. j \in 1..(Len(r) + 1)
  BY <1>0, <1>1
<1>4. /\ d \in Seq(S) /\ Len(d) = Len(r) + 1
      /\ \A m \in 1..(j - 1) : d[m] = r[m]
      /\ d[j] = e
      /\ \A m \in j..Len(r) : d[m + 1] = r[m]
  <2>1. e \in S /\ r \in Seq(S)
    BY <1>0, <1>1
  <2> HIDE DEF n
  <2>2. d \in Seq(S) /\ Len(d) = Len(r) + 1
    BY <2>1, <1>3, InsertAtIs
  <2>3. d[j] = e /\ \A m \in 1..(j - 1) : d[m] = r[m]
    BY <2>1, <1>3, InsertAtIs
  <2>4. \A m \in j..Len(r) : d[m + 1] = r[m]
    BY ONLY <2>1, <1>3, InsertAtIs
  <2> QED BY <2>2, <2>3, <2>4
<1>5. Len(d) = n /\ \A m \in (j + 1)..n : d[m] = r[m - 1]
  <2> HIDE DEF d
  <2>1. Len(d) = n
    BY <1>0, <1>1, <1>4
  <2>2. ASSUME NEW m \in (j + 1)..n PROVE d[m] = r[m - 1]
    <3>1. m - 1 \in j..Len(r) /\ (m - 1) + 1 = m
      BY <1>0, <1>1
    <3>2. d[(m - 1) + 1] = r[m - 1]
      BY <1>4, <3>1
    <3> QED BY <3>1, <3>2
  <2> QED BY <2>1, <2>2
<1> HIDE DEF d
<1>7. ASSUME NEW m \in 1..n
      PROVE  d[m] = IF m = i THEN s[j] ELSE IF m = j THEN e ELSE s[m]
  <2>1. CASE m < j
    <3>1. m \in 1..(j - 1) /\ d[m] = r[m]
      BY <1>0, <1>4, <2>1
    <3>2. CASE m < i
      <4>1. m \in 1..(i - 1)
        BY <3>2, <1>0
      <4> QED BY <3>1, <3>2, <2>1, <4>1, <1>0, <1>1
    <3>3. CASE ~(m < i)
      <4>1. m = i /\ j = i + 1 /\ m \in i..(n - 1)
        BY <2>1, <3>3, <1>0
      <4> QED BY <3>1, <4>1, <1>1
    <3> QED BY <3>2, <3>3
  <2>2. CASE m = j
    BY <1>0, <1>4, <2>2
  <2>3. CASE m > j
    <3>2. d[m] = r[m - 1] /\ m - 1 \in 1..(n - 1)
      BY <1>0, <1>5, <2>3
    <3>3. CASE m - 1 < i
      <4>1. m = i /\ j = i - 1 /\ m - 1 \in 1..(i - 1) /\ m - 1 = j
        BY <2>3, <3>3, <3>2, <1>0
      <4> QED BY <3>2, <4>1, <1>1
    <3>4. CASE ~(m - 1 < i)
      <4>1. m - 1 \in i..(n - 1) /\ m - 1 + 1 = m /\ m # i
        BY <3>2, <3>4, <1>0
      <4> QED BY <2>3, <3>2, <4>1, <1>0, <1>1
    <3> QED BY <3>3, <3>4
  <2> QED BY <2>1, <2>2, <2>3, <1>0
<1>8. d = Swap(s, i, j)
  <2> DEFINE w == Swap(s, i, j)
  <2>0. i # j
    BY <1>0
  <2>1. w = [m \in 1..n |-> IF m = i THEN s[j] ELSE IF m = j THEN e ELSE s[m]]
    BY <1>0, <2>0 DEF Swap, e
  <2>3. d = [m \in 1..n |-> d[m]]
    <3> HIDE DEF n
    <3> QED BY <1>4, <1>5
  <2> HIDE DEF w, n
  <2> QED BY <1>7, <2>1, <2>3 DEF w
<1> QED BY <1>2, <1>8

\* The loop over the rows, as the function that it is.
LEMMA LoopIs ==
    ASSUME NEW order, Len(order) \in Nat, NEW step, NEW T, rows \in T,
           \A k \in 1..Len(order) : \A s \in T : MoveRow(s, order[k], step) \in T
    PROVE  \E g : /\ MoveLoop(order, step) = g[Len(order)]
                  /\ g[0] = rows
                  /\ \A k \in 1..Len(order) : g[k] = MoveRow(g[k - 1], order[k], step)
<1> DEFINE n == Len(order)
           Good(g) == g = [k \in 0..n |-> IF k = 0 THEN rows ELSE MoveRow(g[k - 1], order[k], step)]
           after == CHOOSE g : Good(g)
<1>1. MoveLoop(order, step) = after[n]
  BY Zenon DEF MoveLoop
<1> DEFINE f == [p \in (1..n) \X T |-> MoveRow(p[2], order[p[1]], step)]
<1>2. f \in [(1..n) \X T -> T]
  OBVIOUS
<1>3. \A k \in 1..n, s \in T : f[<<k, s>>] = MoveRow(s, order[k], step)
  OBVIOUS
<1>9. n \in Nat /\ rows \in T
  OBVIOUS
<1> HIDE DEF f
<1>4. PICK g \in [0..n -> T] : Steps(g, rows, n, f)
  <2> HIDE DEF n
  <2> QED BY <1>2, <1>9, StepsExist
<1>5. g[0] = rows /\ \A k \in 1..n : g[k] = MoveRow(g[k - 1], order[k], step)
  <2>1. g[0] = rows
    BY <1>4 DEF Steps
  <2>2. ASSUME NEW k \in 1..n PROVE g[k] = MoveRow(g[k - 1], order[k], step)
    <3>1. k - 1 \in 0..n
      OBVIOUS
    <3>2. g[k - 1] \in T
      BY <3>1
    <3>3. g[k] = f[<<k, g[k - 1]>>]
      BY <1>4 DEF Steps
    <3> QED BY <3>2, <3>3, <1>3
  <2> QED BY <2>1, <2>2
<1>6. Good(g)
  <2>1. \A k \in 0..n : g[k] = IF k = 0 THEN rows ELSE MoveRow(g[k - 1], order[k], step)
    BY <1>5
  <2> QED BY <2>1
<1>7. Good(after)
  <2> HIDE DEF Good
  <2> QED BY <1>6
<1>8. after[0] = rows /\ \A k \in 1..n : after[k] = MoveRow(after[k - 1], order[k], step)
  <2> HIDE DEF after
  <2>1. n \in Nat
    OBVIOUS
  <2> HIDE DEF n
  <2>2. 0 \in 0..n /\ \A k \in 1..n : k \in 0..n /\ k # 0
    BY <2>1
  <2> QED BY <1>7, <2>2
<1> QED BY <1>1, <1>8

\* What an exchange leaves of a sequence.
LEMMA SwapIs ==
    ASSUME NEW S, NEW s \in Seq(S), NEW i \in DOMAIN s, NEW j \in DOMAIN s
    PROVE  /\ Swap(s, i, j) \in Seq(S) /\ Len(Swap(s, i, j)) = Len(s)
           /\ DOMAIN Swap(s, i, j) = DOMAIN s
           /\ \A m \in DOMAIN s : Swap(s, i, j)[m] = IF m = j THEN s[i] ELSE IF m = i THEN s[j] ELSE s[m]
           /\ IsInjective(s) => IsInjective(Swap(s, i, j))
<1> DEFINE n == Len(s)
           d == Swap(s, i, j)
<1>1. DOMAIN s = 1..n /\ n \in Nat /\ \A m \in 1..n : s[m] \in S
  OBVIOUS
<1>2. DOMAIN d = 1..n
  BY <1>1 DEF Swap
<1>3. \A m \in 1..n : d[m] = IF m = j THEN s[i] ELSE IF m = i THEN s[j] ELSE s[m]
  BY <1>1 DEF Swap
<1>4. d = [m \in 1..n |-> d[m]]
  BY <1>1 DEF Swap
<1> HIDE DEF d, n
<1>5. d \in [1..n -> S]
  BY <1>1, <1>3, <1>4
<1>6. d \in Seq(S)
  BY <1>1, <1>5
<1>7. Len(d) = n
  BY <1>1, <1>2, <1>6, LenProperties
<1>8. IsInjective(s) => IsInjective(d)
  BY <1>1, <1>2, <1>3 DEF IsInjective
<1> QED BY <1>1, <1>2, <1>3, <1>6, <1>7, <1>8 DEF d, n

OneTicked(s) == \A a, b \in DOMAIN s : s[a].ticked /\ s[b].ticked => a = b

\* With one row ticked at most, the loop moves it by one place or leaves the rows as they are:
\* once moved, it is not met again.
LEMMA LoopMoves ==
    ASSUME rows \in Seq(Row), OneTicked(rows), NEW step \in {-1, 1},
           NEW order \in Seq(DOMAIN rows),
           \A a, b \in 1..Len(order) : a < b => order[b] # order[a] + step
    PROVE  \/ MoveLoop(order, step) = rows
           \/ \E i, j \in DOMAIN rows : (j = i + 1 \/ j = i - 1) /\ MoveLoop(order, step) = Swap(rows, i, j)
<1> DEFINE n == Len(order)
           T == {s \in Seq(Row) : DOMAIN s = DOMAIN rows}
<1>1. n \in Nat /\ rows \in T /\ DOMAIN rows \subseteq Int /\ \A k \in 1..n : order[k] \in DOMAIN rows
  <2>1. DOMAIN rows = 1..Len(rows)
    OBVIOUS
  <2> QED BY <2>1
<1>2. ASSUME NEW s \in T, NEW i \in DOMAIN rows, s[i].ticked, i + step \in DOMAIN rows
      PROVE  MoveRow(s, i, step) = Swap(s, i, i + step) /\ MoveRow(s, i, step) \in T
  <2> DEFINE j == i + step
  <2>1. s \in Seq(Row) /\ i \in DOMAIN s /\ j \in DOMAIN s /\ (j = i + 1 \/ j = i - 1)
    BY <1>1, <1>2
  <2>2. MoveRow(s, i, step) = Moved(s, i, j)
    BY <2>1, <1>2 DEF MoveRow
  <2> HIDE DEF j
  <2>3. Moved(s, i, j) = Swap(s, i, j)
    BY <2>1, MovedSwaps
  <2>4. Swap(s, i, j) \in Seq(Row) /\ DOMAIN Swap(s, i, j) = DOMAIN s
    BY <2>1, SwapIs
  <2> QED BY <2>2, <2>3, <2>4 DEF j
<1>3. ASSUME NEW s \in T, NEW i \in DOMAIN rows, ~(s[i].ticked /\ i + step \in DOMAIN rows)
      PROVE  MoveRow(s, i, step) = s
  BY <1>3 DEF MoveRow
<1>4. \A k \in 1..n : \A s \in T : MoveRow(s, order[k], step) \in T
  BY <1>1, <1>2, <1>3
<1> HIDE DEF T
<1>5. PICK g : /\ MoveLoop(order, step) = g[n]
               /\ g[0] = rows
               /\ \A k \in 1..n : g[k] = MoveRow(g[k - 1], order[k], step)
  BY <1>1, <1>4, LoopIs
<1> DEFINE After(k, a) == /\ rows[order[a]].ticked /\ order[a] + step \in DOMAIN rows
                          /\ g[k] = Swap(rows, order[a], order[a] + step)
           K == {k \in 0..n : g[k] = rows \/ \E a \in 1..k : After(k, a)}
<1>6. 0 \in K
  BY <1>1, <1>5
<1>7. ASSUME NEW k \in 1..n, k - 1 \in K PROVE k \in K
  <2> DEFINE m == order[k]
  <2>1. g[k] = MoveRow(g[k - 1], m, step) /\ m \in DOMAIN rows
    BY <1>1, <1>5
  <2>2. CASE g[k - 1] = rows
    <3>1. CASE rows[m].ticked /\ m + step \in DOMAIN rows
      <4>1. g[k] = Swap(rows, m, m + step)
        BY <2>1, <2>2, <3>1, <1>1, <1>2
      <4>2. After(k, k) /\ k \in 1..k
        BY <3>1, <4>1
      <4> HIDE DEF After
      <4> QED BY <4>2
    <3>2. CASE ~(rows[m].ticked /\ m + step \in DOMAIN rows)
      BY <2>1, <2>2, <3>2, <1>1, <1>3
    <3> QED BY <3>1, <3>2
  <2>3. ASSUME NEW a \in 1..(k - 1), After(k - 1, a) PROVE k \in K
    <3> DEFINE i == order[a]
               j == i + step
               s == Swap(rows, i, j)
    <3>1. /\ i \in DOMAIN rows /\ j \in DOMAIN rows /\ rows[i].ticked /\ g[k - 1] = s
          /\ a \in 1..n /\ a < k /\ m # j
      BY <1>1, <2>3
    <3>2. i # j
      BY <1>1, <3>1
    <3> HIDE DEF m, i, j
    <3>3. s \in T /\ s[m] = IF m = i THEN rows[j] ELSE rows[m]
      <4>1. /\ s \in Seq(Row) /\ DOMAIN s = DOMAIN rows
            /\ \A p \in DOMAIN rows : s[p] = IF p = j THEN rows[i] ELSE IF p = i THEN rows[j] ELSE rows[p]
        BY <3>1, SwapIs
      <4>2. s \in T
        BY <4>1 DEF T
      <4> HIDE DEF s
      <4> QED BY <2>1, <3>1, <4>1, <4>2
    <3>4. ~s[m].ticked
      BY <2>1, <3>1, <3>2, <3>3 DEF OneTicked
    <3>5. g[k] = s
      BY <2>1, <3>1, <3>3, <3>4, <1>3
    <3>6. After(k, a) /\ a \in 1..k
      BY <2>3, <3>5 DEF i, j
    <3> HIDE DEF After, s
    <3> QED BY <3>6
  <2> QED BY <1>7, <2>2, <2>3
<1> HIDE DEF After
<1>8. n \in K
  <2> HIDE DEF K
  <2>1. \A k \in 0..n : k \in K
    BY <1>1, <1>6, <1>7, UpTo
  <2> QED BY <1>1, <2>1
<1>9. ASSUME NEW a \in 1..n, After(n, a)
      PROVE  \E i, j \in DOMAIN rows : (j = i + 1 \/ j = i - 1) /\ MoveLoop(order, step) = Swap(rows, i, j)
  <2> DEFINE i == order[a]
             j == i + step
  <2>1. i \in DOMAIN rows /\ j \in DOMAIN rows /\ MoveLoop(order, step) = Swap(rows, i, j)
    BY <1>1, <1>5, <1>9 DEF After
  <2>2. j = i + 1 \/ j = i - 1
    BY <1>1, <2>1
  <2> HIDE DEF i, j
  <2> QED BY <2>1, <2>2
<1> QED BY <1>5, <1>8, <1>9

\* Recordings listed with the last one first.
LEMMA LastFirstIs ==
    ASSUME NEW S \in SUBSET Files
    PROVE  /\ LastFirst(S) \in Seq(Files) /\ IsInjective(LastFirst(S))
           /\ \A i, j \in DOMAIN LastFirst(S) : i < j => LastFirst(S)[i] > LastFirst(S)[j]
<1> DEFINE s == InOrder(S)
           n == Len(s)
           back == LastFirst(S)
<1>1. S \in SUBSET Int /\ IsFiniteSet(S) /\ Files \subseteq Int
  <2>1. IsFiniteSet(Files) /\ Files \subseteq Int
    BY PlanAssumption, FS_Interval DEF PlanAssumption, Files
  <2> QED BY <2>1, FS_Subset
<1>2. s \in Seq(S) /\ \A i, j \in DOMAIN s : i < j => s[i] < s[j]
  BY <1>1, InOrderIs
<1>3. back = [i \in 1..n |-> s[(n - i) + 1]]
  BY DEF LastFirst, Reverse
<1> HIDE DEF s, back
<1>4. n \in Nat /\ DOMAIN s = 1..n /\ \A i \in 1..n : s[i] \in Files /\ s[i] \in Int
  <2>1. n \in Nat /\ DOMAIN s = 1..n /\ \A i \in 1..n : s[i] \in S
    BY <1>2
  <2> QED BY <1>1, <2>1
<1> HIDE DEF n
<1>5. \A i \in 1..n : (n - i) + 1 \in 1..n
  BY <1>4
<1>6. back \in Seq(Files) /\ DOMAIN back = 1..n
  BY <1>3, <1>4, <1>5
<1>7. ASSUME NEW i \in 1..n, NEW j \in 1..n, i < j PROVE back[i] > back[j]
  <2>1. (n - j) + 1 < (n - i) + 1
    BY <1>4, <1>7
  <2>2. s[(n - j) + 1] < s[(n - i) + 1]
    BY <2>1, <1>2, <1>4, <1>5
  <2> QED BY <2>2, <1>3, <1>4, <1>5
<1>8. \A i \in 1..n : back[i] \in Int /\ i \in Int
  BY <1>3, <1>4, <1>5
<1>9. IsInjective(back)
  <2> SUFFICES ASSUME NEW i \in 1..n, NEW j \in 1..n, back[i] = back[j] PROVE i = j
    BY <1>6 DEF IsInjective
  <2>1. ~(i < j)
    BY <1>7, <1>8
  <2>2. ~(j < i)
    BY <1>7, <1>8
  <2> QED BY <1>8, <2>1, <2>2
<1> QED BY <1>6, <1>7, <1>9 DEF back

\* The list of recordings that loadData makes.
LEMMA FileRowsIs ==
    ASSUME NEW plan \in Plan, IsInjective(plan.files), NEW there \in SUBSET Files
    PROVE  /\ FileRows(plan, there) \in Seq(Row) /\ IsInjective(FilesOf(FileRows(plan, there)))
           /\ plan.timed => OneTicked(FileRows(plan, there))
<1>3. ASSUME NEW s \in Seq(Files), IsInjective(s), NEW made, DOMAIN made = DOMAIN s,
             made = [i \in DOMAIN made |-> made[i]],
             \A i \in DOMAIN s : made[i].file = s[i] /\ made[i] \in Row
      PROVE  made \in Seq(Row) /\ IsInjective(FilesOf(made))
  <2>1. DOMAIN s = 1..Len(s) /\ Len(s) \in Nat
    OBVIOUS
  <2>2. made \in Seq(Row)
    BY <1>3, <2>1
  <2>3. IsInjective(FilesOf(made))
    BY <1>3 DEF FilesOf, IsInjective
  <2> QED BY <2>2, <2>3
<1>4. CASE plan.timed
  <2> DEFINE mine == Only(plan.files, there)
             made == [i \in DOMAIN mine |-> [file |-> mine[i], ticked |-> FALSE]]
  <2>1. FileRows(plan, there) = made
    BY <1>4 DEF FileRows, TimedRows
  <2>2. mine \in Seq(Files) /\ IsInjective(mine)
    <3>1. plan.files \in Seq(Files)
      BY DEF Plan
    <3> QED BY <3>1, OnlyIs
  <2> HIDE DEF mine
  <2>3. \A i \in DOMAIN mine : mine[i] \in Files
    BY <2>2
  <2>4. /\ DOMAIN made = DOMAIN mine /\ made = [i \in DOMAIN made |-> made[i]]
        /\ \A i \in DOMAIN mine : made[i].file = mine[i] /\ made[i] \in Row /\ ~made[i].ticked
    BY <2>3 DEF Row
  <2> HIDE DEF made
  <2>5. made \in Seq(Row) /\ IsInjective(FilesOf(made))
    BY <2>2, <2>4, <1>3
  <2>6. OneTicked(made)
    BY <2>4 DEF OneTicked
  <2> QED BY <2>1, <2>5, <2>6
<1>5. CASE ~plan.timed
  <2> DEFINE back == LastFirst(there)
             made == [i \in DOMAIN back |-> [file |-> back[i], ticked |-> back[i] \in Range(plan.files)]]
  <2>1. FileRows(plan, there) = made
    BY <1>5 DEF FileRows, EventRows
  <2>2. back \in Seq(Files) /\ IsInjective(back)
    BY LastFirstIs
  <2> HIDE DEF back
  <2>3. \A i \in DOMAIN back : back[i] \in Files
    BY <2>2
  <2>4. /\ DOMAIN made = DOMAIN back /\ made = [i \in DOMAIN made |-> made[i]]
        /\ \A i \in DOMAIN back : made[i].file = back[i] /\ made[i] \in Row
    BY <2>2, <2>3 DEF Row
  <2> HIDE DEF made
  <2>5. made \in Seq(Row) /\ IsInjective(FilesOf(made))
    BY <2>2, <2>4, <1>3
  <2> QED BY <1>5, <2>1, <2>5
<1> QED BY <1>4, <1>5

\* A plan in an editor or on record has been begun, and a timed broadcast in the editor has
\* one row ticked at most.
EditorInv ==
    /\ PlanTypeOK
    /\ activity # "settings" => mPlan.task # 0
    /\ \A id \in DOMAIN plans : plans[id].task # 0
    /\ mPlan.timed => OneTicked(rows)

\* The editor after loadData.
EditorOK ==
    /\ mPlan \in Plan /\ IsInjective(mPlan.files)
    /\ rows \in Seq(Row) /\ IsInjective(FilesOf(rows))
    /\ members \subseteq People
    /\ smsEdited \in BOOLEAN
    /\ mPlan.timed => OneTicked(rows)

LEMMA LoadedIs ==
    ASSUME serverFiles \subseteq Files, NEW plan \in Plan, IsInjective(plan.files), NEW ends,
           LoadData(plan, ends)
    PROVE  EditorOK' /\ mPlan' = plan
<1>1. PICK there \in Listings(ends["files"]) : rows' = FileRows(plan, there)
  BY DEF LoadData
<1>2. there \in SUBSET Files
  BY <1>1 DEF Listings, Brought
<1>3. mPlan' = plan /\ members' \subseteq plan.people /\ smsEdited' = FALSE
  BY DEF LoadData, MembersOf, Brought
<1>4. plan.people \subseteq People
  BY DEF Plan
<1> QED BY <1>1, <1>2, <1>3, <1>4, FileRowsIs DEF EditorOK

\* How many calls did not get their own reply.
LEMMA LossCount ==
    ASSUME planLosses \in Nat, NEW C, IsFiniteSet(C), NEW ends \in [C -> Endings], Lossy(ends)
    PROVE  planLosses' \in 0..MaxPlanLosses
<1>1. Cardinality({call \in DOMAIN ends : ends[call] # "own"}) \in Nat
  <2>1. {call \in DOMAIN ends : ends[call] # "own"} \subseteq C
    OBVIOUS
  <2> QED BY <2>1, FS_Subset, FS_CardinalityType
<1> QED BY <1>1, PlanAssumption DEF Lossy, PlanAssumption

\* The calls of a save and of a choice of recordings.
LEMMA CallsOfAStep ==
    /\ \A ends \in Ends : ends \in [{"plan", "files", "people"} -> Endings]
    /\ IsFiniteSet({"plan", "files", "people"}) /\ IsFiniteSet({"dialog", "files"})
<1>1. /\ {"plan", "files", "people"} = {"plan"} \cup ({"files"} \cup {"people"})
      /\ {"dialog", "files"} = {"dialog"} \cup {"files"}
  OBVIOUS
<1>2. IsFiniteSet({"plan"}) /\ IsFiniteSet({"files"}) /\ IsFiniteSet({"people"}) /\ IsFiniteSet({"dialog"})
  BY FS_Singleton
<1>3. IsFiniteSet({"files"} \cup {"people"}) /\ IsFiniteSet({"dialog"} \cup {"files"})
  BY <1>2, FS_Union
<1>4. IsFiniteSet({"plan"} \cup ({"files"} \cup {"people"}))
  BY <1>2, <1>3, FS_Union
<1> QED BY <1>1, <1>3, <1>4 DEF Ends

\* A save, however its calls end.
LEMMA SaveTyped ==
    ASSUME EditorInv, NEW plan \in Plan, IsInjective(plan.files), plan.task # 0,
           NEW ends \in Ends, SaveAndReload(plan, ends),
           serverFiles' = serverFiles, tasks' = tasks, activity' \in {"settings", "editor", "book"}
    PROVE  EditorInv' /\ mPlan'.files = plan.files
<1> USE DEF EditorInv, PlanTypeOK
<1> DEFINE end == ends["plan"]
<1>1. /\ created \in 0..MaxPlans /\ MaxPlans \in Nat /\ NoPlan = MaxPlans + 1
      /\ tasks \in 0..MaxTasks /\ MaxTasks \in Nat
  BY PlanAssumption DEF PlanAssumption, NoPlan
<1>2. planLosses' \in 0..MaxPlanLosses /\ saveFailed' \in BOOLEAN
  <2>1. Lossy(ends) /\ (saveFailed' = saveFailed \/ saveFailed' = (end # "own"))
    BY DEF SaveAndReload, planHistory
  <2>2. planLosses \in Nat
    OBVIOUS
  <2> QED BY <2>1, <2>2, CallsOfAStep, LossCount
<1>3. \A c \in 0..NoPlan : /\ [plan EXCEPT !.id = c] \in Plan
                           /\ [plan EXCEPT !.id = c].files = plan.files
                           /\ [plan EXCEPT !.id = c].task = plan.task
                           /\ [plan EXCEPT !.id = c].id = c
  BY DEF Plan
<1>4. CASE ~Sent(plan)
  <2>1. LoadData(plan, ends) /\ plans' = plans /\ created' = created /\ replyLost' = replyLost
    BY <1>4 DEF SaveAndReload, planHistory
  <2>2. EditorOK' /\ mPlan' = plan
    BY <2>1, LoadedIs
  <2> QED BY <1>2, <2>1, <2>2 DEF EditorOK
<1>5. CASE Sent(plan) /\ plan.id # 0
  <2>1. PICK done \in Done(end) : Update(plan, done) /\ LoadData(plan, ends)
    BY <1>5 DEF SaveAndReload
  <2>2. /\ created' = created /\ replyLost' = replyLost
        /\ plans' = (IF done /\ plan.id \in DOMAIN plans THEN [plans EXCEPT ![plan.id] = plan] ELSE plans)
    BY <2>1 DEF Update
  <2>3. EditorOK' /\ mPlan' = plan
    BY <2>1, LoadedIs
  <2>4. DOMAIN plans' = DOMAIN plans
    BY <2>2
  <2>5. \A id \in DOMAIN plans' : plans'[id] = plans[id] \/ (id = plan.id /\ plans'[id] = plan)
    BY <2>2
  <2>6. \A id \in DOMAIN plans' : plans'[id] \in Plan /\ plans'[id].id = id /\ IsInjective(plans'[id].files) /\ plans'[id].task # 0
    BY <2>4, <2>5
  <2> QED BY <1>2, <2>2, <2>3, <2>4, <2>6 DEF EditorOK
<1>6. CASE Sent(plan) /\ plan.id = 0
  <2>1. PICK done \in Done(end) : Create(plan, done, end)
                                  /\ \E id \in NewIds(end) : LoadData([plan EXCEPT !.id = id], ends)
    BY <1>6 DEF SaveAndReload
  <2>2. PICK id \in NewIds(end) : LoadData([plan EXCEPT !.id = id], ends)
    BY <2>1
  <2> DEFINE here == [plan EXCEPT !.id = id]
             fresh == [plan EXCEPT !.id = created']
  <2>3. /\ created < MaxPlans
        /\ created' = (IF done THEN created + 1 ELSE created)
        /\ replyLost' = (IF end = "own" THEN replyLost ELSE replyLost \cup {plan.task})
        /\ plans' = (IF ~done THEN plans
                     ELSE [i \in DOMAIN plans \cup {created'} |-> IF i = created' THEN fresh ELSE plans[i]])
    BY <2>1 DEF Create
  <2>4. created' \in 0..MaxPlans /\ (done => created' \in 1..MaxPlans)
    BY <1>1, <2>3
  <2>5. DOMAIN plans' \subseteq 1..MaxPlans
    BY <2>3, <2>4
  <2>6. id \in 0..NoPlan /\ created' \in 0..NoPlan
    <3>1. id \in {0, NoPlan, created'} \cup DOMAIN plans'
      BY <2>2 DEF NewIds
    <3> QED BY <1>1, <2>4, <2>5, <3>1
  <2>7. /\ here \in Plan /\ IsInjective(here.files)
        /\ here.files = plan.files /\ here.task = plan.task
        /\ fresh \in Plan /\ IsInjective(fresh.files) /\ fresh.task = plan.task /\ fresh.id = created'
    BY <1>3, <2>6
  <2> HIDE DEF here, fresh
  <2>8. EditorOK' /\ mPlan' = here
    BY <2>2, <2>7, LoadedIs DEF here
  <2>9. \A i \in DOMAIN plans' : plans'[i] \in Plan /\ plans'[i].id = i /\ IsInjective(plans'[i].files) /\ plans'[i].task # 0
    <3>1. CASE ~done
      BY <2>3, <3>1
    <3>2. CASE done
      <4>1. DOMAIN plans' = DOMAIN plans \cup {created'}
        BY <2>3, <3>2
      <4>2. \A i \in DOMAIN plans' : plans'[i] = IF i = created' THEN fresh ELSE plans[i]
        BY <2>3, <3>2
      <4> QED BY <2>7, <3>2, <4>1, <4>2
    <3> QED BY <3>1, <3>2
  <2>10. replyLost' \subseteq 1..MaxTasks
    <3>1. plan.task \in 1..MaxTasks
      BY <1>1 DEF Plan
    <3> QED BY <2>3, <3>1
  <2> QED BY <1>2, <2>4, <2>5, <2>7, <2>8, <2>9, <2>10 DEF EditorOK
<1> QED BY <1>4, <1>5, <1>6

\* What the rows are after a move, and that the play list changes by one step at most.
LEMMA MovedOnce ==
    ASSUME rows \in Seq(Row), IsInjective(FilesOf(rows)), OneTicked(rows), NEW moved,
           moved = rows \/ \E i, j \in DOMAIN rows : (j = i + 1 \/ j = i - 1) /\ moved = Swap(rows, i, j)
    PROVE  /\ moved \in Seq(Row) /\ IsInjective(FilesOf(moved)) /\ OneTicked(moved)
           /\ FilesOf(moved) \in Seq(Files)
           /\ LET play == FilesOf(rows)
              IN  FilesOf(moved) = play \/ \E i \in 1..Len(play) - 1 :
                      FilesOf(moved) = [play EXCEPT ![i] = play[i + 1], ![i + 1] = play[i]]
<1> DEFINE n == Len(rows)
           play == FilesOf(rows)
<1>1. n \in Nat /\ DOMAIN rows = 1..n /\ \A i \in 1..n : rows[i] \in Row
  OBVIOUS
<1>2. play = [i \in 1..n |-> rows[i].file]
  BY <1>1 DEF FilesOf
<1>3. \A i \in 1..n : rows[i].file \in Files
  BY <1>1 DEF Row
<1> HIDE DEF n, play
<1>4. play \in Seq(Files) /\ Len(play) = n /\ DOMAIN play = 1..n
  <2>1. play \in Seq(Files) /\ DOMAIN play = 1..n
    BY <1>1, <1>2, <1>3
  <2> QED BY <1>1, <2>1, LenProperties
<1>5. CASE moved = rows
  BY <1>4, <1>5 DEF play
<1>6. ASSUME NEW i \in DOMAIN rows, NEW j \in DOMAIN rows, j = i + 1 \/ j = i - 1,
             moved = Swap(rows, i, j)
      PROVE  /\ moved \in Seq(Row) /\ IsInjective(FilesOf(moved)) /\ OneTicked(moved)
             /\ FilesOf(moved) \in Seq(Files)
             /\ \E k \in 1..Len(play) - 1 : FilesOf(moved) = [play EXCEPT ![k] = play[k + 1], ![k + 1] = play[k]]
  <2>1. /\ moved \in Seq(Row) /\ DOMAIN moved = 1..n
        /\ \A m \in 1..n : moved[m] = IF m = j THEN rows[i] ELSE IF m = i THEN rows[j] ELSE rows[m]
    <3> DEFINE d == Swap(rows, i, j)
    <3>1. /\ d \in Seq(Row) /\ DOMAIN d = DOMAIN rows
          /\ \A m \in DOMAIN rows : d[m] = IF m = j THEN rows[i] ELSE IF m = i THEN rows[j] ELSE rows[m]
      BY SwapIs
    <3> HIDE DEF d
    <3> QED BY <1>1, <1>6, <3>1 DEF d
  <2>2. OneTicked(moved)
    BY <2>1, <1>1, <1>6 DEF OneTicked
  <2>3. FilesOf(moved) = Swap(play, i, j)
    <3>1. FilesOf(moved) = [m \in 1..n |-> moved[m].file]
      BY <2>1 DEF FilesOf
    <3>2. Swap(play, i, j) = [m \in 1..n |-> IF m = j THEN play[i] ELSE IF m = i THEN play[j] ELSE play[m]]
      BY <1>4 DEF Swap
    <3>3. \A m \in 1..n : moved[m].file = IF m = j THEN play[i] ELSE IF m = i THEN play[j] ELSE play[m]
      BY <2>1, <1>1, <1>2, <1>6
    <3> QED BY <3>1, <3>2, <3>3
  <2>4. i \in DOMAIN play /\ j \in DOMAIN play
    BY <1>1, <1>4, <1>6
  <2>5. Swap(play, i, j) \in Seq(Files) /\ IsInjective(Swap(play, i, j))
    BY <2>4, <1>4, SwapIs DEF play
  <2>6. \E k \in 1..Len(play) - 1 : FilesOf(moved) = [play EXCEPT ![k] = play[k + 1], ![k + 1] = play[k]]
    <3>1. CASE j = i + 1
      <4>1. i \in 1..Len(play) - 1
        BY <2>4, <3>1, <1>1, <1>4
      <4> QED BY <2>3, <3>1, <4>1 DEF Swap
    <3>2. CASE j = i - 1
      <4>1. j \in 1..Len(play) - 1 /\ i = j + 1 /\ i # j
        BY <2>4, <3>2, <1>1, <1>4
      <4>2. Swap(play, i, j) = [play EXCEPT ![j] = play[i], ![i] = play[j]]
        BY <4>1, <2>4 DEF Swap
      <4> QED BY <2>3, <4>1, <4>2
    <3> QED BY <1>6, <3>1, <3>2
  <2> QED BY <2>1, <2>2, <2>3, <2>5, <2>6
<1> QED BY <1>5, <1>6 DEF play

\* The two loops: up from the first row, down from the last.
LEMMA LoopOnce ==
    ASSUME rows \in Seq(Row), OneTicked(rows), NEW order, NEW step,
           \/ order = [i \in 1..Len(rows) |-> i] /\ step = -1
           \/ order = Down(Len(rows)) /\ step = 1
    PROVE  \/ MoveLoop(order, step) = rows
           \/ \E i, j \in DOMAIN rows : (j = i + 1 \/ j = i - 1) /\ MoveLoop(order, step) = Swap(rows, i, j)
<1> DEFINE n == Len(rows)
<1>1. n \in Nat /\ DOMAIN rows = 1..n
  OBVIOUS
<1> HIDE DEF n
<1>2. CASE order = [i \in 1..n |-> i] /\ step = -1
  <2>1. order \in Seq(DOMAIN rows) /\ Len(order) = n /\ \A i \in 1..n : order[i] = i
    BY <1>1, <1>2
  <2>2. \A a, b \in 1..Len(order) : a < b => order[b] # order[a] + step
    BY <1>1, <1>2, <2>1
  <2>3. step \in {-1, 1}
    BY <1>2
  <2> QED BY <2>1, <2>2, <2>3, LoopMoves
<1>3. CASE order = Down(n) /\ step = 1
  <2>1. order = [i \in 1..n |-> n + 1 - i]
    BY <1>3 DEF Down
  <2>2. order \in Seq(DOMAIN rows) /\ Len(order) = n /\ \A i \in 1..n : order[i] = n + 1 - i
    <3>1. \A i \in 1..n : n + 1 - i \in 1..n
      BY <1>1
    <3>2. order \in [1..n -> 1..n]
      BY <2>1, <3>1
    <3> QED BY <1>1, <2>1, <3>2
  <2>3. \A a, b \in 1..Len(order) : a < b => order[b] # order[a] + step
    BY <1>1, <1>3, <2>2
  <2>4. step \in {-1, 1}
    BY <1>3
  <2> QED BY <2>2, <2>3, <2>4, LoopMoves
<1> QED BY <1>2, <1>3 DEF n

\* At first there is no plan.
LEMMA EditorInitially == PlanInit => EditorInv
<1> SUFFICES ASSUME PlanInit PROVE EditorInv
  OBVIOUS
<1>1. /\ NewPlan(0, FALSE) \in Plan /\ NewPlan(0, FALSE).files = <<>>
      /\ NewPlan(0, FALSE).timed = FALSE
  BY PlanAssumption DEF NewPlan, Plan, NoPlan, PlanAssumption
<1>2. mPlan \in Plan /\ IsInjective(mPlan.files) /\ ~mPlan.timed
  BY <1>1, EmptyHasNothing DEF PlanInit
<1>3. rows \in Seq(Row) /\ IsInjective(FilesOf(rows))
  <2>1. rows = <<>>
    BY DEF PlanInit
  <2> QED BY <2>1 DEF FilesOf, IsInjective
<1>4. DOMAIN plans = {}
  BY DEF PlanInit
<1>5. /\ serverFiles \subseteq Files /\ activity = "settings"
      /\ members \subseteq People /\ smsEdited \in BOOLEAN
      /\ tasks \in 0..MaxTasks /\ created \in 0..MaxPlans /\ planLosses \in 0..MaxPlanLosses
      /\ saveFailed \in BOOLEAN /\ replyLost \subseteq 1..MaxTasks
  <2>1. MaxTasks \in Nat /\ MaxPlans \in Nat /\ MaxPlanLosses \in Nat
    BY PlanAssumption DEF PlanAssumption
  <2>2. 0 \in 0..MaxTasks /\ 0 \in 0..MaxPlans /\ 0 \in 0..MaxPlanLosses
    BY <2>1
  <2> QED BY <2>2 DEF PlanInit
<1> QED BY <1>2, <1>3, <1>4, <1>5 DEF EditorInv, PlanTypeOK

\* Every step of the editors keeps the types, and the play list as the property has it.
LEMMA EditorStep == EditorInv /\ [PlanNext]_planVars => EditorInv' /\ [PlayListStep]_planVars
<1> SUFFICES ASSUME EditorInv, [PlanNext]_planVars
             PROVE  EditorInv' /\ (PlayListStep \/ UNCHANGED planVars)
  OBVIOUS
<1> USE DEF EditorInv, PlanTypeOK
<1> DEFINE Kept == mPlan'.files = mPlan.files
<1>0. Kept => PlayListStep
  BY DEF PlayListStep
<1>1. \A f \in Seq(Files) : [mPlan EXCEPT !.files = f] \in Plan /\ [mPlan EXCEPT !.files = f].files = f
                               /\ [mPlan EXCEPT !.files = f].task = mPlan.task /\ [mPlan EXCEPT !.files = f].timed = mPlan.timed
  BY DEF Plan
<1>2. \A S \in SUBSET People : [mPlan EXCEPT !.people = S] \in Plan /\ [mPlan EXCEPT !.people = S].files = mPlan.files
                               /\ [mPlan EXCEPT !.people = S].task = mPlan.task
  BY DEF Plan
<1>3. mPlan.people \subseteq People
  BY DEF Plan
\* A plan is loaded from the settings.
<1>10. ASSUME NEW plan \in Plan, IsInjective(plan.files), plan.task # 0, NEW ends \in Ends,
              activity = "settings", LoadData(plan, ends), Lossy(ends), saveFailed' \in BOOLEAN,
              LoadActivity("editor"),
              tasks' \in 0..MaxTasks, UNCHANGED <<plans, serverFiles, created, replyLost>>
       PROVE  EditorInv' /\ PlayListStep
  <2>1. EditorOK' /\ mPlan' = plan
    BY <1>10, LoadedIs
  <2>2. planLosses' \in 0..MaxPlanLosses
    <3>1. planLosses \in Nat
      OBVIOUS
    <3> QED BY <1>10, <3>1, CallsOfAStep, LossCount
  <2>3. EditorInv'
    BY <1>10, <2>1, <2>2 DEF EditorOK, LoadActivity
  <2> QED BY <1>10, <2>3 DEF PlayListStep
<1>11. ASSUME NEW ends \in LoadEnds, NEW timed \in BOOLEAN, BtnNewClicked(timed, ends)
       PROVE  EditorInv' /\ PlayListStep
  <2> DEFINE plan == NewPlan(tasks', timed)
  <2>1. tasks' \in 0..MaxTasks /\ tasks' # 0
    BY <1>11, PlanAssumption DEF BtnNewClicked, PlanAssumption
  <2>2. plan \in Plan /\ IsInjective(plan.files) /\ plan.task # 0
    <3>1. plan \in Plan
      BY <2>1, PlanAssumption DEF NewPlan, Plan, NoPlan, PlanAssumption
    <3>2. plan.files = <<>> /\ plan.task = tasks'
      BY DEF NewPlan
    <3> QED BY <2>1, <3>1, <3>2, EmptyHasNothing
  <2> HIDE DEF EditorInv, PlanTypeOK
  <2>3. /\ activity = "settings" /\ LoadData(plan, ends) /\ Lossy(ends) /\ saveFailed' \in BOOLEAN
        /\ LoadActivity("editor") /\ UNCHANGED <<plans, serverFiles, created, replyLost>>
    BY <1>11 DEF BtnNewClicked
  <2>4. ends \in Ends
    BY DEF LoadEnds
  <2> HIDE DEF plan
  <2> QED BY <1>10, <2>1, <2>2, <2>3, <2>4
<1>12. ASSUME NEW ends \in Ends, NEW id \in DOMAIN plans, PopupActionEdit(id, ends)
       PROVE  EditorInv' /\ PlayListStep
  <2>1. PICK plan \in Versions(plans[id], ends["plan"]) : LoadData(plan, ends)
    BY <1>12 DEF PopupActionEdit
  <2>2. plans[id] \in Plan /\ IsInjective(plans[id].files) /\ plans[id].task # 0 /\ tasks \in 0..MaxTasks
    OBVIOUS
  <2>3. plan \in Plan /\ IsInjective(plan.files) /\ plan.task # 0
    <3>1. CASE ends["plan"] = "own"
      BY <2>1, <2>2, <3>1 DEF Versions
    <3>2. CASE ends["plan"] # "own"
      <4>1. /\ plan = [id |-> plans[id].id, task |-> plans[id].task, timed |-> plans[id].timed,
                       ready |-> plans[id].ready, files |-> plan.files, people |-> plan.people]
            /\ plan.files \in UNION {[1..n -> Files] : n \in 0..NumFiles} /\ IsInjective(plan.files)
            /\ plan.people \in SUBSET People
        BY <2>1, <3>2 DEF Versions
      <4>2. plan.files \in Seq(Files)
        <5>1. PICK n \in 0..NumFiles : plan.files \in [1..n -> Files]
          BY <4>1
        <5> QED BY <5>1, PlanAssumption DEF PlanAssumption
      <4>3. /\ plans[id].id \in 0..NoPlan /\ plans[id].task \in 0..MaxTasks
            /\ plans[id].timed \in BOOLEAN /\ plans[id].ready \in BOOLEAN
        BY <2>2 DEF Plan
      <4>4. plan \in Plan
        BY <4>1, <4>2, <4>3 DEF Plan
      <4> QED BY <2>2, <4>1, <4>4
    <3> QED BY <3>1, <3>2
  <2> HIDE DEF EditorInv, PlanTypeOK
  <2>4. /\ activity = "settings" /\ Lossy(ends)
        /\ saveFailed' \in BOOLEAN /\ tasks' = tasks
        /\ LoadActivity("editor") /\ UNCHANGED <<plans, serverFiles, created, replyLost>>
    BY <1>12 DEF PopupActionEdit
  <2> QED BY <1>10, <2>1, <2>2, <2>3, <2>4
<1>13. ASSUME NEW id \in DOMAIN plans, NEW end \in Endings, PopupActionDelete(id, end)
       PROVE  EditorInv' /\ PlayListStep
  <2>1. PICK done \in Done(end) :
            plans' = [other \in IF done THEN DOMAIN plans \ {id} ELSE DOMAIN plans |-> plans[other]]
    BY <1>13 DEF PopupActionDelete
  <2>2. /\ Lossy([AllOwn EXCEPT !["plan"] = end])
        /\ UNCHANGED <<serverFiles, activity, editor, tasks, created, planHistory>>
    BY <1>13 DEF PopupActionDelete
  <2>3. DOMAIN plans' \subseteq DOMAIN plans /\ \A other \in DOMAIN plans' : plans'[other] = plans[other]
    BY <2>1
  <2>4. planLosses' \in 0..MaxPlanLosses
    <3>1. planLosses \in Nat
      OBVIOUS
    <3>2. [AllOwn EXCEPT !["plan"] = end] \in [{"plan", "files", "people"} -> Endings]
      BY DEF AllOwn, Endings
    <3> QED BY <2>2, <3>1, <3>2, CallsOfAStep, LossCount
  <2>5. EditorInv'
    BY <2>2, <2>3, <2>4 DEF editor, planHistory
  <2> QED BY <1>0, <2>2, <2>5 DEF editor
<1>14. ASSUME NEW f \in Passing, Uploaded(f) \/ BtnDeleteClicked(f) PROVE EditorInv' /\ PlayListStep
  <2>1. f \in Files
    BY PlanAssumption DEF PlanAssumption
  <2>2. /\ serverFiles' \subseteq Files
        /\ UNCHANGED <<plans, activity, editor, planCounts, planHistory>>
    BY <1>14, <2>1 DEF Uploaded, BtnDeleteClicked
  <2>3. EditorInv'
    BY <2>2 DEF editor, planCounts, planHistory
  <2> QED BY <1>0, <2>2, <2>3 DEF editor
\* The plan in the editor is saved.
<1>20. ASSUME NEW plan \in Plan, IsInjective(plan.files), plan.task # 0,
              plan.files = mPlan.files \/ ~mPlan.timed,
              NEW ends \in Ends, SaveAndReload(plan, ends),
              serverFiles' = serverFiles, tasks' = tasks, activity' \in {"settings", "editor", "book"}
       PROVE  EditorInv' /\ PlayListStep
  <2> HIDE DEF EditorInv, PlanTypeOK
  <2>1. EditorInv' /\ mPlan'.files = plan.files
    BY <1>20, SaveTyped
  <2> QED BY <1>20, <2>1 DEF PlayListStep
<1>21. ASSUME NEW to \in {"book", "settings"}, NEW ends \in Ends, Leave(to, ends)
       PROVE  EditorInv' /\ PlayListStep
  <2>1. /\ activity = "editor" /\ activity' \in {"settings", "editor", "book"}
        /\ serverFiles' = serverFiles /\ tasks' = tasks
    BY <1>21 DEF Leave, LoadActivity
  <2>2. CASE mPlan.timed
    <3>1. SaveAndReload(mPlan, ends)
      BY <1>21, <2>2 DEF Leave
    <3> QED BY <1>20, <2>1, <3>1
  <2>3. CASE ~mPlan.timed
    <3>1. UNCHANGED <<plans, editor, created, planLosses, planHistory>>
      BY <1>21, <2>3 DEF Leave
    <3>2. EditorInv'
      BY <2>1, <3>1 DEF editor, planHistory
    <3> QED BY <1>0, <3>1, <3>2 DEF editor
  <2> QED BY <2>2, <2>3
<1>22. ASSUME NEW S \in SUBSET People, NEW ends \in Ends, Resume(S, ends)
       PROVE  EditorInv' /\ PlayListStep
  <2>1. /\ activity = "book" /\ activity' = "editor" /\ serverFiles' = serverFiles /\ tasks' = tasks
    BY <1>22 DEF Resume, LoadActivity
  <2>2. CASE S # {}
    <3> DEFINE plan == [mPlan EXCEPT !.people = mPlan.people \cup S]
    <3>1. SaveAndReload(plan, ends)
      BY <1>22, <2>2 DEF Resume
    <3>2. plan \in Plan /\ plan.files = mPlan.files /\ plan.task = mPlan.task
      BY <1>2, <1>3
    <3>3. IsInjective(plan.files) /\ plan.task # 0
      BY <2>1, <3>2
    <3> HIDE DEF plan
    <3> QED BY <1>20, <2>1, <3>1, <3>2, <3>3
  <2>3. CASE S = {}
    <3>1. UNCHANGED <<plans, editor, created, planLosses, planHistory>>
      BY <1>22, <2>3 DEF Resume
    <3>2. EditorInv'
      BY <2>1, <3>1 DEF editor, planHistory
    <3> QED BY <1>0, <3>1, <3>2 DEF editor
  <2> QED BY <2>2, <2>3
<1>23. ASSUME NEW plan \in Plan, IsInjective(plan.files), plan.task = mPlan.task,
              plan.files = mPlan.files \/ ~mPlan.timed,
              NEW ends \in Ends, ChangeAndSave(plan, ends)
       PROVE  EditorInv' /\ PlayListStep
  <2>1. /\ SaveAndReload(plan, ends) /\ serverFiles' = serverFiles /\ tasks' = tasks
        /\ activity = "editor" /\ activity' = activity
    BY <1>23 DEF ChangeAndSave
  <2> QED BY <1>20, <1>23, <2>1
<1>24. ASSUME NEW S \in SUBSET People, NEW ends \in Ends, BtnDeleteMemberClicked(S, ends)
       PROVE  EditorInv' /\ PlayListStep
  <2> DEFINE plan == [mPlan EXCEPT !.people = mPlan.people \ S]
  <2>1. ChangeAndSave(plan, ends)
    BY <1>24 DEF BtnDeleteMemberClicked
  <2>2. plan \in Plan /\ plan.files = mPlan.files /\ plan.task = mPlan.task
    BY <1>2, <1>3
  <2>3. IsInjective(plan.files)
    BY <2>2
  <2> HIDE DEF plan
  <2> QED BY <1>23, <2>1, <2>2, <2>3
<1>25. ASSUME NEW ends \in Ends, BtnSmsSaveClicked(ends) PROVE EditorInv' /\ PlayListStep
  BY <1>23, <1>25 DEF BtnSmsSaveClicked
<1>26. ASSUME NEW ends \in Ends, BtnBroadcastFileSaveClicked(ends)
       PROVE  EditorInv' /\ PlayListStep
  <2> DEFINE places == {i \in DOMAIN rows : rows[i].ticked}
             some == Picked(rows, places)
             files == FilesOf(some)
             plan == [mPlan EXCEPT !.files = files]
  <2>1. ~mPlan.timed /\ ChangeAndSave(plan, ends)
    BY <1>26 DEF BtnBroadcastFileSaveClicked
  <2>2. some \in Seq(Row) /\ DOMAIN some = 1..Len(some)
        /\ \A a, b \in DOMAIN some : a < b => \E i, j \in places : i < j /\ some[a] = rows[i] /\ some[b] = rows[j]
    <3>1. places \in SUBSET DOMAIN rows /\ rows \in Seq(Row)
      OBVIOUS
    <3> HIDE DEF places, EditorInv, PlanTypeOK
    <3>2. some \in Seq(Row)
      BY <3>1, PickedIs
    <3>3. \A a, b \in DOMAIN some : a < b => \E i, j \in places : i < j /\ some[a] = rows[i] /\ some[b] = rows[j]
      BY ONLY <3>1, PickedIs, SMTT(60)
    <3> HIDE DEF some
    <3> QED BY <3>2, <3>3
  <2>3. places \subseteq DOMAIN rows
    OBVIOUS
  <2> HIDE DEF some, places
  <2>4. files \in Seq(Files) /\ IsInjective(files)
    <3>1. Len(some) \in Nat /\ files = [i \in 1..Len(some) |-> some[i].file] /\ \A i \in 1..Len(some) : some[i].file \in Files
      <4>1. Len(some) \in Nat /\ \A i \in 1..Len(some) : some[i] \in Row
        BY <2>2
      <4>2. files = [i \in 1..Len(some) |-> some[i].file]
        BY <2>2 DEF FilesOf
      <4> QED BY <4>1, <4>2 DEF Row
    <3>2. files \in Seq(Files)
      BY <3>1
    <3>3. \A a, b \in 1..Len(some) : a < b => files[a] # files[b]
      <4> SUFFICES ASSUME NEW a \in 1..Len(some), NEW b \in 1..Len(some), a < b
                   PROVE  some[a].file # some[b].file
        BY <3>1
      <4>1. PICK i, j \in places : i < j /\ some[a] = rows[i] /\ some[b] = rows[j]
        BY <2>2
      <4>2. i # j
        BY <4>1, <2>3
      <4> QED BY <4>1, <4>2, <2>3 DEF IsInjective, FilesOf
    <3> QED BY <3>1, <3>2, <3>3 DEF IsInjective
  <2> HIDE DEF files
  <2>5. plan \in Plan /\ IsInjective(plan.files) /\ plan.task = mPlan.task
    BY <1>1, <2>4
  <2> HIDE DEF plan
  <2> QED BY <1>23, <2>1, <2>5
\* The rows or the plan change and nothing is saved.
<1>30. ASSUME ChangeOnly, rows' \in Seq(Row), IsInjective(FilesOf(rows')), mPlan' \in Plan,
              IsInjective(mPlan'.files),
              mPlan'.task = mPlan.task, mPlan'.timed => OneTicked(rows'), smsEdited' \in BOOLEAN,
              planLosses' \in 0..MaxPlanLosses
       PROVE  EditorInv'
  BY <1>30 DEF ChangeOnly, planHistory
<1>31. ASSUME NEW i \in DOMAIN rows, FileListViewClicked(i) PROVE EditorInv' /\ PlayListStep
  <2>1. /\ rows' = [j \in DOMAIN rows |-> [rows[j] EXCEPT !.ticked = IF j = i THEN ~@ ELSE @ /\ ~mPlan.timed]]
        /\ ChangeOnly /\ mPlan' = mPlan /\ smsEdited' = smsEdited /\ planLosses' = planLosses
    BY <1>31 DEF FileListViewClicked
  <2>2. DOMAIN rows = 1..Len(rows) /\ Len(rows) \in Nat /\ \A j \in DOMAIN rows : rows[j] \in Row
    OBVIOUS
  <2>3. DOMAIN rows' = DOMAIN rows
    BY <2>1
  <2>4. \A j \in DOMAIN rows : /\ rows'[j] \in Row /\ rows'[j].file = rows[j].file
                               /\ rows'[j].ticked => j = i \/ ~mPlan.timed
    <3> TAKE j \in DOMAIN rows
    <3>1. /\ rows[j].ticked \in BOOLEAN /\ mPlan.timed \in BOOLEAN
          /\ rows[j] = [file |-> rows[j].file, ticked |-> rows[j].ticked]
          /\ rows[j].file \in Files
      BY <2>2 DEF Row, Plan
    <3>2. rows'[j] = [file |-> rows[j].file, ticked |-> IF j = i THEN ~rows[j].ticked ELSE rows[j].ticked /\ ~mPlan.timed]
      BY <2>1, <3>1
    <3>3. (IF j = i THEN ~rows[j].ticked ELSE rows[j].ticked /\ ~mPlan.timed) \in BOOLEAN
      BY <3>1
    <3> QED BY <3>1, <3>2, <3>3 DEF Row
  <2>5. rows' \in Seq(Row)
    <3>1. rows' = [j \in 1..Len(rows) |-> rows'[j]] /\ \A j \in 1..Len(rows) : rows'[j] \in Row
      BY <2>1, <2>2, <2>4
    <3> QED BY <2>2, <3>1
  <2>6. FilesOf(rows') = FilesOf(rows)
    BY <2>3, <2>4 DEF FilesOf
  <2>7. mPlan.timed => OneTicked(rows')
    BY <2>3, <2>4 DEF OneTicked
  <2> QED BY <1>0, <1>30, <2>1, <2>5, <2>6, <2>7
<1>32. ASSUME TypeSms PROVE EditorInv' /\ PlayListStep
  <2>1. /\ ChangeOnly /\ mPlan' = mPlan /\ rows' = rows
        /\ planLosses' = planLosses /\ smsEdited' \in BOOLEAN
    BY <1>32 DEF TypeSms
  <2> QED BY <1>0, <1>30, <2>1
<1>33. ASSUME NEW order, NEW step,
              \/ order = [i \in 1..Len(rows) |-> i] /\ step = -1
              \/ order = Down(Len(rows)) /\ step = 1,
              Move(MoveLoop(order, step))
       PROVE  EditorInv' /\ PlayListStep
  <2> DEFINE moved == MoveLoop(order, step)
  <2>1. /\ mPlan.timed /\ rows' = moved /\ mPlan' = [mPlan EXCEPT !.files = FilesOf(moved)]
        /\ ChangeOnly /\ smsEdited' = smsEdited /\ planLosses' = planLosses
    BY <1>33 DEF Move
  <2>2. rows \in Seq(Row) /\ IsInjective(FilesOf(rows)) /\ OneTicked(rows)
    BY <2>1
  <2>3. moved = rows \/ \E i, j \in DOMAIN rows : (j = i + 1 \/ j = i - 1) /\ moved = Swap(rows, i, j)
    BY <1>33, <2>2, LoopOnce
  <2> HIDE DEF moved
  <2>4. /\ moved \in Seq(Row) /\ IsInjective(FilesOf(moved)) /\ OneTicked(moved)
        /\ FilesOf(moved) \in Seq(Files)
        /\ LET play == FilesOf(rows)
           IN  FilesOf(moved) = play \/ \E i \in 1..Len(play) - 1 :
                   FilesOf(moved) = [play EXCEPT ![i] = play[i + 1], ![i + 1] = play[i]]
    BY <2>2, <2>3, MovedOnce
  <2>5. mPlan' \in Plan /\ mPlan'.files = FilesOf(moved) /\ mPlan'.task = mPlan.task
    BY <1>1, <2>1, <2>4
  <2>6. EditorInv'
    BY <1>30, <2>1, <2>4, <2>5
  <2> QED BY <2>4, <2>5, <2>6 DEF PlayListStep
<1>34. ASSUME BtnMoveUpClicked \/ BtnMoveDownClicked PROVE EditorInv' /\ PlayListStep
  BY <1>33, <1>34 DEF BtnMoveUpClicked, BtnMoveDownClicked
<1>35. ASSUME NEW ends \in [{"dialog", "files"} -> Endings], BtnSelectRecordFileClicked(ends)
       PROVE  EditorInv' /\ PlayListStep
  <2> DEFINE ticked == Range(mPlan.files) \ Encoded
  <2>0. PICK there \in Listings(ends["dialog"]) : \E S \in SUBSET there :
            mPlan' = [mPlan EXCEPT !.files = LastFirst(there \cap ((ticked \ S) \cup (S \ ticked)))]
    BY <1>35, Zenon DEF BtnSelectRecordFileClicked
  <2>00. PICK S \in SUBSET there :
            mPlan' = [mPlan EXCEPT !.files = LastFirst(there \cap ((ticked \ S) \cup (S \ ticked)))]
    BY <2>0
  <2> DEFINE chosen == (ticked \ S) \cup (S \ ticked)
             files == LastFirst(there \cap chosen)
             plan == [mPlan EXCEPT !.files = files]
  <2>1. mPlan' = plan
    BY <2>00
  <2>2. /\ files \in Seq(Files) /\ IsInjective(files)
        /\ \A i, j \in DOMAIN files : i < j => files[i] > files[j]
    <3>1. there \cap chosen \in SUBSET Files
      BY <2>0 DEF Listings, Brought
    <3> HIDE DEF chosen
    <3> QED BY <3>1, LastFirstIs
  <2> HIDE DEF chosen, files
  <2>3. plan \in Plan /\ plan.files = files /\ plan.task = mPlan.task
    BY <1>1, <2>2
  <2> HIDE DEF plan
  <2>4. /\ ChangeOnly /\ smsEdited' = smsEdited /\ Lossy(ends)
        /\ \E now \in Listings(ends["files"]) : rows' = FileRows(plan, now)
    BY <1>35, <2>1 DEF BtnSelectRecordFileClicked
  <2>5. PICK now \in SUBSET Files : rows' = FileRows(plan, now)
    BY <2>4 DEF Listings, Brought
  <2>6. rows' \in Seq(Row) /\ IsInjective(FilesOf(rows')) /\ (plan.timed => OneTicked(rows'))
    BY <2>2, <2>3, <2>5, FileRowsIs
  <2>7. planLosses' \in 0..MaxPlanLosses
    <3>1. planLosses \in Nat
      OBVIOUS
    <3> QED BY <2>4, <3>1, CallsOfAStep, LossCount
  <2>8. EditorInv'
    BY <1>30, <2>1, <2>2, <2>3, <2>4, <2>6, <2>7
  <2> QED BY <2>1, <2>2, <2>3, <2>8 DEF PlayListStep
<1>36. ASSUME BtnTimeSettingEditClicked PROVE EditorInv' /\ PlayListStep
  <2>1. /\ mPlan' = [mPlan EXCEPT !.ready = TRUE] /\ ChangeOnly
        /\ rows' = rows /\ smsEdited' = smsEdited /\ planLosses' = planLosses
    BY <1>36 DEF BtnTimeSettingEditClicked
  <2>2. /\ mPlan' \in Plan /\ mPlan'.files = mPlan.files
        /\ mPlan'.task = mPlan.task /\ mPlan'.timed = mPlan.timed
    BY <2>1 DEF Plan
  <2> QED BY <1>0, <1>30, <2>1, <2>2
<1>37. ASSUME UNCHANGED planVars PROVE EditorInv'
  BY <1>37 DEF planVars, editor, planCounts, planHistory
<1> HIDE DEF EditorInv, PlanTypeOK
<1> QED
  BY <1>11, <1>12, <1>13, <1>14, <1>21, <1>22, <1>24, <1>25, <1>26, <1>31, <1>32, <1>34, <1>35, <1>36, <1>37
  DEF PlanNext

\* A move changes the play list by one step at most, an exchange of two neighbours, whatever
\* the recordings, plans and requests that get lost (TimedBroadcastEditor.cpp:291-371).
THEOREM MovesAreSteps == MainSpec => MovesOneStep
BY EditorInitially, EditorStep, MainPlans, PTL DEF PlanSpec, MovesOneStep

\* The editors' variables have their types, no recording stands in a plan twice, and in a
\* timed broadcast at most one row is ticked, which is what makes a move a single exchange
\* (TimedBroadcastEditor.cpp:393-408).
THEOREM EditorsInOrder == MainSpec => []EditorInv
BY EditorInitially, EditorStep, MainPlans, PTL DEF PlanSpec

-----------------------------------------------------------------------------
(* The time of a broadcast.                                                *)

\* The fields of a task.
TaskFields == {"model", "days", "weekly", "start", "stop", "cycles", "unlimited", "date"}

\* What a task holds, field by field.
TaskTypeOK ==
    /\ task = [f \in TaskFields |-> task[f]]
    /\ task.model \in {"none", "cycle", "time"} /\ task.days \subseteq Weekdays
    /\ task.weekly \in BOOLEAN /\ task.start \in Times /\ task.stop \in Times
    /\ task.cycles \in 1..MaxCycles /\ task.unlimited \in BOOLEAN
    /\ task.date \in Date

\* What runs once has one day at most.
OneDay(days) == days = {} \/ \E day \in Weekdays : days = {day}

\* The inductive invariant.
TimeInv ==
    /\ TaskTypeOK
    /\ setting = Closed \/ setting \in Settings
    /\ today \in Dates
    /\ warned \in BOOLEAN
    /\ ~task.weekly => OneDay(task.days)
    /\ setting # Closed => (~setting.weekly => OneDay(setting.days))
    /\ TaskRunsAsChosen

\* The months.
LEMMA DaysInRange == \A month, year : DaysIn(month, year) \in 28..31
BY DEF DaysIn

\* Today is a date.
LEMMA Today ==
    ASSUME today \in Dates
    PROVE  /\ today.year \in Nat /\ today.month \in 1..12 /\ today.weekday \in 1..7
           /\ today.day \in 1..DaysIn(today.month, today.year)
BY TimeAssumption, DaysInRange

\* The greatest of one.
LEMMA MaxOne == \A x \in Int : Max({x}) = x
<1> TAKE x \in Int
<1>1. \E y \in {x} : \A z \in {x} : y >= z
  OBVIOUS
<1> QED BY <1>1 DEF Max

\* The days that the next such weekday is ahead.
Ahead(day) == IF day - today.weekday >= 0 THEN day - today.weekday ELSE 7 + (day - today.weekday)

\* The date that the code computes in pieces is that day's, but for a year left blank.
LEMMA ExecuteDateIs ==
    ASSUME today \in Dates, NEW day \in 0..7, NEW days, day = IF days = {} THEN 0 ELSE Max(days)
    PROVE  LET date == AddDays(today, Ahead(day))
               run == ExecuteDate(days)
           IN  /\ run \in Date
               /\ run.day = date.day /\ run.month = date.month
               /\ run.year \in {date.year} \cup
                      (IF date.month # today.month /\ date.year = today.year THEN {Blank} ELSE {})
<1> DEFINE last == DaysIn(today.month, today.year)
           n == Ahead(day)
           date == AddDays(today, n)
           run == ExecuteDate(days)
           next == (today.month % 12) + 1
<1>1. /\ today.year \in Nat /\ today.month \in 1..12 /\ today.weekday \in 1..7
      /\ today.day \in 1..last /\ last \in 28..31
  BY Today, DaysInRange
<1>2. n \in 0..6
  BY <1>1 DEF Ahead
<1>3. /\ next \in 1..12
      /\ next < today.month <=> today.month = 12
      /\ next # today.month
      /\ today.month \div 12 = (IF today.month = 12 THEN 1 ELSE 0)
  BY <1>1
<1>4. date = IF today.day + n <= last
             THEN [year |-> today.year, month |-> today.month, day |-> today.day + n]
             ELSE [year |-> today.year + (today.month \div 12), month |-> next,
                   day |-> today.day + n - last]
  BY DEF AddDays
<1>5. run = IF date.day >= today.day
            THEN [year |-> today.year, month |-> today.month, day |-> date.day]
            ELSE [year |-> IF next < today.month THEN today.year + 1 ELSE Blank,
                  month |-> next, day |-> date.day]
  BY Zenon DEF ExecuteDate, Ahead
<1> HIDE DEF last, n, date, run, next
<1>6. CASE today.day + n <= last
  <2>1. /\ date.day = today.day + n /\ date.month = today.month /\ date.year = today.year
    BY <1>4, <1>6
  <2>2. run = [year |-> today.year, month |-> today.month, day |-> date.day]
    BY <1>1, <1>2, <1>5, <2>1
  <2>3. date.day \in 1..31
    BY <1>1, <1>2, <1>6, <2>1
  <2>4. run \in Date
    BY <1>1, <2>2, <2>3 DEF Date
  <2>5. run.day = date.day /\ run.month = date.month /\ run.year = date.year
    BY <2>1, <2>2
  <2> QED BY <2>4, <2>5 DEF run, date, n
<1>7. CASE ~(today.day + n <= last)
  <2>1. /\ date.day = today.day + n - last /\ date.month = next
        /\ date.year = today.year + (today.month \div 12)
    BY <1>4, <1>7
  <2>2. date.day \in 1..31 /\ date.day < today.day
    BY <1>1, <1>2, <1>7, <2>1
  <2>3. run = [year |-> IF next < today.month THEN today.year + 1 ELSE Blank,
               month |-> next, day |-> date.day]
    BY <1>1, <1>5, <2>2
  <2>4. run.day = date.day /\ run.month = next
        /\ run.year = (IF next < today.month THEN today.year + 1 ELSE Blank)
    BY <2>3
  <2>5. run \in Date
    BY <1>1, <1>3, <2>2, <2>3 DEF Date, Blank
  <2>6. run.year \in {date.year} \cup
            (IF date.month # today.month /\ date.year = today.year THEN {Blank} ELSE {})
    BY <1>1, <1>3, <2>1, <2>4
  <2> QED BY <2>1, <2>4, <2>5, <2>6 DEF run, date, n
<1> QED BY <1>6, <1>7

\* A step in the dialog alone.
LEMMA TimeKept ==
    ASSUME TimeInv, UNCHANGED <<task, today, warned>>,
           setting' = Closed \/ setting' \in Settings,
           setting' # Closed => (~setting'.weekly => OneDay(setting'.days))
    PROVE  TimeInv'
BY DEF TimeInv, TaskTypeOK, TaskRunsAsChosen

\* The dialog after it has been cleared.
LEMMA ClearedIs ==
    ASSUME NEW model \in {"none", "cycle", "time"}, NEW stop \in Times
    PROVE  Cleared(model, stop) \in Settings /\ OneDay(Cleared(model, stop).days)
BY TimeAssumption DEF Cleared, Settings, OneDay

\* The task as it is at first cannot run.
LEMMA TimeInitial == TimeInit => TimeInv
<1> SUFFICES ASSUME TimeInit PROVE TimeInv
  OBVIOUS
<1>1. DOMAIN Cleared("none", 0) \cup {"date"} = TaskFields
  BY DEF Cleared, TaskFields
<1>2. task = [f \in TaskFields |-> IF f = "date" THEN NoDate ELSE Cleared("none", 0)[f]]
  BY <1>1 DEF TimeInit
<1>3. /\ task = [f \in TaskFields |-> task[f]]
      /\ task.model = "none" /\ task.days = {} /\ task.weekly = FALSE /\ task.start = 0
      /\ task.stop = 0 /\ task.cycles = 1 /\ task.unlimited = FALSE /\ task.date = NoDate
  BY <1>2 DEF TaskFields, Cleared
<1>4. NoDate \in Date
  BY DEF NoDate, Date, Blank
<1>5. TaskTypeOK
  <2>1. 0 \in Times /\ 1 \in 1..MaxCycles
    BY TimeAssumption
  <2> QED BY <1>3, <1>4, <2>1 DEF TaskTypeOK
<1>6. TaskRunsAsChosen
  BY <1>3 DEF TaskRunsAsChosen
<1> QED BY <1>3, <1>5, <1>6 DEF TimeInv, TimeInit, OneDay

\* Every change and every "ok" keeps the invariant.
LEMMA TimeStep == TimeInv /\ [TimeNext]_timeVars => TimeInv'
<1> SUFFICES ASSUME TimeInv, [TimeNext]_timeVars PROVE TimeInv'
  OBVIOUS
<1>0. /\ TaskTypeOK /\ today \in Dates
      /\ setting = Closed \/ setting \in Settings
  BY DEF TimeInv
<1>1. CASE TimedSettingEditDialog
  <2>1. setting' = InitFromParentPlan /\ UNCHANGED <<task, today, warned>>
    BY <1>1 DEF TimedSettingEditDialog
  <2>2. CASE task.model = "none"
    BY <2>1, <2>2, ClearedIs, TimeKept, TimeAssumption DEF InitFromParentPlan
  <2>3. CASE task.model # "none"
    <3> DEFINE stop == IF task.model = "time" THEN task.stop ELSE 0
               cycles == IF task.model = "cycle" /\ ~task.unlimited THEN task.cycles ELSE 1
               unlimited == task.model = "cycle" /\ task.unlimited
    <3>1. setting' = [model |-> task.model, days |-> task.days, weekly |-> task.weekly,
                      start |-> task.start, stop |-> stop, cycles |-> cycles,
                      unlimited |-> unlimited]
      BY <2>1, <2>3 DEF InitFromParentPlan
    <3>2. stop \in Times /\ cycles \in 1..MaxCycles
      BY <1>0, TimeAssumption DEF TaskTypeOK
    <3>3. unlimited \in BOOLEAN
      OBVIOUS
    <3> HIDE DEF stop, cycles, unlimited
    <3>4. setting' \in Settings
      BY <1>0, <3>1, <3>2, <3>3 DEF TaskTypeOK, Settings
    <3>5. ~setting'.weekly => OneDay(setting'.days)
      BY <3>1 DEF TimeInv
    <3> QED BY <2>1, <3>4, <3>5, TimeKept
  <2> QED BY <2>2, <2>3
<1>2. ASSUME NEW models, NEW settings, ChangeSetting(models, settings),
             settings \in Settings, ~settings.weekly => OneDay(settings.days)
      PROVE  TimeInv'
  BY <1>2, TimeKept DEF ChangeSetting
<1>3. ASSUME setting \in Settings
      PROVE  /\ setting = [model |-> setting.model, days |-> setting.days, weekly |-> setting.weekly,
                           start |-> setting.start, stop |-> setting.stop,
                           cycles |-> setting.cycles, unlimited |-> setting.unlimited]
             /\ setting.model \in {"none", "cycle", "time"} /\ setting.days \subseteq Weekdays
             /\ setting.weekly \in BOOLEAN /\ setting.start \in Times /\ setting.stop \in Times
             /\ setting.cycles \in 1..MaxCycles /\ setting.unlimited \in BOOLEAN
  BY <1>3 DEF Settings
<1>4. ASSUME NEW model \in {"cycle", "time"}, BtnModelSelected(model) PROVE TimeInv'
  <2>1. setting \in Settings
    BY <1>0, <1>4 DEF BtnModelSelected, ChangeSetting
  <2> DEFINE m == IF setting.model = model THEN "none" ELSE model
  <2>2. Cleared(m, setting.stop) \in Settings /\ OneDay(Cleared(m, setting.stop).days)
    BY <1>3, <2>1, ClearedIs
  <2> QED BY <1>4, <2>2, <1>2 DEF BtnModelSelected
<1>5. ASSUME CboxExecuteEveryWeeksClicked PROVE TimeInv'
  <2>1. setting \in Settings /\ setting # Closed
    BY <1>0, <1>5 DEF CboxExecuteEveryWeeksClicked, ChangeSetting
  <2> DEFINE s == [setting EXCEPT !.weekly = ~@, !.days = IF setting.weekly THEN {} ELSE @]
  <2>2. s \in Settings
    BY <2>1 DEF Settings
  <2>3. ~s.weekly => OneDay(s.days)
    BY <2>1, <1>3 DEF OneDay
  <2> HIDE DEF s
  <2>4. ChangeSetting({"cycle", "time"}, s)
    BY <1>5 DEF CboxExecuteEveryWeeksClicked, s
  <2> QED BY <2>2, <2>3, <2>4, <1>2
<1>6. ASSUME NEW day \in Weekdays, CboxClicked(day) PROVE TimeInv'
  <2> DEFINE others == IF setting.weekly THEN setting.days \ {day} ELSE {}
             days == IF day \in setting.days THEN others ELSE others \cup {day}
             s == [setting EXCEPT !.days = days]
  <2>1. setting \in Settings
    BY <1>0, <1>6 DEF CboxClicked, ChangeSetting
  <2>2. days \subseteq Weekdays
    BY <1>3, <2>1
  <2>3. s \in Settings /\ s.days = days /\ s.weekly = setting.weekly
    BY <2>1, <2>2, <1>3 DEF Settings
  <2>4. ~s.weekly => OneDay(s.days)
    BY <2>3 DEF OneDay
  <2>5. ChangeSetting({"cycle", "time"}, s)
    BY <1>6 DEF CboxClicked
  <2> HIDE DEF s
  <2> QED BY <2>3, <2>4, <2>5, <1>2
<1>7. ASSUME NEW models, NEW s, ChangeSetting(models, s), s \in Settings,
             s.days = setting.days, s.weekly = setting.weekly
      PROVE  TimeInv'
  BY <1>7, <1>2 DEF TimeInv, ChangeSetting
<1>8. ASSUME NEW time \in Times, EditTimes(time) PROVE TimeInv'
  <2>1. setting \in Settings
    BY <1>0, <1>8 DEF EditTimes, ChangeSetting
  <2> DEFINE s == [setting EXCEPT !.start = time]
             t == [setting EXCEPT !.stop = time]
  <2>2. /\ s \in Settings /\ s.days = setting.days /\ s.weekly = setting.weekly
        /\ t \in Settings /\ t.days = setting.days /\ t.weekly = setting.weekly
    BY <2>1 DEF Settings
  <2>3. ChangeSetting({"cycle", "time"}, s) \/ ChangeSetting({"time"}, t)
    BY <1>8 DEF EditTimes
  <2> HIDE DEF s, t
  <2> QED BY <2>2, <2>3, <1>7
<1>9. ASSUME NEW n \in {-1, 1}, BtnCycleNumberClicked(n) PROVE TimeInv'
  <2>1. setting \in Settings
    BY <1>0, <1>9 DEF BtnCycleNumberClicked, ChangeSetting
  <2> DEFINE c == IF setting.cycles + n \in 1..MaxCycles THEN setting.cycles + n ELSE setting.cycles
             s == [setting EXCEPT !.cycles = c]
  <2>2. c \in 1..MaxCycles
    BY <1>3, <2>1
  <2>3. s \in Settings /\ s.days = setting.days /\ s.weekly = setting.weekly
    BY <2>1, <2>2 DEF Settings
  <2>4. ChangeSetting({"cycle"}, s)
    BY <1>9 DEF BtnCycleNumberClicked
  <2> HIDE DEF s
  <2> QED BY <2>3, <2>4, <1>7
<1>10. ASSUME UlimitedCycleClicked PROVE TimeInv'
  <2>1. setting \in Settings
    BY <1>0, <1>10 DEF UlimitedCycleClicked, ChangeSetting
  <2> DEFINE s == [setting EXCEPT !.unlimited = ~@]
  <2>2. s \in Settings /\ s.days = setting.days /\ s.weekly = setting.weekly
    BY <2>1 DEF Settings
  <2>3. ChangeSetting({"cycle"}, s)
    BY <1>10 DEF UlimitedCycleClicked
  <2> HIDE DEF s
  <2> QED BY <2>2, <2>3, <1>7
<1>11. CASE BtnCannelClicked
  BY <1>11, TimeKept DEF BtnCannelClicked
<1>12. CASE BtnOkClicked
  <2>1. /\ setting \in Settings /\ setting # Closed /\ setting' = Closed /\ today' = today
        /\ warned' = Warns
    BY <1>0, <1>12 DEF BtnOkClicked
  <2> DEFINE none == setting.model = "none"
             run == ExecuteDate(setting.days)
             day == IF setting.days = {} THEN 0 ELSE Max(setting.days)
  <2>2. DOMAIN task = TaskFields
    BY <1>0 DEF TaskTypeOK
  <2>3. /\ task' = [f \in TaskFields |-> task'[f]]
        /\ task'.days = setting.days
        /\ task'.weekly = setting.weekly
        /\ task'.date = (IF setting.weekly THEN task.date ELSE run)
        /\ task'.model = (IF none THEN task.model ELSE setting.model)
        /\ task'.start = (IF none THEN task.start ELSE setting.start)
        /\ task'.stop = (IF setting.model = "time" THEN setting.stop ELSE task.stop)
        /\ task'.cycles = (IF setting.model = "cycle" THEN setting.cycles ELSE task.cycles)
        /\ task'.unlimited = (IF setting.model = "cycle" THEN setting.unlimited ELSE task.unlimited)
    BY <1>12, <2>2 DEF BtnOkClicked, TaskFields
  <2>4. ~setting.weekly => OneDay(setting.days)
    BY <2>1 DEF TimeInv
  <2>5. ASSUME ~setting.weekly
        PROVE  /\ day \in 0..7
               /\ setting.days # {} => day \in 1..7 /\ setting.days = {day}
    <3>1. CASE setting.days = {}
      BY <3>1
    <3>2. CASE setting.days # {}
      <4>1. PICK d \in Weekdays : setting.days = {d}
        BY <2>4, <2>5, <3>2 DEF OneDay
      <4>2. d \in 1..7 /\ Max({d}) = d
        BY MaxOne, TimeAssumption
      <4> QED BY <3>2, <4>1, <4>2
    <3> QED BY <3>1, <3>2
  <2>6. ASSUME ~setting.weekly
        PROVE  LET date == AddDays(today, Ahead(day))
               IN  /\ run \in Date
                   /\ run.day = date.day /\ run.month = date.month
                   /\ run.year \in {date.year} \cup
                          (IF date.month # today.month /\ date.year = today.year THEN {Blank} ELSE {})
    BY <1>0, <2>5, <2>6, ExecuteDateIs
  <2> HIDE DEF run, day
  <2>7. TaskTypeOK'
    <3>1. task'.date \in Date
      BY <1>0, <2>3, <2>6 DEF TaskTypeOK
    <3> QED BY <1>0, <1>3, <2>1, <2>3, <3>1 DEF TaskTypeOK
  <2>8. TaskRunsAsChosen'
    <3> SUFFICES ASSUME task'.model # "none", ~warned'
                 PROVE  /\ task'.days # {}
                        /\ task'.model = "time" => task'.start < task'.stop
                        /\ ~task'.weekly =>
                               \E d \in 1..7, n \in 0..6 :
                                   LET date == AddDays(today', n)
                                   IN  /\ task'.days = {d}
                                       /\ (today'.weekday + n - d) % 7 = 0
                                       /\ task'.date.day = date.day /\ task'.date.month = date.month
                                       /\ task'.date.year \in {date.year} \cup
                                              (IF date.month # today'.month /\ date.year = today'.year
                                               THEN {Blank} ELSE {})
      BY DEF TaskRunsAsChosen
    <3>1. ~none /\ setting.days # {} /\ (setting.model = "time" => ~(setting.stop <= setting.start))
      BY <2>1 DEF Warns
    <3>2. task'.model = "time" => task'.start < task'.stop
      BY <1>3, <2>1, <2>3, <3>1, TimeAssumption
    <3>3. ASSUME ~task'.weekly
          PROVE  \E d \in 1..7, n \in 0..6 :
                     LET date == AddDays(today', n)
                     IN  /\ task'.days = {d}
                         /\ (today'.weekday + n - d) % 7 = 0
                         /\ task'.date.day = date.day /\ task'.date.month = date.month
                         /\ task'.date.year \in {date.year} \cup
                                (IF date.month # today'.month /\ date.year = today'.year
                                 THEN {Blank} ELSE {})
      <4>1. day \in 1..7 /\ task'.days = {day} /\ task'.date = run
        BY <2>3, <2>5, <3>1, <3>3
      <4>2. Ahead(day) \in 0..6 /\ (today.weekday + Ahead(day) - day) % 7 = 0
        BY <1>0, <4>1, Today DEF Ahead
      <4> day \in 1..7
        BY <4>1
      <4> Ahead(day) \in 0..6
        BY <4>2
      <4> WITNESS day \in 1..7
      <4> WITNESS Ahead(day) \in 0..6
      <4>3. ~setting.weekly
        BY <2>3, <3>3
      <4> QED BY <2>1, <2>6, <4>1, <4>2, <4>3
    <3> QED BY <2>3, <3>1, <3>2, <3>3
  <2>9. Warns \in BOOLEAN
    BY DEF Warns
  <2> QED BY <1>0, <2>1, <2>3, <2>4, <2>7, <2>8, <2>9 DEF TimeInv
<1>13. CASE UNCHANGED timeVars
  BY <1>13, TimeKept DEF timeVars, TimeInv
<1> QED BY <1>1, <1>4, <1>5, <1>6, <1>8, <1>9, <1>10, <1>11, <1>12, <1>13 DEF TimeNext

\* The dialog acts as specified whatever else the main window does.
LEMMA MainTimes == MainSpec => TimeSpec
<1>1. MainInit => TimeInit
  BY DEF MainInit
<1>2. [MainNext]_mainVars => [TimeNext]_timeVars
  BY DEF MainNext, mainVars, formVars
<1> QED BY <1>1, <1>2, PTL DEF MainSpec, TimeSpec

\* The invariant says what the type invariant does.
LEMMA TimeTyped == TimeInv => TimeTypeOK
<1> SUFFICES ASSUME TimeInv PROVE TimeTypeOK
  OBVIOUS
<1>1. DOMAIN task \ {"date"} = TaskFields \ {"date"}
  BY DEF TimeInv, TaskTypeOK
<1>2. [f \in TaskFields \ {"date"} |-> task[f]] \in Settings
  BY DEF TimeInv, TaskTypeOK, TaskFields, Settings
<1> QED BY <1>1, <1>2 DEF TimeInv, TaskTypeOK, TimeTypeOK

\* A task set without ignoring a warning has a mode and a day, stops after it starts, and when
\* it runs once is dated the next such weekday, whatever the date and the changes before it;
\* the year may be blank where that day is in another month of the same year
\* (TimedBroadcastEditor.cpp:576-684, 655-662, 956-1052).
THEOREM TasksRunAsChosen == MainSpec => []TaskRunsAsChosen
<1>1. TimeInv => TaskRunsAsChosen
  BY DEF TimeInv
<1> QED BY TimeInitial, TimeStep, MainTimes, <1>1, PTL DEF TimeSpec

-----------------------------------------------------------------------------
(* The phone book.                                                         *)

\* The types that the argument needs.
ListTypeOK ==
    /\ book \subseteq Numbers
    /\ list \subseteq Records
    /\ texts \subseteq Numbers
    /\ ticks \subseteq Cells /\ \A cell \in ticks : cell[1] \in list
    /\ method \in Methods

\* Where one is to be chosen, the numbers ticked are those of one row.
OneRow == method \in Single => \A c, d \in ticks : c[2] # "all" /\ d[2] # "all" => c[1] = d[1]

\* The inductive invariant.
BookInv == ListTypeOK /\ OneRow

\* One of a kind, in order.
LEMMA InOrderOne == \A n \in Int : Len(InOrder({n})) = 1 /\ InOrder({n})[1] = n
<1> TAKE n \in Int
<1>1. {n} \in SUBSET Int /\ IsFiniteSet({n}) /\ Cardinality({n}) = 1
  BY FS_Singleton
<1>2. InOrder({n}) \in Seq({n}) /\ Len(InOrder({n})) = 1
  BY <1>1, InOrderIs
<1> DEFINE s == InOrder({n})
<1> HIDE DEF s
<1>3. s \in Seq({n}) /\ Len(s) = 1
  BY <1>2 DEF s
<1>4. s[1] = n
  BY <1>3
<1> QED BY <1>3, <1>4 DEF s

\* The numbers that a row is called at, when one of them is ticked.
LEMMA RowHasNumber ==
    ASSUME NEW K \in SUBSET DOMAIN NumberKinds, K # {}, NEW r
    PROVE  LET columns == InOrder(K)
               numbers == [j \in DOMAIN columns |-> <<r, NumberKinds[columns[j]]>>]
           IN  numbers # <<>> /\ numbers[Len(numbers)][1] = r
<1> DEFINE columns == InOrder(K)
           numbers == [j \in DOMAIN columns |-> <<r, NumberKinds[columns[j]]>>]
<1>1. Len(NumberKinds) \in Nat /\ DOMAIN NumberKinds = 1..Len(NumberKinds)
  BY BookAssumption
<1>2. K \in SUBSET Int /\ IsFiniteSet(K)
  <2>1. IsFiniteSet(1..Len(NumberKinds))
    BY <1>1, FS_Interval
  <2> QED BY <1>1, <2>1, FS_Subset
<1>3. columns \in Seq(K) /\ Range(columns) = K
  BY <1>2, InOrderIs
<1> HIDE DEF columns
<1>4. DOMAIN columns = 1..Len(columns) /\ Len(columns) \in Nat
  BY <1>3
<1>5. Len(columns) # 0
  BY <1>3, <1>4 DEF Range
<1>6. numbers \in Seq({<<r, NumberKinds[columns[j]]>> : j \in DOMAIN columns})
      /\ Len(numbers) = Len(columns)
  BY <1>4
<1>7. Len(numbers) \in DOMAIN columns
  BY <1>4, <1>5, <1>6
<1>8. numbers[Len(numbers)] = <<r, NumberKinds[columns[Len(numbers)]]>>
  BY <1>7
<1>9. numbers # <<>>
  BY <1>4, <1>5, <1>6
<1> QED BY <1>8, <1>9 DEF columns

\* The row ticked last is the only one, so the call goes there.
LEMMA LastIsReached == BookInv => ReachesLastTicked
<1> SUFFICES ASSUME ListTypeOK, OneRow, method \in Single, lastTicked \in ticks \cap texts,
                    \A r \in Records : <<r, "all">> \notin ticks
             PROVE  /\ Len(SelectedRecords) = 1
                    /\ CallOne(SelectedRecords) # <<>>
                    /\ CallOne(SelectedRecords)[1][1] = lastTicked[1]
  BY DEF BookInv, ReachesLastTicked
<1> DEFINE x == lastTicked[1]
           Ticked(r, k) == <<r, "all">> \in ticks \/ <<r, k>> \in ticks
           K == {k \in DOMAIN NumberKinds : Ticked(x, NumberKinds[k]) /\ <<x, NumberKinds[k]>> \in texts}
           numbers == LET columns == InOrder(K)
                      IN  [j \in DOMAIN columns |-> <<x, NumberKinds[columns[j]]>>]
<1>1. /\ lastTicked \in Numbers /\ x \in Records /\ x \in Int /\ x \in list
      /\ lastTicked = <<x, lastTicked[2]>> /\ lastTicked[2] \in Range(NumberKinds)
  BY BookAssumption DEF ListTypeOK, Numbers
<1>2. \A c \in ticks : c[2] # "all"
  <2> TAKE c \in ticks
  <2>1. c \in Cells /\ c = <<c[1], c[2]>> /\ c[1] \in Records
    BY DEF ListTypeOK, Cells
  <2> QED BY <2>1
<1>3. {r \in list : \E c \in ticks : c[1] = r} = {x}
  BY <1>1, <1>2 DEF OneRow
<1>4. K # {}
  BY <1>1 DEF Range
<1>5. numbers # <<>> /\ numbers[Len(numbers)][1] = x
  <2>1. K \in SUBSET DOMAIN NumberKinds
    OBVIOUS
  <2> HIDE DEF K, x
  <2> QED BY <1>4, <2>1, RowHasNumber
<1> DEFINE ordered == InOrder({x})
           records(i) == [record |-> ordered[i],
                          numbers |-> LET columns == InOrder({k \in DOMAIN NumberKinds :
                                                                 /\ Ticked(ordered[i], NumberKinds[k])
                                                                 /\ <<ordered[i], NumberKinds[k]>> \in texts})
                                      IN  [j \in DOMAIN columns |-> <<ordered[i], NumberKinds[columns[j]]>>]]
<1>6. SelectedRecords = [i \in DOMAIN ordered |-> records(i)]
  BY <1>3, Zenon DEF SelectedRecords
<1>7. Len(ordered) = 1 /\ ordered[1] = x /\ DOMAIN ordered = 1..1
  <2>1. ordered \in Seq({x})
    BY <1>1, InOrderIs, FS_Singleton
  <2> QED BY <1>1, <2>1, InOrderOne
<1>8. records(1).numbers = numbers
  BY <1>7
<1> HIDE DEF ordered, records, numbers
<1>9. Len(SelectedRecords) = 1 /\ SelectedRecords[1] = records(1)
  BY <1>6, <1>7
<1>10. CallOne(SelectedRecords) = <<Target(SelectedRecords[1])>>
  BY <1>5, <1>8, <1>9 DEF CallOne
<1>11. Target(SelectedRecords[1]) = numbers[Len(numbers)]
  BY <1>8, <1>9 DEF Target
<1>12. CallOne(SelectedRecords)[1][1] = x /\ CallOne(SelectedRecords) # <<>>
  BY <1>5, <1>10, <1>11
<1> QED BY <1>9, <1>12

\* At first nothing is ticked.
LEMMA BookInitially == BookInit => BookInv
BY BookAssumption DEF BookInit, BookInv, ListTypeOK, OneRow, Numbers, Methods

\* Every click, edit and load keeps the invariant.
LEMMA BookStep == BookInv /\ [BookNext]_bookVars => BookInv'
<1> SUFFICES ASSUME ListTypeOK, OneRow, [BookNext]_bookVars PROVE BookInv'
  BY DEF BookInv
<1>1. ASSUME NEW numbers \in SUBSET Numbers, NEW lost \in BOOLEAN, LoadBook(numbers, lost),
             book' \subseteq Numbers, method' \in Methods
      PROVE  BookInv'
  BY <1>1 DEF LoadBook, BookInv, ListTypeOK, OneRow
<1>2. ASSUME NEW purpose \in Methods, NEW lost \in BOOLEAN, ResumeBook(purpose, lost) PROVE BookInv'
  BY <1>1, <1>2 DEF ResumeBook, ListTypeOK
<1>3. ASSUME NEW cell \in Cells, RecordListViewClicked(cell) PROVE BookInv'
  <2> DEFINE flipped == (ticks \ {cell}) \cup ({cell} \ ticks)
  <2>1. /\ cell[1] \in list
        /\ ticks' = (IF method \in Single
                     THEN {c \in flipped : c[1] = cell[1] \/ c[2] = "all"} ELSE flipped)
        /\ UNCHANGED <<book, list, texts, method>>
    BY <1>3 DEF RecordListViewClicked
  <2>2. ticks' \subseteq ticks \cup {cell}
    BY <2>1
  <2>3. ListTypeOK'
    BY <2>1, <2>2 DEF ListTypeOK
  <2>4. OneRow'
    BY <2>1 DEF OneRow
  <2> QED BY <2>3, <2>4 DEF BookInv
<1>4. ASSUME NEW number \in Numbers, EditCell(number) PROVE BookInv'
  BY <1>4 DEF EditCell, BookInv, ListTypeOK, OneRow
<1>5. ASSUME NEW lostRecords, NEW lost \in BOOLEAN, Save(lostRecords, lost) PROVE BookInv'
  <2> DEFINE changed == {r \in list : \E k \in Editable : (<<r, k>> \in texts) # (<<r, k>> \in book)}
             saved == changed \ lostRecords
             numbers == {n \in texts : n[1] \in saved} \cup {n \in book : n[1] \notin saved}
  <2>1. /\ book' = numbers /\ LoadBook(numbers, lost) /\ method' = method
    BY <1>5 DEF Save
  <2>2. numbers \in SUBSET Numbers
    BY DEF ListTypeOK
  <2> HIDE DEF numbers
  <2> QED BY <1>1, <2>1, <2>2 DEF ListTypeOK
<1>6. CASE Call \/ UNCHANGED bookVars
  BY <1>6 DEF Call, bookVars, BookInv, ListTypeOK, OneRow
<1> QED BY <1>2, <1>3, <1>4, <1>5, <1>6 DEF BookNext

\* The phone book acts as specified whatever else the main window does.
LEMMA MainBook == MainSpec => BookSpec
<1>1. MainInit => BookInit
  BY DEF MainInit
<1>2. [MainNext]_mainVars => [BookNext]_bookVars
  BY DEF MainNext, mainVars, formVars
<1> QED BY <1>1, <1>2, PTL DEF MainSpec, BookSpec

\* Where one callee is to be chosen, the call is made to the row whose number was clicked
\* last, for any records and kinds of number (UiPhoneBookList.cpp:118-135, 306-363).
THEOREM CallReachesLastTicked == MainSpec => []ReachesLastTicked
BY BookInitially, BookStep, LastIsReached, MainBook, PTL DEF BookSpec

\* A record chosen, with the numbers it is to be called at.
Choice == [record : Records, numbers : Seq(Numbers)]

\* The numbers of a row, column by column.
LEMMA RowNumbers ==
    ASSUME NEW K \in SUBSET DOMAIN NumberKinds, NEW r \in Records
    PROVE  [j \in DOMAIN InOrder(K) |-> <<r, NumberKinds[InOrder(K)[j]]>>] \in Seq(Numbers)
<1> DEFINE columns == InOrder(K)
<1>1. Len(NumberKinds) \in Nat /\ DOMAIN NumberKinds = 1..Len(NumberKinds)
  BY BookAssumption
<1>2. K \in SUBSET Int /\ IsFiniteSet(K)
  <2>1. IsFiniteSet(1..Len(NumberKinds))
    BY <1>1, FS_Interval
  <2> QED BY <1>1, <2>1, FS_Subset
<1>3. columns \in Seq(K)
  BY <1>2, InOrderIs
<1> HIDE DEF columns
<1>4. DOMAIN columns = 1..Len(columns) /\ Len(columns) \in Nat /\ \A j \in DOMAIN columns : columns[j] \in K
  BY <1>3
<1>5. \A j \in DOMAIN columns : <<r, NumberKinds[columns[j]]>> \in Numbers
  BY <1>4 DEF Numbers, Range
<1>6. [j \in DOMAIN columns |-> <<r, NumberKinds[columns[j]]>>] \in Seq(Numbers)
  BY <1>4, <1>5
<1> QED BY <1>6 DEF columns

\* What has been chosen is a list of records with their numbers.
LEMMA ChosenAre == ListTypeOK => SelectedRecords \in Seq(Choice)
<1> SUFFICES ASSUME ListTypeOK PROVE SelectedRecords \in Seq(Choice)
  OBVIOUS
<1> DEFINE Ticked(r, k) == <<r, "all">> \in ticks \/ <<r, k>> \in ticks
           R == {r \in list : \E c \in ticks : c[1] = r}
           chosen == InOrder(R)
           K(r) == {k \in DOMAIN NumberKinds : Ticked(r, NumberKinds[k]) /\ <<r, NumberKinds[k]>> \in texts}
           numbers(r) == LET columns == InOrder(K(r))
                         IN  [j \in DOMAIN columns |-> <<r, NumberKinds[columns[j]]>>]
<1>1. SelectedRecords = [i \in DOMAIN chosen |-> [record |-> chosen[i], numbers |-> numbers(chosen[i])]]
  BY Zenon DEF SelectedRecords
<1>2. R \subseteq Records /\ R \in SUBSET Int /\ IsFiniteSet(R)
  <2>1. R \subseteq Records
    BY DEF ListTypeOK
  <2> HIDE DEF R
  <2> QED BY <2>1, BookAssumption, FS_Subset DEF BookAssumption
<1> HIDE DEF R
<1>3. chosen \in Seq(R)
  BY <1>2, InOrderIs
<1> HIDE DEF chosen
<1>4. DOMAIN chosen = 1..Len(chosen) /\ Len(chosen) \in Nat /\ \A i \in DOMAIN chosen : chosen[i] \in Records
  <2>1. DOMAIN chosen = 1..Len(chosen) /\ Len(chosen) \in Nat /\ \A i \in DOMAIN chosen : chosen[i] \in R
    BY <1>3
  <2> QED BY <1>2, <2>1
<1>5. \A r \in Records : numbers(r) \in Seq(Numbers)
  <2> TAKE r \in Records
  <2>1. K(r) \in SUBSET DOMAIN NumberKinds
    OBVIOUS
  <2> HIDE DEF K
  <2> QED BY <2>1, RowNumbers
<1> HIDE DEF numbers
<1>6. \A i \in 1..Len(chosen) : [record |-> chosen[i], numbers |-> numbers(chosen[i])] \in Choice
  BY <1>4, <1>5 DEF Choice
<1> QED BY <1>1, <1>4, <1>6

\* What is called into a conference.
LEMMA ConferenceIs == \A records \in Seq(Choice) : Conference(records) \in Seq(Numbers)
<1> TAKE records \in Seq(Choice)
<1> DEFINE n == Len(records)
           Good(g) == g = [k \in 0..n |-> IF k = 0 THEN <<>> ELSE g[k - 1] \o records[k].numbers]
           upTo == CHOOSE g : Good(g)
           numbers == upTo[n]
           P == {i \in DOMAIN numbers : numbers[i][2] # "exten"}
           outside == Picked(numbers, P)
<1>1. Conference(records) = [i \in DOMAIN numbers |-> IF numbers[i][2] = "exten" THEN numbers[i] ELSE outside[1]]
  BY Zenon DEF Conference
<1>2. n \in Nat /\ \A k \in 1..n : records[k].numbers \in Seq(Numbers)
  <2>1. n \in Nat /\ \A k \in 1..n : records[k] \in Choice
    OBVIOUS
  <2> QED BY <2>1 DEF Choice
<1> HIDE DEF n
<1> DEFINE S == Seq(Numbers)
           f == [p \in (1..n) \X S |-> p[2] \o records[p[1]].numbers]
<1>3. f \in [(1..n) \X S -> S]
  <2>1. \A k \in 1..n, s \in S : s \o records[k].numbers \in S
    BY <1>2, ConcatProperties
  <2> QED BY <2>1
<1>4. \A k \in 1..n, s \in S : f[<<k, s>>] = s \o records[k].numbers
  OBVIOUS
<1>5. <<>> \in S
  OBVIOUS
<1> HIDE DEF f, S
<1>6. PICK g \in [0..n -> S] : Steps(g, <<>>, n, f)
  BY <1>2, <1>3, <1>5, StepsExist
<1>7. Good(g)
  <2>1. ASSUME NEW k \in 0..n PROVE g[k] = IF k = 0 THEN <<>> ELSE g[k - 1] \o records[k].numbers
    <3>1. CASE k = 0
      BY <1>6, <3>1 DEF Steps
    <3>2. CASE k # 0
      <4>1. k \in 1..n /\ k - 1 \in 0..n
        BY <1>2, <3>2
      <4>2. g[k - 1] \in S
        BY <4>1
      <4>3. g[k] = f[<<k, g[k - 1]>>]
        BY <1>6, <4>1 DEF Steps
      <4> QED BY <1>4, <3>2, <4>1, <4>2, <4>3
    <3> QED BY <3>1, <3>2
  <2> QED BY <2>1
<1>8. Good(upTo)
  <2> HIDE DEF Good
  <2> QED BY <1>7
<1> HIDE DEF upTo
<1>9. upTo[0] = <<>> /\ \A k \in 1..n : upTo[k] = upTo[k - 1] \o records[k].numbers
  <2>1. 0 \in 0..n /\ \A k \in 1..n : k \in 0..n /\ k # 0
    BY <1>2
  <2> QED BY <1>8, <2>1
<1> DEFINE T == {k \in 0..n : upTo[k] \in Seq(Numbers)}
<1>10. 0 \in T
  BY <1>2, <1>9
<1>11. ASSUME NEW k \in 1..n, k - 1 \in T PROVE k \in T
  <2>1. upTo[k - 1] \in Seq(Numbers) /\ k \in 0..n
    BY <1>11
  <2>2. upTo[k] = upTo[k - 1] \o records[k].numbers
    BY <1>9
  <2>3. upTo[k - 1] \o records[k].numbers \in Seq(Numbers)
    BY <1>2, <2>1, ConcatProperties
  <2> QED BY <2>1, <2>2, <2>3
<1>12. numbers \in Seq(Numbers)
  <2> HIDE DEF T
  <2>1. \A k \in 0..n : k \in T
    BY <1>2, <1>10, <1>11, UpTo
  <2>2. n \in T
    BY <1>2, <2>1
  <2> QED BY <2>2 DEF T
<1> HIDE DEF numbers
<1>13. outside \in Seq(Numbers) /\ Range(outside) = {numbers[i] : i \in P}
  <2>1. P \in SUBSET DOMAIN numbers
    OBVIOUS
  <2> HIDE DEF P
  <2> QED BY <1>12, <2>1, PickedIs
<1> HIDE DEF outside
<1>14. P # {} => outside[1] \in Numbers
  <2> HIDE DEF P
  <2> SUFFICES ASSUME P # {} PROVE outside[1] \in Numbers
    OBVIOUS
  <2>1. DOMAIN outside = 1..Len(outside) /\ Len(outside) \in Nat
    BY <1>13
  <2>2. DOMAIN outside # {}
    <3>1. PICK i \in P : TRUE
      OBVIOUS
    <3>2. numbers[i] \in Range(outside)
      BY <1>13
    <3> QED BY <3>2 DEF Range
  <2>3. 1 \in DOMAIN outside
    BY <2>1, <2>2
  <2> QED BY <1>13, <2>3
<1>15. DOMAIN numbers = 1..Len(numbers) /\ Len(numbers) \in Nat /\ \A i \in DOMAIN numbers : numbers[i] \in Numbers
  BY <1>12
<1>16. \A i \in DOMAIN numbers : (IF numbers[i][2] = "exten" THEN numbers[i] ELSE outside[1]) \in Numbers
  BY <1>14, <1>15
<1> QED BY <1>1, <1>15, <1>16

\* One record is called at its last number.
LEMMA TargetIs == \A record \in Choice : record.numbers # <<>> => Target(record) \in Numbers
<1> TAKE record \in Choice
<1> DEFINE s == record.numbers
<1>1. s \in Seq(Numbers)
  BY DEF Choice
<1> HIDE DEF s
<1>2. s # <<>> => s[Len(s)] \in Numbers
  BY <1>1
<1> QED BY <1>2 DEF Target, s

\* One callee, or none.
LEMMA CallOneIs == \A records \in Seq(Choice) : CallOne(records) \in Seq(Numbers)
<1> TAKE records \in Seq(Choice)
<1>1. CASE Len(records) # 1 \/ records[1].numbers = <<>>
  BY <1>1 DEF CallOne
<1>2. CASE ~(Len(records) # 1 \/ records[1].numbers = <<>>)
  <2>1. records[1] \in Choice
    BY <1>2
  <2>2. Target(records[1]) \in Numbers
    BY <1>2, <2>1, TargetIs
  <2> QED BY <1>2, <2>2 DEF CallOne
<1> QED BY <1>1, <1>2

\* Those before the first record without a number.
LEMMA EmergencyIs == \A records \in Seq(Choice) : EmergencyCall(records) \in Seq(Numbers)
<1> TAKE records \in Seq(Choice)
<1> DEFINE n == Len(records)
           without == {i \in DOMAIN records : records[i].numbers = <<>>}
           called == {i \in DOMAIN records : \A j \in without : i < j}
<1>1. n \in Nat /\ DOMAIN records = 1..n /\ \A i \in 1..n : records[i] \in Choice
  OBVIOUS
<1>2. EmergencyCall(records) = [i \in called |-> Target(records[i])]
  BY DEF EmergencyCall
<1>3. \E m \in Nat : called = 1..m
  <2>1. CASE without = {}
    BY <1>1, <2>1
  <2>2. CASE without # {}
    <3>1. without \subseteq Nat
      BY <1>1
    <3>2. PICK k \in without : \A j \in without : ~ (<<j, k>> \in OpToRel(<, Nat))
      BY <2>2, <3>1, WFMin, NatLessThanWellFounded
    <3>3. \A j \in without : k <= j
      <4>1. \A j \in without : ~(j < k)
        BY <3>1, <3>2 DEF OpToRel
      <4> QED BY <3>1, <4>1
    <3>4. k \in 1..n
      BY <1>1
    <3>5. called = 1..(k - 1)
      BY <1>1, <3>1, <3>3, <3>4
    <3> QED BY <3>4, <3>5
  <2> QED BY <2>1, <2>2
<1>4. \A i \in called : Target(records[i]) \in Numbers
  <2> TAKE i \in called
  <2>1. records[i] \in Choice /\ records[i].numbers # <<>>
    BY <1>1
  <2> QED BY <2>1, TargetIs
<1> HIDE DEF called
<1>5. PICK m \in Nat : called = 1..m
  BY <1>3
<1> QED BY <1>2, <1>4, <1>5

\* What a call was for and whom it reached, and how much got lost.
CallsTyped ==
    /\ dialled \in Seq(Numbers)
    /\ asked \in Seq(Choice)
    /\ lastTicked = None \/ lastTicked \in Numbers
    /\ bookLosses \in 0..MaxBookLosses

\* At first nobody has been called.
LEMMA CallsInitially == BookInit => CallsTyped
<1>1. MaxBookLosses \in Nat
  BY BookAssumption DEF BookAssumption
<1> QED BY <1>1 DEF BookInit, CallsTyped

\* Every action keeps them so.
LEMMA CallsStep == BookInv /\ CallsTyped /\ [BookNext]_bookVars => CallsTyped'
<1> SUFFICES ASSUME ListTypeOK, CallsTyped, [BookNext]_bookVars PROVE CallsTyped'
  BY DEF BookInv
<1>1. \A n \in Nat : Lose(n) => bookLosses' \in 0..MaxBookLosses
  BY BookAssumption DEF Lose, CallsTyped, BookAssumption
<1>2. Quiet => dialled' \in Seq(Numbers) /\ asked' \in Seq(Choice)
  BY DEF Quiet
<1>3. ASSUME NEW purpose, NEW lost, ResumeBook(purpose, lost) PROVE CallsTyped'
  BY <1>1, <1>2, <1>3 DEF ResumeBook, LoadBook, CallsTyped
<1>4. ASSUME NEW cell \in Cells, RecordListViewClicked(cell) PROVE CallsTyped'
  <2>1. /\ lastTicked' = (IF cell[2] = "all" THEN lastTicked ELSE cell)
        /\ Quiet /\ bookLosses' = bookLosses
    BY <1>4 DEF RecordListViewClicked
  <2>2. cell[2] # "all" => cell \in Numbers
    BY DEF Cells, Numbers
  <2> QED BY <1>2, <2>1, <2>2 DEF CallsTyped
<1>5. ASSUME NEW number, EditCell(number) PROVE CallsTyped'
  BY <1>2, <1>5 DEF EditCell, CallsTyped
<1>6. ASSUME NEW lostRecords \in SUBSET Records, NEW lost, Save(lostRecords, lost) PROVE CallsTyped'
  <2>1. /\ Lose(Cardinality(lostRecords) + IF lost THEN 1 ELSE 0) /\ Quiet /\ lastTicked' = None
    BY <1>6 DEF Save, LoadBook
  <2>2. Cardinality(lostRecords) \in Nat
    BY BookAssumption, FS_Subset, FS_CardinalityType DEF BookAssumption
  <2>3. Cardinality(lostRecords) + (IF lost THEN 1 ELSE 0) \in Nat
    BY <2>2
  <2> QED BY <1>1, <1>2, <2>1, <2>3 DEF CallsTyped
<1>7. ASSUME Call PROVE CallsTyped'
  <2> DEFINE records == SelectedRecords
  <2>1. records \in Seq(Choice)
    BY ChosenAre
  <2>2. /\ asked' = records /\ lastTicked' = lastTicked /\ bookLosses' = bookLosses
        /\ dialled' \in {Conference(records), CallOne(records), EmergencyCall(records), <<>>}
    BY <1>7 DEF Call
  <2> HIDE DEF records
  <2>3. /\ Conference(records) \in Seq(Numbers) /\ CallOne(records) \in Seq(Numbers)
        /\ EmergencyCall(records) \in Seq(Numbers)
    BY <2>1, ConferenceIs, CallOneIs, EmergencyIs
  <2>4. dialled' \in Seq(Numbers)
    <3>1. <<>> \in Seq(Numbers)
      OBVIOUS
    <3> QED BY <2>2, <2>3, <3>1, Zenon
  <2>5. asked' \in Seq(Choice)
    BY <2>1, <2>2, Zenon
  <2>6. (lastTicked = None \/ lastTicked \in Numbers) /\ bookLosses \in 0..MaxBookLosses
    BY DEF CallsTyped
  <2> QED BY <2>2, <2>4, <2>5, <2>6, Zenon DEF CallsTyped
<1>8. CASE UNCHANGED bookVars
  BY <1>8 DEF bookVars, CallsTyped
<1> QED BY <1>3, <1>4, <1>5, <1>6, <1>7, <1>8 DEF BookNext

-----------------------------------------------------------------------------
(* The types of all parts.                                                 *)

\* What rests keeps its type too: the parts of the main window, one by one.
PartsTyped ==
    /\ part \in Parts
    /\ OpInv /\ LinkInv /\ LinkRests /\ ScreenTyped

\* The parts that share the operators' calls.
LEMMA PartsInitially == MainInit => PartsTyped
<1> SUFFICES ASSUME MainInit PROVE PartsTyped
  OBVIOUS
<1>1. VideoInit /\ OpInit /\ part \in Parts
  BY DEF MainInit, VideoInit
<1> QED BY <1>1, OpInitially, LinkInitially, ScreenInitially DEF PartsTyped

\* Their types are kept by every step of the main window.
LEMMA PartsStep == PartsTyped /\ [MainNext]_mainVars => PartsTyped'
<1> SUFFICES ASSUME PartsTyped, [MainNext]_mainVars PROVE PartsTyped'
  OBVIOUS
<1>1. OpInv' /\ LinkInv' /\ LinkRests' /\ part' = part
  BY OpStep, LinkStays DEF PartsTyped, MainNext, mainVars
<1>2. ScreenTyped'
  <2>1. CASE [LinkNext]_linkVars
    BY <2>1, ScreenStep DEF PartsTyped
  <2>2. CASE UNCHANGED videoVars
    BY <2>2 DEF PartsTyped, ScreenTyped, videoVars, screen
  <2> QED BY <2>1, <2>2 DEF MainNext, mainVars
<1> QED BY <1>1, <1>2 DEF PartsTyped

\* The video linkage has its types.
LEMMA VideoTyped == PartsTyped => VideoTypeOK
<1> SUFFICES ASSUME PartsTyped PROVE VideoTypeOK
  OBVIOUS
<1>1. OpTypeOK
  BY DEF PartsTyped, OpInv
<1>2. LinkTyping /\ ScreenTyped /\ ScreenOK(Screen)
  BY DEF PartsTyped, LinkInv
<1>3. /\ mAlreadyUseExten \subseteq Exts
      /\ mVideoWidgets \in [1..Windows -> [key : Exts \cup {0}, player : {"idle", "opening", "playing"}]]
  BY <1>2 DEF ScreenOK, Screen, Window
<1> QED BY <1>1, <1>2, <1>3 DEF LinkTyping, ScreenTyped, VideoTypeOK

\* The phone book has its types.
LEMMA BookTyped == BookInv /\ CallsTyped => BookTypeOK
BY DEF BookInv, ListTypeOK, CallsTyped, Choice, BookTypeOK

\* Every part of the main window has its types, whatever is done in it.
THEOREM MainTypeCorrect == MainSpec => []MainTypeOK
<1>1. MainSpec => []PartsTyped
  BY PartsInitially, PartsStep, PTL DEF MainSpec
<1>2. MainSpec => []TimeInv
  BY TimeInitial, TimeStep, MainTimes, PTL DEF TimeSpec
<1>3. MainSpec => [](BookInv /\ CallsTyped)
  <2>1. BookInit => BookInv /\ CallsTyped
    BY BookInitially, CallsInitially
  <2>2. BookInv /\ CallsTyped /\ [BookNext]_bookVars => BookInv' /\ CallsTyped'
    BY BookStep, CallsStep
  <2> QED BY <2>1, <2>2, MainBook, PTL DEF BookSpec
<1>4. SelInv /\ PartsTyped /\ EditorInv /\ TimeInv /\ (BookInv /\ CallsTyped) => MainTypeOK
  <2> SUFFICES ASSUME SelInv, PartsTyped, EditorInv, TimeInv, BookInv, CallsTyped PROVE MainTypeOK
    OBVIOUS
  <2>1. SelTypeOK /\ VideoTypeOK /\ PlanTypeOK /\ TimeTypeOK /\ BookTypeOK
    BY VideoTyped, TimeTyped, BookTyped DEF SelInv, EditorInv
  <2>2. part \in {"selection", "operators", "video", "plans", "times", "book"}
    BY PartsAssumption DEF PartsTyped, PartsAssumption
  <2> QED BY <2>1, <2>2 DEF MainTypeOK
<1> QED BY <1>1, <1>2, <1>3, <1>4, SelectionInvariance, EditorsInOrder, PTL
===============================================================================
