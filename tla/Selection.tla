------------------------------ MODULE Selection ------------------------------
(***************************************************************************)
(* Choosing extensions and acting on them (ui/mainwidget: RinggroupsZone,  *)
(* SelectedExtensZone, FastFuncZone, the toggles of ExtensionsZone;        *)
(* ui/base: MultiTableWidgets, TableWidget, DingoButton).  What is chosen  *)
(* is kept twice, as the toggled buttons of the panel and as the list of   *)
(* selected extensions, and the "select all" box of the group on show has  *)
(* signals of its own, so every change of one side calls into the other.   *)
(*                                                                         *)
(* Everything here runs in the GUI thread.  When a button comes or goes by *)
(* itself is the matter of ExtensionsZone; here it may at any time.        *)
(***************************************************************************)
EXTENDS Orders, SequencesExt

CONSTANTS
    Extens,     \* the extensions: integers, in the order of QMap
    Members,    \* those of the one ring group
    PageSizes   \* bound: the page sizes of the combo box (24, 30, 36 and 42 in the code)

ASSUME SelAssumption ==
    /\ Extens \subseteq Int /\ IsFiniteSet(Extens)
    /\ Members \subseteq Extens
    /\ PageSizes \subseteq Nat \ {0} /\ PageSizes # {}

VARIABLES
    toggledGroup,  \* the toggled group button, or "none"
    current,       \* mCurrentSelectedGrpNumber
    boxChecked,    \* the "select all" box of the toggled group; the others cannot be checked
    onShow,        \* mRinggroupNumber of the panel
    toggled,       \* the buttons of the panel that are toggled
    selected,      \* mSelectedExtensions
    items,         \* the buttons of the panel, in the pager's order
    pages,         \* the buttons on its pages: the items at the last refresh
    dangling,      \* whether a button on a page has been deleted since that refresh
    timedRefresh,  \* mTimedRefresh
    pager,         \* [page, next, prev, perPage]: the page on show and the pager's buttons
    dialog         \* the modal dialog on show

selection == <<toggledGroup, current, boxChecked, onShow, toggled, selected>>
panelPages == <<items, pages, dangling, timedRefresh, pager>>
selVars == <<selection, panelPages, dialog>>

Groups == {"ringgroup", "current", "online", "all"}
Shown == Range(items)

\* The dialogs, each opened by the button of that name.
Dialogs == {"sms", "call", "paging", "transfer"}

SelTypeOK ==
    /\ toggledGroup \in Groups \cup {"none"}
    /\ current \in Groups
    /\ boxChecked \in BOOLEAN
    /\ onShow \in Groups
    /\ toggled \subseteq Shown
    /\ selected \subseteq Extens
    /\ IsInjective(items)
    /\ Shown \subseteq Extens
    /\ Range(pages) \subseteq Extens
    /\ dangling \in BOOLEAN
    /\ timedRefresh \in BOOLEAN
    /\ pager \in [page : Nat, next : BOOLEAN, prev : BOOLEAN, perPage : PageSizes]
    /\ dialog \in Dialogs \cup {"none"}

-----------------------------------------------------------------------------
(* The pager.                                                              *)

Least(S) == CHOOSE n \in S : \A m \in S : n <= m

\* The pages that a number of items fills.
PageCount(n, perPage) == (n + perPage - 1) \div perPage

\* switchPage, called for page p when there are count pages.
SwitchPage(p, count, perPage) ==
    LET q == IF p >= count - 1 THEN count - 1 ELSE p
    IN  [page |-> IF q <= 0 THEN 0 ELSE q, next |-> p < count - 1, prev |-> q > 0,
         perPage |-> perPage]

\* refresh, with these items and this page size.
Refresh(its, perPage) ==
    /\ pages' = its
    /\ dangling' = FALSE
    /\ pager' = SwitchPage(pager.page, PageCount(Len(its), perPage), perPage)

PagerTick ==
    /\ timedRefresh
    /\ Refresh(items, pager.perPage)
    /\ timedRefresh' = FALSE
    /\ UNCHANGED <<selection, items, dialog>>

\* Turning to a page lays it out again; a button on it that has been deleted meanwhile
\* is undefined behaviour, and such a turn is left out.
TurnPage(step) ==
    /\ dialog = "none"
    /\ IF step = 1 THEN pager.next ELSE pager.prev
    /\ ~dangling
    /\ pager' = SwitchPage(pager.page + step, PageCount(Len(pages), pager.perPage), pager.perPage)
    /\ UNCHANGED <<selection, items, pages, dangling, timedRefresh, dialog>>

OnTypeChange(perPage) ==
    /\ dialog = "none"
    /\ Refresh(items, perPage)
    /\ UNCHANGED <<selection, items, timedRefresh, dialog>>

-----------------------------------------------------------------------------
(* Selecting.                                                              *)

\* Bug: a selected extension taken out of the list keeps its button toggled.
DeselectOnlyList(S) ==
    /\ selected' = selected \ S
    /\ UNCHANGED <<toggled, boxChecked>>

\* SelectedExtensZone::removeExten for each extension of S.  With the last one the box of
\* the current group is unchecked, and when that changes it, the box deselects the panel.
Deselect(S) ==
    LET last == selected \cap S # {} /\ selected \subseteq S
        box == last /\ boxChecked /\ current = toggledGroup
    IN  /\ selected' = selected \ S
        /\ toggled' = IF box THEN {} ELSE toggled \ (selected \cap S)
        /\ boxChecked' = (boxChecked /\ ~box)

\* toggleExten with no number: every button of the panel, and with it its extension.
ToggleAll(check) ==
    IF check THEN toggled' = Shown /\ selected' = selected \cup Shown
    ELSE toggled' = {} /\ selected' = selected \ Shown

\* DingoButton::mousePressEvent and UiExtension::clickedSlot.
ClickExtension(n) ==
    /\ dialog = "none"
    /\ n \in Shown
    /\ IF n \in toggled
       THEN Deselect({n})
       ELSE toggled' = toggled \cup {n} /\ selected' = selected \cup {n} /\ UNCHANGED boxChecked
    /\ UNCHANGED <<toggledGroup, current, onShow, panelPages, dialog>>

\* A click on a selected extension, or on "clear".
ClickSelected(S) ==
    /\ dialog = "none"
    /\ Deselect(S)
    /\ UNCHANGED <<toggledGroup, current, onShow, panelPages, dialog>>

\* onGroupBtnSelectAllChecked; only the box of the toggled group can be clicked.
ClickBox ==
    /\ dialog = "none"
    /\ toggledGroup # "none"
    /\ boxChecked' = ~boxChecked
    /\ ToggleAll(boxChecked')
    /\ UNCHANGED <<toggledGroup, current, onShow, panelPages, dialog>>

-----------------------------------------------------------------------------
(* The groups.                                                             *)

\* Bug: the toggles of the buttons there were are kept.
LoadExtensionsKeeping(S, kept) ==
    /\ items' = InOrder(S)
    /\ toggled' = toggled \cap kept
    /\ Refresh(items', pager.perPage)

\* loadExtensions in place of what was there: a button for each extension of S, toggled
\* when its extension is among the selected ones that are kept.
LoadExtensions(S, kept) ==
    /\ items' = InOrder(S)
    /\ toggled' = S \cap kept
    /\ Refresh(items', pager.perPage)

\* loadExtensFromRinggroup.  The adapter may not tell the members of a ring group.
Load(group, kept) ==
    \/ group = "ringgroup" /\ LoadExtensions(Members, kept)
    \/ group = "ringgroup" /\ toggled' = toggled \cap kept /\ UNCHANGED <<items, pages, dangling, pager>>
    \/ group = "all" /\ LoadExtensions(Extens, kept)
    \/ group \in {"current", "online"} /\ \E S \in SUBSET Extens : LoadExtensions(S, kept)

\* The box of a group that is no longer toggled is unchecked: if that changes it, the
\* panel as it still is is deselected.
KeptByBox == IF boxChecked THEN selected \ Shown ELSE selected

\* toggleGroup for a button that has just been toggled.
ToggleGroupOn(group) ==
    /\ dialog = "none"
    /\ toggledGroup # group
    /\ toggledGroup' = group
    /\ current' = group
    /\ onShow' = group
    /\ boxChecked' = FALSE
    /\ selected' = KeptByBox
    /\ Load(group, KeptByBox)
    /\ UNCHANGED <<timedRefresh, dialog>>

\* toggleGroup for the button that was toggled: the panel stays.
ToggleGroupOff ==
    /\ dialog = "none"
    /\ toggledGroup # "none"
    /\ toggledGroup' = "none"
    /\ current' = "all"
    /\ boxChecked' = FALSE
    /\ selected' = KeptByBox
    /\ toggled' = toggled \cap KeptByBox
    /\ UNCHANGED <<onShow, panelPages, dialog>>

\* A state signal adds a button to "current" or "online", or takes one away.  The button
\* goes, and its extension stays selected.
AddButton(n) ==
    /\ onShow \in {"current", "online"}
    /\ n \notin Shown
    /\ items' = Append(items, n)
    /\ toggled' = toggled \cup ({n} \cap selected)
    /\ timedRefresh' = TRUE
    /\ UNCHANGED <<toggledGroup, current, boxChecked, onShow, selected, pages, dangling, pager, dialog>>

\* Bug: the pager is not told.
RemoveButtonSilently(n) ==
    /\ onShow \in {"current", "online"}
    /\ n \in Shown
    /\ items' = RemoveFirst(items, n)
    /\ toggled' = toggled \ {n}
    /\ dangling' = (dangling \/ n \in Range(pages))
    /\ UNCHANGED <<toggledGroup, current, boxChecked, onShow, selected, pages, timedRefresh, pager, dialog>>

RemoveButton(n) ==
    /\ onShow \in {"current", "online"}
    /\ n \in Shown
    /\ items' = RemoveFirst(items, n)
    /\ toggled' = toggled \ {n}
    /\ dangling' = (dangling \/ n \in Range(pages))
    /\ timedRefresh' = TRUE
    /\ UNCHANGED <<toggledGroup, current, boxChecked, onShow, selected, pages, pager, dialog>>

-----------------------------------------------------------------------------
(* The buttons of FastFuncZone.                                            *)

\* selectedExtenCntChanged: the buttons offered for this number of selected extensions.
Offered(count) ==
    {"call"} \cup (IF count >= 1 THEN {"sms", "broadcast", "paging", "hangup", "rollcall"} ELSE {})
             \cup (IF count = 1 THEN {"monitor", "override", "transfer", "pickup"} ELSE {})

\* Those that can be clicked.
Buttons == Offered(Cardinality(selected))

\* The commands that go out at once to all that are selected.
AtOnce == {"broadcast", "hangup", "rollcall"} \cup (IF selected = {} THEN {} ELSE {"call"})

\* The commands for the one selected extension that go out if it has a channel to act on.
OnChannel == {"monitor", "override", "pickup"}

DeselectAll ==
    /\ Deselect(selected)
    /\ UNCHANGED <<toggledGroup, current, onShow, panelPages>>

\* onBtnBroadcastClicked, onBtnHangupClicked, onBtnRollCallClicked, chanSpy,
\* onBtnPickupClicked, and onBtnGroupCallClicked with extensions selected: each is
\* deselected as its command goes out.  Without a channel nothing goes out and it stays.
Command(button) ==
    /\ dialog = "none"
    /\ \/ button \in AtOnce \cup OnChannel /\ DeselectAll
       \/ button \in OnChannel /\ UNCHANGED <<selection, panelPages>>
    /\ UNCHANGED dialog

\* The buttons that ask first; transfer only with a channel that is in a call.
OpenDialog(button) ==
    /\ dialog = "none"
    /\ button \in Dialogs
    /\ button = "call" => selected = {}
    /\ dialog' = button
    /\ UNCHANGED <<selection, panelPages>>

\* The dialog is rejected or, for "call" and "transfer", leads to the phone book; or the
\* command goes out, for what is selected by then.
CloseDialog ==
    /\ dialog # "none"
    /\ \/ UNCHANGED <<selection, panelPages>>
       \/ DeselectAll
    /\ dialog' = "none"

-----------------------------------------------------------------------------

SelInit ==
    /\ toggledGroup = "all"
    /\ current = "all"
    /\ boxChecked = FALSE
    /\ onShow = "all"
    /\ toggled = {}
    /\ selected = {}
    /\ items = InOrder(Extens)
    /\ pages = items
    /\ dangling = FALSE
    /\ timedRefresh = FALSE
    /\ pager = LET perPage == Least(PageSizes)
               IN  SwitchPage(0, PageCount(Len(items), perPage), perPage)
    /\ dialog = "none"

SelNext ==
    \/ PagerTick
    \/ \E step \in {-1, 1} : TurnPage(step)
    \/ \E perPage \in PageSizes : OnTypeChange(perPage)
    \/ \E n \in Extens : ClickExtension(n) \/ AddButton(n) \/ RemoveButton(n)
    \/ \E n \in selected : ClickSelected({n})
    \/ ClickSelected(selected)
    \/ ClickBox
    \/ \E group \in Groups : ToggleGroupOn(group)
    \/ ToggleGroupOff
    \/ \E button \in Buttons : Command(button) \/ OpenDialog(button)
    \/ CloseDialog

SelSpec == SelInit /\ [][SelNext]_selVars

-----------------------------------------------------------------------------
(* Properties.                                                             *)

\* A button of the panel is toggled exactly when its extension is selected, so the fast
\* functions act on what the panel shows as chosen: through group changes, the signals of
\* the "select all" box and buttons that come and go (ExtensionsZone.cpp:229-233, 250-266,
\* SelectedExtensZone.cpp:50-65, RinggroupsZone.cpp:94-118).
SelectionMirrors == toggled = selected \cap Shown

\* The pager shows the items there are or will at its next tick, is on a page that
\* exists, and offers to turn exactly to the pages there are (multitablewidgets.cpp:83-90,
\* 120-142, 170-201, ExtensionsZone.cpp:235-247).
PagerRight ==
    LET count == PageCount(Len(pages), pager.perPage)
    IN  /\ pages # items \/ dangling => timedRefresh
        /\ pager.page = 0 \/ pager.page < count
        /\ pager.next <=> pager.page < count - 1
        /\ pager.prev <=> pager.page > 0
=============================================================================
