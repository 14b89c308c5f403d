------------------------------- MODULE PhoneBook -------------------------------
(***************************************************************************)
(* The phone book (UiPhoneBook, UiPhoneBookList): a list of records with a  *)
(* tick for the whole record and one for each of its numbers, opened to     *)
(* browse and change it, to call in an emergency, to invite to a            *)
(* conference, or to choose the one to transfer a call to or to add to it.  *)
(* Its use by the plan editors, which only read the ticks, is in            *)
(* PlanEditor.                                                             *)
(*                                                                         *)
(* Everything runs in the GUI thread.                                      *)
(***************************************************************************)
EXTENDS Orders, SequencesExt

CONSTANTS
    Records,      \* the records, an interval of integers in the order of the list
    NumberKinds,  \* the kinds of number in use, in the order of their columns
    Editable,     \* those that can be changed here
    InBook,       \* the numbers on the server at first: pairs of record and kind
    MaxBookLosses \* bound: requests that get lost

ASSUME BookAssumption ==
    /\ Records \subseteq Int /\ IsFiniteSet(Records)
    /\ NumberKinds \in Seq(STRING) /\ "all" \notin Range(NumberKinds)
    /\ Editable \subseteq Range(NumberKinds)
    /\ InBook \subseteq Records \X Range(NumberKinds)
    /\ MaxBookLosses \in Nat

VARIABLES
    book,       \* the numbers on the server
    list,       \* the records on show
    texts,      \* the numbers in their cells
    ticks,      \* the ticked cells: pairs of record and kind, "all" for the first column
    method,     \* what the list has been opened for
    dialled,    \* the numbers dialled by a call just made, in order
    asked,      \* what it was to call: the records in order, each with its numbers (history)
    lastTicked, \* the number cell clicked last (history)
    bookLosses  \* losses so far (bounded)

bookVars == <<book, list, texts, ticks, method, dialled, asked, lastTicked, bookLosses>>

Numbers == Records \X Range(NumberKinds)
Cells == Records \X ({"all"} \cup Range(NumberKinds))
Methods == {"normal-call", "emergency-call", "roomid", "redirect-call", "3way-call"}
Single == {"redirect-call", "3way-call"}        \* opened in the mode eSelectSingle
Editing == {"normal-call", "emergency-call"}   \* opened in the mode eEdit
None == <<>>

BookTypeOK ==
    /\ book \subseteq Numbers
    /\ list \subseteq Records
    /\ texts \subseteq Numbers
    /\ ticks \subseteq Cells /\ \A cell \in ticks : cell[1] \in list
    /\ method \in Methods
    /\ dialled \in Seq(Numbers)
    /\ asked \in Seq([record : Records, numbers : Seq(Numbers)])
    /\ lastTicked = None \/ lastTicked \in Numbers
    /\ bookLosses \in 0..MaxBookLosses

BookInit ==
    /\ book = InBook
    /\ list = {} /\ texts = {} /\ ticks = {}
    /\ method = "normal-call"
    /\ dialled = <<>> /\ asked = <<>> /\ lastTicked = None
    /\ bookLosses = 0

-----------------------------------------------------------------------------

\* loadData: the list is made anew, without ticks; it is empty when the request is lost.
LoadBook(numbers, lost) ==
    /\ list' = IF lost THEN {} ELSE Records
    /\ texts' = IF lost THEN {} ELSE numbers
    /\ ticks' = {}
    /\ lastTicked' = None

Quiet == dialled' = <<>> /\ asked' = <<>>   \* no call is made

Lose(n) == bookLosses' = bookLosses + n /\ bookLosses' <= MaxBookLosses

\* UiPhoneBook::onResume.
ResumeBook(purpose, lost) ==
    /\ method' = purpose
    /\ LoadBook(book, lost)
    /\ Lose(IF lost THEN 1 ELSE 0)
    /\ Quiet
    /\ UNCHANGED book

\* Bug: the loop over the columns of the other rows begins at the second.
RecordListViewClickedFromSecond(cell) ==
    /\ cell[1] \in list
    /\ LET toggled == (ticks \ {cell}) \cup ({cell} \ ticks)
       IN  ticks' = IF method \in Single
                    THEN {c \in toggled : c[1] = cell[1] \/ c[2] \in {"all", NumberKinds[1]}}
                    ELSE toggled
    /\ lastTicked' = IF cell[2] = "all" THEN lastTicked ELSE cell
    /\ Quiet
    /\ UNCHANGED <<book, list, texts, method, bookLosses>>

\* onRecordListViewClicked: where one is to be chosen the numbers of the other rows lose
\* their ticks, but not the whole rows.
RecordListViewClicked(cell) ==
    /\ cell[1] \in list
    /\ LET toggled == (ticks \ {cell}) \cup ({cell} \ ticks)
       IN  ticks' = IF method \in Single
                    THEN {c \in toggled : c[1] = cell[1] \/ c[2] = "all"}
                    ELSE toggled
    /\ lastTicked' = IF cell[2] = "all" THEN lastTicked ELSE cell
    /\ Quiet
    /\ UNCHANGED <<book, list, texts, method, bookLosses>>

\* The user types a number into its cell, or deletes it.
EditCell(number) ==
    /\ method \in Editing
    /\ number[1] \in list /\ number[2] \in Editable
    /\ texts' = (texts \ {number}) \cup ({number} \ texts)
    /\ Quiet
    /\ UNCHANGED <<book, list, ticks, method, lastTicked, bookLosses>>

\* save: one request for each changed record, some of which get lost, then loadData.
Save(lostRecords, lost) ==
    LET changed == {r \in list : \E k \in Editable : (<<r, k>> \in texts) # (<<r, k>> \in book)}
        saved == changed \ lostRecords
        numbers == {n \in texts : n[1] \in saved} \cup {n \in book : n[1] \notin saved}
    IN  /\ method \in Editing
        /\ lostRecords \subseteq changed
        /\ Lose(Cardinality(lostRecords) + IF lost THEN 1 ELSE 0)
        /\ book' = numbers
        /\ LoadBook(numbers, lost)
        /\ Quiet
        /\ UNCHANGED method

\* getSelectedRecords: the rows with a tick, and of each the numbers ticked that it has.
SelectedRecords ==
    LET Ticked(r, k) == <<r, "all">> \in ticks \/ <<r, k>> \in ticks
        rows == InOrder({r \in list : \E c \in ticks : c[1] = r})
    IN  [i \in DOMAIN rows |->
            [record |-> rows[i],
             numbers |-> LET columns == InOrder({k \in DOMAIN NumberKinds :
                                                    /\ Ticked(rows[i], NumberKinds[k])
                                                    /\ <<rows[i], NumberKinds[k]>> \in texts})
                         IN  [j \in DOMAIN columns |-> <<rows[i], NumberKinds[columns[j]]>>]]]

\* UiPhoneBookList::call: the operator and then every number are called into the conference.
\* Filling the number into the pattern of the channel changes the pattern itself, so those
\* that are not extensions all go to the first of them.
Conference(records) ==
    LET upTo[n \in 0..Len(records)] ==
            IF n = 0 THEN <<>> ELSE upTo[n - 1] \o records[n].numbers
        numbers == upTo[Len(records)]
        outside == Picked(numbers, {i \in DOMAIN numbers : numbers[i][2] # "exten"})
    IN  [i \in DOMAIN numbers |-> IF numbers[i][2] = "exten" THEN numbers[i] ELSE outside[1]]

\* The target of a record: the last of its numbers.
Target(record) == record.numbers[Len(record.numbers)]

\* redirectCall and threeWayCall call one record or nobody.
CallOne(records) ==
    IF Len(records) # 1 \/ records[1].numbers = <<>> THEN <<>> ELSE <<Target(records[1])>>

\* emergencyCall calls each record, and gives up at the first without a number.
EmergencyCall(records) ==
    LET without == {i \in DOMAIN records : records[i].numbers = <<>>}
        called == {i \in DOMAIN records : \A j \in without : i < j}
    IN  [i \in called |-> Target(records[i])]

\* UiPhoneBook::call; a normal call is not made from here.
Call ==
    /\ asked' = SelectedRecords
    /\ dialled' = CASE method = "roomid" -> Conference(SelectedRecords)
                    [] method \in Single -> CallOne(SelectedRecords)
                    [] method = "emergency-call" -> EmergencyCall(SelectedRecords)
                    [] OTHER -> <<>>
    /\ UNCHANGED <<book, list, texts, ticks, method, lastTicked, bookLosses>>

-----------------------------------------------------------------------------

BookNext ==
    \/ \E purpose \in Methods, lost \in BOOLEAN : ResumeBook(purpose, lost)
    \/ \E cell \in Cells : RecordListViewClicked(cell)
    \/ \E number \in Numbers : EditCell(number)
    \/ \E lostRecords \in SUBSET Records, lost \in BOOLEAN : Save(lostRecords, lost)
    \/ Call

BookSpec == BookInit /\ [][BookNext]_bookVars

-----------------------------------------------------------------------------
(* Properties.                                                             *)

\* Where one callee is to be chosen and no row is ticked as a whole, the call is made, and to
\* the row whose number was clicked last, as long as that number is ticked and there is one:
\* however many cells of however many rows were clicked before, neither is the call refused
\* nor does it reach someone else (UiPhoneBookList.cpp:118-135, 306-363).
ReachesLastTicked ==
    (method \in Single /\ lastTicked \in ticks \cap texts /\ \A r \in Records : <<r, "all">> \notin ticks) =>
        /\ Len(SelectedRecords) = 1
        /\ CallOne(SelectedRecords) # <<>> /\ CallOne(SelectedRecords)[1][1] = lastTicked[1]

\* Each number selected is called into the conference, as the comment in call() has it:
\* 呼叫各个选中的号码 (UiPhoneBookList.cpp:279).
EverySelectedCalled ==
    method = "roomid" /\ dialled # <<>> =>
        \A i \in DOMAIN asked : Range(asked[i].numbers) \subseteq Range(dialled)
=============================================================================
