------------------------------ MODULE PlanEditor ------------------------------
(***************************************************************************)
(* Making and changing plans: the zones of the settings that list them     *)
(* (PlanListZone, TimingBroadcastZone), the editors of event plans and of  *)
(* timed broadcasts, and the members picked in the phone book on the way.  *)
(* An editor works on a plan of its own, mPlan, sends the whole of it with *)
(* create-plan or update-plans, and then reads its lists again.            *)
(*                                                                         *)
(* Everything runs in the GUI thread; the recordings come and go on the    *)
(* server at any time.  This panel is the only one that changes plans.     *)
(***************************************************************************)
EXTENDS Orders, SequencesExt, CallEndings

CONSTANTS
    NumFiles,       \* how many recordings there are, at most
    Encoded,        \* those whose name is spelled in another way on the server
    Passing,        \* bound: those that come and go while the plans are made
    People,         \* the records of the phone book
    MaxTasks,       \* bound: plans begun
    MaxPlans,       \* bound: plans created on the server
    MaxPlanLosses   \* bound: calls that do not get their own reply

Files == 1..NumFiles   \* the recordings, in the order the server lists them
NoPlan == MaxPlans + 1 \* stands for any text that is no plan's id

ASSUME PlanAssumption ==
    /\ NumFiles \in Nat
    /\ Encoded \subseteq Files /\ Passing \subseteq Files
    /\ MaxTasks \in Nat /\ MaxPlans \in Nat /\ MaxPlanLosses \in Nat

VARIABLES
    plans,       \* the plans on the server, by id
    serverFiles, \* the recordings on the server
    activity,    \* the activity on show: "settings", "editor" or "book"
    mPlan,       \* the plan in the editor: [id, task, timed, ready, files, people]
    rows,        \* the recordings in its list: [file, ticked]
    members,     \* the members in its list
    smsEdited,   \* whether the text in the message field differs from the plan's
    tasks,       \* plans begun so far (bounded)
    created,     \* plans created so far (bounded)
    planLosses,  \* calls without their own reply so far (bounded)
    saveFailed,  \* whether the last save or reading of the plan had no reply of its own (history)
    replyLost    \* the plans whose creation had no reply of its own (history)

planCounts == <<tasks, created, planLosses>>
planHistory == <<saveFailed, replyLost>>
editor == <<mPlan, rows, members, smsEdited>>
planVars == <<plans, serverFiles, activity, editor, planCounts, planHistory>>

\* id 0 for a plan that has none yet; task tells the plans begun apart; ready says that the
\* mode of a timed broadcast has been chosen.
Plan == [id : 0..NoPlan, task : 0..MaxTasks, timed : BOOLEAN, ready : BOOLEAN,
         files : Seq(Files), people : SUBSET People]
Row == [file : Files, ticked : BOOLEAN]
NewPlan(task, timed) == [id |-> 0, task |-> task, timed |-> timed, ready |-> FALSE,
                         files |-> <<>>, people |-> {}]
FilesOf(list) == [i \in DOMAIN list |-> list[i].file]

PlanTypeOK ==
    /\ DOMAIN plans \subseteq 1..MaxPlans
    /\ \A id \in DOMAIN plans : plans[id] \in Plan /\ plans[id].id = id /\ IsInjective(plans[id].files)
    /\ serverFiles \subseteq Files
    /\ activity \in {"settings", "editor", "book"}
    /\ mPlan \in Plan /\ IsInjective(mPlan.files)
    /\ rows \in Seq(Row) /\ IsInjective(FilesOf(rows))
    /\ members \subseteq People
    /\ smsEdited \in BOOLEAN
    /\ tasks \in 0..MaxTasks /\ created \in 0..MaxPlans /\ planLosses \in 0..MaxPlanLosses
    /\ saveFailed \in BOOLEAN
    /\ replyLost \subseteq 1..MaxTasks

PlanInit ==
    /\ plans = [id \in {} |-> NewPlan(0, FALSE)]
    /\ serverFiles = Files
    /\ activity = "settings"
    /\ mPlan = NewPlan(0, FALSE)
    /\ rows = <<>>
    /\ members = {}
    /\ smsEdited = FALSE
    /\ tasks = 0 /\ created = 0 /\ planLosses = 0
    /\ saveFailed = FALSE
    /\ replyLost = {}

\* loadActivity.
LoadActivity(to) == activity' = to

-----------------------------------------------------------------------------
(* Loading and saving.                                                     *)

\* The calls made one after the other: the one that saves or reads the plan, if there is one,
\* and those that loadData makes, each with how it ends.  A call that is not made counts as
\* one that gets its own reply.
Ends == {ends \in [{"plan", "files", "people"} -> Endings] :
             Cardinality({call \in DOMAIN ends : ends[call] # "own"}) <= MaxPlanLosses}
LoadEnds == {ends \in Ends : ends["plan"] = "own"}
AllOwn == [call \in {"plan", "files", "people"} |-> "own"]

Lossy(ends) ==
    /\ planLosses' = planLosses + Cardinality({call \in DOMAIN ends : ends[call] # "own"})
    /\ planLosses' <= MaxPlanLosses

\* What the reply of such an ending reads like: a reply to another call says something else,
\* or what was so earlier.
Brought(end, answer, others) ==
    IF end = "own" THEN {answer} ELSE IF end = "none" THEN {{}} ELSE others

\* The recordings as getBroadcastFileList returns them.
Listings(end) == Brought(end, serverFiles, SUBSET Files)

\* Bug: each recording is added below those listed before it.
LastFirstAppended(S) == InOrder(S)

\* A list of recordings is filled from the top, so the last one comes first.
LastFirst(S) == Reverse(InOrder(S))

\* loadRecordingFileList of event plans: the recordings of the plan are ticked among all
\* that there are, the last one first.
EventRows(plan, there) ==
    LET all == LastFirst(there)
    IN  [i \in DOMAIN all |-> [file |-> all[i], ticked |-> all[i] \in Range(plan.files)]]

\* loadRecordingFileList of timed broadcasts: those of the plan that there still are, in
\* their order.
TimedRows(plan, there) ==
    LET mine == Only(plan.files, there)
    IN  [i \in DOMAIN mine |-> [file |-> mine[i], ticked |-> FALSE]]

FileRows(plan, there) == IF plan.timed THEN TimedRows(plan, there) ELSE EventRows(plan, there)

\* loadPhonebookList.
MembersOf(plan, end) == Brought(end, plan.people, SUBSET plan.people)

\* loadData for this plan.
LoadData(plan, ends) ==
    /\ mPlan' = plan
    /\ \E there \in Listings(ends["files"]) : rows' = FileRows(plan, there)
    /\ members' \in MembersOf(plan, ends["people"])
    /\ smsEdited' = FALSE

\* A timed broadcast without a mode is not sent.
Sent(plan) == plan.timed => plan.ready

\* Whether the server has carried out a request that ended so.
Done(end) == IF end = "own" THEN {TRUE} ELSE BOOLEAN

\* What update-plans and create-plan store; there may be no plan of that id.
Update(plan, done) ==
    /\ plans' = IF done /\ plan.id \in DOMAIN plans THEN [plans EXCEPT ![plan.id] = plan]
                ELSE plans
    /\ UNCHANGED <<created, replyLost>>

Create(plan, done, end) ==
    /\ created < MaxPlans
    /\ created' = IF done THEN created + 1 ELSE created
    /\ plans' = IF ~done THEN plans
                ELSE [id \in DOMAIN plans \cup {created'} |->
                          IF id = created' THEN [plan EXCEPT !.id = created'] ELSE plans[id]]
    /\ replyLost' = IF end = "own" THEN replyLost ELSE replyLost \cup {plan.task}

\* The id that createOrUpdateEventPlan finds for a new plan.  It takes whatever the Result of
\* the reply holds: another plan's id, another text, or nothing.
NewIds(end) ==
    IF end = "own" THEN {created'} ELSE IF end = "none" THEN {0} ELSE DOMAIN plans' \cup {0, NoPlan}

\* Bug: the id is taken over from every reply; the reply to an update holds none.
SaveAndReloadTaking(plan, ends) ==
    /\ Lossy(ends)
    /\ IF ~Sent(plan)
       THEN /\ ends["plan"] = "own"
            /\ LoadData(plan, ends)
            /\ UNCHANGED <<plans, created, planHistory>>
       ELSE /\ saveFailed' = (ends["plan"] # "own")
            /\ \E done \in Done(ends["plan"]) :
                   IF plan.id # 0
                   THEN Update(plan, done) /\ LoadData([plan EXCEPT !.id = 0], ends)
                   ELSE /\ Create(plan, done, ends["plan"])
                        /\ \E id \in NewIds(ends["plan"]) : LoadData([plan EXCEPT !.id = id], ends)

\* saveAndReload: only a plan that had no id takes the one found.
SaveAndReload(plan, ends) ==
    /\ Lossy(ends)
    /\ IF ~Sent(plan)
       THEN /\ ends["plan"] = "own"
            /\ LoadData(plan, ends)
            /\ UNCHANGED <<plans, created, planHistory>>
       ELSE /\ saveFailed' = (ends["plan"] # "own")
            /\ \E done \in Done(ends["plan"]) :
                   IF plan.id # 0
                   THEN Update(plan, done) /\ LoadData(plan, ends)
                   ELSE /\ Create(plan, done, ends["plan"])
                        /\ \E id \in NewIds(ends["plan"]) : LoadData([plan EXCEPT !.id = id], ends)

-----------------------------------------------------------------------------
(* The settings.                                                           *)

\* onBtnNewEventClicked and onBtnNewTimingBroadcastClicked.
BtnNewClicked(timed, ends) ==
    /\ activity = "settings"
    /\ tasks < MaxTasks
    /\ tasks' = tasks + 1
    /\ Lossy(ends)
    /\ LoadData(NewPlan(tasks', timed), ends)
    /\ saveFailed' = FALSE
    /\ LoadActivity("editor")
    /\ UNCHANGED <<plans, serverFiles, created, replyLost>>

\* The plan as getEventPlans finds it.  A reply to another call holds it as it was earlier, if
\* at all.
Versions(plan, end) ==
    IF end = "own" THEN {plan}
    ELSE {version \in [id : {plan.id}, task : {plan.task}, timed : {plan.timed}, ready : {plan.ready},
                       files : UNION {[1..n -> Files] : n \in 0..NumFiles}, people : SUBSET People] :
              IsInjective(version.files)}

\* onPopupActionEditTriggered; when the plan is not in the reply nothing happens.
PopupActionEdit(id, ends) ==
    /\ activity = "settings"
    /\ id \in DOMAIN plans
    /\ ends["plan"] # "none"
    /\ Lossy(ends)
    /\ \E version \in Versions(plans[id], ends["plan"]) : LoadData(version, ends)
    /\ saveFailed' = (ends["plan"] # "own")
    /\ LoadActivity("editor")
    /\ UNCHANGED <<plans, serverFiles, tasks, created, replyLost>>

\* onPopupActionDeleteTriggered.
PopupActionDelete(id, end) ==
    /\ activity = "settings"
    /\ id \in DOMAIN plans
    /\ Lossy([AllOwn EXCEPT !["plan"] = end])
    /\ \E done \in Done(end) :
           plans' = [other \in IF done THEN DOMAIN plans \ {id} ELSE DOMAIN plans |-> plans[other]]
    /\ UNCHANGED <<serverFiles, activity, editor, tasks, created, planHistory>>

\* RecordingFileZone uploads a recording, which arrives at any time, and deletes some.
Uploaded(f) ==
    /\ f \notin serverFiles
    /\ serverFiles' = serverFiles \cup {f}
    /\ UNCHANGED <<plans, activity, editor, planCounts, planHistory>>

BtnDeleteClicked(f) ==
    /\ activity = "settings"
    /\ f \in serverFiles
    /\ serverFiles' = serverFiles \ {f}
    /\ UNCHANGED <<plans, activity, editor, planCounts, planHistory>>

-----------------------------------------------------------------------------
(* Both editors.                                                           *)

\* onBtnAddMemberClicked opens the phone book, the back button the settings.  Leaving its
\* editor saves a timed broadcast.
Leave(to, ends) ==
    /\ activity = "editor"
    /\ LoadActivity(to)
    /\ IF mPlan.timed THEN SaveAndReload(mPlan, ends)
       ELSE ends = AllOwn /\ UNCHANGED <<plans, editor, created, planLosses, planHistory>>
    /\ UNCHANGED <<serverFiles, tasks>>

\* onResume: back from the phone book with these records picked.
Resume(S, ends) ==
    /\ activity = "book"
    /\ LoadActivity("editor")
    /\ IF S # {} THEN SaveAndReload([mPlan EXCEPT !.people = @ \cup S], ends)
       ELSE ends = AllOwn /\ UNCHANGED <<plans, editor, created, planLosses, planHistory>>
    /\ UNCHANGED <<serverFiles, tasks>>

\* A change of the plan on show that is saved at once.
ChangeAndSave(plan, ends) ==
    /\ activity = "editor"
    /\ SaveAndReload(plan, ends)
    /\ UNCHANGED <<serverFiles, activity, tasks>>

BtnDeleteMemberClicked(S, ends) ==
    /\ S # {}
    /\ S \subseteq members
    /\ ChangeAndSave([mPlan EXCEPT !.people = @ \ S], ends)

\* A change of the editor that is not saved.
ChangeOnly ==
    /\ activity = "editor"
    /\ UNCHANGED <<plans, serverFiles, activity, members, tasks, created, planHistory>>

\* onFileListViewClicked; the editor of timed broadcasts takes the other ticks away.
FileListViewClicked(i) ==
    /\ i \in DOMAIN rows
    /\ rows' = [j \in DOMAIN rows |->
                    [rows[j] EXCEPT !.ticked = IF j = i THEN ~@ ELSE @ /\ ~mPlan.timed]]
    /\ ChangeOnly
    /\ UNCHANGED <<mPlan, smsEdited, planLosses>>

-----------------------------------------------------------------------------
(* Event plans.                                                            *)

TypeSms ==
    /\ ~mPlan.timed
    /\ smsEdited' = ~smsEdited
    /\ ChangeOnly
    /\ UNCHANGED <<mPlan, rows, planLosses>>

BtnSmsSaveClicked(ends) ==
    /\ ~mPlan.timed
    /\ smsEdited
    /\ ChangeAndSave(mPlan, ends)

BtnBroadcastFileSaveClicked(ends) ==
    /\ ~mPlan.timed
    /\ ChangeAndSave([mPlan EXCEPT !.files = FilesOf(Picked(rows, {i \in DOMAIN rows : rows[i].ticked}))],
                     ends)

-----------------------------------------------------------------------------
(* Timed broadcasts.                                                       *)

\* Moves row i to place j.
Moved(list, i, j) == InsertAt(RemoveAt(list, i), j, list[i])

\* A ticked row is moved by step, if there is a place for it.
MoveRow(list, i, step) ==
    IF list[i].ticked /\ i + step \in DOMAIN list THEN Moved(list, i, i + step) ELSE list

\* A loop over the rows.
MoveLoop(order, step) ==
    LET after[n \in 0..Len(order)] ==
            IF n = 0 THEN rows ELSE MoveRow(after[n - 1], order[n], step)
    IN  after[Len(order)]

\* The rows become the play list, and with them what they do not show is gone.
Move(list) ==
    /\ mPlan.timed
    /\ rows' = list
    /\ mPlan' = [mPlan EXCEPT !.files = FilesOf(list)]
    /\ ChangeOnly
    /\ UNCHANGED <<smsEdited, planLosses>>

Down(n) == [i \in 1..n |-> n + 1 - i]

BtnMoveUpClicked == Move(MoveLoop([i \in 1..Len(rows) |-> i], -1))

BtnMoveDownClicked == Move(MoveLoop(Down(Len(rows)), 1))

\* onBtnSelectRecordFileClicked: the dialog lists all recordings, the last one first.  It
\* looks for their names as the server spells them among those of the plan, so an encoded
\* one is never ticked.  The user changes the ticks of S; the rows are listed again.
BtnSelectRecordFileClicked(ends) ==
    LET ticked == Range(mPlan.files) \ Encoded
    IN  /\ mPlan.timed
        /\ Lossy(ends)
        /\ ChangeOnly
        /\ \E there \in Listings(ends["dialog"]) : \E S \in SUBSET there :
               LET chosen == (ticked \ S) \cup (S \ ticked)
               IN  mPlan' = [mPlan EXCEPT !.files = LastFirst(there \cap chosen)]
        /\ \E there \in Listings(ends["files"]) : rows' = FileRows(mPlan', there)
        /\ UNCHANGED smsEdited

\* onBtnTimeSettingEditClicked, see TimeSetting.
BtnTimeSettingEditClicked ==
    /\ mPlan.timed
    /\ mPlan' = [mPlan EXCEPT !.ready = TRUE]
    /\ ChangeOnly
    /\ UNCHANGED <<rows, smsEdited, planLosses>>

-----------------------------------------------------------------------------

PlanNext ==
    \/ \E timed \in BOOLEAN, ends \in LoadEnds : BtnNewClicked(timed, ends)
    \/ \E id \in DOMAIN plans :
           \/ \E ends \in Ends : PopupActionEdit(id, ends)
           \/ \E end \in Endings : PopupActionDelete(id, end)
    \/ \E f \in Passing : Uploaded(f) \/ BtnDeleteClicked(f)
    \/ \E ends \in Ends :
           \/ Leave("book", ends) \/ Leave("settings", ends)
           \/ \E S \in SUBSET People : Resume(S, ends) \/ BtnDeleteMemberClicked(S, ends)
           \/ BtnSmsSaveClicked(ends)
           \/ BtnBroadcastFileSaveClicked(ends)
    \/ \E i \in DOMAIN rows : FileListViewClicked(i)
    \/ TypeSms
    \/ BtnMoveUpClicked \/ BtnMoveDownClicked
    \/ \E ends \in [{"dialog", "files"} -> Endings] : BtnSelectRecordFileClicked(ends)
    \/ BtnTimeSettingEditClicked

PlanSpec == PlanInit /\ [][PlanNext]_planVars

-----------------------------------------------------------------------------
(* Properties.                                                             *)

\* A plan begun is one plan on the server and the editor changes no other, through the detour
\* over the phone book and the reloads in between; not so for a plan whose creation got no
\* reply of its own, which may have no id then, so that the next save begins a second one, or
\* the id of another, which the next save then changes.  And the plan in an editor is on
\* record as it is: at once for an event plan, when the editor is left for a timed broadcast
\* (EventPlanEditor.cpp:283-292, TimedBroadcastEditor.cpp:489-531); not so while the last save
\* or reading of it has had no reply of its own.
OnRecord ==
    /\ \A p, q \in DOMAIN plans : plans[p].task = plans[q].task => p = q \/ plans[p].task \in replyLost
    /\ mPlan.id \in DOMAIN plans =>
           /\ plans[mPlan.id].task = mPlan.task \/ mPlan.task \in replyLost
           /\ ~saveFailed /\ (mPlan.timed => activity # "editor") => plans[mPlan.id] = mPlan

\* What a step may do to the play list, FilesOf(rows) being the one on show.
PlayListStep ==
    activity # "settings" /\ mPlan.timed /\ mPlan'.files # mPlan.files =>
        \/ \A i, j \in DOMAIN mPlan'.files : i < j => mPlan'.files[i] > mPlan'.files[j]
        \/ LET play == FilesOf(rows)
           IN  mPlan'.files = play \/ \E i \in 1..Len(play) - 1 :
                   mPlan'.files = [play EXCEPT ![i] = play[i + 1], ![i + 1] = play[i]]

\* The play list of a timed broadcast is the order in which the server plays it.  While its
\* plan is in the editor it changes by the choice of recordings, which sorts it, or by a
\* move, which swaps two neighbours of those on show; ticking, saving, reloading and the
\* phone book leave it as it is (TimedBroadcastEditor.cpp:291-330, 369-382).
MovesOneStep == [][PlayListStep]_planVars
=============================================================================
