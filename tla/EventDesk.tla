----------------------------- MODULE EventDesk -----------------------------
(***************************************************************************)
(* Event reports and emergency plans: the chooser of the main window, the  *)
(* two EventWidget activities (normal events, emergency plans) with their  *)
(* list of plans, and the buttons that save a report and act on its plan   *)
(* (ui/event, ui/mainwidget/MainWidget.cpp).                               *)
(*                                                                         *)
(* A handler runs in the GUI thread from its first line to its last and    *)
(* makes RPCs on the way.  Each of them is a step here, with what the      *)
(* handler does up to the next one; todo holds the RPCs that the running   *)
(* handler has yet to make.  Between two of them the monitor thread may    *)
(* make its own.  RPCs behave as RpcContract allows, and a caller reads    *)
(* any reply as its own: a reply of another kind has no plans, no phone    *)
(* book entries, no events and no event id in it.                          *)
(*                                                                         *)
(* Every plan has one number, which is an extension, one terminal and one  *)
(* sound file; one channel is up when hangupAll clears the lines.          *)
(***************************************************************************)
EXTENDS Integers, Sequences, FiniteSets

CONSTANTS
    NormalPlans,    \* plans of type eNormal
    EmergencyPlans, \* plans of type eEmergency
    NoPlan,         \* the plan whose id is ""
    EEPBX,          \* the build variant that matches replies to requests
    MaxReports,     \* bound: reports begun
    MaxRecords,     \* bound: event records at the adapter
    MaxTimeouts     \* bound: calls that are given up

ASSUME DeskAssumption ==
    /\ NormalPlans \cap EmergencyPlans = {}
    /\ NoPlan \notin NormalPlans \cup EmergencyPlans
    /\ EEPBX \in BOOLEAN
    /\ MaxReports \in Nat
    /\ MaxRecords \in Nat
    /\ MaxTimeouts \in Nat

VARIABLES
    records,       \* the adapter's event table: id -> [plan, of, by], where of is the
                   \* report the record was made for and by the reports written to it
    late,          \* replies to calls that gave up, on their way: [token, reply]
    timeouts,      \* calls given up so far (bounded)
    visible,       \* the window on show: main, its chooser dialog, or an EventWidget
    todo,          \* the RPCs that the running handler has yet to make
    chooser,       \* what the chooser offers: [plans, events]
    params,        \* the parameters of onResume: [planid, eventid]
    mEventId,      \* of each EventWidget: the id of the event on show, 0 for ""
    mSelectedPlan, \* of each PlanZone: the plan that is selected
    typed,         \* of each PlanZone: whether mSelectedPlan.type was ever assigned
    listed,        \* of each PlanZone: the plans it has a button for
    saveBtn,       \* of each DescriptionZone: whether the save button is enabled
    report,        \* of each EventWidget: the report the user works on (history)
    reports,       \* the plans of the reports begun so far (history, bounded)
    hurt,          \* reports during which a call got no reply or a wrong one; 0 stands
                   \* for the choice of the next report (history)
    acted          \* what was asked of the PBX: [report, act] (history)

calls == <<late, timeouts>>
fields == <<mEventId, mSelectedPlan, typed, listed, saveBtn>>
vars == <<records, calls, visible, todo, chooser, params, fields, report, reports, hurt, acted>>

Kinds == {"normal", "emergency"}
Plans == NormalPlans \cup EmergencyPlans
PlansOf(k) == IF k = "normal" THEN NormalPlans ELSE EmergencyPlans

Ids == 1..MaxRecords
Reports == 1..MaxReports
NoOffer == [plans |-> {}, events |-> {}]

\* The RPCs that ask something of the PBX, and whose reply is not looked at.  A loop of
\* them, such as those that call the operator and then the numbers, counts as one.
Acts == {"hangup", "sms", "dial", "page"}

\* The RPCs of the handlers; "hangupAll" is the head of that function, before its first RPC.
Steps == {"chooserPlans", "chooserEvents", "chosen", "plans", "members", "event", "save",
          "hangupAll", "smsBook", "callBook", "sound"} \cup Acts

\* The replies that say something to one of the callers here, and all the others.
PlanList == [kind |-> "plans"]
PhoneBook == [kind |-> "phonebook"]
EventList(ids) == [kind |-> "events", events |-> [i \in ids |-> records[i].plan]]
Saved(id) == [kind |-> "saved", id |-> id]
Other == [kind |-> "other"]
Replies == {PlanList, PhoneBook, Other} \cup [kind : {"saved"}, id : Ids]
    \cup [kind : {"events"}, events : UNION {[ids -> Plans] : ids \in SUBSET Ids}]

PlansIn(reply) == IF reply.kind = "plans" THEN Plans ELSE {}
EventsIn(reply) == IF reply.kind = "events" THEN reply.events ELSE [i \in {} |-> NoPlan]

\* Bug: the id that the adapter gave the event is not read.
IdUnread(reply) == 0

IdIn(reply) == IF reply.kind = "saved" THEN reply.id ELSE 0

TypeOK ==
    /\ records \in Seq([plan : Plans, of : Reports, by : SUBSET Reports])
    /\ Len(records) <= MaxRecords
    /\ late \subseteq [token : 1..MaxTimeouts, reply : Replies]
    /\ timeouts \in 0..MaxTimeouts
    /\ visible \in {"main", "chooser"} \cup Kinds
    /\ todo \in Seq(Steps)
    /\ chooser \in [plans : SUBSET NormalPlans, events : SUBSET Ids]
    /\ params \in [planid : Plans \cup {NoPlan}, eventid : {0} \cup Ids]
    /\ mEventId \in [Kinds -> {0} \cup DOMAIN records]
    /\ \A k \in Kinds : mSelectedPlan[k] \in PlansOf(k) \cup {NoPlan}
    /\ typed \in [Kinds -> BOOLEAN]
    /\ \A k \in Kinds : listed[k] \subseteq PlansOf(k)
    /\ saveBtn \in [Kinds -> BOOLEAN]
    /\ report \in [Kinds -> {0} \cup DOMAIN reports]
    /\ reports \in Seq(Plans \cup {NoPlan})
    /\ Len(reports) <= MaxReports
    /\ hurt \subseteq {0} \cup Reports
    /\ acted \subseteq [report : Reports, act : {"alert"} \cup Acts]

Init ==
    /\ records = <<>>
    /\ late = {}
    /\ timeouts = 0
    /\ visible = "main"
    /\ todo = <<>>
    /\ chooser = NoOffer
    /\ params = [planid |-> NoPlan, eventid |-> 0]
    /\ mEventId = [k \in Kinds |-> 0]
    /\ mSelectedPlan = [k \in Kinds |-> NoPlan]
    /\ typed = [k \in Kinds |-> FALSE]
    /\ listed = [k \in Kinds |-> {}]
    /\ saveBtn = [k \in Kinds |-> k = "normal"]
    /\ report = [k \in Kinds |-> 0]
    /\ reports = <<>>
    /\ hurt = {}
    /\ acted = {}

-----------------------------------------------------------------------------
(* One RPC, whose own reply would be own, ends with answer a: what it      *)
(* returns, whether the adapter did what was asked, and whether the caller *)
(* can tell (a clean answer).                                              *)

OwnAnswer(own) == [reply |-> own, done |-> TRUE, clean |-> TRUE]
LateAnswers == {[reply |-> l.reply, done |-> TRUE, clean |-> FALSE] : l \in late}
LostAnswers == [reply : {Other}, done : BOOLEAN, clean : {FALSE}]
Answers(own) == {OwnAnswer(own)} \cup LateAnswers \cup LostAnswers

\* The reply of a call that gave up is taken, and the own one is late in turn.
ReturnsLate(own, a) ==
    /\ ~a.clean
    /\ a.done
    /\ \E l \in late : /\ a.reply = l.reply
                       /\ late' = (late \ {l}) \cup {[l EXCEPT !.reply = own]}
    /\ UNCHANGED timeouts

GivesUp(own, a) ==
    /\ ~a.clean
    /\ a.reply = Other
    /\ timeouts < MaxTimeouts
    /\ timeouts' = timeouts + 1
    /\ late' = IF a.done /\ ~EEPBX
               THEN late \cup {[token |-> timeouts + 1, reply |-> own]} ELSE late

Rpc(own, a) ==
    \/ a.clean /\ UNCHANGED calls
    \/ ReturnsLate(own, a)
    \/ GivesUp(own, a)

Shown == IF visible \in Kinds THEN report[visible] ELSE 0
Harm(a) == IF a.clean THEN {} ELSE {Shown}

Ready == todo = <<>>
At(step) == ~Ready /\ Head(todo) = step
Drop(n) == SubSeq(todo, n + 1, Len(todo))

\* The monitor thread makes a call of another kind.
OtherCall ==
    /\ \E a \in Answers(Other) : Rpc(Other, a)
    /\ UNCHANGED <<records, visible, todo, chooser, params, fields, report, reports, hurt, acted>>

-----------------------------------------------------------------------------
(* MainWidget, EventChooser, and MainWindow::loadActivity, which shows an  *)
(* EventWidget through its onResume.                                       *)

\* onResume up to its first RPC: loadData, then eventPlanSelected and getEvent if need be.
Resume(k, planid, eventid) ==
    /\ visible' = k
    /\ params' = [planid |-> planid, eventid |-> eventid]
    /\ mEventId' = [mEventId EXCEPT ![k] = 0]
    /\ report' = [report EXCEPT ![k] = 0]
    /\ chooser' = NoOffer
    /\ todo' = <<"plans">> \o (IF planid # NoPlan THEN <<"members">> ELSE <<>>)
                           \o (IF eventid # 0 THEN <<"event">> ELSE <<>>)
    /\ UNCHANGED <<mSelectedPlan, typed, listed, saveBtn>>

ClickEmergency ==
    /\ Ready
    /\ visible = "main"
    /\ Resume("emergency", NoPlan, 0)
    /\ hurt' = hurt \ {0}
    /\ UNCHANGED <<records, calls, reports, acted>>

ClickEvents ==
    /\ Ready
    /\ visible = "main"
    /\ visible' = "chooser"
    /\ todo' = <<"chooserPlans", "chooserEvents">>
    /\ hurt' = hurt \ {0}
    /\ UNCHANGED <<records, calls, chooser, params, fields, report, reports, acted>>

ChooserPlans ==
    /\ At("chooserPlans")
    /\ \E a \in Answers(PlanList) :
          /\ Rpc(PlanList, a)
          /\ chooser' = [chooser EXCEPT !.plans = PlansIn(a.reply) \cap NormalPlans]
          /\ hurt' = hurt \cup Harm(a)
    /\ todo' = Drop(1)
    /\ UNCHANGED <<records, visible, params, fields, report, reports, acted>>

ChooserEvents ==
    /\ At("chooserEvents")
    /\ \E a \in Answers(EventList(DOMAIN records)) :
          /\ Rpc(EventList(DOMAIN records), a)
          /\ chooser' = [chooser EXCEPT !.events =
                 {e \in DOMAIN EventsIn(a.reply) : EventsIn(a.reply)[e] \in chooser.plans}]
          /\ hurt' = hurt \cup Harm(a)
    /\ todo' = Drop(1)
    /\ UNCHANGED <<records, visible, params, fields, report, reports, acted>>

ChoosePlan(p) ==
    /\ Ready
    /\ visible = "chooser"
    /\ p \in chooser.plans
    /\ Len(reports) < MaxReports
    /\ Resume("normal", p, 0)
    /\ UNCHANGED <<records, calls, reports, hurt, acted>>

ChooseEvent(e) ==
    /\ Ready
    /\ visible = "chooser"
    /\ e \in chooser.events
    /\ Len(reports) < MaxReports
    /\ params' = [planid |-> NoPlan, eventid |-> e]
    /\ todo' = <<"chosen">>
    /\ UNCHANGED <<records, calls, visible, chooser, fields, report, reports, hurt, acted>>

\* The plan is that of the first event of the reply; without one nothing is handed on.
Chosen ==
    /\ At("chosen")
    /\ \E a \in Answers(EventList({params.eventid})) :
          /\ Rpc(EventList({params.eventid}), a)
          /\ IF EventsIn(a.reply) = EventsIn(Other)
             THEN Resume("normal", NoPlan, 0)
             ELSE \E e \in DOMAIN EventsIn(a.reply) :
                      Resume("normal", EventsIn(a.reply)[e], params.eventid)
          /\ hurt' = hurt \cup Harm(a)
    /\ UNCHANGED <<records, reports, acted>>

CancelChooser ==
    /\ Ready
    /\ visible = "chooser"
    /\ visible' = "main"
    /\ chooser' = NoOffer
    /\ UNCHANGED <<records, calls, todo, params, fields, report, reports, hurt, acted>>

Back ==
    /\ Ready
    /\ visible \in Kinds
    /\ visible' = "main"
    /\ UNCHANGED <<records, calls, todo, chooser, params, fields, report, reports, hurt, acted>>

-----------------------------------------------------------------------------
(* EventWidget and PlanZone.                                               *)

\* The type a PlanZone reports: that of its plans, or whatever is in memory.
TypesOf(k, p) == IF p # NoPlan \/ typed[k] THEN {k} ELSE Kinds

\* Bug: the event on show stays the one that will be saved.
EventPlanSelectedKeepsId(k, p) ==
    /\ reports' = Append(reports, p)
    /\ report' = [report EXCEPT ![k] = Len(reports) + 1]
    /\ \E type \in TypesOf(k, p) :
          saveBtn' = IF type = "emergency" THEN [saveBtn EXCEPT ![k] = FALSE] ELSE saveBtn
    /\ UNCHANGED mEventId

\* Bug: the save button stays as the plan before left it.
EventPlanSelectedKeepsButton(k, p) ==
    /\ mEventId' = [mEventId EXCEPT ![k] = 0]
    /\ reports' = Append(reports, p)
    /\ report' = [report EXCEPT ![k] = Len(reports) + 1]
    /\ UNCHANGED saveBtn

\* The user begins a report; eventPlanSelected up to its RPC.
EventPlanSelected(k, p) ==
    /\ mEventId' = [mEventId EXCEPT ![k] = 0]
    /\ reports' = Append(reports, p)
    /\ report' = [report EXCEPT ![k] = Len(reports) + 1]
    /\ \E type \in TypesOf(k, p) :
          saveBtn' = IF type = "emergency" THEN [saveBtn EXCEPT ![k] = FALSE] ELSE saveBtn

\* What went wrong while a report was chosen is held against the report.
Inherited(harmed) == IF 0 \in harmed THEN {Len(reports) + 1} ELSE {}

\* Bug: the plans of the other type are listed too.
ListedAll(reply) == PlansIn(reply)

\* The plans that loadData makes buttons for.
Listed(reply) == PlansIn(reply) \cap PlansOf(visible)

\* PlanZone::loadData, and on to eventPlanSelected if onResume was given a plan.
LoadPlans ==
    /\ At("plans")
    /\ \E a \in Answers(PlanList) :
          /\ Rpc(PlanList, a)
          /\ LET plans == Listed(a.reply)
                 p == IF params.planid \in plans THEN params.planid ELSE NoPlan
                 harmed == hurt \cup Harm(a)
             IN  /\ listed' = [listed EXCEPT ![visible] = plans]
                 /\ mSelectedPlan' = [mSelectedPlan EXCEPT ![visible] = p]
                 /\ typed' = [typed EXCEPT ![visible] = @ \/ p # NoPlan]
                 /\ IF params.planid = NoPlan
                    THEN hurt' = harmed /\ UNCHANGED <<mEventId, reports, report, saveBtn>>
                    ELSE /\ EventPlanSelected(visible, p)
                         /\ hurt' = harmed \cup Inherited(harmed)
    /\ todo' = Drop(1)
    /\ UNCHANGED <<records, visible, chooser, params, acted>>

\* The extensions of the plan are put on show.
Members ==
    /\ At("members")
    /\ \E a \in Answers(PhoneBook) :
          /\ Rpc(PhoneBook, a)
          /\ hurt' = hurt \cup Harm(a)
    /\ todo' = Drop(1)
    /\ UNCHANGED <<records, visible, chooser, params, fields, report, reports, acted>>

\* getEvent in onResume: the user goes on with the report of the first event of the reply.
LoadEvent ==
    /\ At("event")
    /\ \E a \in Answers(EventList({params.eventid})) :
          /\ Rpc(EventList({params.eventid}), a)
          /\ LET harmed == hurt \cup Harm(a) IN
             \/ /\ EventsIn(a.reply) = EventsIn(Other)
                /\ hurt' = harmed
                /\ UNCHANGED <<mEventId, report>>
             \/ \E e \in DOMAIN EventsIn(a.reply) :
                   /\ mEventId' = [mEventId EXCEPT ![visible] = e]
                   /\ report' = [report EXCEPT ![visible] = records[e].of]
                   /\ hurt' = IF Shown \in harmed THEN harmed \cup {records[e].of} ELSE harmed
    /\ todo' = Drop(1)
    /\ UNCHANGED <<records, visible, chooser, params, mSelectedPlan, typed, listed, saveBtn,
                   reports, acted>>

\* onBtnPlanClicked, with the question whether to begin a new event answered by yes.
ClickPlan(p) ==
    /\ Ready
    /\ visible \in Kinds
    /\ p \in listed[visible] \ {mSelectedPlan[visible]}
    /\ Len(reports) < MaxReports
    /\ mSelectedPlan' = [mSelectedPlan EXCEPT ![visible] = p]
    /\ typed' = [typed EXCEPT ![visible] = TRUE]
    /\ EventPlanSelected(visible, p)
    /\ todo' = <<"members">>
    /\ UNCHANGED <<records, calls, visible, chooser, params, listed, hurt, acted>>

-----------------------------------------------------------------------------
(* The buttons of DescriptionZone and FunctionZone.                        *)

\* A handler that begins with saveEvent starts, with a plan selected; steps come after it.
Begin(steps) ==
    /\ Ready
    /\ visible \in Kinds
    /\ mSelectedPlan[visible] # NoPlan
    /\ Len(records) < MaxRecords
    /\ todo' = <<"save">> \o steps
    /\ UNCHANGED <<records, calls, visible, chooser, params, fields, report, reports, hurt>>

Save ==
    /\ Begin(<<>>)
    /\ saveBtn[visible]
    /\ UNCHANGED acted

\* Bug: the normal buttons work without a saved event.
NormalUnsaved(steps) ==
    /\ Ready
    /\ visible = "normal"
    /\ mSelectedPlan["normal"] # NoPlan
    /\ todo' = steps
    /\ UNCHANGED <<records, calls, visible, chooser, params, fields, report, reports, hurt, acted>>

\* A button for normal events asks for the event to be saved before.
Normal(steps) ==
    /\ Begin(steps)
    /\ visible = "normal"
    /\ mEventId["normal"] # 0
    /\ UNCHANGED acted

Call == Normal(<<"callBook", "dial">>)
SendSms == Normal(<<"smsBook", "sms">>)
Broadcast == Normal(<<"page">>)
PlaySound == Normal(<<"sound">>)

Alert ==
    /\ Begin(<<"hangupAll", "smsBook", "sms", "callBook", "dial", "sound">>)
    /\ visible = "emergency"
    /\ acted' = acted \cup {[report |-> Shown, act |-> "alert"]}

Target == IF mEventId[visible] = 0 THEN Len(records) + 1 ELSE mEventId[visible]

\* The adapter makes a record for an event without an id, and updates it otherwise.
Written ==
    IF mEventId[visible] = 0
    THEN Append(records, [plan |-> mSelectedPlan[visible], of |-> Shown, by |-> {Shown}])
    ELSE [records EXCEPT ![Target].plan = mSelectedPlan[visible],
                         ![Target].by = @ \cup {Shown}]

\* mEventId becomes whatever id the reply holds, "" when it holds none.
SaveEvent ==
    /\ At("save")
    /\ \E a \in Answers(Saved(Target)) :
          /\ Rpc(Saved(Target), a)
          /\ records' = IF a.done THEN Written ELSE records
          /\ mEventId' = [mEventId EXCEPT ![visible] = IdIn(a.reply)]
          /\ hurt' = hurt \cup Harm(a)
    /\ saveBtn' = IF visible = "emergency" THEN [saveBtn EXCEPT ![visible] = TRUE] ELSE saveBtn
    /\ todo' = Drop(1)
    /\ UNCHANGED <<visible, chooser, params, mSelectedPlan, typed, listed, report, reports, acted>>

\* Bug: an alarm for an event that is not in the records makes no calls.
HangupAllEndsAlarm ==
    /\ At("hangupAll")
    /\ todo' = <<>>
    /\ UNCHANGED <<records, calls, visible, chooser, params, fields, report, reports, hurt, acted>>

\* Without an event id nothing is hung up; with one the event is saved again before.
HangupAll ==
    /\ At("hangupAll")
    /\ todo' = IF mEventId[visible] = 0 THEN Drop(1) ELSE <<"save", "hangup">> \o Drop(1)
    /\ UNCHANGED <<records, calls, visible, chooser, params, fields, report, reports, hurt, acted>>

\* The numbers of the plan are looked up; without them the next RPC is not made.
LookUp(step) ==
    /\ At(step)
    /\ \E a \in Answers(PhoneBook) :
          /\ Rpc(PhoneBook, a)
          /\ todo' = IF a.reply = PhoneBook THEN Drop(1) ELSE Drop(2)
          /\ hurt' = hurt \cup Harm(a)
    /\ UNCHANGED <<records, visible, chooser, params, fields, report, reports, acted>>

\* broadcast and playSound page the terminals of the plan.
Act(step, act) ==
    /\ At(step)
    /\ \E a \in Answers(Other) :
          /\ Rpc(Other, a)
          /\ acted' = IF a.done THEN acted \cup {[report |-> Shown, act |-> act]} ELSE acted
          /\ hurt' = hurt \cup Harm(a)
    /\ todo' = Drop(1)
    /\ UNCHANGED <<records, visible, chooser, params, fields, report, reports>>

\* The user cancels the dialog that asks for the text or the number of rounds.
Dismiss ==
    /\ visible = "normal"
    /\ At("sms") \/ At("sound")
    /\ todo' = Drop(1)
    /\ UNCHANGED <<records, calls, visible, chooser, params, fields, report, reports, hurt, acted>>

-----------------------------------------------------------------------------

User ==
    \/ ClickEmergency
    \/ ClickEvents
    \/ \E p \in NormalPlans : ChoosePlan(p)
    \/ \E e \in Ids : ChooseEvent(e)
    \/ CancelChooser
    \/ Back
    \/ \E p \in Plans : ClickPlan(p)
    \/ Save
    \/ Call
    \/ SendSms
    \/ Broadcast
    \/ PlaySound
    \/ Alert

\* The running handler goes on.
Handler ==
    \/ ChooserPlans
    \/ ChooserEvents
    \/ Chosen
    \/ LoadPlans
    \/ Members
    \/ LoadEvent
    \/ SaveEvent
    \/ HangupAll
    \/ LookUp("smsBook")
    \/ LookUp("callBook")
    \/ \E act \in Acts : Act(act, act)
    \/ Act("sound", "page")
    \/ Dismiss

Next == User \/ Handler \/ OtherCall

Spec == Init /\ [][Next]_vars

\* Every RPC returns (LockReleased of RpcClient) and dialogs are answered.
FairSpec == Spec /\ WF_vars(Handler)

-----------------------------------------------------------------------------
(* Properties.  They are about reports none of whose calls was given up or *)
(* answered with another call's reply: hurt holds the others, for which    *)
(* the code keeps no such promise.                                         *)

\* saveEvent writes a report to the record that was made for it and to no other, with
\* the plan it was begun with, however the user goes from plan to plan and window to
\* window and whatever happens to the calls of other reports.
OwnRecord == \A i \in DOMAIN records :
    /\ records[i].by \ hurt \subseteq {records[i].of}
    /\ records[i].by \cap hurt = {} => records[i].plan = reports[records[i].of]

\* A report all of whose calls were answered with their own replies has one record,
\* however often it is saved, by the buttons, by the alarm and by hangupAll.  A report
\* whose save was done but not answered may get a second one (EventWidget.cpp:154).
OneRecord == \A i, j \in DOMAIN records :
    i # j /\ records[i].of = records[j].of => records[i].of \in hurt

\* Calls, text messages and broadcasts are made for reports that are on record, if no call
\* of the report failed or took a wrong reply (EventWidget.cpp:161, FunctionZone.cpp:37).
Recorded == \A x \in acted :
    \/ x.act = "alert"
    \/ x.report \in hurt
    \/ \E i \in DOMAIN records : records[i].of = x.report

\* The save button of the emergency window (EventWidget.cpp:27, 118, 152) never puts a
\* plan on record for which no alarm was raised.
AlertFirst == \A i \in DOMAIN records :
    reports[records[i].of] \in EmergencyPlans =>
        [report |-> records[i].of, act |-> "alert"] \in acted

\* An alarm, once raised, clears the lines, sends the text message, calls the numbers of
\* the plan and plays its sound, in whatever order its handlers nest, unless a call of its
\* report failed or took a wrong reply.
AlertActs == \A r \in Reports :
    ([report |-> r, act |-> "alert"] \in acted)
        ~> ({[report |-> r, act |-> x] : x \in Acts} \subseteq acted \/ r \in hurt)
=============================================================================
