-------------------------- MODULE EventDeskProofs --------------------------
(***************************************************************************)
(* Proofs about the event desk: the invariants of EventDesk hold for every *)
(* set of plans, in both build variants, and for every bound.  The         *)
(* invariant that carries them says what every pending RPC of a handler    *)
(* presupposes, how the report on show and the event id relate to the      *)
(* adapter's records, and when the save button may be enabled.             *)
(***************************************************************************)
EXTENDS EventDesk, SequenceTheorems, TLAPS

\* The RPCs that handlers make before the user can go on with a report, and the
\* ones among them by which the chooser picks a plan or an event.
ChooserSteps == {"chooserPlans", "chooserEvents", "chosen"}
Loading == ChooserSteps \cup {"plans", "members", "event"}

Pending(step) == \E i \in DOMAIN todo : todo[i] = step
Missed == 0 \in hurt
Harmless(r) == r # 0 /\ r \notin hurt

\* A reply speaks of the first n records only.
Known(reply, n) ==
    /\ reply \in Replies
    /\ IdIn(reply) \in 0..n
    /\ DOMAIN EventsIn(reply) \subseteq 1..n

Typing ==
    /\ records \in Seq([plan : Plans, of : Reports, by : SUBSET Reports])
    /\ Len(records) <= MaxRecords
    /\ late \subseteq [token : 1..MaxTimeouts, reply : Replies]
    /\ timeouts \in 0..MaxTimeouts
    /\ visible \in {"main", "chooser"} \cup Kinds
    /\ todo \in Seq(Steps)
    /\ chooser \in [plans : SUBSET NormalPlans, events : SUBSET (1..Len(records))]
    /\ params \in [planid : Plans \cup {NoPlan}, eventid : 0..Len(records)]
    /\ mEventId \in [Kinds -> 0..Len(records)]
    /\ mSelectedPlan \in [Kinds -> Plans \cup {NoPlan}]
    /\ \A k \in Kinds : mSelectedPlan[k] \in PlansOf(k) \cup {NoPlan}
    /\ typed \in [Kinds -> BOOLEAN]
    /\ listed \in [Kinds -> SUBSET Plans]
    /\ \A k \in Kinds : listed[k] \subseteq PlansOf(k)
    /\ saveBtn \in [Kinds -> BOOLEAN]
    /\ report \in [Kinds -> 0..Len(reports)]
    /\ reports \in Seq(Plans \cup {NoPlan})
    /\ Len(reports) <= MaxReports
    /\ hurt \subseteq {0} \cup Reports
    /\ acted \subseteq [report : Reports, act : {"alert"} \cup Acts]

\* Replies and records speak of what there is.
Bounded ==
    /\ \A l \in late : Known(l.reply, Len(records))
    /\ \A i \in DOMAIN records : records[i].of \in 1..Len(reports)

\* What a pending RPC says of the handler that runs.
Control == \A i \in DOMAIN todo :
    /\ todo[i] \in ChooserSteps => visible = "chooser"
    /\ todo[i] \notin ChooserSteps => visible \in Kinds
    /\ todo[i] = "chosen" => params.eventid # 0 /\ Len(reports) < MaxReports
    /\ todo[i] = "event" => visible = "normal" /\ params.eventid # 0
    /\ todo[i] = "plans" =>
          /\ report[visible] = 0
          /\ mEventId[visible] = 0
          /\ params.planid = NoPlan \/ Len(reports) < MaxReports
          /\ visible = "emergency" => params.planid = NoPlan
    /\ todo[i] = "save" => mEventId[visible] # 0 \/ Len(records) < MaxRecords
    /\ todo[i] \notin Loading => report[visible] # 0 /\ mSelectedPlan[visible] # NoPlan
    /\ i > 1 => todo[i] \notin {"chooserPlans", "chosen", "plans", "save"}
    /\ \A j \in DOMAIN todo : todo[i] \in Loading => todo[j] \in Loading

\* An event that is offered and chosen without a failing call has a normal plan, and the
\* plan that comes with it.
Offer == visible = "chooser" /\ ~Pending("chooserEvents") /\ ~Missed =>
    \A e \in chooser.events : records[e].plan \in NormalPlans

Choice ==
    /\ Pending("chosen") /\ ~Missed => records[params.eventid].plan \in NormalPlans
    /\ Pending("event") /\ Pending("plans") /\ ~Missed =>
          /\ params.planid \in NormalPlans
          /\ params.planid = records[params.eventid].plan
    /\ Pending("event") /\ ~Pending("plans") /\ Shown \notin hurt =>
          /\ Shown # 0
          /\ mSelectedPlan[visible] = records[params.eventid].plan

\* The report on show, its plan and its record.
OnShow == visible \in Kinds /\ ~Pending("plans") =>
    /\ mSelectedPlan[visible] # NoPlan => Shown # 0
    /\ mEventId[visible] # 0 /\ Shown \notin hurt => records[mEventId[visible]].of = Shown
    /\ Harmless(Shown) =>
          \/ mSelectedPlan[visible] = reports[Shown]
          \/ /\ mEventId[visible] # 0
             /\ records[mEventId[visible]].by \cap hurt # {}
    /\ Harmless(Shown) /\ mEventId[visible] = 0 =>
          \A i \in DOMAIN records : records[i].of # Shown

\* What follows the saving of a report finds it on record.
Saves == todo # <<>> /\ todo[1] \notin Loading \cup {"save"} =>
    Shown \in hurt \/ \E i \in DOMAIN records : records[i].of = Shown

\* A report may be put on record once its alarm, if it needs one, was raised.
Clear(k) == report[k] # 0 /\ reports[report[k]] \in EmergencyPlans =>
    [report |-> report[k], act |-> "alert"] \in acted

Alarmed ==
    /\ visible = "normal" => Clear("normal")
    /\ visible = "emergency" /\ (saveBtn["emergency"] \/ (todo # <<>> /\ todo[1] \notin Loading))
          => Clear("emergency")

IInv == Typing /\ Bounded /\ Control /\ Offer /\ Choice /\ OnShow /\ Saves /\ Alarmed
        /\ OwnRecord /\ OneRecord /\ Recorded /\ AlertFirst

-----------------------------------------------------------------------------
(* Replies, and what a call does with them.                                *)

LEMMA KindsOfPlans ==
    /\ \A k \in Kinds : PlansOf(k) \subseteq Plans
    /\ PlansOf("normal") = NormalPlans
    /\ PlansOf("emergency") = EmergencyPlans
    /\ NormalPlans \cap EmergencyPlans = {}
    /\ NoPlan \notin Plans
BY DeskAssumption DEF Kinds, PlansOf, Plans

LEMMA Element == ASSUME NEW S, NEW s \in Seq(S), NEW i \in 1..Len(s) PROVE s[i] \in S
OBVIOUS

LEMMA RecordTyped ==
    ASSUME Typing
    PROVE  /\ DOMAIN records = 1..Len(records) /\ Len(records) \in Nat
           /\ \A i \in 1..Len(records) : /\ records[i].plan \in Plans
                                         /\ records[i].of \in Reports
                                         /\ records[i].by \subseteq Reports
<1> DEFINE Record == [plan : Plans, of : Reports, by : SUBSET Reports]
<1>1. records \in Seq(Record)
  BY DEF Typing
<1>2. \A i \in 1..Len(records) : records[i] \in Record
  BY <1>1, Element
<1>3. QED
  BY <1>1, <1>2

LEMMA EventListTyped ==
    ASSUME Typing, NEW ids \in SUBSET (1..Len(records))
    PROVE  /\ Known(EventList(ids), Len(records))
           /\ EventsIn(EventList(ids)) = [i \in ids |-> records[i].plan]
           /\ DOMAIN EventsIn(EventList(ids)) = ids
<1>1. Len(records) \in Nat /\ ids \subseteq Ids
  BY DeskAssumption DEF Typing, Ids
<1>2. [i \in ids |-> records[i].plan] \in [ids -> Plans]
  <2>1. ASSUME NEW i \in ids PROVE records[i].plan \in Plans
    BY RecordTyped
  <2>2. QED
    BY <2>1
<1>3. EventList(ids).kind = "events" /\ EventList(ids).events = [i \in ids |-> records[i].plan]
  BY DEF EventList
<1>4. EventList(ids) \in Replies
  BY <1>1, <1>2 DEF EventList, Replies
<1>5. IdIn(EventList(ids)) = 0
  BY <1>3 DEF IdIn
<1>6. EventsIn(EventList(ids)) = [i \in ids |-> records[i].plan]
  BY <1>3 DEF EventsIn
<1>7. QED
  BY <1>1, <1>4, <1>5, <1>6 DEF Known

LEMMA PlainReplies ==
    ASSUME NEW n \in Nat, NEW r \in {PlanList, PhoneBook, Other}
    PROVE  Known(r, n) /\ EventsIn(r) = EventsIn(Other)
<1>1. r \in Replies
  BY DEF Replies
<1>2. r.kind \notin {"events", "saved"} /\ Other.kind \notin {"events", "saved"}
  BY DEF PlanList, PhoneBook, Other
<1>3. IdIn(r) = 0 /\ EventsIn(r) = [i \in {} |-> NoPlan] /\ EventsIn(Other) = [i \in {} |-> NoPlan]
  BY <1>2 DEF IdIn, EventsIn
<1>4. QED
  BY <1>1, <1>3 DEF Known

LEMMA SavedTyped ==
    ASSUME NEW n \in Nat, NEW id \in 1..n, id \in Ids
    PROVE  Known(Saved(id), n) /\ IdIn(Saved(id)) = id
<1>1. Saved(id) \in Replies /\ Saved(id).kind = "saved" /\ Saved(id).id = id
  BY DEF Saved, Replies
<1>2. IdIn(Saved(id)) = id /\ EventsIn(Saved(id)) = [i \in {} |-> NoPlan]
  BY <1>1 DEF IdIn, EventsIn
<1>3. QED
  BY <1>1, <1>2 DEF Known

\* The plans of the events in a reply.
LEMMA EventsTyped ==
    ASSUME NEW r \in Replies, NEW e \in DOMAIN EventsIn(r)
    PROVE  EventsIn(r)[e] \in Plans
<1>1. CASE r.kind = "events"
  <2>1. PICK ids \in SUBSET Ids : r.events \in [ids -> Plans]
    BY <1>1 DEF Replies, PlanList, PhoneBook, Other
  <2>2. EventsIn(r) = r.events
    BY <1>1 DEF EventsIn
  <2>3. QED
    BY <2>1, <2>2
<1>2. CASE r.kind # "events"
  BY <1>2 DEF EventsIn
<1>3. QED
  BY <1>1, <1>2

LEMMA KnownGrows ==
    ASSUME NEW n \in Nat, NEW m \in Nat, n <= m, NEW r, Known(r, n)
    PROVE  Known(r, m)
<1>1. IdIn(r) \in 0..m
  BY DEF Known
<1>2. DOMAIN EventsIn(r) \subseteq 1..m
  BY DEF Known
<1>3. QED
  BY <1>1, <1>2 DEF Known

\* A call that the adapter answers in time has its own reply, any other one is held
\* against the report on show; replies that are left over speak of records there are.
LEMMA Called ==
    ASSUME Typing, NEW own \in Replies, NEW a \in Answers(own), Rpc(own, a), NEW n \in Nat,
           \A l \in late : Known(l.reply, n),
           a.done => Known(own, n)
    PROVE  /\ a.clean => a.reply = own /\ a.done /\ Harm(a) = {}
           /\ ~a.clean => Harm(a) = {Shown}
           /\ a.done \in BOOLEAN /\ a.clean \in BOOLEAN
           /\ Known(a.reply, n)
           /\ late' \subseteq [token : 1..MaxTimeouts, reply : Replies]
           /\ timeouts' \in 0..MaxTimeouts
           /\ \A l \in late' : Known(l.reply, n)
<1>1. /\ a.clean => a.reply = own /\ a.done
      /\ a.done \in BOOLEAN /\ a.clean \in BOOLEAN
      /\ ~a.clean => a.reply = Other \/ \E l \in late : a.reply = l.reply
  <2>1. CASE a = OwnAnswer(own)
    BY <2>1 DEF OwnAnswer
  <2>2. CASE a \in LateAnswers
    <3>1. PICK l \in late : a = [reply |-> l.reply, done |-> TRUE, clean |-> FALSE]
      BY <2>2 DEF LateAnswers
    <3>2. QED
      BY <3>1
  <2>3. CASE a \in LostAnswers
    BY <2>3 DEF LostAnswers
  <2>4. QED
    BY <2>1, <2>2, <2>3 DEF Answers
<1>2. (a.clean => Harm(a) = {}) /\ (~a.clean => Harm(a) = {Shown})
  BY <1>1 DEF Harm
<1>3. Known(a.reply, n)
  <2>1. CASE a.clean
    BY <1>1, <2>1
  <2>2. CASE ~a.clean
    <3>1. Known(Other, n)
      BY PlainReplies
    <3>2. CASE \E l \in late : a.reply = l.reply
      <4>1. PICK l \in late : a.reply = l.reply
        BY <3>2
      <4>2. Known(l.reply, n)
        OBVIOUS
      <4>3. QED
        BY <4>1, <4>2
    <3>3. QED
      BY <1>1, <2>2, <3>1, <3>2
  <2>3. QED
    BY <1>1, <2>1, <2>2
<1>4. CASE a.clean /\ UNCHANGED calls
  BY <1>4, <1>1, <1>2, <1>3 DEF calls, Typing
<1>5. CASE ReturnsLate(own, a)
  <2>1. PICK l \in late : late' = (late \ {l}) \cup {[l EXCEPT !.reply = own]}
    BY <1>5 DEF ReturnsLate
  <2>2. l \in [token : 1..MaxTimeouts, reply : Replies]
    BY DEF Typing
  <2>3. /\ [l EXCEPT !.reply = own] \in [token : 1..MaxTimeouts, reply : Replies]
        /\ [l EXCEPT !.reply = own].reply = own
    BY <2>2
  <2>4. Known(own, n) /\ timeouts' = timeouts
    BY <1>5 DEF ReturnsLate
  <2>5. QED
    BY <1>1, <1>2, <1>3, <2>1, <2>3, <2>4 DEF Typing
<1>6. CASE GivesUp(own, a)
  <2>1. /\ timeouts' = timeouts + 1 /\ timeouts < MaxTimeouts
        /\ \/ late' = late
           \/ a.done /\ late' = late \cup {[token |-> timeouts + 1, reply |-> own]}
    BY <1>6 DEF GivesUp
  <2>2. timeouts \in Nat /\ MaxTimeouts \in Nat /\ timeouts + 1 \in 1..MaxTimeouts
        /\ timeouts' \in 0..MaxTimeouts
    BY <2>1, DeskAssumption DEF Typing
  <2>3. [token |-> timeouts + 1, reply |-> own] \in [token : 1..MaxTimeouts, reply : Replies]
    BY <2>2
  <2>4. QED
    BY <1>1, <1>2, <1>3, <2>1, <2>2, <2>3 DEF Typing
<1>7. QED
  BY <1>4, <1>5, <1>6 DEF Rpc

-----------------------------------------------------------------------------
(* The RPCs that a handler has yet to make.                                *)

LEMMA Dropped ==
    ASSUME Typing, NEW n \in {1, 2}
    PROVE  /\ Drop(n) \in Seq(Steps)
           /\ \A i \in DOMAIN Drop(n) : i + n \in DOMAIN todo /\ Drop(n)[i] = todo[i + n]
           /\ \A i \in DOMAIN todo : i > n => i - n \in DOMAIN Drop(n) /\ Drop(n)[i - n] = todo[i]
<1>1. todo \in Seq(Steps) /\ Len(todo) \in Nat /\ DOMAIN todo = 1..Len(todo)
  BY DEF Typing
<1>2. CASE n + 1 <= Len(todo)
  <2>1. \A i \in n + 1..Len(todo) : todo[i] \in Steps
    BY <1>1
  <2>2. /\ Drop(n) \in Seq(Steps)
        /\ Len(Drop(n)) = Len(todo) - n
        /\ \A i \in 1..Len(todo) - n : Drop(n)[i] = todo[i + n]
    BY <1>1, <1>2, <2>1, SubSeqProperties DEF Drop
  <2>3. DOMAIN Drop(n) = 1..Len(todo) - n
    BY <2>2
  <2>4. \A i \in DOMAIN Drop(n) : i + n \in DOMAIN todo /\ Drop(n)[i] = todo[i + n]
    BY <1>1, <2>2, <2>3
  <2>5. ASSUME NEW i \in DOMAIN todo, i > n
        PROVE  i - n \in DOMAIN Drop(n) /\ Drop(n)[i - n] = todo[i]
    <3>1. i - n \in DOMAIN Drop(n) /\ i - n + n = i
      BY <1>1, <2>3, <2>5
    <3>2. QED
      BY <2>4, <3>1
  <2>6. QED
    BY <2>2, <2>4, <2>5
<1>3. CASE n + 1 > Len(todo)
  <2>1. Drop(n) = <<>>
    BY <1>1, <1>3, SubSeqEmpty DEF Drop
  <2>2. Drop(n) \in Seq(Steps) /\ DOMAIN Drop(n) = {}
    BY <2>1
  <2>3. \A i \in DOMAIN todo : ~(i > n)
    BY <1>1, <1>3
  <2>4. QED
    BY <2>2, <2>3
<1>4. QED
  BY <1>1, <1>2, <1>3

LEMMA Running ==
    ASSUME Typing, NEW step, At(step)
    PROVE  todo # <<>> /\ 1 \in DOMAIN todo /\ todo[1] = step /\ Pending(step)
<1>1. todo # <<>> /\ Head(todo) = step /\ todo \in Seq(Steps)
  BY DEF At, Ready, Typing
<1>2. 1 \in DOMAIN todo /\ todo[1] = step
  BY <1>1
<1>3. QED
  BY <1>1, <1>2 DEF Pending

\* Where the RPCs are that come first in a handler.
LEMMA Places ==
    ASSUME Typing, Control, NEW step \in {"chooserPlans", "chosen", "plans", "save"}
    PROVE  Pending(step) <=> todo # <<>> /\ todo[1] = step
<1>1. todo \in Seq(Steps)
  BY DEF Typing
<1>2. \A i \in DOMAIN todo : todo[i] = step => i = 1
  BY <1>1 DEF Control
<1>3. todo # <<>> => 1 \in DOMAIN todo
  BY <1>1
<1>4. QED
  BY <1>1, <1>2, <1>3 DEF Pending

LEMMA ShownTyped ==
    ASSUME Typing
    PROVE  /\ Shown \in 0..Len(reports) /\ Len(reports) \in Nat
           /\ Shown \in {0} \cup Reports
           /\ visible \in Kinds => Shown = report[visible]
           /\ visible \notin Kinds => Shown = 0
BY DeskAssumption DEF Typing, Shown, Reports

-----------------------------------------------------------------------------
(* What steps have in common.                                              *)

\* Records that stay as they are.
LEMMA RecordsKept ==
    ASSUME IInv, records' = records, hurt \ {0} \subseteq hurt', acted \subseteq acted',
           \A i \in 1..Len(reports) : reports'[i] = reports[i]
    PROVE  OwnRecord' /\ OneRecord' /\ AlertFirst'
<1>1. Typing /\ OwnRecord /\ OneRecord /\ AlertFirst /\ Bounded
  BY DEF IInv
<1>2. ASSUME NEW i \in DOMAIN records
      PROVE  /\ records[i].of \in 1..Len(reports) /\ records[i].of \in Reports
             /\ records[i].by \subseteq Reports /\ 0 \notin Reports
  BY <1>1, RecordTyped DEF Bounded, Reports
<1>3. OwnRecord'
  BY <1>1, <1>2 DEF OwnRecord
<1>4. OneRecord'
  BY <1>1, <1>2 DEF OneRecord
<1>5. AlertFirst'
  BY <1>1, <1>2 DEF AlertFirst
<1>6. QED
  BY <1>3, <1>4, <1>5

LEMMA RecordedKept ==
    ASSUME IInv, records' = records, hurt \ {0} \subseteq hurt',
           \A x \in acted' : x \in acted \/ x.act = "alert"
    PROVE  Recorded'
<1>1. Recorded /\ acted \subseteq [report : Reports, act : {"alert"} \cup Acts]
  BY DEF IInv, Typing
<1>2. \A x \in acted : x.report # 0
  BY <1>1 DEF Reports
<1>3. QED
  BY <1>1, <1>2 DEF Recorded

\* A handler makes its next RPCs and is about to make those after the first n.
LEMMA Quiet ==
    ASSUME IInv, NEW n \in 0..2,
           n # 0 => todo # <<>> /\ todo[1] \notin {"plans", "save"},
           todo' \in Seq(Steps),
           \A i \in DOMAIN todo' : i + n \in DOMAIN todo /\ todo'[i] = todo[i + n],
           n = 0 => todo' = todo,
           hurt \subseteq hurt',
           acted \subseteq acted',
           UNCHANGED <<records, visible, params, fields, report, reports>>
    PROVE  Control' /\ Choice' /\ OnShow' /\ Saves' /\ Alarmed'
<1>1. Typing /\ Control /\ Choice /\ OnShow /\ Saves /\ Alarmed
  BY DEF IInv
<1>2. todo \in Seq(Steps) /\ DOMAIN todo' \subseteq Nat \ {0} /\ DOMAIN todo \subseteq Nat \ {0}
      /\ (todo' # <<>> => 1 \in DOMAIN todo') /\ (todo # <<>> => 1 \in DOMAIN todo)
  BY <1>1 DEF Typing
<1>3. UNCHANGED <<mEventId, mSelectedPlan, typed, listed, saveBtn>>
  BY DEF fields
<1>4. \A step : Pending(step)' => Pending(step)
  BY DEF Pending
<1>5. Pending("plans") => Pending("plans")'
  <2>1. SUFFICES ASSUME Pending("plans"), n # 0 PROVE FALSE
    BY DEF Pending
  <2>2. QED
    BY <1>1, <2>1, Places
<1>6. Control'
  <2>1. \A i \in DOMAIN todo' : i > 1 => i + n > 1
    BY <1>2
  <2>2. QED
    BY <1>1, <1>3, <2>1 DEF Control
<1>7. Shown' = Shown
  BY DEF Shown
<1>8. Choice'
  BY <1>1, <1>3, <1>4, <1>5, <1>7 DEF Choice, Missed
<1>9. OnShow'
  BY <1>1, <1>3, <1>5, <1>7 DEF OnShow, Harmless
<1>10. todo' # <<>> /\ todo'[1] \notin Loading => todo # <<>> /\ todo[1] \notin Loading
  <2>1. SUFFICES ASSUME todo' # <<>>, todo'[1] \notin Loading
                 PROVE  todo # <<>> /\ todo[1] \notin Loading
    OBVIOUS
  <2>2. 1 + n \in DOMAIN todo /\ todo'[1] = todo[1 + n]
    BY <1>2, <2>1
  <2>3. todo # <<>> /\ 1 \in DOMAIN todo
    BY <1>2, <2>2
  <2>4. todo[1] \in Loading => todo[1 + n] \in Loading
    BY <1>1, <2>2, <2>3 DEF Control
  <2>5. QED
    BY <2>1, <2>2, <2>3, <2>4
<1>11. Saves'
  BY <1>1, <1>7, <1>10 DEF Saves
<1>12. Alarmed'
  BY <1>1, <1>3, <1>10 DEF Alarmed, Clear
<1>13. QED
  BY <1>6, <1>8, <1>9, <1>11, <1>12

\* A handler makes an RPC that leaves the report, its plan and the records alone.
LEMMA QuietCall ==
    ASSUME IInv, NEW own, Known(own, Len(records)), NEW a \in Answers(own), Rpc(own, a),
           todo' \in Seq(Steps),
           chooser' \in [plans : SUBSET NormalPlans, events : SUBSET (1..Len(records))],
           acted' \subseteq [report : Reports, act : {"alert"} \cup Acts],
           hurt' = hurt \cup Harm(a),
           acted \subseteq acted',
           UNCHANGED <<records, visible, params, fields, report, reports>>
    PROVE  Typing' /\ Bounded' /\ OwnRecord' /\ OneRecord' /\ AlertFirst'
<1>1. Typing /\ Bounded
  BY DEF IInv
<1>2. own \in Replies /\ Len(records) \in Nat
  BY <1>1, RecordTyped DEF Known
<1>3. /\ Harm(a) \subseteq {Shown}
      /\ late' \subseteq [token : 1..MaxTimeouts, reply : Replies]
      /\ timeouts' \in 0..MaxTimeouts
      /\ \A l \in late' : Known(l.reply, Len(records))
  BY <1>1, <1>2, Called DEF Bounded
<1>4. Shown \in {0} \cup Reports
  BY <1>1, ShownTyped
<1>5. Typing'
  BY <1>1, <1>3, <1>4 DEF Typing, fields
<1>6. Bounded'
  BY <1>1, <1>3 DEF Bounded
<1>7. QED
  BY <1>5, <1>6, RecordsKept

LEMMA Quiescent ==
    ASSUME IInv, UNCHANGED <<records, calls, visible, chooser, params, fields, report, reports,
                             hurt, acted>>,
           todo' \in Seq(Steps)
    PROVE  Typing' /\ Bounded' /\ OwnRecord' /\ OneRecord' /\ AlertFirst' /\ Recorded'
<1>1. Typing /\ Bounded
  BY DEF IInv
<1>2. Typing'
  BY <1>1 DEF Typing, fields, calls
<1>3. Bounded'
  BY <1>1 DEF Bounded, calls
<1>4. QED
  BY <1>2, <1>3, RecordsKept, RecordedKept

LEMMA OfferKept ==
    ASSUME IInv, UNCHANGED <<records, visible>>,
           chooser'.events = chooser.events \/ visible # "chooser",
           visible = "chooser" => (Pending("chooserEvents") => Pending("chooserEvents")'),
           hurt \subseteq hurt'
    PROVE  Offer'
BY DEF IInv, Offer, Missed

-----------------------------------------------------------------------------
(* Calls of the monitor thread, and the handlers' calls that leave the     *)
(* records alone.                                                          *)

LEMMA OtherCallStep == IInv /\ OtherCall => IInv'
<1> SUFFICES ASSUME IInv, OtherCall PROVE IInv'
  OBVIOUS
<1> Typing /\ Len(records) \in Nat
  BY RecordTyped DEF IInv
<1>1. PICK a \in Answers(Other) : Rpc(Other, a)
  BY DEF OtherCall
<1>2. UNCHANGED <<records, visible, todo, chooser, params, fields, report, reports, hurt, acted>>
  BY DEF OtherCall
<1>3. todo \in Seq(Steps) /\ \A i \in DOMAIN todo : i + 0 = i
  BY DEF Typing
<1>4. Control' /\ Choice' /\ OnShow' /\ Saves' /\ Alarmed'
  BY <1>2, <1>3, Quiet
<1>5. OwnRecord' /\ OneRecord' /\ AlertFirst' /\ Recorded'
  BY <1>2, RecordsKept, RecordedKept
<1>6. Typing' /\ Bounded'
  <2>1. Known(Other, Len(records)) /\ Other \in Replies
    BY PlainReplies DEF Known
  <2>2. /\ late' \subseteq [token : 1..MaxTimeouts, reply : Replies]
        /\ timeouts' \in 0..MaxTimeouts
        /\ \A l \in late' : Known(l.reply, Len(records))
    BY <1>1, <2>1, Called DEF IInv, Bounded
  <2>3. QED
    BY <1>2, <2>2 DEF IInv, Typing, Bounded, fields
<1>7. Offer'
  BY <1>2, OfferKept DEF Pending
<1>8. QED
  BY <1>4, <1>5, <1>6, <1>7 DEF IInv

LEMMA ChooserPlansStep == IInv /\ ChooserPlans => IInv'
<1> SUFFICES ASSUME IInv, ChooserPlans PROVE IInv'
  OBVIOUS
<1> Typing /\ Len(records) \in Nat
  BY RecordTyped DEF IInv
<1>1. PICK a \in Answers(PlanList) :
          /\ Rpc(PlanList, a)
          /\ chooser' = [chooser EXCEPT !.plans = PlansIn(a.reply) \cap NormalPlans]
          /\ hurt' = hurt \cup Harm(a)
  BY DEF ChooserPlans
<1>2. /\ todo' = Drop(1)
      /\ UNCHANGED <<records, visible, params, fields, report, reports, acted>>
      /\ todo # <<>> /\ todo[1] = "chooserPlans"
  BY Running DEF ChooserPlans
<1>3. todo' \in Seq(Steps) /\ \A i \in DOMAIN todo' : i + 1 \in DOMAIN todo /\ todo'[i] = todo[i + 1]
  BY <1>2, Dropped
<1>4. /\ chooser' \in [plans : SUBSET NormalPlans, events : SUBSET (1..Len(records))]
      /\ chooser'.events = chooser.events
  BY <1>1 DEF Typing
<1>5. Control' /\ Choice' /\ OnShow' /\ Saves' /\ Alarmed'
  BY <1>1, <1>2, <1>3, Quiet
<1>6. Typing' /\ Bounded' /\ OwnRecord' /\ OneRecord' /\ AlertFirst'
  BY <1>1, <1>2, <1>3, <1>4, PlainReplies, QuietCall DEF Typing
<1>7. Recorded'
  BY <1>1, <1>2, RecordedKept
<1>8. Pending("chooserEvents") => Pending("chooserEvents")'
  <2>1. SUFFICES ASSUME NEW i \in DOMAIN todo, todo[i] = "chooserEvents"
                 PROVE  Pending("chooserEvents")'
    BY DEF Pending
  <2>2. i > 1
    BY <1>2, <2>1 DEF Typing
  <2>3. QED
    BY <1>2, <2>1, <2>2, Dropped DEF Pending
<1>9. Offer'
  BY <1>1, <1>2, <1>4, <1>8, OfferKept
<1>10. QED
  BY <1>5, <1>6, <1>7, <1>9 DEF IInv

LEMMA ChooserEventsStep == IInv /\ ChooserEvents => IInv'
<1> SUFFICES ASSUME IInv, ChooserEvents PROVE IInv'
  OBVIOUS
<1> DEFINE own == EventList(DOMAIN records)
<1> Typing /\ Len(records) \in Nat /\ DOMAIN records = 1..Len(records)
  BY RecordTyped DEF IInv
<1>1. PICK a \in Answers(own) :
          /\ Rpc(own, a)
          /\ chooser' = [chooser EXCEPT !.events =
                 {e \in DOMAIN EventsIn(a.reply) : EventsIn(a.reply)[e] \in chooser.plans}]
          /\ hurt' = hurt \cup Harm(a)
  BY DEF ChooserEvents
<1>2. /\ todo' = Drop(1)
      /\ UNCHANGED <<records, visible, params, fields, report, reports, acted>>
      /\ todo # <<>> /\ todo[1] = "chooserEvents" /\ 1 \in DOMAIN todo
  BY Running DEF ChooserEvents
<1>3. todo' \in Seq(Steps) /\ \A i \in DOMAIN todo' : i + 1 \in DOMAIN todo /\ todo'[i] = todo[i + 1]
  BY <1>2, Dropped
<1>4. /\ Known(own, Len(records)) /\ own \in Replies
      /\ EventsIn(own) = [i \in 1..Len(records) |-> records[i].plan]
  BY EventListTyped DEF Known
<1>5. /\ a.clean => a.reply = own
      /\ ~a.clean => Harm(a) = {Shown}
      /\ Known(a.reply, Len(records))
  BY <1>1, <1>4, Called DEF IInv, Bounded
<1>6. chooser' \in [plans : SUBSET NormalPlans, events : SUBSET (1..Len(records))]
  BY <1>1, <1>5 DEF Typing, Known
<1>7. Control' /\ Choice' /\ OnShow' /\ Saves' /\ Alarmed'
  BY <1>1, <1>2, <1>3, Quiet
<1>8. Typing' /\ Bounded' /\ OwnRecord' /\ OneRecord' /\ AlertFirst'
  BY <1>1, <1>2, <1>3, <1>4, <1>6, QuietCall DEF Typing
<1>9. Recorded'
  BY <1>1, <1>2, RecordedKept
<1>10. Offer'
  <2>1. visible = "chooser" /\ Shown = 0
    BY <1>2, ShownTyped DEF IInv, Control, ChooserSteps, Kinds
  <2>2. SUFFICES ASSUME 0 \notin hurt', NEW e \in chooser'.events
                 PROVE  records[e].plan \in NormalPlans
    BY <1>2 DEF Offer, Missed
  <2>3. a.reply = own
    BY <1>1, <1>5, <2>1, <2>2
  <2>4. e \in 1..Len(records) /\ EventsIn(own)[e] \in chooser.plans
    BY <1>1, <1>4, <2>2, <2>3 DEF Typing
  <2>5. QED
    BY <1>4, <2>4 DEF Typing
<1>11. QED
  BY <1>7, <1>8, <1>9, <1>10 DEF IInv

LEMMA MembersStep == IInv /\ Members => IInv'
<1> SUFFICES ASSUME IInv, Members PROVE IInv'
  OBVIOUS
<1> Typing /\ Len(records) \in Nat
  BY RecordTyped DEF IInv
<1>1. PICK a \in Answers(PhoneBook) : Rpc(PhoneBook, a) /\ hurt' = hurt \cup Harm(a)
  BY DEF Members
<1>2. /\ todo' = Drop(1)
      /\ UNCHANGED <<records, visible, chooser, params, fields, report, reports, acted>>
      /\ todo # <<>> /\ todo[1] = "members" /\ 1 \in DOMAIN todo
  BY Running DEF Members
<1>3. todo' \in Seq(Steps) /\ \A i \in DOMAIN todo' : i + 1 \in DOMAIN todo /\ todo'[i] = todo[i + 1]
  BY <1>2, Dropped
<1>4. Control' /\ Choice' /\ OnShow' /\ Saves' /\ Alarmed'
  BY <1>1, <1>2, <1>3, Quiet
<1>5. Typing' /\ Bounded' /\ OwnRecord' /\ OneRecord' /\ AlertFirst'
  BY <1>1, <1>2, <1>3, PlainReplies, QuietCall DEF Typing
<1>6. Recorded'
  BY <1>1, <1>2, RecordedKept
<1>7. visible # "chooser"
  BY <1>2 DEF IInv, Control, ChooserSteps, Kinds
<1>8. Offer'
  BY <1>1, <1>2, <1>7, OfferKept
<1>9. QED
  BY <1>4, <1>5, <1>6, <1>8 DEF IInv

\* A button's handler goes on, and with it the report on show.
LEMMA Acting ==
    ASSUME IInv, NEW step \in Steps \ Loading, At(step)
    PROVE  /\ todo # <<>> /\ todo[1] = step /\ 1 \in DOMAIN todo
           /\ visible \in Kinds /\ visible # "chooser"
           /\ Shown = report[visible] /\ Shown # 0 /\ Shown \in 1..Len(reports) /\ Shown \in Reports
           /\ mSelectedPlan[visible] # NoPlan
           /\ ~Pending("plans") /\ ~Pending("event") /\ ~Pending("chosen")
           /\ \A i \in DOMAIN todo : todo[i] \notin Loading
<1>1. Typing /\ Control
  BY DEF IInv
<1>2. todo # <<>> /\ todo[1] = step /\ 1 \in DOMAIN todo
  BY <1>1, Running
<1>3. /\ visible \in Kinds /\ visible # "chooser"
      /\ report[visible] # 0 /\ mSelectedPlan[visible] # NoPlan
  BY <1>1, <1>2 DEF Control, Loading, Kinds
<1>4. Shown = report[visible] /\ Shown \in 1..Len(reports) /\ Shown \in Reports
  BY <1>1, <1>3, ShownTyped
<1>5. \A i \in DOMAIN todo : todo[i] \notin Loading
  BY <1>1, <1>2 DEF Control
<1>6. ~Pending("plans") /\ ~Pending("event") /\ ~Pending("chosen")
  BY <1>5 DEF Pending, Loading, ChooserSteps
<1>7. QED
  BY <1>2, <1>3, <1>4, <1>5, <1>6

LEMMA LookUpStep ==
    ASSUME IInv, NEW step \in {"smsBook", "callBook"}, LookUp(step)
    PROVE  IInv'
<1> Typing /\ Len(records) \in Nat
  BY RecordTyped DEF IInv
<1>1. PICK a \in Answers(PhoneBook) :
          /\ Rpc(PhoneBook, a)
          /\ todo' = IF a.reply = PhoneBook THEN Drop(1) ELSE Drop(2)
          /\ hurt' = hurt \cup Harm(a)
  BY DEF LookUp
<1>2. UNCHANGED <<records, visible, chooser, params, fields, report, reports, acted>>
  BY DEF LookUp
<1>3. todo # <<>> /\ todo[1] = step /\ visible # "chooser"
  BY Acting DEF LookUp, Steps, Loading, ChooserSteps
<1>4. PICK n \in {1, 2} : todo' = Drop(n)
  BY <1>1
<1>5. todo' \in Seq(Steps) /\ \A i \in DOMAIN todo' : i + n \in DOMAIN todo /\ todo'[i] = todo[i + n]
  BY <1>4, Dropped
<1>6. Control' /\ Choice' /\ OnShow' /\ Saves' /\ Alarmed'
  BY <1>1, <1>2, <1>3, <1>5, Quiet
<1>7. Typing' /\ Bounded' /\ OwnRecord' /\ OneRecord' /\ AlertFirst'
  BY <1>1, <1>2, <1>5, PlainReplies, QuietCall DEF Typing
<1>8. Recorded'
  BY <1>1, <1>2, RecordedKept
<1>9. Offer'
  BY <1>1, <1>2, <1>3, OfferKept
<1>10. QED
  BY <1>6, <1>7, <1>8, <1>9 DEF IInv

LEMMA ActStep ==
    ASSUME IInv, NEW step \in Acts \cup {"sound"}, NEW act \in Acts, Act(step, act)
    PROVE  IInv'
<1> Typing /\ Len(records) \in Nat
  BY RecordTyped DEF IInv
<1>1. PICK a \in Answers(Other) :
          /\ Rpc(Other, a)
          /\ acted' = IF a.done THEN acted \cup {[report |-> Shown, act |-> act]} ELSE acted
          /\ hurt' = hurt \cup Harm(a)
  BY DEF Act
<1>2. /\ todo' = Drop(1)
      /\ UNCHANGED <<records, visible, chooser, params, fields, report, reports>>
  BY DEF Act
<1>3. todo # <<>> /\ todo[1] = step /\ visible # "chooser" /\ Shown \in Reports
  BY Acting DEF Act, Acts, Steps, Loading, ChooserSteps
<1>4. todo' \in Seq(Steps) /\ \A i \in DOMAIN todo' : i + 1 \in DOMAIN todo /\ todo'[i] = todo[i + 1]
  BY <1>2, Dropped
<1>5. Control' /\ Choice' /\ OnShow' /\ Saves' /\ Alarmed'
  <2>1. step \notin {"plans", "save"}
    BY DEF Acts
  <2>2. QED
    BY <1>1, <1>2, <1>3, <1>4, <2>1, Quiet
<1>6. acted' \subseteq [report : Reports, act : {"alert"} \cup Acts]
  BY <1>1, <1>3 DEF Typing
<1>7. Typing' /\ Bounded' /\ OwnRecord' /\ OneRecord' /\ AlertFirst'
  <2>1. Known(Other, Len(records))
    BY PlainReplies
  <2>2. QED
    BY <1>1, <1>2, <1>4, <1>6, <2>1, QuietCall DEF Typing
<1>8. Recorded'
  <2>1. Shown \in hurt \/ \E i \in DOMAIN records : records[i].of = Shown
    BY <1>3 DEF IInv, Saves, Acts, Loading, ChooserSteps
  <2>2. \A x \in acted' : x \in acted \/ x.report = Shown
    BY <1>1
  <2>3. QED
    BY <1>1, <1>2, <2>1, <2>2 DEF IInv, Recorded
<1>9. Offer'
  BY <1>1, <1>2, <1>3, OfferKept
<1>10. QED
  BY <1>5, <1>7, <1>8, <1>9 DEF IInv

LEMMA DismissStep == IInv /\ Dismiss => IInv'
<1> SUFFICES ASSUME IInv, Dismiss PROVE IInv'
  OBVIOUS
<1> Typing
  BY DEF IInv
<1>1. /\ todo' = Drop(1)
      /\ UNCHANGED <<records, calls, visible, chooser, params, fields, report, reports, hurt, acted>>
  BY DEF Dismiss
<1>2. todo # <<>> /\ todo[1] \in {"sms", "sound"} /\ visible # "chooser"
  BY Acting DEF Dismiss, Acts, Steps, Loading, ChooserSteps
<1>3. todo' \in Seq(Steps) /\ \A i \in DOMAIN todo' : i + 1 \in DOMAIN todo /\ todo'[i] = todo[i + 1]
  BY <1>1, Dropped
<1>4. Control' /\ Choice' /\ OnShow' /\ Saves' /\ Alarmed'
  BY <1>1, <1>2, <1>3, Quiet
<1>5. QED
  BY <1>1, <1>2, <1>3, <1>4, Quiescent, OfferKept DEF IInv

LEMMA HangupAllStep == IInv /\ HangupAll => IInv'
<1> SUFFICES ASSUME IInv, HangupAll PROVE IInv'
  OBVIOUS
<1> Typing
  BY DEF IInv
<1>1. /\ todo' = IF mEventId[visible] = 0 THEN Drop(1) ELSE <<"save", "hangup">> \o Drop(1)
      /\ UNCHANGED <<records, calls, visible, chooser, params, fields, report, reports, hurt, acted>>
  BY DEF HangupAll
<1>2. /\ todo # <<>> /\ todo[1] = "hangupAll" /\ visible # "chooser" /\ 1 \in DOMAIN todo
      /\ Shown = report[visible] /\ Shown # 0 /\ mSelectedPlan[visible] # NoPlan
      /\ visible \in Kinds
      /\ ~Pending("plans") /\ ~Pending("event") /\ ~Pending("chosen")
      /\ \A i \in DOMAIN todo : todo[i] \notin Loading
  BY Acting DEF HangupAll, Acts, Steps, Loading, ChooserSteps
<1>3. /\ Drop(1) \in Seq(Steps)
      /\ \A i \in DOMAIN Drop(1) : i + 1 \in DOMAIN todo /\ Drop(1)[i] = todo[i + 1]
  BY Dropped
<1>4. CASE mEventId[visible] = 0
  <2>1. todo' = Drop(1)
    BY <1>1, <1>4
  <2>2. Control' /\ Choice' /\ OnShow' /\ Saves' /\ Alarmed'
    BY <1>1, <1>2, <1>3, <2>1, Quiet
  <2>3. QED
    BY <1>1, <1>2, <1>3, <2>1, <2>2, Quiescent, OfferKept DEF IInv
<1>5. CASE mEventId[visible] # 0
  <2>1. todo' = <<"save", "hangup">> \o Drop(1)
    BY <1>1, <1>5
  <2>2. /\ todo' \in Seq(Steps) /\ todo' # <<>> /\ todo'[1] = "save" /\ DOMAIN todo' \subseteq Nat \ {0}
        /\ \A i \in DOMAIN todo' : i > 1 => todo'[i] = "hangup" \/ (i - 1 \in DOMAIN todo /\ i - 1 > 1 /\ todo'[i] = todo[i - 1])
    <3>1. <<"save", "hangup">> \in Seq(Steps)
      BY DEF Steps, Acts
    <3>2. /\ todo' \in Seq(Steps) /\ Len(todo') = 2 + Len(Drop(1)) /\ Len(Drop(1)) \in Nat
          /\ todo'[1] = "save" /\ todo'[2] = "hangup"
          /\ \A i \in 3..Len(todo') : i - 2 \in DOMAIN Drop(1) /\ todo'[i] = Drop(1)[i - 2]
      BY <1>3, <2>1, <3>1
    <3>3. \A i \in 3..Len(todo') : i - 2 + 1 \in DOMAIN todo /\ todo'[i] = todo[i - 2 + 1]
      BY <1>3, <3>2
    <3>4. \A i \in 3..Len(todo') : i - 2 + 1 = i - 1 /\ i - 1 > 1
      OBVIOUS
    <3>5. DOMAIN todo' = 1..Len(todo')
      BY <3>2
    <3>6. QED
      BY <3>2, <3>3, <3>4, <3>5
  <2>3. \A i \in DOMAIN todo' : todo'[i] \notin Loading /\ (i > 1 => todo'[i] # "save")
    BY <1>2, <2>2 DEF IInv, Control, Loading, ChooserSteps
  <2>4. fields' = fields /\ mEventId' = mEventId /\ mSelectedPlan' = mSelectedPlan /\ saveBtn' = saveBtn
    BY <1>1 DEF fields
  <2>5. Control'
    BY <1>1, <1>2, <1>5, <2>2, <2>3, <2>4 DEF Control, Loading, ChooserSteps
  <2>6. ~Pending("plans")' /\ ~Pending("event")' /\ ~Pending("chosen")'
    BY <2>3 DEF Pending, Loading, ChooserSteps
  <2>7. Choice'
    BY <2>6 DEF Choice
  <2>8. OnShow'
    BY <1>1, <1>2, <2>4, <2>6 DEF IInv, OnShow, Harmless, Shown
  <2>9. Saves'
    BY <2>2 DEF Saves
  <2>10. Alarmed'
    BY <1>1, <1>2, <2>4 DEF IInv, Alarmed, Clear
  <2>11. Offer'
    BY <1>1, <1>2 DEF Offer
  <2>12. QED
    BY <1>1, <2>2, <2>5, <2>7, <2>8, <2>9, <2>10, <2>11, Quiescent DEF IInv
<1>6. QED
  BY <1>4, <1>5

-----------------------------------------------------------------------------
(* Beginning a report, and going on with one.                              *)

\* A new report has the next number, its plan, no event id and no record.
LEMMA Selected ==
    ASSUME IInv, NEW k \in Kinds, NEW p \in PlansOf(k) \cup {NoPlan},
           Len(reports) < MaxReports, EventPlanSelected(k, p)
    PROVE  /\ mEventId' \in [Kinds -> 0..Len(records)] /\ mEventId'[k] = 0
           /\ report' \in [Kinds -> 0..Len(reports')] /\ report'[k] = Len(reports) + 1
           /\ reports' \in Seq(Plans \cup {NoPlan})
           /\ Len(reports') = Len(reports) + 1 /\ Len(reports') <= MaxReports
           /\ \A i \in 1..Len(reports) : reports'[i] = reports[i]
           /\ reports'[Len(reports) + 1] = p
           /\ saveBtn' \in [Kinds -> BOOLEAN]
           /\ k = "emergency" /\ p # NoPlan => ~saveBtn'[k]
           /\ \A i \in DOMAIN records : records[i].of # Len(reports) + 1
           /\ Len(reports) + 1 \in Reports
           /\ p \in EmergencyPlans => k = "emergency"
<1>1. Typing /\ Bounded /\ p \in Plans \cup {NoPlan} /\ Len(reports) \in Nat /\ MaxReports \in Nat
  BY DeskAssumption, KindsOfPlans, ShownTyped DEF IInv
<1>2. /\ mEventId' = [mEventId EXCEPT ![k] = 0]
      /\ reports' = Append(reports, p)
      /\ report' = [report EXCEPT ![k] = Len(reports) + 1]
  BY DEF EventPlanSelected
<1>3. /\ reports' \in Seq(Plans \cup {NoPlan})
      /\ Len(reports') = Len(reports) + 1 /\ Len(reports') <= MaxReports
      /\ \A i \in 1..Len(reports) : reports'[i] = reports[i]
      /\ reports'[Len(reports) + 1] = p
  BY <1>1, <1>2 DEF Typing
<1>4. mEventId' \in [Kinds -> 0..Len(records)] /\ mEventId'[k] = 0
  <2>1. 0 \in 0..Len(records)
    BY <1>1, RecordTyped
  <2>2. QED
    BY <1>1, <1>2, <2>1 DEF Typing
<1>5. report' \in [Kinds -> 0..Len(reports')] /\ report'[k] = Len(reports) + 1
  BY <1>1, <1>2, <1>3 DEF Typing
<1>6. saveBtn' \in [Kinds -> BOOLEAN] /\ (k = "emergency" /\ p # NoPlan => ~saveBtn'[k])
  <2>1. PICK type \in TypesOf(k, p) :
            saveBtn' = IF type = "emergency" THEN [saveBtn EXCEPT ![k] = FALSE] ELSE saveBtn
    BY DEF EventPlanSelected
  <2>2. k = "emergency" /\ p # NoPlan => type = "emergency"
    BY DEF TypesOf
  <2>3. QED
    BY <1>1, <2>1, <2>2 DEF Typing
<1>7. \A i \in DOMAIN records : records[i].of # Len(reports) + 1
  BY <1>1 DEF Bounded
<1>8. Len(reports) + 1 \in Reports
  BY <1>1 DEF Reports
<1>9. p \in EmergencyPlans => k = "emergency"
  BY KindsOfPlans DEF Kinds, Plans
<1>10. QED
  BY <1>3, <1>4, <1>5, <1>6, <1>7, <1>8, <1>9

\* What the plans that are loaded do to the plan zone on show.
LEMMA PlansLoaded ==
    ASSUME Typing, visible \in Kinds, NEW r,
           NEW plans, plans = Listed(r),
           NEW p, p = IF params.planid \in plans THEN params.planid ELSE NoPlan,
           listed' = [listed EXCEPT ![visible] = plans],
           mSelectedPlan' = [mSelectedPlan EXCEPT ![visible] = p],
           typed' = [typed EXCEPT ![visible] = @ \/ p # NoPlan]
    PROVE  /\ p \in PlansOf(visible) \cup {NoPlan}
           /\ mSelectedPlan' \in [Kinds -> Plans \cup {NoPlan}] /\ mSelectedPlan'[visible] = p
           /\ \A k \in Kinds : mSelectedPlan'[k] \in PlansOf(k) \cup {NoPlan}
           /\ listed' \in [Kinds -> SUBSET Plans]
           /\ \A k \in Kinds : listed'[k] \subseteq PlansOf(k)
           /\ typed' \in [Kinds -> BOOLEAN]
<1>1. plans \subseteq PlansOf(visible) /\ plans \subseteq Plans
  BY KindsOfPlans DEF Listed, PlansIn
<1>2. p \in PlansOf(visible) \cup {NoPlan} /\ p \in Plans \cup {NoPlan}
  BY <1>1
<1>3. /\ mSelectedPlan' \in [Kinds -> Plans \cup {NoPlan}] /\ mSelectedPlan'[visible] = p
      /\ \A k \in Kinds : mSelectedPlan'[k] \in PlansOf(k) \cup {NoPlan}
  BY <1>2 DEF Typing
<1>4. listed' \in [Kinds -> SUBSET Plans] /\ \A k \in Kinds : listed'[k] \subseteq PlansOf(k)
  BY <1>1 DEF Typing
<1>5. typed' \in [Kinds -> BOOLEAN]
  <2>1. (typed[visible] \/ p # NoPlan) \in BOOLEAN
    OBVIOUS
  <2>2. QED
    BY <2>1 DEF Typing
<1>6. QED
  BY <1>2, <1>3, <1>4, <1>5

\* A handler of onResume makes its next RPC: nothing but such RPCs come after it.
LEMMA Resuming ==
    ASSUME IInv, NEW step \in {"plans", "event"}, At(step), todo' = Drop(1)
    PROVE  /\ todo # <<>> /\ todo[1] = step /\ 1 \in DOMAIN todo
           /\ visible \in Kinds /\ visible # "chooser" /\ Shown = report[visible]
           /\ todo' \in Seq(Steps) /\ (todo' # <<>> => 1 \in DOMAIN todo')
           /\ \A i \in DOMAIN todo' : /\ todo'[i] \in {"members", "event"}
                                      /\ i + 1 \in DOMAIN todo /\ todo'[i] = todo[i + 1]
           /\ ~Pending("plans")' /\ ~Pending("chosen")'
           /\ Pending("event")' => Pending("event")
<1>1. Typing /\ Control
  BY DEF IInv
<1>2. todo # <<>> /\ todo[1] = step /\ 1 \in DOMAIN todo
  BY <1>1, Running
<1>3. visible \in Kinds /\ visible # "chooser"
  BY <1>1, <1>2 DEF Control, ChooserSteps, Kinds
<1>4. /\ todo' \in Seq(Steps) /\ (todo' # <<>> => 1 \in DOMAIN todo')
      /\ \A i \in DOMAIN todo' : i + 1 \in DOMAIN todo /\ todo'[i] = todo[i + 1]
  BY <1>1, Dropped
<1>5. ASSUME NEW i \in DOMAIN todo, i > 1 PROVE todo[i] \in {"members", "event"}
  <2>1. todo[i] \in Loading
    BY <1>1, <1>2 DEF Control, Loading
  <2>2. QED
    BY <1>1, <1>3, <1>5, <2>1 DEF Control, Loading, ChooserSteps
<1>6. \A i \in DOMAIN todo' : i + 1 > 1
  BY <1>4
<1>7. \A i \in DOMAIN todo' : todo'[i] \in {"members", "event"}
  BY <1>4, <1>5, <1>6
<1>8. ~Pending("plans")' /\ ~Pending("chosen")' /\ (Pending("event")' => Pending("event"))
  BY <1>4, <1>7 DEF Pending
<1>9. QED
  BY <1>1, <1>2, <1>3, <1>4, <1>7, <1>8, ShownTyped

LEMMA LoadPlansStep == IInv /\ LoadPlans => IInv'
<1> SUFFICES ASSUME IInv, LoadPlans PROVE IInv'
  OBVIOUS
<1> Typing /\ Len(records) \in Nat
  BY RecordTyped DEF IInv
<1>1. /\ todo' = Drop(1) /\ At("plans")
      /\ UNCHANGED <<records, visible, chooser, params, acted>>
  BY DEF LoadPlans
<1>2. /\ todo # <<>> /\ todo[1] = "plans" /\ 1 \in DOMAIN todo
      /\ visible \in Kinds /\ visible # "chooser" /\ Shown = report[visible]
      /\ todo' \in Seq(Steps) /\ (todo' # <<>> => 1 \in DOMAIN todo')
      /\ \A i \in DOMAIN todo' : /\ todo'[i] \in {"members", "event"}
                                 /\ i + 1 \in DOMAIN todo /\ todo'[i] = todo[i + 1]
      /\ ~Pending("plans")' /\ ~Pending("chosen")'
      /\ Pending("event")' => Pending("event")
  BY <1>1, Resuming
<1>3. /\ report[visible] = 0 /\ mEventId[visible] = 0 /\ Shown = 0
      /\ params.planid = NoPlan \/ Len(reports) < MaxReports
      /\ visible = "emergency" => params.planid = NoPlan
      /\ Pending("plans")
  BY <1>2 DEF IInv, Control, Pending
<1>4. PICK a \in Answers(PlanList) :
          /\ Rpc(PlanList, a)
          /\ LET plans == Listed(a.reply)
                 p == IF params.planid \in plans THEN params.planid ELSE NoPlan
                 harmed == hurt \cup Harm(a)
             IN  /\ listed' = [listed EXCEPT ![visible] = plans]
                 /\ mSelectedPlan' = [mSelectedPlan EXCEPT ![visible] = p]
                 /\ typed' = [typed EXCEPT ![visible] = @ \/ p # NoPlan]
                 /\ IF params.planid = NoPlan
                    THEN hurt' = harmed /\ UNCHANGED <<mEventId, reports, report, saveBtn>>
                    ELSE /\ EventPlanSelected(visible, p)
                         /\ hurt' = harmed \cup Inherited(harmed)
  BY DEF LoadPlans
<1> DEFINE plans == Listed(a.reply)
           p == IF params.planid \in plans THEN params.planid ELSE NoPlan
           harmed == hurt \cup Harm(a)
<1>5. /\ p \in PlansOf(visible) \cup {NoPlan}
      /\ mSelectedPlan' \in [Kinds -> Plans \cup {NoPlan}] /\ mSelectedPlan'[visible] = p
      /\ \A k \in Kinds : mSelectedPlan'[k] \in PlansOf(k) \cup {NoPlan}
      /\ listed' \in [Kinds -> SUBSET Plans]
      /\ \A k \in Kinds : listed'[k] \subseteq PlansOf(k)
      /\ typed' \in [Kinds -> BOOLEAN]
  BY <1>2, <1>4, PlansLoaded
<1>6. /\ a.clean => a.reply = PlanList
      /\ harmed \subseteq {0} \cup Reports /\ hurt \subseteq harmed
      /\ ~a.clean => 0 \in harmed
      /\ late' \subseteq [token : 1..MaxTimeouts, reply : Replies]
      /\ timeouts' \in 0..MaxTimeouts
      /\ \A l \in late' : Known(l.reply, Len(records))
      /\ a.clean \in BOOLEAN
  <2>1. Known(PlanList, Len(records)) /\ PlanList \in Replies
    BY PlainReplies DEF Known
  <2>2. /\ a.clean => a.reply = PlanList /\ Harm(a) = {}
        /\ ~a.clean => Harm(a) = {Shown}
        /\ a.clean \in BOOLEAN
        /\ late' \subseteq [token : 1..MaxTimeouts, reply : Replies]
        /\ timeouts' \in 0..MaxTimeouts
        /\ \A l \in late' : Known(l.reply, Len(records))
    BY <1>4, <2>1, Called DEF IInv, Bounded
  <2>3. QED
    BY <1>3, <2>2 DEF Typing
<1>7. a.reply = PlanList /\ params.planid \in NormalPlans /\ visible = "normal" => p = params.planid
  BY KindsOfPlans DEF Listed, PlansIn, PlanList, Plans
<1> HIDE DEF p, plans, harmed
<1>8. CASE params.planid = NoPlan
  <2>1. hurt' = harmed /\ UNCHANGED <<mEventId, reports, report, saveBtn>>
    BY <1>4, <1>8 DEF harmed
  <2>2. p = NoPlan
    BY <1>8 DEF p
  <2>3. Typing'
    BY <1>1, <1>2, <1>5, <1>6, <2>1 DEF Typing
  <2>4. Bounded'
    BY <1>1, <1>6, <2>1 DEF IInv, Bounded
  <2>5. Control'
    BY <1>1, <1>2, <2>1 DEF IInv, Control, Loading, ChooserSteps
  <2>6. Choice'
    <3>1. Shown' = 0
      BY <1>1, <1>3, <2>1 DEF Shown
    <3>2. Pending("event") => Missed
      BY <1>3, <1>8, KindsOfPlans DEF IInv, Choice, Plans
    <3>3. Pending("event")' => 0 \in hurt'
      BY <1>2, <1>6, <2>1, <3>2 DEF Missed
    <3>4. QED
      BY <1>2, <3>1, <3>3 DEF Choice
  <2>7. OnShow'
    BY <1>1, <1>2, <1>3, <1>5, <2>1, <2>2 DEF OnShow, Shown, Harmless
  <2>8. Alarmed'
    BY <1>1, <1>2, <1>3, <2>1 DEF Alarmed, Clear
  <2>9. OwnRecord' /\ OneRecord' /\ AlertFirst' /\ Recorded'
    BY <1>1, <1>6, <2>1, RecordsKept, RecordedKept
  <2>10. Saves' /\ Offer'
    BY <1>1, <1>2 DEF Saves, Offer, Loading
  <2>11. QED
    BY <2>3, <2>4, <2>5, <2>6, <2>7, <2>8, <2>9, <2>10 DEF IInv
<1>9. CASE params.planid # NoPlan
  <2>1. EventPlanSelected(visible, p) /\ hurt' = harmed \cup Inherited(harmed)
    BY <1>4, <1>9 DEF p, plans, harmed
  <2>2. /\ mEventId' \in [Kinds -> 0..Len(records)] /\ mEventId'[visible] = 0
        /\ report' \in [Kinds -> 0..Len(reports')] /\ report'[visible] = Len(reports) + 1
        /\ reports' \in Seq(Plans \cup {NoPlan})
        /\ Len(reports') = Len(reports) + 1 /\ Len(reports') <= MaxReports
        /\ \A i \in 1..Len(reports) : reports'[i] = reports[i]
        /\ reports'[Len(reports) + 1] = p
        /\ saveBtn' \in [Kinds -> BOOLEAN]
        /\ \A i \in DOMAIN records : records[i].of # Len(reports) + 1
        /\ Len(reports) + 1 \in Reports
        /\ p \in EmergencyPlans => visible = "emergency"
    BY <1>2, <1>3, <1>5, <1>9, <2>1, Selected
  <2>3. /\ hurt \subseteq hurt' /\ hurt' \subseteq {0} \cup Reports
        /\ 0 \in harmed => Len(reports) + 1 \in hurt'
        /\ visible = "normal" /\ Len(reports) \in Nat
    BY <1>2, <1>3, <1>6, <1>9, <2>1, <2>2, ShownTyped DEF Inherited, Kinds
  <2>4. Shown' = Len(reports) + 1 /\ Len(reports) + 1 # 0
    BY <1>1, <1>2, <2>2, <2>3 DEF Shown
  <2>5. Typing'
    BY <1>1, <1>2, <1>5, <1>6, <2>2, <2>3 DEF Typing
  <2>6. Bounded'
    BY <1>1, <1>6, <2>2, <2>3 DEF IInv, Bounded
  <2>7. Control'
    BY <1>1, <1>2, <2>2 DEF IInv, Control, Loading, ChooserSteps
  <2>8. Choice'
    <3>1. SUFFICES ASSUME Pending("event"), Len(reports) + 1 \notin hurt'
                   PROVE  p = records[params.eventid].plan
      BY <1>1, <1>2, <1>5, <2>4 DEF Choice
    <3>2. 0 \notin harmed /\ a.reply = PlanList
      BY <1>6, <2>3, <3>1
    <3>3. params.planid \in NormalPlans /\ params.planid = records[params.eventid].plan
      BY <1>3, <1>6, <3>1, <3>2 DEF IInv, Choice, Missed
    <3>4. QED
      BY <1>7, <2>3, <3>2, <3>3
  <2>9. OnShow'
    BY <1>1, <1>2, <1>5, <2>2, <2>4 DEF OnShow, Harmless
  <2>10. Alarmed'
    BY <1>1, <2>2, <2>3 DEF Alarmed, Clear
  <2>11. OwnRecord' /\ OneRecord' /\ AlertFirst' /\ Recorded'
    BY <1>1, <2>2, <2>3, RecordsKept, RecordedKept
  <2>12. Saves' /\ Offer'
    BY <1>1, <1>2 DEF Saves, Offer, Loading
  <2>13. QED
    BY <2>5, <2>6, <2>7, <2>8, <2>9, <2>10, <2>11, <2>12 DEF IInv
<1>10. QED
  BY <1>8, <1>9

LEMMA LoadEventStep == IInv /\ LoadEvent => IInv'
<1> SUFFICES ASSUME IInv, LoadEvent PROVE IInv'
  OBVIOUS
<1> DEFINE own == EventList({params.eventid})
<1> Typing /\ Len(records) \in Nat /\ DOMAIN records = 1..Len(records)
  BY RecordTyped DEF IInv
<1>1. /\ todo' = Drop(1) /\ At("event")
      /\ UNCHANGED <<records, visible, chooser, params, mSelectedPlan, typed, listed, saveBtn,
                     reports, acted>>
  BY DEF LoadEvent
<1>2. /\ todo # <<>> /\ todo[1] = "event" /\ 1 \in DOMAIN todo
      /\ visible \in Kinds /\ visible # "chooser" /\ Shown = report[visible]
      /\ todo' \in Seq(Steps) /\ (todo' # <<>> => 1 \in DOMAIN todo')
      /\ \A i \in DOMAIN todo' : /\ todo'[i] \in {"members", "event"}
                                 /\ i + 1 \in DOMAIN todo /\ todo'[i] = todo[i + 1]
      /\ ~Pending("plans")' /\ ~Pending("chosen")'
      /\ Pending("event")' => Pending("event")
  BY <1>1, Resuming
<1>3. visible = "normal" /\ params.eventid # 0 /\ Pending("event") /\ ~Pending("plans")
  BY <1>2, Places DEF IInv, Control, Pending
<1>4. params.eventid \in 1..Len(records)
  BY <1>3 DEF Typing
<1>5. PICK a \in Answers(own) :
          /\ Rpc(own, a)
          /\ LET harmed == hurt \cup Harm(a) IN
             \/ /\ EventsIn(a.reply) = EventsIn(Other)
                /\ hurt' = harmed
                /\ UNCHANGED <<mEventId, report>>
             \/ \E e \in DOMAIN EventsIn(a.reply) :
                   /\ mEventId' = [mEventId EXCEPT ![visible] = e]
                   /\ report' = [report EXCEPT ![visible] = records[e].of]
                   /\ hurt' = IF Shown \in harmed THEN harmed \cup {records[e].of} ELSE harmed
  BY DEF LoadEvent
<1>6. Known(own, Len(records)) /\ own \in Replies /\ DOMAIN EventsIn(own) = {params.eventid}
  BY <1>4, EventListTyped DEF Known
<1>7. /\ a.clean => a.reply = own /\ Harm(a) = {}
      /\ ~a.clean => Harm(a) = {Shown}
      /\ Known(a.reply, Len(records))
      /\ late' \subseteq [token : 1..MaxTimeouts, reply : Replies]
      /\ timeouts' \in 0..MaxTimeouts
      /\ \A l \in late' : Known(l.reply, Len(records))
  BY <1>5, <1>6, Called DEF IInv, Bounded
<1> HIDE DEF own
<1>8. CASE hurt' = hurt \cup Harm(a) /\ UNCHANGED <<mEventId, report>>
  <2>1. fields' = fields /\ hurt \subseteq hurt' /\ acted \subseteq acted'
    BY <1>1, <1>8 DEF fields
  <2>2. \A i \in DOMAIN todo' : i + 1 \in DOMAIN todo /\ todo'[i] = todo[i + 1]
    BY <1>2
  <2>3. Control' /\ Choice' /\ OnShow' /\ Saves' /\ Alarmed'
    BY <1>1, <1>2, <1>8, <2>1, <2>2, Quiet
  <2>4. Typing' /\ Bounded' /\ OwnRecord' /\ OneRecord' /\ AlertFirst'
    BY <1>1, <1>2, <1>5, <1>6, <1>8, <2>1, QuietCall DEF Typing
  <2>5. Recorded' /\ Offer'
    BY <1>1, <1>2, <2>1, RecordedKept, OfferKept
  <2>6. QED
    BY <2>3, <2>4, <2>5 DEF IInv
<1>9. CASE \E e \in DOMAIN EventsIn(a.reply) :
          /\ mEventId' = [mEventId EXCEPT ![visible] = e]
          /\ report' = [report EXCEPT ![visible] = records[e].of]
          /\ hurt' = IF Shown \in hurt \cup Harm(a) THEN hurt \cup Harm(a) \cup {records[e].of}
                     ELSE hurt \cup Harm(a)
  <2>1. PICK e \in DOMAIN EventsIn(a.reply) :
          /\ mEventId' = [mEventId EXCEPT ![visible] = e]
          /\ report' = [report EXCEPT ![visible] = records[e].of]
          /\ hurt' = IF Shown \in hurt \cup Harm(a) THEN hurt \cup Harm(a) \cup {records[e].of}
                     ELSE hurt \cup Harm(a)
    BY <1>9
  <2>2. e \in 1..Len(records) /\ e # 0
    BY <1>7, <2>1 DEF Known
  <2>3. /\ records[e].of \in 1..Len(reports) /\ records[e].of \in Reports
        /\ records[e].of # 0
    BY <2>2, RecordTyped DEF IInv, Bounded, Reports
  <2>4. /\ mEventId' \in [Kinds -> 0..Len(records)] /\ mEventId'[visible] = e
        /\ report' \in [Kinds -> 0..Len(reports)] /\ report'[visible] = records[e].of
    <3>1. e \in 0..Len(records) /\ records[e].of \in 0..Len(reports)
      BY <2>2, <2>3
    <3>2. QED
      BY <1>2, <2>1, <3>1 DEF Typing
  <2>5. Shown' = records[e].of
    BY <1>1, <1>2, <2>4 DEF Shown
  <2>6. hurt \subseteq hurt' /\ hurt' \subseteq {0} \cup Reports
    BY <1>7, <2>1, <2>3, ShownTyped DEF Typing
  <2>7. records[e].of \notin hurt' => a.clean /\ Shown \notin hurt /\ hurt' = hurt
    BY <1>7, <2>1
  <2>8. Typing'
    BY <1>1, <1>2, <1>7, <2>4, <2>6 DEF Typing
  <2>9. Bounded'
    BY <1>1, <1>7 DEF IInv, Bounded
  <2>10. Control'
    BY <1>1, <1>2, <1>3 DEF IInv, Control, Loading, ChooserSteps
  <2>11. Choice'
    BY <1>1, <1>2, <1>3, <2>3, <2>5, <2>7 DEF IInv, Choice
  <2>12. OnShow'
    <3>1. ASSUME records[e].of \notin hurt'
          PROVE  mSelectedPlan[visible] = reports[records[e].of] \/ records[e].by \cap hurt' # {}
      <4>1. e = params.eventid
        BY <1>6, <1>7, <2>1, <2>7, <3>1
      <4>2. mSelectedPlan[visible] = records[e].plan
        BY <1>3, <2>7, <3>1, <4>1 DEF IInv, Choice
      <4>3. QED
        BY <2>2, <2>7, <3>1, <4>2 DEF IInv, OwnRecord
    <3>2. QED
      BY <1>1, <1>2, <2>2, <2>3, <2>4, <2>5, <3>1 DEF OnShow, Harmless
  <2>13. Alarmed'
    BY <1>1, <1>3, <2>2, <2>4 DEF IInv, Alarmed, Clear, AlertFirst
  <2>14. OwnRecord' /\ OneRecord' /\ AlertFirst' /\ Recorded'
    BY <1>1, <2>6, RecordsKept, RecordedKept
  <2>15. Saves' /\ Offer'
    BY <1>1, <1>2 DEF Saves, Offer, Loading
  <2>16. QED
    BY <2>8, <2>9, <2>10, <2>11, <2>12, <2>13, <2>14, <2>15 DEF IInv
<1>10. QED
  BY <1>5, <1>8, <1>9

-----------------------------------------------------------------------------
(* Saving.                                                                 *)

LEMMA Wrote ==
    ASSUME IInv, At("save"), NEW recs, recs = Written
    PROVE  /\ recs \in Seq([plan : Plans, of : Reports, by : SUBSET Reports])
           /\ Len(records) <= Len(recs) /\ Len(recs) <= MaxRecords /\ Len(recs) \in Nat
           /\ Target \in 1..Len(recs) /\ Target \in Ids
           /\ \A i \in 1..Len(recs) : i # Target => i \in 1..Len(records) /\ recs[i] = records[i]
           /\ recs[Target].plan = mSelectedPlan[visible]
           /\ mEventId[visible] = 0 =>
                 /\ recs[Target].of = Shown /\ recs[Target].by = {Shown}
                 /\ Target \notin 1..Len(records)
           /\ mEventId[visible] # 0 =>
                 /\ Target = mEventId[visible] /\ Target \in 1..Len(records)
                 /\ recs[Target].of = records[Target].of
                 /\ recs[Target].by = records[Target].by \cup {Shown}
<1> DEFINE Record == [plan : Plans, of : Reports, by : SUBSET Reports]
           plan == mSelectedPlan[visible]
<1>1. Typing /\ Control
  BY DEF IInv
<1>2. /\ todo[1] = "save" /\ 1 \in DOMAIN todo /\ visible \in Kinds /\ plan # NoPlan
      /\ Shown \in Reports
  BY Acting DEF Steps, Loading, ChooserSteps
<1>3. records \in Seq(Record) /\ Len(records) \in Nat /\ plan \in Plans /\ MaxRecords \in Nat
      /\ Len(records) <= MaxRecords
  BY <1>1, <1>2, DeskAssumption, RecordTyped DEF Typing
<1>4. mEventId[visible] # 0 \/ Len(records) < MaxRecords
  BY <1>1, <1>2 DEF Control
<1>5. CASE mEventId[visible] = 0
  <2> DEFINE new == [plan |-> plan, of |-> Shown, by |-> {Shown}]
  <2>1. recs = Append(records, new) /\ Target = Len(records) + 1
    BY <1>5 DEF Written, Target
  <2>2. new \in Record /\ new.plan = plan /\ new.of = Shown /\ new.by = {Shown}
    BY <1>2, <1>3
  <2> HIDE DEF new, Record
  <2>3. /\ recs \in Seq(Record) /\ Len(recs) = Len(records) + 1
        /\ \A i \in 1..Len(records) : recs[i] = records[i]
        /\ recs[Len(records) + 1] = new
    BY <1>3, <2>1, <2>2
  <2>4. QED
    BY <1>3, <1>4, <1>5, <2>1, <2>2, <2>3 DEF Ids, Record
<1>6. CASE mEventId[visible] # 0
  <2>1. mEventId[visible] \in 1..Len(records) /\ Target = mEventId[visible]
    BY <1>1, <1>2, <1>6 DEF Typing, Target
  <2> DEFINE old == records[Target]
             new == [plan |-> plan, of |-> old.of, by |-> old.by \cup {Shown}]
  <2>2. old \in Record
    BY <1>3, <2>1, Element
  <2>3. recs = [records EXCEPT ![Target].plan = plan, ![Target].by = @ \cup {Shown}]
    BY <1>6 DEF Written
  <2>4. DOMAIN records = 1..Len(records)
    BY <1>3
  <2>5. recs = [records EXCEPT ![Target] = new]
    BY <2>1, <2>2, <2>3, <2>4
  <2>6. new \in Record /\ new.plan = plan /\ new.of = old.of /\ new.by = old.by \cup {Shown}
    BY <1>2, <1>3, <2>2
  <2> HIDE DEF new, Record
  <2>7. /\ recs \in Seq(Record) /\ Len(recs) = Len(records)
        /\ \A i \in 1..Len(records) : i # Target => recs[i] = records[i]
        /\ recs[Target] = new
    BY <1>3, <2>1, <2>5, <2>6
  <2>8. QED
    BY <1>3, <1>6, <2>1, <2>6, <2>7 DEF Ids, Record
<1>7. QED
  BY <1>5, <1>6

LEMMA SaveEventStep == IInv /\ SaveEvent => IInv'
<1> SUFFICES ASSUME IInv, SaveEvent PROVE IInv'
  OBVIOUS
<1> Typing /\ Len(records) \in Nat /\ DOMAIN records = 1..Len(records)
  BY RecordTyped DEF IInv
<1>1. /\ todo' = Drop(1) /\ At("save")
      /\ saveBtn' = IF visible = "emergency" THEN [saveBtn EXCEPT ![visible] = TRUE] ELSE saveBtn
      /\ UNCHANGED <<visible, chooser, params, mSelectedPlan, typed, listed, report, reports, acted>>
  BY DEF SaveEvent
<1>2. /\ todo # <<>> /\ todo[1] = "save" /\ 1 \in DOMAIN todo
      /\ visible \in Kinds /\ visible # "chooser"
      /\ Shown = report[visible] /\ Shown # 0 /\ Shown \in 1..Len(reports) /\ Shown \in Reports
      /\ mSelectedPlan[visible] # NoPlan
      /\ ~Pending("plans") /\ ~Pending("event") /\ ~Pending("chosen")
      /\ \A i \in DOMAIN todo : todo[i] \notin Loading
  BY <1>1, Acting DEF Steps, Loading, ChooserSteps
<1>3. PICK a \in Answers(Saved(Target)) :
          /\ Rpc(Saved(Target), a)
          /\ records' = IF a.done THEN Written ELSE records
          /\ mEventId' = [mEventId EXCEPT ![visible] = IdIn(a.reply)]
          /\ hurt' = hurt \cup Harm(a)
  BY DEF SaveEvent
<1>4. /\ todo' \in Seq(Steps) /\ (todo' # <<>> => 1 \in DOMAIN todo') /\ DOMAIN todo' \subseteq Nat \ {0}
      /\ \A i \in DOMAIN todo' : i + 1 \in DOMAIN todo /\ todo'[i] = todo[i + 1] /\ i + 1 > 1
  BY <1>1, Dropped
<1>5. \A i \in DOMAIN todo' : todo'[i] \notin Loading /\ todo'[i] # "save"
  BY <1>2, <1>4 DEF IInv, Control
<1>6. ~Pending("plans")' /\ ~Pending("event")' /\ ~Pending("chosen")'
  BY <1>5 DEF Pending, Loading, ChooserSteps
<1>7. Shown' = Shown
  BY <1>1 DEF Shown
<1>8. /\ records' \in Seq([plan : Plans, of : Reports, by : SUBSET Reports])
      /\ Len(records) <= Len(records') /\ Len(records') <= MaxRecords /\ Len(records') \in Nat
      /\ a.done => Target \in 1..Len(records')
      /\ Target \in Ids /\ Target # 0
      /\ ~a.done => records' = records
      /\ DOMAIN records' = 1..Len(records')
  <2>1. Target \in Ids /\ Target # 0
    BY <1>1, Wrote DEF Ids
  <2>2. CASE a.done
    <3>1. records' = Written
      BY <1>3, <2>2
    <3>2. /\ records' \in Seq([plan : Plans, of : Reports, by : SUBSET Reports])
          /\ Len(records) <= Len(records') /\ Len(records') <= MaxRecords /\ Len(records') \in Nat
          /\ Target \in 1..Len(records')
      BY <1>1, <3>1, Wrote
    <3>3. DOMAIN records' = 1..Len(records')
      BY <3>2
    <3>4. QED
      BY <2>1, <2>2, <3>2, <3>3
  <2>3. CASE ~a.done
    <3>1. records' = records
      BY <1>3, <2>3
    <3>2. Len(records) <= Len(records)
      OBVIOUS
    <3>3. QED
      BY <2>1, <2>3, <3>1, <3>2 DEF Typing
  <2>4. QED
    BY <2>2, <2>3
<1>9. /\ Saved(Target) \in Replies
      /\ a.done => Known(Saved(Target), Len(records'))
      /\ IdIn(Saved(Target)) = Target
  <2>1. Saved(Target) \in Replies /\ IdIn(Saved(Target)) = Target
    BY <1>8, SavedTyped DEF Ids, Known
  <2>2. QED
    BY <1>8, <2>1, SavedTyped
<1>10. /\ a.clean => a.reply = Saved(Target) /\ a.done /\ Harm(a) = {}
       /\ ~a.clean => Harm(a) = {Shown}
       /\ a.done \in BOOLEAN /\ a.clean \in BOOLEAN
       /\ Known(a.reply, Len(records'))
       /\ late' \subseteq [token : 1..MaxTimeouts, reply : Replies]
       /\ timeouts' \in 0..MaxTimeouts
       /\ \A l \in late' : Known(l.reply, Len(records'))
  <2>1. \A l \in late : Known(l.reply, Len(records'))
    BY <1>8, KnownGrows DEF IInv, Bounded
  <2>2. QED
    BY <1>3, <1>8, <1>9, <2>1, Called
<1>11. /\ mEventId' \in [Kinds -> 0..Len(records')]
       /\ mEventId'[visible] = IdIn(a.reply)
  BY <1>2, <1>3, <1>8, <1>10 DEF Typing, Known
<1>12. /\ saveBtn' \in [Kinds -> BOOLEAN]
       /\ visible = "normal" => saveBtn' = saveBtn
  BY <1>1, <1>2 DEF Typing
<1>13. hurt \subseteq hurt' /\ hurt' \subseteq {0} \cup Reports
  BY <1>2, <1>3, <1>10 DEF Typing
<1>14. Typing'
  <2>1. /\ chooser' \in [plans : SUBSET NormalPlans, events : SUBSET (1..Len(records'))]
        /\ params' \in [planid : Plans \cup {NoPlan}, eventid : 0..Len(records')]
    <3>1. 1..Len(records) \subseteq 1..Len(records') /\ 0..Len(records) \subseteq 0..Len(records')
      BY <1>8
    <3>2. /\ chooser \in [plans : SUBSET NormalPlans, events : SUBSET (1..Len(records))]
          /\ params \in [planid : Plans \cup {NoPlan}, eventid : 0..Len(records)]
      BY DEF Typing
    <3>3. QED
      BY <1>1, <3>1, <3>2
  <2>2. QED
    BY <1>1, <1>4, <1>8, <1>10, <1>11, <1>12, <1>13, <2>1 DEF Typing
<1>15. Control'
  BY <1>1, <1>2, <1>4, <1>5 DEF IInv, Control, Loading, ChooserSteps
<1>16. Choice' /\ Offer'
  BY <1>1, <1>2, <1>6 DEF Choice, Offer
<1>17. Clear(visible)
  BY <1>2 DEF IInv, Alarmed, Kinds
<1>18. Alarmed'
  BY <1>1, <1>17 DEF Alarmed, Clear
<1>19. ~a.clean => Shown \in hurt'
  BY <1>3, <1>10
<1>20. a.clean => hurt' = hurt /\ mEventId'[visible] = Target /\ a.done /\ records' = Written
  BY <1>3, <1>9, <1>10, <1>11
<1>21. CASE ~a.done
  <2>1. records' = records /\ Shown \in hurt'
    BY <1>8, <1>10, <1>19, <1>21
  <2>2. Bounded'
    BY <1>1, <1>10, <2>1 DEF IInv, Bounded
  <2>3. OnShow'
    BY <1>1, <1>2, <1>7, <2>1 DEF OnShow, Harmless
  <2>4. Saves'
    BY <1>7, <2>1 DEF Saves
  <2>5. OwnRecord' /\ OneRecord' /\ AlertFirst' /\ Recorded'
    BY <1>1, <1>13, <2>1, RecordsKept, RecordedKept
  <2>6. QED
    BY <1>14, <1>15, <1>16, <1>18, <2>2, <2>3, <2>4, <2>5 DEF IInv
<1>22. CASE a.done
  <2>1. records' = Written
    BY <1>3, <1>22
  <2>2. /\ Target \in 1..Len(records')
        /\ \A i \in 1..Len(records') : i # Target => i \in 1..Len(records) /\ records'[i] = records[i]
        /\ records'[Target].plan = mSelectedPlan[visible]
        /\ mEventId[visible] = 0 =>
              /\ records'[Target].of = Shown /\ records'[Target].by = {Shown}
              /\ Target \notin 1..Len(records)
        /\ mEventId[visible] # 0 =>
              /\ Target = mEventId[visible] /\ Target \in 1..Len(records)
              /\ records'[Target].of = records[Target].of
              /\ records'[Target].by = records[Target].by \cup {Shown}
    BY <1>1, <2>1, Wrote
  <2>3. \A i \in 1..Len(records) : i \in 1..Len(records') /\ records'[i].of = records[i].of
    BY <1>8, <2>2
  <2>4. /\ mEventId[visible] # 0 /\ Shown \notin hurt => records[Target].of = Shown
        /\ Shown \notin hurt =>
              \/ mSelectedPlan[visible] = reports[Shown]
              \/ mEventId[visible] # 0 /\ records[Target].by \cap hurt # {}
        /\ Shown \notin hurt /\ mEventId[visible] = 0 =>
              \A i \in 1..Len(records) : records[i].of # Shown
    BY <1>2, <2>2 DEF IInv, OnShow, Harmless
  <2>5. Bounded'
    BY <1>1, <1>2, <1>8, <1>10, <2>2, <2>3 DEF IInv, Bounded
  <2>6. Shown \notin hurt' => records'[Target].of = Shown
    BY <1>13, <2>2, <2>4
  <2>7. OnShow'
    <3>1. SUFFICES ASSUME Shown \notin hurt'
                   PROVE  /\ mEventId'[visible] = Target /\ Target # 0
                          /\ \/ mSelectedPlan[visible] = reports[Shown]
                             \/ records'[Target].by \cap hurt' # {}
      BY <1>1, <1>2, <1>7, <2>6 DEF OnShow, Harmless
    <3>2. QED
      BY <1>8, <1>19, <1>20, <2>2, <2>4, <3>1
  <2>8. Saves'
    BY <1>7, <1>8, <2>2, <2>6 DEF Saves
  <2>9. OwnRecord'
    <3>1. SUFFICES ASSUME NEW i \in 1..Len(records')
                   PROVE  /\ records'[i].by \ hurt' \subseteq {records'[i].of}
                          /\ records'[i].by \cap hurt' = {} => records'[i].plan = reports[records'[i].of]
      BY <1>1, <1>8 DEF OwnRecord
    <3>2. CASE i # Target
      <4>1. i \in 1..Len(records) /\ records'[i] = records[i]
        BY <2>2, <3>2
      <4>2. /\ records[i].by \ hurt \subseteq {records[i].of}
            /\ records[i].by \cap hurt = {} => records[i].plan = reports[records[i].of]
        BY <4>1 DEF IInv, OwnRecord
      <4>3. QED
        BY <1>13, <4>1, <4>2
    <3>3. CASE i = Target /\ mEventId[visible] = 0
      BY <1>13, <2>2, <2>4, <3>3
    <3>4. CASE i = Target /\ mEventId[visible] # 0
      <4>1. records[Target].by \ hurt \subseteq {records[Target].of}
        BY <2>2, <3>4 DEF IInv, OwnRecord
      <4>2. records'[i].by \ hurt' \subseteq {records'[i].of}
        BY <1>13, <2>2, <2>4, <3>4, <4>1
      <4>3. QED
        BY <1>13, <2>2, <2>4, <3>4, <4>2
    <3>5. QED
      BY <3>2, <3>3, <3>4
  <2>10. OneRecord'
    <3>1. SUFFICES ASSUME NEW i \in 1..Len(records'), NEW j \in 1..Len(records'), i # j,
                          records'[i].of = records'[j].of
                   PROVE  records'[i].of \in hurt'
      BY <1>8 DEF OneRecord
    <3>2. CASE i \in 1..Len(records) /\ j \in 1..Len(records)
      BY <1>13, <2>3, <3>1, <3>2 DEF IInv, OneRecord
    <3>3. CASE i \notin 1..Len(records)
      <4>1. i = Target /\ mEventId[visible] = 0 /\ j \in 1..Len(records)
        BY <2>2, <3>1, <3>3
      <4>2. records'[i].of = Shown /\ records[j].of = Shown
        BY <2>2, <2>3, <3>1, <4>1
      <4>3. Shown \in hurt
        BY <2>4, <4>1, <4>2
      <4>4. QED
        BY <1>13, <3>1, <4>1, <4>2, <4>3
    <3>4. CASE j \notin 1..Len(records)
      <4>1. j = Target /\ mEventId[visible] = 0 /\ i \in 1..Len(records)
        BY <2>2, <3>1, <3>4
      <4>2. records'[j].of = Shown /\ records[i].of = Shown
        BY <2>2, <2>3, <3>1, <4>1
      <4>3. Shown \in hurt
        BY <2>4, <4>1, <4>2
      <4>4. QED
        BY <1>13, <3>1, <4>1, <4>2, <4>3
    <3>5. QED
      BY <3>2, <3>3, <3>4
  <2>11. Recorded'
    BY <1>1, <1>8, <1>13, <2>3 DEF IInv, Recorded
  <2>12. AlertFirst'
    <3>1. SUFFICES ASSUME NEW i \in 1..Len(records'), reports[records'[i].of] \in EmergencyPlans
                   PROVE  [report |-> records'[i].of, act |-> "alert"] \in acted
      BY <1>1, <1>8 DEF AlertFirst
    <3>2. CASE i \in 1..Len(records)
      BY <2>3, <3>1, <3>2 DEF IInv, AlertFirst
    <3>3. CASE i \notin 1..Len(records)
      BY <1>2, <1>17, <2>2, <3>1, <3>3 DEF Clear
    <3>4. QED
      BY <3>2, <3>3
  <2>13. QED
    BY <1>14, <1>15, <1>16, <1>18, <2>5, <2>7, <2>8, <2>9, <2>10, <2>11, <2>12 DEF IInv
<1>23. QED
  BY <1>10, <1>21, <1>22

-----------------------------------------------------------------------------
(* The user goes from window to window.                                    *)

\* Without a handler that runs nothing is pending.
LEMMA Idle ==
    ASSUME Typing, Ready
    PROVE  todo = <<>> /\ DOMAIN todo = {} /\ \A step : ~Pending(step)
BY DEF Ready, Pending

\* The RPCs of onResume for a plan and an event.
ResumeSteps(p, e) == <<"plans">> \o (IF p # NoPlan THEN <<"members">> ELSE <<>>)
                                \o (IF e # 0 THEN <<"event">> ELSE <<>>)

LEMMA ResumeTodo ==
    ASSUME NEW p, NEW e, NEW t, t = ResumeSteps(p, e)
    PROVE  /\ t \in Seq(Steps) /\ t # <<>> /\ t[1] = "plans" /\ 1 \in DOMAIN t
           /\ DOMAIN t \subseteq Nat \ {0}
           /\ \A i \in DOMAIN t : /\ t[i] \in {"plans", "members", "event"}
                                  /\ t[i] = "plans" => i = 1
                                  /\ t[i] = "event" => e # 0
<1> DEFINE members == IF p # NoPlan THEN <<"members">> ELSE <<>>
           event == IF e # 0 THEN <<"event">> ELSE <<>>
           front == <<"plans">> \o members
<1>1. /\ members \in Seq(Steps) /\ event \in Seq(Steps) /\ <<"plans">> \in Seq(Steps)
      /\ \A i \in 1..Len(members) : members[i] = "members"
      /\ \A i \in 1..Len(event) : event[i] = "event" /\ e # 0
  <2>1. /\ <<"plans">> \in Seq(Steps) /\ <<"members">> \in Seq(Steps) /\ <<"event">> \in Seq(Steps)
        /\ <<>> \in Seq(Steps) /\ Len(<<>>) = 0
        /\ Len(<<"members">>) = 1 /\ <<"members">>[1] = "members"
        /\ Len(<<"event">>) = 1 /\ <<"event">>[1] = "event"
    BY DEF Steps
  <2>2. members \in Seq(Steps) /\ \A i \in 1..Len(members) : members[i] = "members"
    BY <2>1
  <2>3. event \in Seq(Steps) /\ \A i \in 1..Len(event) : event[i] = "event" /\ e # 0
    <3>1. CASE e # 0
      BY <2>1, <3>1
    <3>2. CASE e = 0
      BY <2>1, <3>2
    <3>3. QED
      BY <3>1, <3>2
  <2>4. QED
    BY <2>1, <2>2, <2>3
<1>2. Len(members) \in Nat /\ Len(event) \in Nat /\ Len(<<"plans">>) = 1 /\ <<"plans">>[1] = "plans"
  BY <1>1
<1> HIDE DEF members, event
<1>3. /\ front \in Seq(Steps) /\ Len(front) = 1 + Len(members) /\ front[1] = "plans"
      /\ \A i \in 2..Len(front) : front[i] = members[i - 1] /\ i - 1 \in 1..Len(members)
  BY <1>1, <1>2
<1>4. \A i \in 2..Len(front) : front[i] = "members"
  BY <1>1, <1>3
<1>5. t = front \o event
  BY DEF members, event, ResumeSteps
<1> HIDE DEF front
<1>6. /\ t \in Seq(Steps) /\ Len(t) = Len(front) + Len(event)
      /\ \A i \in 1..Len(front) : t[i] = front[i]
      /\ \A i \in Len(front) + 1..Len(t) : t[i] = event[i - Len(front)] /\ i - Len(front) \in 1..Len(event)
  <2>1. t \in Seq(Steps) /\ Len(t) = Len(front) + Len(event) /\ Len(front) \in Nat
    BY <1>1, <1>2, <1>3, <1>5
  <2>2. \A i \in 1..Len(t) : t[i] = IF i <= Len(front) THEN front[i] ELSE event[i - Len(front)]
    BY <1>1, <1>3, <1>5, ConcatProperties
  <2>3. \A i \in 1..Len(front) : i \in 1..Len(t) /\ i <= Len(front)
    BY <1>2, <2>1
  <2>4. \A i \in Len(front) + 1..Len(t) :
            i \in 1..Len(t) /\ ~(i <= Len(front)) /\ i - Len(front) \in 1..Len(event)
    BY <1>2, <2>1
  <2>5. QED
    BY <2>1, <2>2, <2>3, <2>4
<1>7. \A i \in Len(front) + 1..Len(t) : t[i] = "event" /\ e # 0
  BY <1>1, <1>6
<1>8. DOMAIN t = 1..Len(t) /\ Len(t) \in Nat /\ Len(front) \in Nat /\ Len(front) >= 1
  BY <1>2, <1>3, <1>6
<1>9. \A i \in DOMAIN t : /\ t[i] \in {"plans", "members", "event"}
                          /\ t[i] = "plans" => i = 1
                          /\ t[i] = "event" => e # 0
  <2>1. SUFFICES ASSUME NEW i \in 1..Len(t)
                 PROVE  /\ t[i] \in {"plans", "members", "event"}
                        /\ t[i] = "plans" => i = 1
                        /\ t[i] = "event" => e # 0
    BY <1>8
  <2>2. CASE i = 1
    BY <1>3, <1>6, <1>8, <2>2
  <2>3. CASE i \in 2..Len(front)
    BY <1>4, <1>6, <1>8, <2>3
  <2>4. CASE i \in Len(front) + 1..Len(t)
    BY <1>7, <1>8, <2>4
  <2>5. QED
    BY <1>8, <2>1, <2>2, <2>3, <2>4
<1>10. t # <<>> /\ t[1] = "plans" /\ 1 \in DOMAIN t /\ DOMAIN t \subseteq Nat \ {0}
  BY <1>2, <1>3, <1>6, <1>8
<1>11. QED
  BY <1>6, <1>9, <1>10

\* MainWindow::loadActivity shows an EventWidget.
LEMMA Resumed ==
    ASSUME IInv, NEW k \in Kinds, NEW p \in Plans \cup {NoPlan}, NEW e \in 0..Len(records),
           Resume(k, p, e),
           k = "emergency" => p = NoPlan /\ e = 0,
           p = NoPlan \/ Len(reports) < MaxReports,
           e # 0 /\ 0 \notin hurt' => p \in NormalPlans /\ p = records[e].plan,
           hurt \ {0} \subseteq hurt', hurt' \subseteq {0} \cup Reports,
           late' \subseteq [token : 1..MaxTimeouts, reply : Replies],
           timeouts' \in 0..MaxTimeouts,
           \A l \in late' : Known(l.reply, Len(records)),
           UNCHANGED <<records, reports, acted>>
    PROVE  IInv'
<1>1. Typing
  BY DEF IInv
<1>2. /\ visible' = k /\ k # "chooser"
      /\ params' = [planid |-> p, eventid |-> e]
      /\ mEventId' = [mEventId EXCEPT ![k] = 0]
      /\ report' = [report EXCEPT ![k] = 0]
      /\ chooser' = NoOffer
      /\ UNCHANGED <<mSelectedPlan, typed, listed, saveBtn>>
  BY DEF Resume, Kinds
<1>3. /\ todo' \in Seq(Steps) /\ todo' # <<>> /\ todo'[1] = "plans" /\ 1 \in DOMAIN todo'
      /\ DOMAIN todo' \subseteq Nat \ {0}
      /\ \A i \in DOMAIN todo' : /\ todo'[i] \in {"plans", "members", "event"}
                                 /\ todo'[i] = "plans" => i = 1
                                 /\ todo'[i] = "event" => e # 0
  <2>1. todo' = ResumeSteps(p, e)
    BY DEF Resume, ResumeSteps
  <2>2. QED
    BY <2>1, ResumeTodo
<1>4. /\ mEventId' \in [Kinds -> 0..Len(records)] /\ mEventId'[k] = 0
      /\ report' \in [Kinds -> 0..Len(reports)] /\ report'[k] = 0
  <2>1. 0 \in 0..Len(records) /\ 0 \in 0..Len(reports)
    BY <1>1, RecordTyped, ShownTyped
  <2>2. QED
    BY <1>1, <1>2, <2>1 DEF Typing
<1>5. Typing'
  <2>1. chooser' \in [plans : SUBSET NormalPlans, events : SUBSET (1..Len(records))]
    BY <1>2 DEF NoOffer
  <2>2. params' \in [planid : Plans \cup {NoPlan}, eventid : 0..Len(records)]
    BY <1>2
  <2>3. visible' \in {"main", "chooser"} \cup Kinds
    BY <1>2
  <2>4. QED
    BY <1>1, <1>2, <1>3, <1>4, <2>1, <2>2, <2>3 DEF Typing
<1>6. Bounded'
  BY DEF IInv, Bounded
<1>7. params'.planid = p /\ params'.eventid = e
  BY <1>2
<1>8. Pending("plans")' /\ ~Pending("chosen")' /\ (Pending("event")' => e # 0)
  BY <1>3 DEF Pending
<1>9. Control'
  <2>1. k # "normal" => e = 0
    BY DEF Kinds
  <2>2. k = "emergency" => p = NoPlan
    OBVIOUS
  <2>3. QED
    BY <1>2, <1>3, <1>4, <1>7, <2>1, <2>2 DEF Control, Loading, ChooserSteps
<1>10. Choice'
  BY <1>7, <1>8 DEF Choice, Missed
<1>11. OnShow' /\ Offer'
  BY <1>2, <1>8 DEF OnShow, Offer
<1>12. Saves'
  BY <1>3 DEF Saves, Loading
<1>13. Alarmed'
  BY <1>2, <1>4 DEF Alarmed, Clear
<1>14. OwnRecord' /\ OneRecord' /\ AlertFirst' /\ Recorded'
  BY RecordsKept, RecordedKept
<1>15. QED
  BY <1>5, <1>6, <1>9, <1>10, <1>11, <1>12, <1>13, <1>14 DEF IInv

LEMMA ClickEmergencyStep == IInv /\ ClickEmergency => IInv'
<1> SUFFICES ASSUME IInv, ClickEmergency PROVE IInv'
  OBVIOUS
<1>1. Typing /\ 0 \in 0..Len(records)
  BY RecordTyped DEF IInv
<1>2. /\ Resume("emergency", NoPlan, 0) /\ hurt' = hurt \ {0}
      /\ UNCHANGED <<records, calls, reports, acted>>
  BY DEF ClickEmergency
<1>3. /\ late' \subseteq [token : 1..MaxTimeouts, reply : Replies]
      /\ timeouts' \in 0..MaxTimeouts
      /\ \A l \in late' : Known(l.reply, Len(records))
      /\ hurt' \subseteq {0} \cup Reports
      /\ "emergency" \in Kinds
  BY <1>1, <1>2 DEF IInv, Typing, Bounded, calls, Kinds
<1>4. QED
  BY <1>1, <1>2, <1>3, Resumed

LEMMA ChoosePlanStep == ASSUME IInv, NEW p \in NormalPlans, ChoosePlan(p) PROVE IInv'
<1>1. Typing /\ 0 \in 0..Len(records) /\ p \in Plans \cup {NoPlan}
  BY RecordTyped DEF IInv, Plans
<1>2. /\ Resume("normal", p, 0) /\ Len(reports) < MaxReports
      /\ UNCHANGED <<records, calls, reports, hurt, acted>>
  BY DEF ChoosePlan
<1>3. /\ late' \subseteq [token : 1..MaxTimeouts, reply : Replies]
      /\ timeouts' \in 0..MaxTimeouts
      /\ \A l \in late' : Known(l.reply, Len(records))
      /\ hurt' \subseteq {0} \cup Reports /\ hurt \ {0} \subseteq hurt'
      /\ "normal" \in Kinds
  BY <1>1, <1>2 DEF IInv, Typing, Bounded, calls, Kinds
<1>4. QED
  BY <1>1, <1>2, <1>3, Resumed

LEMMA ChosenStep == IInv /\ Chosen => IInv'
<1> SUFFICES ASSUME IInv, Chosen PROVE IInv'
  OBVIOUS
<1> DEFINE own == EventList({params.eventid})
<1>1. Typing /\ Len(records) \in Nat /\ 0 \in 0..Len(records)
  BY RecordTyped DEF IInv
<1>2. /\ At("chosen") /\ todo[1] = "chosen" /\ 1 \in DOMAIN todo /\ Pending("chosen")
      /\ UNCHANGED <<records, reports, acted>>
  BY <1>1, Running DEF Chosen
<1>3. visible = "chooser" /\ Shown = 0 /\ params.eventid # 0 /\ Len(reports) < MaxReports
  BY <1>1, <1>2, ShownTyped DEF IInv, Control, ChooserSteps, Kinds
<1>4. params.eventid \in 1..Len(records) /\ params.eventid \in 0..Len(records)
  BY <1>1, <1>3 DEF Typing
<1>5. PICK a \in Answers(own) :
          /\ Rpc(own, a)
          /\ IF EventsIn(a.reply) = EventsIn(Other)
             THEN Resume("normal", NoPlan, 0)
             ELSE \E e \in DOMAIN EventsIn(a.reply) :
                      Resume("normal", EventsIn(a.reply)[e], params.eventid)
          /\ hurt' = hurt \cup Harm(a)
  BY DEF Chosen
<1>6. /\ Known(own, Len(records)) /\ own \in Replies
      /\ EventsIn(own) = [i \in {params.eventid} |-> records[i].plan]
      /\ DOMAIN EventsIn(own) = {params.eventid}
  BY <1>1, <1>4, EventListTyped DEF Known
<1>7. /\ a.clean => a.reply = own
      /\ ~a.clean => Harm(a) = {Shown}
      /\ Harm(a) \subseteq {Shown}
      /\ Known(a.reply, Len(records))
      /\ late' \subseteq [token : 1..MaxTimeouts, reply : Replies]
      /\ timeouts' \in 0..MaxTimeouts
      /\ \A l \in late' : Known(l.reply, Len(records))
  BY <1>1, <1>5, <1>6, Called DEF IInv, Bounded
<1> HIDE DEF own
<1>8. /\ hurt \ {0} \subseteq hurt' /\ hurt' \subseteq {0} \cup Reports
      /\ "normal" \in Kinds /\ NoPlan \in Plans \cup {NoPlan} /\ a.reply \in Replies
  BY <1>1, <1>3, <1>5, <1>7 DEF Typing, Kinds, Known
<1>9. CASE Resume("normal", NoPlan, 0)
  BY <1>1, <1>2, <1>7, <1>8, <1>9, Resumed
<1>10. CASE \E e \in DOMAIN EventsIn(a.reply) :
                Resume("normal", EventsIn(a.reply)[e], params.eventid)
  <2>1. PICK e \in DOMAIN EventsIn(a.reply) :
                Resume("normal", EventsIn(a.reply)[e], params.eventid)
    BY <1>10
  <2> DEFINE p == EventsIn(a.reply)[e]
  <2>2. p \in Plans \cup {NoPlan}
    BY <1>8, EventsTyped
  <2>3. 0 \notin hurt' => p \in NormalPlans /\ p = records[params.eventid].plan
    <3>1. SUFFICES ASSUME 0 \notin hurt'
                   PROVE  p \in NormalPlans /\ p = records[params.eventid].plan
      OBVIOUS
    <3>2. a.reply = own /\ 0 \notin hurt
      BY <1>3, <1>5, <1>7, <3>1
    <3>3. e = params.eventid /\ p = records[params.eventid].plan
      BY <1>6, <2>1, <3>2
    <3>4. QED
      BY <1>2, <3>2, <3>3 DEF IInv, Choice, Missed
  <2>4. Resume("normal", p, params.eventid)
    BY <2>1
  <2> HIDE DEF p
  <2>5. QED
    BY <1>2, <1>3, <1>4, <1>7, <1>8, <2>2, <2>3, <2>4, Resumed
<1>11. QED
  BY <1>5, <1>9, <1>10

\* The chooser opens, hands on an event or closes, or the user leaves an EventWidget.
LEMMA ClickEventsStep == IInv /\ ClickEvents => IInv'
<1> SUFFICES ASSUME IInv, ClickEvents PROVE IInv'
  OBVIOUS
<1>1. Typing /\ visible' = "chooser" /\ hurt' = hurt \ {0}
      /\ todo' = <<"chooserPlans", "chooserEvents">>
      /\ UNCHANGED <<records, calls, chooser, params, fields, report, reports, acted>>
  BY DEF IInv, ClickEvents
<1>2. /\ todo' \in Seq(Steps) /\ DOMAIN todo' = {1, 2}
      /\ todo'[1] = "chooserPlans" /\ todo'[2] = "chooserEvents"
  BY <1>1 DEF Steps
<1>3. Typing'
  BY <1>1, <1>2 DEF Typing, fields, calls
<1>4. Bounded'
  BY <1>1 DEF IInv, Bounded, calls
<1>5. Control'
  BY <1>1, <1>2 DEF Control, Loading, ChooserSteps
<1>6. /\ Pending("chooserEvents")' /\ ~Pending("event")' /\ ~Pending("chosen")'
      /\ visible' \notin Kinds
  BY <1>1, <1>2 DEF Pending, Kinds
<1>7. Choice' /\ Offer' /\ OnShow' /\ Alarmed'
  BY <1>1, <1>6 DEF Choice, Offer, OnShow, Alarmed, Kinds
<1>8. Saves'
  BY <1>2 DEF Saves, Loading, ChooserSteps
<1>9. OwnRecord' /\ OneRecord' /\ AlertFirst' /\ Recorded'
  BY <1>1, RecordsKept, RecordedKept
<1>10. QED
  BY <1>3, <1>4, <1>5, <1>7, <1>8, <1>9 DEF IInv

LEMMA ChooseEventStep == ASSUME IInv, NEW e \in Ids, ChooseEvent(e) PROVE IInv'
<1>1. /\ Typing /\ Ready /\ visible = "chooser" /\ e \in chooser.events
      /\ Len(reports) < MaxReports
      /\ params' = [planid |-> NoPlan, eventid |-> e] /\ todo' = <<"chosen">>
      /\ UNCHANGED <<records, calls, visible, chooser, fields, report, reports, hurt, acted>>
  BY DEF IInv, ChooseEvent
<1>2. todo' \in Seq(Steps) /\ DOMAIN todo' = {1} /\ todo'[1] = "chosen"
  BY <1>1 DEF Steps
<1>3. e \in 0..Len(records) /\ e # 0
  BY <1>1, RecordTyped DEF Typing
<1>4. Typing'
  BY <1>1, <1>2, <1>3 DEF Typing, fields, calls
<1>5. Bounded'
  BY <1>1 DEF IInv, Bounded, calls
<1>6. Control'
  BY <1>1, <1>2, <1>3 DEF Control, Loading, ChooserSteps
<1>7. ~Pending("chooserEvents")' /\ ~Pending("event")' /\ visible' \notin Kinds
  BY <1>1, <1>2 DEF Pending, Kinds
<1>8. Offer' /\ Choice'
  <2>1. ~Missed => \A x \in chooser.events : records[x].plan \in NormalPlans
    BY <1>1, Idle DEF IInv, Offer
  <2>2. QED
    BY <1>1, <1>7, <2>1 DEF Offer, Choice, Missed
<1>9. OnShow' /\ Alarmed'
  BY <1>1, <1>7 DEF OnShow, Alarmed, Kinds
<1>10. Saves'
  BY <1>2 DEF Saves, Loading, ChooserSteps
<1>11. OwnRecord' /\ OneRecord' /\ AlertFirst' /\ Recorded'
  BY <1>1, RecordsKept, RecordedKept
<1>12. QED
  BY <1>4, <1>5, <1>6, <1>8, <1>9, <1>10, <1>11 DEF IInv

LEMMA LeaveStep == IInv /\ (CancelChooser \/ Back) => IInv'
<1> SUFFICES ASSUME IInv, CancelChooser \/ Back PROVE IInv'
  OBVIOUS
<1>1. /\ Typing /\ Ready /\ visible' = "main" /\ chooser' \in {NoOffer, chooser}
      /\ UNCHANGED <<records, calls, todo, params, fields, report, reports, hurt, acted>>
  BY DEF IInv, CancelChooser, Back
<1>2. /\ DOMAIN todo = {} /\ \A step : ~Pending(step)' /\ todo = <<>>
  BY <1>1, Idle DEF Pending
<1>3. Typing'
  BY <1>1 DEF Typing, fields, calls, NoOffer
<1>4. Bounded'
  BY <1>1 DEF IInv, Bounded, calls
<1>5. Control' /\ Choice' /\ Saves'
  BY <1>1, <1>2 DEF Control, Choice, Saves
<1>6. Offer' /\ OnShow' /\ Alarmed'
  BY <1>1 DEF Offer, OnShow, Alarmed, Kinds
<1>7. OwnRecord' /\ OneRecord' /\ AlertFirst' /\ Recorded'
  BY <1>1, RecordsKept, RecordedKept
<1>8. QED
  BY <1>3, <1>4, <1>5, <1>6, <1>7 DEF IInv

LEMMA ClickPlanStep == ASSUME IInv, NEW p \in Plans, ClickPlan(p) PROVE IInv'
<1>1. /\ Typing /\ Ready /\ visible \in Kinds /\ p \in listed[visible]
      /\ Len(reports) < MaxReports
      /\ mSelectedPlan' = [mSelectedPlan EXCEPT ![visible] = p]
      /\ typed' = [typed EXCEPT ![visible] = TRUE]
      /\ EventPlanSelected(visible, p)
      /\ todo' = <<"members">>
      /\ UNCHANGED <<records, calls, visible, chooser, params, listed, hurt, acted>>
  BY DEF IInv, ClickPlan
<1>2. p \in PlansOf(visible) /\ p # NoPlan /\ visible # "chooser"
  BY <1>1, KindsOfPlans DEF Typing, Kinds
<1>3. /\ mEventId' \in [Kinds -> 0..Len(records)] /\ mEventId'[visible] = 0
      /\ report' \in [Kinds -> 0..Len(reports')] /\ report'[visible] = Len(reports) + 1
      /\ reports' \in Seq(Plans \cup {NoPlan})
      /\ Len(reports') = Len(reports) + 1 /\ Len(reports') <= MaxReports
      /\ \A i \in 1..Len(reports) : reports'[i] = reports[i]
      /\ reports'[Len(reports) + 1] = p
      /\ saveBtn' \in [Kinds -> BOOLEAN]
      /\ visible = "emergency" => ~saveBtn'[visible]
      /\ \A i \in DOMAIN records : records[i].of # Len(reports) + 1
      /\ Len(reports) + 1 \in Reports
      /\ p \in EmergencyPlans => visible = "emergency"
  BY <1>1, <1>2, Selected
<1>4. /\ mSelectedPlan' \in [Kinds -> Plans \cup {NoPlan}] /\ mSelectedPlan'[visible] = p
      /\ \A k \in Kinds : mSelectedPlan'[k] \in PlansOf(k) \cup {NoPlan}
      /\ typed' \in [Kinds -> BOOLEAN]
  BY <1>1, <1>2 DEF Typing
<1>5. todo' \in Seq(Steps) /\ DOMAIN todo' = {1} /\ todo'[1] = "members"
  BY <1>1 DEF Steps
<1>6. Typing'
  BY <1>1, <1>3, <1>4, <1>5 DEF Typing, calls
<1>7. Len(reports) \in Nat /\ Shown' = Len(reports) + 1 /\ Len(reports) + 1 # 0
  BY <1>1, <1>3, ShownTyped DEF Shown
<1>8. Bounded'
  BY <1>1, <1>3, <1>7 DEF IInv, Bounded, calls
<1>9. Control'
  BY <1>1, <1>2, <1>5 DEF Control, Loading, ChooserSteps
<1>10. Choice' /\ Offer' /\ Saves'
  BY <1>1, <1>2, <1>5 DEF Choice, Offer, Saves, Pending, Loading
<1>11. OnShow'
  BY <1>1, <1>3, <1>4, <1>7 DEF OnShow, Harmless
<1>12. Alarmed'
  BY <1>1, <1>3, <1>5 DEF Alarmed, Clear, Loading
<1>13. OwnRecord' /\ OneRecord' /\ AlertFirst' /\ Recorded'
  BY <1>1, <1>3, RecordsKept, RecordedKept
<1>14. QED
  BY <1>6, <1>8, <1>9, <1>10, <1>11, <1>12, <1>13 DEF IInv

-----------------------------------------------------------------------------
(* The buttons that save the report before they act on it.                 *)

LEMMA BeginStep ==
    ASSUME IInv, NEW steps \in Seq(Steps),
           \A i \in DOMAIN steps : steps[i] \notin Loading \cup {"save"},
           Begin(steps),
           visible = "normal" \/ saveBtn[visible] \/ [report |-> Shown, act |-> "alert"] \in acted',
           acted' = acted \/ acted' = acted \cup {[report |-> Shown, act |-> "alert"]}
    PROVE  IInv'
<1>1. /\ Typing /\ Ready /\ visible \in Kinds /\ mSelectedPlan[visible] # NoPlan
      /\ Len(records) < MaxRecords /\ todo' = <<"save">> \o steps
      /\ UNCHANGED <<records, calls, visible, chooser, params, fields, report, reports, hurt>>
  BY DEF IInv, Begin
<1>2. /\ todo' \in Seq(Steps) /\ todo' # <<>> /\ todo'[1] = "save" /\ 1 \in DOMAIN todo'
      /\ DOMAIN todo' \subseteq Nat \ {0}
      /\ \A i \in DOMAIN todo' : i > 1 => todo'[i] \notin Loading \cup {"save"}
  <2>1. <<"save">> \in Seq(Steps) /\ Len(<<"save">>) = 1
    BY DEF Steps
  <2>2. /\ todo' \in Seq(Steps) /\ Len(todo') = 1 + Len(steps) /\ Len(steps) \in Nat
        /\ todo'[1] = "save" /\ DOMAIN todo' = 1..Len(todo')
        /\ \A i \in 2..Len(todo') : i - 1 \in DOMAIN steps /\ todo'[i] = steps[i - 1]
    BY <1>1, <2>1
  <2>3. QED
    BY <2>2
<1>3. fields' = fields /\ mEventId' = mEventId /\ mSelectedPlan' = mSelectedPlan /\ saveBtn' = saveBtn
  BY <1>1 DEF fields
<1>4. /\ \A step : ~Pending(step)
      /\ Shown = report[visible] /\ Shown \in 0..Len(reports) /\ visible # "chooser"
      /\ Shown' = Shown
  BY <1>1, Idle, ShownTyped DEF Kinds, Shown
<1>5. Shown # 0 /\ Shown \in Reports
  BY <1>1, <1>4, ShownTyped DEF IInv, OnShow
<1>6. \A i \in DOMAIN todo' : todo'[i] \notin Loading
  <2>1. "save" \notin Loading
    BY DEF Loading, ChooserSteps
  <2>2. \A i \in DOMAIN todo' : i = 1 \/ i > 1
    BY <1>2
  <2>3. QED
    BY <1>2, <2>1, <2>2
<1>7. ~Pending("plans")' /\ ~Pending("event")' /\ ~Pending("chosen")'
  BY <1>6 DEF Pending, Loading, ChooserSteps
<1>8. Typing'
  <2>1. acted' \subseteq [report : Reports, act : {"alert"} \cup Acts]
    BY <1>1, <1>5 DEF Typing
  <2>2. QED
    BY <1>1, <1>2, <1>3, <2>1 DEF Typing, fields, calls
<1>9. Bounded'
  BY <1>1 DEF IInv, Bounded, calls
<1>10. Control'
  BY <1>1, <1>2, <1>3, <1>4, <1>5, <1>6 DEF Control, Loading, ChooserSteps
<1>11. Choice' /\ Offer'
  BY <1>1, <1>4, <1>7 DEF Choice, Offer
<1>12. OnShow'
  BY <1>1, <1>3, <1>4, <1>7 DEF IInv, OnShow, Harmless
<1>13. Saves'
  BY <1>2 DEF Saves
<1>14. Alarmed'
  BY <1>1, <1>3, <1>4 DEF IInv, Alarmed, Clear, Kinds
<1>15. OwnRecord' /\ OneRecord' /\ AlertFirst' /\ Recorded'
  BY <1>1, RecordsKept, RecordedKept
<1>16. QED
  BY <1>8, <1>9, <1>10, <1>11, <1>12, <1>13, <1>14, <1>15 DEF IInv

LEMMA ButtonStep ==
    IInv /\ (Save \/ Call \/ SendSms \/ Broadcast \/ PlaySound \/ Alert) => IInv'
<1> SUFFICES ASSUME IInv, Save \/ Call \/ SendSms \/ Broadcast \/ PlaySound \/ Alert PROVE IInv'
  OBVIOUS
<1>1. CASE Save
  <2>1. <<>> \in Seq(Steps) /\ DOMAIN <<>> = {}
    OBVIOUS
  <2>2. Begin(<<>>) /\ saveBtn[visible] /\ acted' = acted
    BY <1>1 DEF Save
  <2>3. QED
    BY <2>1, <2>2, BeginStep
<1>2. CASE Call
  <2> DEFINE steps == <<"callBook", "dial">>
  <2>1. /\ steps \in Seq(Steps) /\ DOMAIN steps = {1, 2}
        /\ \A i \in DOMAIN steps : steps[i] \notin Loading \cup {"save"}
    BY DEF Steps, Acts, Loading, ChooserSteps
  <2>2. /\ Begin(steps)
        /\ visible = "normal" /\ acted' = acted
    BY <1>2 DEF Call, Normal
  <2> HIDE DEF steps
  <2>3. QED
    BY <2>1, <2>2, BeginStep
<1>3. CASE SendSms
  <2> DEFINE steps == <<"smsBook", "sms">>
  <2>1. /\ steps \in Seq(Steps) /\ DOMAIN steps = {1, 2}
        /\ \A i \in DOMAIN steps : steps[i] \notin Loading \cup {"save"}
    BY DEF Steps, Acts, Loading, ChooserSteps
  <2>2. /\ Begin(steps)
        /\ visible = "normal" /\ acted' = acted
    BY <1>3 DEF SendSms, Normal
  <2> HIDE DEF steps
  <2>3. QED
    BY <2>1, <2>2, BeginStep
<1>4. CASE Broadcast
  <2> DEFINE steps == <<"page">>
  <2>1. /\ steps \in Seq(Steps) /\ DOMAIN steps = {1}
        /\ \A i \in DOMAIN steps : steps[i] \notin Loading \cup {"save"}
    BY DEF Steps, Acts, Loading, ChooserSteps
  <2>2. /\ Begin(steps)
        /\ visible = "normal" /\ acted' = acted
    BY <1>4 DEF Broadcast, Normal
  <2> HIDE DEF steps
  <2>3. QED
    BY <2>1, <2>2, BeginStep
<1>5. CASE PlaySound
  <2> DEFINE steps == <<"sound">>
  <2>1. /\ steps \in Seq(Steps) /\ DOMAIN steps = {1}
        /\ \A i \in DOMAIN steps : steps[i] \notin Loading \cup {"save"}
    BY DEF Steps, Acts, Loading, ChooserSteps
  <2>2. /\ Begin(steps)
        /\ visible = "normal" /\ acted' = acted
    BY <1>5 DEF PlaySound, Normal
  <2> HIDE DEF steps
  <2>3. QED
    BY <2>1, <2>2, BeginStep
<1>6. CASE Alert
  <2> DEFINE steps == <<"hangupAll", "smsBook", "sms", "callBook", "dial", "sound">>
  <2>1. /\ steps \in Seq(Steps) /\ DOMAIN steps = {1, 2, 3, 4, 5, 6}
        /\ \A i \in DOMAIN steps : steps[i] \notin Loading \cup {"save"}
    BY DEF Steps, Acts, Loading, ChooserSteps
  <2>2. /\ Begin(steps)
        /\ acted' = acted \cup {[report |-> Shown, act |-> "alert"]}
    BY <1>6 DEF Alert
  <2> HIDE DEF steps
  <2>3. QED
    BY <2>1, <2>2, BeginStep
<1>7. QED
  BY <1>1, <1>2, <1>3, <1>4, <1>5, <1>6

-----------------------------------------------------------------------------
(* The theorems.                                                           *)

LEMMA InitHolds == Init => IInv
<1> SUFFICES ASSUME Init PROVE IInv
  OBVIOUS
<1> USE DEF Init
<1>1. Typing
  <2>1. MaxReports \in Nat /\ MaxRecords \in Nat /\ MaxTimeouts \in Nat /\ Len(<<>>) = 0
    BY DeskAssumption
  <2>2. <<>> \in Seq([plan : Plans, of : Reports, by : SUBSET Reports]) /\ <<>> \in Seq(Steps)
        /\ <<>> \in Seq(Plans \cup {NoPlan})
    OBVIOUS
  <2>3. QED
    BY <2>1, <2>2 DEF Typing, NoOffer
<1>2. ~(visible \in Kinds) /\ visible # "chooser"
  BY DEF Kinds
<1>3. DOMAIN records = {} /\ DOMAIN todo = {} /\ \A step : ~Pending(step)
  BY DEF Pending
<1>4. Bounded /\ Control /\ Choice /\ Offer /\ OnShow /\ Saves
  BY <1>2, <1>3 DEF Bounded, Control, Choice, Offer, OnShow, Saves
<1>5. Alarmed /\ OwnRecord /\ OneRecord /\ Recorded /\ AlertFirst
  BY <1>2, <1>3 DEF Alarmed, OwnRecord, OneRecord, Recorded, AlertFirst
<1>6. QED
  BY <1>1, <1>4, <1>5 DEF IInv

LEMMA NextHolds == IInv /\ [Next]_vars => IInv'
<1> SUFFICES ASSUME IInv, [Next]_vars PROVE IInv'
  OBVIOUS
<1>1. CASE ClickEmergency
  BY <1>1, ClickEmergencyStep
<1>2. CASE ClickEvents
  BY <1>2, ClickEventsStep
<1>3. CASE \E p \in NormalPlans : ChoosePlan(p)
  BY <1>3, ChoosePlanStep
<1>4. CASE \E e \in Ids : ChooseEvent(e)
  BY <1>4, ChooseEventStep
<1>5. CASE CancelChooser \/ Back
  BY <1>5, LeaveStep
<1>6. CASE \E p \in Plans : ClickPlan(p)
  BY <1>6, ClickPlanStep
<1>7. CASE Save \/ Call \/ SendSms \/ Broadcast \/ PlaySound \/ Alert
  BY <1>7, ButtonStep
<1>8. CASE ChooserPlans
  BY <1>8, ChooserPlansStep
<1>9. CASE ChooserEvents
  BY <1>9, ChooserEventsStep
<1>10. CASE Chosen
  BY <1>10, ChosenStep
<1>11. CASE LoadPlans
  BY <1>11, LoadPlansStep
<1>12. CASE Members
  BY <1>12, MembersStep
<1>13. CASE LoadEvent
  BY <1>13, LoadEventStep
<1>14. CASE SaveEvent
  BY <1>14, SaveEventStep
<1>15. CASE HangupAll
  BY <1>15, HangupAllStep
<1>16. CASE LookUp("smsBook") \/ LookUp("callBook")
  BY <1>16, LookUpStep
<1>17. CASE \E act \in Acts : Act(act, act)
  BY <1>17, ActStep
<1>18. CASE Act("sound", "page")
  BY <1>18, ActStep DEF Acts
<1>19. CASE Dismiss
  BY <1>19, DismissStep
<1>20. CASE OtherCall
  BY <1>20, OtherCallStep
<1>21. CASE UNCHANGED vars
  <2>1. UNCHANGED <<records, calls, visible, chooser, params, fields, report, reports, hurt, acted, todo>>
    BY <1>21 DEF vars
  <2>2. Typing /\ todo \in Seq(Steps) /\ \A i \in DOMAIN todo : i + 0 = i
    BY DEF IInv, Typing
  <2>3. Control' /\ Choice' /\ OnShow' /\ Saves' /\ Alarmed'
    BY <2>1, <2>2, Quiet
  <2>4. Offer'
    BY <2>1, OfferKept DEF Pending
  <2>5. QED
    BY <2>1, <2>2, <2>3, <2>4, Quiescent DEF IInv
<1>22. QED
  BY <1>1, <1>2, <1>3, <1>4, <1>5, <1>6, <1>7, <1>8, <1>9, <1>10, <1>11, <1>12, <1>13, <1>14,
     <1>15, <1>16, <1>17, <1>18, <1>19, <1>20, <1>21 DEF Next, User, Handler

\* Every state of the desk has the invariant.
THEOREM DeskInvariance == Spec => []IInv
BY InitHolds, NextHolds, PTL DEF Spec

\* The fields of the windows, the adapter's records and the replies on their way keep
\* their types: no handler of EventWidget, PlanZone or the chooser reads an event id that
\* no record has, and no plan of one window gets into the other.
THEOREM DeskTypeCorrect == Spec => []TypeOK
<1>1. IInv => TypeOK
  <2> SUFFICES ASSUME IInv PROVE TypeOK
    OBVIOUS
  <2>1. Typing /\ Len(records) \in Nat /\ DOMAIN records = 1..Len(records) /\ MaxRecords \in Nat
    BY RecordTyped, DeskAssumption DEF IInv
  <2>2. 1..Len(records) \subseteq Ids /\ 0..Len(records) = {0} \cup DOMAIN records
        /\ 0..Len(records) \subseteq {0} \cup Ids
    BY <2>1 DEF Typing, Ids
  <2>3. 0..Len(reports) = {0} \cup DOMAIN reports
    BY <2>1, ShownTyped DEF Typing
  <2>4. chooser \in [plans : SUBSET NormalPlans, events : SUBSET Ids]
    BY <2>1, <2>2 DEF Typing
  <2>5. params \in [planid : Plans \cup {NoPlan}, eventid : {0} \cup Ids]
    BY <2>1, <2>2 DEF Typing
  <2>6. QED
    BY <2>1, <2>2, <2>3, <2>4, <2>5 DEF Typing, TypeOK
<1>2. QED
  BY <1>1, DeskInvariance, PTL

\* saveEvent writes a report to its own record, with the plan it was begun with, unless a
\* call of that very report failed or took a wrong reply.
THEOREM ReportsOwnRecords == Spec => []OwnRecord
<1>1. IInv => OwnRecord
  BY DEF IInv
<1>2. QED
  BY <1>1, DeskInvariance, PTL

\* A report none of whose calls failed or took a wrong reply has at most one record,
\* however often and by whatever handler it is saved.
THEOREM ReportsHaveOneRecord == Spec => []OneRecord
<1>1. IInv => OneRecord
  BY DEF IInv
<1>2. QED
  BY <1>1, DeskInvariance, PTL

\* What FunctionZone does for a report is done for one that is on record, unless a call of
\* the report failed or took a wrong reply.
THEOREM ActsAreRecorded == Spec => []Recorded
<1>1. IInv => Recorded
  BY DEF IInv
<1>2. QED
  BY <1>1, DeskInvariance, PTL

\* An emergency plan is put on record after its alarm only.
THEOREM AlarmComesFirst == Spec => []AlertFirst
<1>1. IInv => AlertFirst
  BY DEF IInv
<1>2. QED
  BY <1>1, DeskInvariance, PTL
=============================================================================
