------------------------------ MODULE TimeSetting ------------------------------
(***************************************************************************)
(* When a timed broadcast runs: the dialog TimedSettingEditDialog, opened   *)
(* and read by TimedBroadcastEditor::onBtnTimeSettingEditClicked.  A task   *)
(* is repeated a number of times (循环模式) or runs until a time of the day  *)
(* (时间模式), every week on some days or once on the next of one weekday.   *)
(*                                                                         *)
(* Everything runs in the GUI thread.  The date is read when the dialog is  *)
(* accepted, so one date stands for a behaviour.                           *)
(***************************************************************************)
EXTENDS Integers, FiniteSets, FiniteSetsExt

CONSTANTS
    Weekdays,   \* the days of the week in use, Monday is 1
    Times,      \* the times of the day in use; 0 is midnight
    Dates,      \* the dates on which the dialog is used: [year, month, day, weekday]
    MaxCycles   \* bound: repetitions

\* The calendar, as QDateTime has it.
DaysIn(month, year) ==
    IF month = 2 THEN (IF year % 4 = 0 /\ (year % 100 # 0 \/ year % 400 = 0) THEN 29 ELSE 28)
    ELSE IF month \in {4, 6, 9, 11} THEN 30 ELSE 31

ASSUME TimeAssumption ==
    /\ Weekdays \subseteq 1..7
    /\ Times \subseteq Nat /\ 0 \in Times
    /\ Dates \subseteq [year : Nat, month : 1..12, day : 1..31, weekday : 1..7]
    /\ \A date \in Dates : date.day <= DaysIn(date.month, date.year)
    /\ MaxCycles \in Nat \ {0}

VARIABLES
    task,     \* the time settings in mPlan
    setting,  \* the settings in the dialog, Closed when there is none
    today,    \* the date
    warned    \* whether the dialog was last accepted over a warning (history)

timeVars == <<task, setting, today, warned>>

Blank == 0   \* a year that has not been filled in
Closed == [open |-> FALSE]

Settings == [model : {"none", "cycle", "time"}, days : SUBSET Weekdays, weekly : BOOLEAN,
             start : Times, stop : Times, cycles : 1..MaxCycles, unlimited : BOOLEAN]
Date == [year : Nat, month : 1..12, day : 1..31]

TimeTypeOK ==
    /\ task.date \in Date
    /\ [f \in DOMAIN task \ {"date"} |-> task[f]] \in Settings
    /\ setting = Closed \/ setting \in Settings
    /\ today \in Dates
    /\ warned \in BOOLEAN

\* The dialog with all its fields empty, as its clear functions leave them; the stop time is
\* not among what they clear.
Cleared(model, stop) == [model |-> model, days |-> {}, weekly |-> FALSE, start |-> 0,
                         stop |-> stop, cycles |-> 1, unlimited |-> FALSE]

NoDate == [year |-> Blank, month |-> 1, day |-> 1]   \* never shown: weekly plans have none

TimeInit ==
    /\ task = [f \in DOMAIN Cleared("none", 0) \cup {"date"} |->
                   IF f = "date" THEN NoDate ELSE Cleared("none", 0)[f]]
    /\ setting = Closed
    /\ today \in Dates
    /\ warned = FALSE

\* addDays for at most a week.
AddDays(date, n) ==
    LET last == DaysIn(date.month, date.year)
    IN  IF date.day + n <= last THEN [year |-> date.year, month |-> date.month, day |-> date.day + n]
        ELSE [year |-> date.year + (date.month \div 12), month |-> (date.month % 12) + 1,
              day |-> date.day + n - last]

-----------------------------------------------------------------------------
(* The dialog.                                                             *)

\* initFromParentPlan: choosing the mode clears the rest, which is then filled in.  In cycle
\* mode the stop time stays empty; a plan without a mode shows nothing.
InitFromParentPlan ==
    IF task.model = "none" THEN Cleared("none", 0)
    ELSE [model |-> task.model, days |-> task.days, weekly |-> task.weekly, start |-> task.start,
          stop |-> IF task.model = "time" THEN task.stop ELSE 0,
          cycles |-> IF task.model = "cycle" /\ ~task.unlimited THEN task.cycles ELSE 1,
          unlimited |-> task.model = "cycle" /\ task.unlimited]

TimedSettingEditDialog ==
    /\ setting = Closed
    /\ setting' = InitFromParentPlan
    /\ UNCHANGED <<task, today, warned>>

\* The fields of the dialog are enabled when a mode is chosen.
ChangeSetting(models, settings) ==
    /\ setting # Closed
    /\ setting.model \in models
    /\ setting' = settings
    /\ UNCHANGED <<task, today, warned>>

\* onBtnCycleNumberModelSelected, onBtnExecuteTimeModelSelected: a mode that gets ticked
\* takes the tick from the other, and either way everything is cleared.
BtnModelSelected(model) ==
    ChangeSetting({"none", "cycle", "time"},
         Cleared(IF setting.model = model THEN "none" ELSE model, setting.stop))

\* Bug: going over to a single run keeps the days.
CboxExecuteEveryWeeksClickedKeeping ==
    ChangeSetting({"cycle", "time"}, [setting EXCEPT !.weekly = ~@])

CboxExecuteEveryWeeksClicked ==
    ChangeSetting({"cycle", "time"},
        [setting EXCEPT !.weekly = ~@, !.days = IF setting.weekly THEN {} ELSE @])

\* onCbox1Clicked to onCbox7Clicked: all days go together every week, else one alone.
CboxClicked(day) ==
    LET others == IF setting.weekly THEN setting.days \ {day} ELSE {}
    IN  ChangeSetting({"cycle", "time"},
             [setting EXCEPT !.days = IF day \in @ THEN others ELSE others \cup {day}])

EditTimes(time) ==
    \/ ChangeSetting({"cycle", "time"}, [setting EXCEPT !.start = time])
    \/ ChangeSetting({"time"}, [setting EXCEPT !.stop = time])

BtnCycleNumberClicked(n) ==
    ChangeSetting({"cycle"}, [setting EXCEPT !.cycles = IF @ + n \in 1..MaxCycles THEN @ + n ELSE @])

UlimitedCycleClicked == ChangeSetting({"cycle"}, [setting EXCEPT !.unlimited = ~@])

BtnCannelClicked ==
    /\ setting # Closed
    /\ setting' = Closed
    /\ UNCHANGED <<task, today, warned>>

\* The date of a task that runs once: this week or the next, on the last of its days.  Day
\* and month are computed apart, and the year of the next month only when it is another.
ExecuteDate(days) ==
    LET weekday == IF days = {} THEN 0 ELSE Max(days)
        ahead == weekday - today.weekday
        day == AddDays(today, IF ahead >= 0 THEN ahead ELSE 7 + ahead).day
        next == (today.month % 12) + 1
    IN  IF day >= today.day THEN [year |-> today.year, month |-> today.month, day |-> day]
        ELSE [year |-> IF next < today.month THEN today.year + 1 ELSE Blank,
              month |-> next, day |-> day]

\* What onBtnOkClicked warns of.  A warning that is confirmed goes back to the dialog; one
\* that is closed at its corner does not.
Warns == \/ setting.model = "none"
         \/ setting.days = {}
         \/ setting.model = "time" /\ setting.stop <= setting.start

\* onBtnOkClicked with no warning or only closed ones, and what the editor then takes over.
BtnOkClicked ==
    /\ setting # Closed
    /\ warned' = Warns
    /\ task' = [task EXCEPT
           !.days = setting.days,
           !.weekly = setting.weekly,
           !.date = IF setting.weekly THEN @ ELSE ExecuteDate(setting.days),
           !.model = IF setting.model = "none" THEN @ ELSE setting.model,
           !.start = IF setting.model = "none" THEN @ ELSE setting.start,
           !.stop = IF setting.model = "time" THEN setting.stop ELSE @,
           !.cycles = IF setting.model = "cycle" THEN setting.cycles ELSE @,
           !.unlimited = IF setting.model = "cycle" THEN setting.unlimited ELSE @]
    /\ setting' = Closed
    /\ UNCHANGED today

-----------------------------------------------------------------------------

TimeNext ==
    \/ TimedSettingEditDialog
    \/ \E model \in {"cycle", "time"} : BtnModelSelected(model)
    \/ CboxExecuteEveryWeeksClicked
    \/ \E day \in Weekdays : CboxClicked(day)
    \/ \E time \in Times : EditTimes(time)
    \/ \E n \in {-1, 1} : BtnCycleNumberClicked(n)
    \/ UlimitedCycleClicked
    \/ BtnCannelClicked
    \/ BtnOkClicked

TimeSpec == TimeInit /\ [][TimeNext]_timeVars

-----------------------------------------------------------------------------
(* Properties.                                                             *)

\* A task set without ignoring a warning can run as it says, through any changes of mode, of
\* the weekly tick and of the days and any number of visits to the dialog: it has a mode and
\* a day, it stops after it starts on the same day, and when it runs once it has one
\* weekday and its date is the next such day.  The year is right too, or blank where the
\* month is another and the year is not (TimedBroadcastEditor.cpp:576-684, 956-1052).
TaskRunsAsChosen ==
    task.model # "none" /\ ~warned =>
        /\ task.days # {}
        /\ task.model = "time" => task.start < task.stop
        /\ ~task.weekly =>
               \E day \in 1..7, n \in 0..6 :
                   LET date == AddDays(today, n)
                   IN  /\ task.days = {day}
                       /\ (today.weekday + n - day) % 7 = 0
                       /\ task.date.day = date.day /\ task.date.month = date.month
                       /\ task.date.year \in {date.year} \cup
                              (IF date.month # today.month /\ date.year = today.year
                               THEN {Blank} ELSE {})
=============================================================================
