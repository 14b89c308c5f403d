---------------------------- MODULE MCMainWindow ----------------------------
(* What the user does in the main window and the settings, for TLC.  The    *)
(* modules share no state, so one part is exercised in a behaviour and the  *)
(* others rest in their initial states: the choice of extensions, the      *)
(* operators' buttons, the video linkage, the plan editors, the dialog for *)
(* the time of a broadcast, or the phone book.                             *)
EXTENDS Selection, VideoLinkage, PlanEditor, TimeSetting, PhoneBook

CONSTANTS
    o1, o2,
    Parts     \* the parts that a run exercises

ASSUME PartsAssumption == Parts \subseteq {"selection", "operators", "video", "plans", "times", "book"}

VARIABLE part   \* the part exercised

\* The second extension has two cameras.
MCUrls == [e \in Exts |-> e]

\* A leap day and a new year ahead.
MCDates == {[year |-> 2016, month |-> 2, day |-> 28, weekday |-> 7],
            [year |-> 2015, month |-> 12, day |-> 30, weekday |-> 3]}

\* The second record has no extension.
MCKinds == <<"exten", "mobile">>
MCInBook == {<<1, "exten">>, <<1, "mobile">>, <<2, "mobile">>}

formVars == <<planVars, timeVars, bookVars>>
mainVars == <<part, selVars, linkVars, formVars>>

MainInit ==
    /\ part \in Parts
    /\ SelInit /\ VideoInit /\ PlanInit /\ BookInit
    /\ TimeInit /\ (part # "times" => today = CHOOSE d \in Dates : TRUE)

MainNext ==
    /\ UNCHANGED part
    /\ \/ part = "selection" /\ SelNext /\ UNCHANGED <<linkVars, formVars>>
       \/ part = "operators" /\ OpNext /\ UNCHANGED <<selVars, videoVars, formVars>>
       \/ part = "video" /\ LinkNext /\ UNCHANGED <<selVars, formVars>>
       \/ part = "plans" /\ PlanNext /\ UNCHANGED <<selVars, linkVars, timeVars, bookVars>>
       \/ part = "times" /\ TimeNext /\ UNCHANGED <<selVars, linkVars, planVars, bookVars>>
       \/ part = "book" /\ BookNext /\ UNCHANGED <<selVars, linkVars, planVars, timeVars>>

MainSpec == MainInit /\ [][MainNext]_mainVars

\* The types of the parts; those that rest keep theirs.
MainTypeOK ==
    CASE part = "selection" -> SelTypeOK
      [] part \in {"operators", "video"} -> VideoTypeOK
      [] part = "plans" -> PlanTypeOK
      [] part = "times" -> TimeTypeOK
      [] part = "book" -> BookTypeOK
=============================================================================
