--------------------------- MODULE WindowLifeProofs ---------------------------
(***************************************************************************)
(* Proofs about Supervision, CallQueue and MeetMe, for any number of       *)
(* processes, callers, rooms and members.                                  *)
(*                                                                         *)
(* UpgradeWhole: there can be one upgrade.  It is still to come or under   *)
(* way, in one process that has the mutex and that no other can join; or   *)
(* it is over, and the tables are those of the program, and stay so,       *)
(* because whatever reads another version than that one reads one below    *)
(* 30 and upgrades nothing.                                                *)
(*                                                                         *)
(* CallsShown: a caller is on the way to the list through two queues that  *)
(* keep the order, and is followed there by the caller's own leaving.      *)
(*                                                                         *)
(* MembersFollow: an event that nobody has handled yet explains every      *)
(* difference between the buttons and the conference.                      *)
(***************************************************************************)
EXTENDS MCWindowLife, SequenceLemmas

\* The types that the argument needs.
UTypeOK == phase \in [Procs -> Phases] /\ db \in Dbs /\ versionInDb \in [Procs -> 0..VERSION]

\* The statements of initialise.
Initialising == {"dropSystem", "createSystem", "insertVersion", "dropTemplates", "createTemplates"}

\* The phases up to the end of the upgrade.
Early == {"database"} \cup Upgrading

\* No process has got past the database, and only the holder of the mutex is at it.
OneEarly == \A p \in Procs :
    /\ phase[p] \in {"new", "gone"} \cup Early
    /\ phase[p] \in Early => mutex = {p}

\* A process that has not been started has not begun.
NotBegun == started \in Nat /\ \A p \in Procs : p > started => phase[p] = "new"

\* A database that says it is new has the new tables, and any other can be upgraded.
Trusty == (UpToDate => db.templates = "new") /\ GetVersion >= 30

\* What the process at the database has done so far.
AtStep(p) ==
    /\ phase[p] \in Upgrading => versionInDb[p] >= 30
    /\ phase[p] = "insertVersion" => db.system
    /\ phase[p] \in {"dropTemplates", "createTemplates"} => db.system /\ db.version = VERSION

\* Until a statement has changed it, the database is to be trusted.
Untouched == \A p \in Procs : phase[p] \notin Upgrading \ {"setVersion", "deleteVersion"}

FreshInv ==
    /\ NotBegun
    /\ OneEarly
    /\ \A p \in Procs : AtStep(p)
    /\ Untouched => Trusty

SettledInv ==
    /\ db.templates = "new"
    /\ UpToDate \/ GetVersion < 30
    /\ \A p \in Procs : phase[p] \notin Initialising
    /\ \A p \in Procs : phase[p] \in Storing => versionInDb[p] < 30

UpgradeInv == UTypeOK /\ (cut \/ first < 30 \/ SettledInv \/ FreshInv)

-----------------------------------------------------------------------------
(* Types, and the steps that leave the upgrade alone.                      *)

LEMMA StatementNames ==
    /\ DOMAIN Statements = Initialising
    /\ Upgrading = Storing \cup Initialising
    /\ Storing \cap Initialising = {}
BY DEF Statements, Initialising, Upgrading, Storing

\* The statements that store the version, and what they can make of the database.
Stores(p) == SetVersion(p) \/ DeleteVersion(p) \/ InsertRow(p)
AtDatabase(p) == CheckVersion(p) \/ ReadFails(p) \/ Stores(p) \/ Execute(p)

LEMMA StoresWhat ==
    ASSUME UTypeOK, NEW p \in Procs, Stores(p)
    PROVE  /\ phase[p] \in Storing
           /\ UNCHANGED <<started, mutex, versionInDb, first, cut>>
           /\ \/ db' = db
              \/ db' = [db EXCEPT !.version = 0] /\ phase[p] # "setVersion"
              \/ db' = [db EXCEPT !.version = VERSION] /\ phase[p] # "deleteVersion"
           /\ \/ phase[p] = "setVersion" /\ Goto(p, "deleteVersion") /\ db' = db
              \/ phase[p] = "deleteVersion" /\ Goto(p, "insertRow")
              \/ phase[p] \in {"setVersion", "insertRow"} /\ Stored(p)
<1> USE DEF Storing, supHistory, Done, Fails, UTypeOK, Dbs
<1>1. CASE SetVersion(p)
  BY <1>1 DEF SetVersion
<1>2. CASE DeleteVersion(p)
  BY <1>2 DEF DeleteVersion
<1>3. CASE InsertRow(p)
  BY <1>3 DEF InsertRow
<1> QED BY <1>1, <1>2, <1>3 DEF Stores

\* Where a process goes.
LEMMA Moves ==
    ASSUME UTypeOK, NEW p \in Procs, NEW next \in Phases, Goto(p, next)
    PROVE  /\ phase' \in [Procs -> Phases]
           /\ phase'[p] = next
           /\ \A q \in Procs \ {p} : phase'[q] = phase[q]
BY DEF UTypeOK, Goto

\* What a statement does, by its name.
LEMMA StatementOf ==
    ASSUME UTypeOK, NEW p \in Procs, Execute(p)
    PROVE  \/ phase[p] = "dropSystem" /\ Goto(p, "createSystem")
              /\ db' = [db EXCEPT !.system = FALSE, !.version = 0]
           \/ phase[p] = "createSystem" /\ Goto(p, "insertVersion")
              /\ db' = [db EXCEPT !.system = TRUE]
           \/ phase[p] = "insertVersion" /\ Goto(p, "dropTemplates")
              /\ db' = [db EXCEPT !.version = VERSION]
           \/ phase[p] = "dropTemplates" /\ Goto(p, "createTemplates")
              /\ db' = [db EXCEPT !.templates = "none"]
           \/ phase[p] = "createTemplates" /\ Goto(p, "client")
              /\ db' = [db EXCEPT !.templates = "new"]
<1>1. phase[p] \in DOMAIN Statements
  BY DEF Execute
<1>2. CASE phase[p] = "dropSystem"
  BY <1>2 DEF Execute, Statements
<1>3. CASE phase[p] = "createSystem"
  <2>1. Statements[phase[p]] = [db |-> [db EXCEPT !.system = TRUE], next |-> "insertVersion"]
    BY <1>3 DEF Statements
  <2>2. db' = [db EXCEPT !.system = TRUE] /\ Goto(p, "insertVersion")
    BY <2>1 DEF Execute
  <2> QED BY <1>3, <2>2
<1>4. CASE phase[p] = "insertVersion"
  <2>1. Statements[phase[p]] = [db |-> [db EXCEPT !.version = VERSION], next |-> "dropTemplates"]
    BY <1>4 DEF Statements
  <2>2. db' = [db EXCEPT !.version = VERSION] /\ Goto(p, "dropTemplates")
    BY <2>1 DEF Execute
  <2> QED BY <1>4, <2>2
<1>5. CASE phase[p] = "dropTemplates"
  BY <1>5 DEF Execute, Statements
<1>6. CASE phase[p] = "createTemplates"
  BY <1>6 DEF Execute, Statements
<1> QED BY <1>1, <1>2, <1>3, <1>4, <1>5, <1>6, StatementNames DEF Initialising

\* A step of any other kind reads and writes no database, and brings no process into an
\* upgrade.
Calm ==
    /\ UNCHANGED <<db, versionInDb, first>>
    /\ \A q \in Procs : phase'[q] \in Upgrading => phase'[q] = phase[q]

LEMMA CalmSteps ==
    ASSUME UTypeOK, [SupNext]_supVars,
           ~ \E p \in Procs : AtDatabase(p)
    PROVE  Calm /\ phase' \in [Procs -> Phases]
<1> USE DEF Calm, UTypeOK, Goto, End, Phases, Upgrading, Storing, Building, Running, supHistory
<1>1. CASE Start
  BY <1>1 DEF Start
<1>2. CASE BrokerChanges
  BY <1>2 DEF BrokerChanges
<1>3. ASSUME NEW p \in Procs, Answer(p) \/ OpenDbFails(p) \/ StatementFails(p)
      PROVE  Calm /\ phase' \in [Procs -> Phases]
  BY <1>3 DEF Answer, OpenDbFails, StatementFails
<1>4. ASSUME NEW p \in Procs, InitialiseClient(p) \/ Login(p) \/ Build(p) \/ Connect(p)
      PROVE  Calm /\ phase' \in [Procs -> Phases]
  BY <1>4 DEF InitialiseClient, Login, Build, Connect
<1>5. ASSUME NEW p \in Procs, ConnectionLost(p) \/ AdapterEvent(p)
      PROVE  Calm /\ phase' \in [Procs -> Phases]
  BY <1>5 DEF ConnectionLost, AdapterEvent
<1>6. ASSUME NEW p \in Procs, TakeError(p) \/ TimerFindsNoBroker(p)
      PROVE  Calm /\ phase' \in [Procs -> Phases]
  BY <1>6 DEF TakeError, TimerFindsNoBroker, StopOnError
<1>7. ASSUME NEW p \in Procs, Close(p) \/ Exit(p) \/ Killed(p)
      PROVE  Calm /\ phase' \in [Procs -> Phases]
  BY <1>7 DEF Close, Exit, Killed
<1>8. CASE UNCHANGED supVars
  BY <1>8 DEF supVars
<1> QED BY <1>1, <1>2, <1>3, <1>4, <1>5, <1>6, <1>7, <1>8 DEF SupNext, AtDatabase, Stores

LEMMA DbUpdates ==
    ASSUME NEW d \in Dbs
    PROVE  /\ [d EXCEPT !.system = FALSE, !.version = 0] \in Dbs
           /\ [d EXCEPT !.system = TRUE] \in Dbs
           /\ [d EXCEPT !.version = VERSION] \in Dbs
           /\ [d EXCEPT !.templates = "none"] \in Dbs
           /\ [d EXCEPT !.templates = "new"] \in Dbs
<1>1. 0 \in 0..VERSION /\ VERSION \in 0..VERSION
  BY SupAssumption DEF SupAssumption
<1>2. [d EXCEPT !.system = FALSE, !.version = 0] \in Dbs
  BY <1>1 DEF Dbs
<1>3. [d EXCEPT !.version = VERSION] \in Dbs
  BY <1>1 DEF Dbs
<1> QED BY <1>2, <1>3 DEF Dbs

LEMMA UTypeStep ==
    ASSUME UTypeOK, [SupNext]_supVars
    PROVE  UTypeOK'
<1>1. ASSUME NEW p \in Procs, CheckVersion(p) \/ ReadFails(p) PROVE UTypeOK'
  <2>1. GetVersion \in 0..VERSION /\ 0 \in 0..VERSION
    BY SupAssumption DEF SupAssumption, GetVersion, UTypeOK, Dbs
  <2> QED BY <1>1, <2>1 DEF CheckVersion, ReadFails, Goto, UTypeOK, Phases, Upgrading, Storing
<1>2. ASSUME NEW p \in Procs, Stores(p) PROVE UTypeOK'
  <2>1. db' \in Dbs
    BY <1>2, StoresWhat, SupAssumption DEF SupAssumption, UTypeOK, Dbs
  <2>2. phase' \in [Procs -> Phases]
    BY <1>2, StoresWhat DEF Stored, Goto, UTypeOK, Phases, Upgrading, Storing
  <2> QED BY <1>2, <2>1, <2>2, StoresWhat DEF UTypeOK
<1>3. ASSUME NEW p \in Procs, Execute(p) PROVE UTypeOK'
  <2>1. db' \in Dbs
    BY <1>3, StatementOf, DbUpdates DEF UTypeOK
  <2>2. phase' \in [Procs -> Phases]
    BY <1>3, StatementOf DEF Goto, UTypeOK, Phases, Upgrading
  <2> QED BY <1>3, <2>1, <2>2 DEF Execute, supHistory, UTypeOK
<1>4. CASE ~ \E p \in Procs : AtDatabase(p)
  BY <1>4, CalmSteps DEF Calm, UTypeOK
<1> QED BY <1>1, <1>2, <1>3, <1>4 DEF AtDatabase

\* What has been cut short stays so, and what was there first.
LEMMA CutStays ==
    ASSUME [SupNext]_supVars
    PROVE  (cut => cut') /\ first' = first
<1> USE DEF supHistory
<1>1. CASE \E p \in Procs : CheckVersion(p) \/ Execute(p) \/ StatementFails(p)
  BY <1>1 DEF CheckVersion, Execute, StatementFails
<1>2. CASE \E p \in Procs : Stores(p)
  BY <1>2 DEF Stores, SetVersion, DeleteVersion, InsertRow
<1>3. CASE Start \/ BrokerChanges \/ UNCHANGED supVars
  BY <1>3 DEF Start, BrokerChanges, supVars
<1>4. CASE \E p \in Procs : Answer(p) \/ OpenDbFails(p) \/ InitialiseClient(p) \/ Login(p) \/ Build(p)
  BY <1>4 DEF Answer, OpenDbFails, InitialiseClient, Login, Build
<1>5. CASE \E p \in Procs : Connect(p) \/ ConnectionLost(p) \/ AdapterEvent(p) \/ TakeError(p)
  BY <1>5 DEF Connect, ConnectionLost, AdapterEvent, TakeError
<1>6. CASE \E p \in Procs : TimerFindsNoBroker(p) \/ Close(p) \/ Exit(p)
  BY <1>6 DEF TimerFindsNoBroker, Close, Exit
<1>7. ASSUME NEW p \in Procs, ReadFails(p) PROVE (cut => cut') /\ first' = first
  BY <1>7, Zenon DEF ReadFails
<1>8. ASSUME NEW p \in Procs, Killed(p) PROVE (cut => cut') /\ first' = first
  BY <1>8, Zenon DEF Killed
<1> QED BY <1>1, <1>2, <1>3, <1>4, <1>5, <1>6, <1>7, <1>8 DEF SupNext, Stores

-----------------------------------------------------------------------------
(* The stages.                                                             *)

LEMMA SettledStep ==
    ASSUME UTypeOK, SettledInv, [SupNext]_supVars
    PROVE  SettledInv'
<1> USE DEF SettledInv, UpToDate, GetVersion
<1>1. ASSUME NEW p \in Procs, CheckVersion(p) \/ ReadFails(p) PROVE SettledInv'
  <2>1. UNCHANGED db /\ \A q \in Procs \ {p} : phase'[q] = phase[q] /\ versionInDb'[q] = versionInDb[q]
    BY <1>1 DEF CheckVersion, ReadFails, Goto, UTypeOK
  <2>2. phase'[p] = "client" \/ (phase'[p] = "setVersion" /\ versionInDb'[p] < 30)
    BY <1>1 DEF CheckVersion, ReadFails, Goto, UTypeOK
  <2> QED BY <2>1, <2>2 DEF Storing, Initialising
<1>2. ASSUME NEW p \in Procs, Stores(p) PROVE SettledInv'
  \* the version read is below 30, so that no statement of initialise follows
  <2>1. /\ phase[p] \in Storing /\ versionInDb[p] < 30 /\ UNCHANGED versionInDb
    BY <1>2, StoresWhat
  <2>2. /\ \A q \in Procs \ {p} : phase'[q] = phase[q]
        /\ phase'[p] \in Storing \cup {"client"}
    BY <1>2, <2>1, StoresWhat DEF Stored, Goto, UTypeOK, Storing
  <2>3. db'.templates = "new" /\ (UpToDate' \/ GetVersion' < 30)
    BY <1>2, StoresWhat, SupAssumption DEF UTypeOK, Dbs, SupAssumption
  <2> QED BY <2>1, <2>2, <2>3 DEF Storing, Initialising
<1>3. ASSUME NEW p \in Procs, Execute(p) PROVE SettledInv'
  BY <1>3, StatementNames DEF Execute
<1>4. CASE ~ \E p \in Procs : AtDatabase(p)
  <2>1. Calm
    BY <1>4, CalmSteps
  <2> QED BY <2>1, StatementNames DEF Calm
<1> QED BY <1>1, <1>2, <1>3, <1>4 DEF AtDatabase

\* A process at the database is alone there, with the mutex.
LEMMA AloneAtDatabase ==
    ASSUME OneEarly, NEW p \in Procs, phase[p] \in Early
    PROVE  mutex = {p} /\ \A q \in Procs \ {p} : phase[q] \in {"new", "gone"}
BY DEF OneEarly

\* Before anyone has got past the database, a step is one of these.
LEMMA FreshSteps ==
    ASSUME UTypeOK, OneEarly, [SupNext]_supVars
    PROVE  \/ Start
           \/ UNCHANGED <<started, phase, mutex, db, versionInDb>>
           \/ \E p \in Procs : OpenDbFails(p) \/ AtDatabase(p) \/ StatementFails(p) \/ Killed(p)
<1> USE DEF OneEarly, Early, Upgrading, Storing, Running, supHistory
<1>1. CASE BrokerChanges
  BY <1>1 DEF BrokerChanges
<1>2. ASSUME NEW p \in Procs, ConnectionLost(p) \/ AdapterEvent(p)
      PROVE  UNCHANGED <<started, phase, mutex, db, versionInDb>>
  BY <1>2 DEF ConnectionLost, AdapterEvent
<1>3. ASSUME NEW p \in Procs,
             \/ Answer(p) \/ InitialiseClient(p) \/ Login(p) \/ Build(p) \/ Connect(p)
             \/ TakeError(p) \/ TimerFindsNoBroker(p) \/ Close(p) \/ Exit(p)
      PROVE  FALSE
  BY <1>3 DEF Answer, InitialiseClient, Login, Build, Connect, TakeError, TimerFindsNoBroker,
              Close, Exit
<1>4. CASE UNCHANGED supVars
  BY <1>4 DEF supVars
<1> QED BY <1>1, <1>2, <1>3, <1>4 DEF SupNext, AtDatabase, Stores

LEMMA StillNotBegun ==
    ASSUME NotBegun, NEW p \in Procs, phase[p] # "new", UNCHANGED started,
           \A q \in Procs \ {p} : phase'[q] = phase[q]
    PROVE  NotBegun'
BY DEF NotBegun

\* The process at the database ends, and leaves a database that may be trusted.
LEMMA FreshEnd ==
    ASSUME UTypeOK, FreshInv, NEW p \in Procs, phase[p] \notin {"new", "gone"}, End(p),
           phase[p] \notin {"insertRow"} \cup DOMAIN Statements,
           UNCHANGED <<started, db, versionInDb>>
    PROVE  FreshInv'
<1>1. phase[p] \in {"database", "setVersion", "deleteVersion"}
  BY StatementNames DEF FreshInv, OneEarly, Early, Upgrading, Storing
<1>2. phase'[p] = "gone" /\ \A q \in Procs \ {p} : phase'[q] = phase[q] /\ phase[q] \in {"new", "gone"}
  BY <1>1, Moves, AloneAtDatabase DEF End, FreshInv, Early, Upgrading, Storing, Phases
<1>3. OneEarly' /\ \A q \in Procs : AtStep(q)'
  BY <1>2 DEF OneEarly, Early, Upgrading, Storing, AtStep
<1>4. Untouched
  BY <1>1, <1>2 DEF Untouched, Upgrading, Storing
<1>5. Trusty'
  BY <1>4 DEF FreshInv, Trusty, UpToDate, GetVersion
<1> QED BY <1>1, <1>2, <1>3, <1>5, StillNotBegun DEF FreshInv

LEMMA FreshStart ==
    ASSUME UTypeOK, FreshInv, Start
    PROVE  FreshInv'
<1> USE DEF Start, Goto, End, UTypeOK, FreshInv, OneEarly, Early, Upgrading, Storing, AtStep
<1>1. UNCHANGED <<db, versionInDb>>
  BY DEF supHistory
<1>2. OneEarly'
  OBVIOUS
<1>3. \A p \in Procs : AtStep(p)'
  BY <1>1
<1>4. Trusty => Trusty'
  BY <1>1 DEF Trusty, UpToDate, GetVersion
<1>5. NotBegun' /\ \A q \in Procs : phase[q] \in Upgrading => phase'[q] = phase[q]
  <2>1. CASE started' \in Procs
    <3>1. \A q \in Procs \ {started'} : phase'[q] = phase[q]
      OBVIOUS
    <3>2. phase[started'] = "new"
      BY <2>1 DEF NotBegun
    <3> QED BY <3>1, <3>2 DEF NotBegun, Procs
  <2>2. CASE started' \notin Procs
    <3>1. phase' = phase
      BY <2>2
    <3> QED BY <3>1 DEF NotBegun, Procs
  <2> QED BY <2>1, <2>2
<1>6. Untouched' => Untouched
  BY <1>5 DEF Untouched
<1> QED BY <1>2, <1>3, <1>4, <1>5, <1>6

LEMMA FreshCheck ==
    ASSUME UTypeOK, FreshInv, NEW p \in Procs, CheckVersion(p)
    PROVE  SettledInv' \/ FreshInv'
<1>1. \A q \in Procs \ {p} : phase[q] \in {"new", "gone"} /\ phase'[q] = phase[q]
  BY AloneAtDatabase DEF CheckVersion, Goto, FreshInv, Early, UTypeOK
<1>2. Trusty /\ UNCHANGED db /\ mutex' = {p}
  BY <1>1, AloneAtDatabase DEF CheckVersion, FreshInv, Untouched, Upgrading, Storing, Early
<1>3. CASE UpToDate
  <2>1. phase'[p] = "client"
    BY <1>3 DEF CheckVersion, Goto, UTypeOK
  <2>2. SettledInv'
    BY <1>1, <1>2, <1>3, <2>1 DEF SettledInv, Trusty, UpToDate, GetVersion, Storing, Initialising
  <2> QED BY <2>2
<1>4. CASE ~UpToDate
  <2>1. phase'[p] = "setVersion" /\ versionInDb'[p] = GetVersion
    BY <1>4 DEF CheckVersion, Goto, UTypeOK
  <2>2. OneEarly' /\ \A q \in Procs : AtStep(q)'
    BY <1>1, <1>2, <2>1 DEF OneEarly, AtStep, Early, Upgrading, Storing, Trusty
  <2>3. Trusty'
    BY <1>2 DEF Trusty, UpToDate, GetVersion
  <2>4. NotBegun'
    BY <1>1, StillNotBegun DEF CheckVersion, FreshInv
  <2> QED BY <2>2, <2>3, <2>4 DEF FreshInv
<1> QED BY <1>3, <1>4

\* The version is not read: a version that could be upgraded will not be, and any other is
\* that of the program.
LEMMA FreshUnread ==
    ASSUME UTypeOK, FreshInv, NEW p \in Procs, ReadFails(p)
    PROVE  cut' \/ SettledInv'
<1>1. \A q \in Procs \ {p} : phase[q] \in {"new", "gone"} /\ phase'[q] = phase[q]
  BY AloneAtDatabase DEF ReadFails, Goto, FreshInv, Early, UTypeOK
<1>2. phase'[p] = "setVersion" /\ versionInDb'[p] = 0 /\ UNCHANGED db
  BY DEF ReadFails, Goto, UTypeOK
<1>3. Trusty
  BY <1>1 DEF ReadFails, FreshInv, Untouched, Upgrading, Storing
<1>4. CASE UpToDate
  BY <1>1, <1>2, <1>3, <1>4
  DEF SettledInv, Trusty, UpToDate, GetVersion, Storing, Initialising
<1>5. CASE ~UpToDate
  BY <1>3, <1>5 DEF ReadFails, Trusty, Upgradable
<1> QED BY <1>4, <1>5

LEMMA FreshSet ==
    ASSUME UTypeOK, FreshInv, NEW p \in Procs, Stores(p)
    PROVE  FreshInv'
<1>1. phase[p] \in Storing /\ UNCHANGED <<started, mutex, versionInDb>>
  BY StoresWhat
<1>2. mutex' = {p} /\ versionInDb'[p] >= 30
  BY <1>1, AloneAtDatabase DEF FreshInv, AtStep, Early, Upgrading
<1>3. \A q \in Procs \ {p} : phase[q] \in {"new", "gone"} /\ phase'[q] = phase[q]
  BY <1>1, StoresWhat, AloneAtDatabase DEF Stored, Goto, FreshInv, Early, UTypeOK, Upgrading
<1>4. \/ phase'[p] = "deleteVersion" /\ phase[p] = "setVersion" /\ db' = db
      \/ phase'[p] \in {"insertRow", "dropSystem"}
  BY <1>1, <1>2, StoresWhat DEF Stored, Goto, UTypeOK
<1>5. OneEarly' /\ \A q \in Procs : AtStep(q)'
  BY <1>2, <1>3, <1>4 DEF OneEarly, AtStep, Early, Upgrading, Storing
<1>6. NotBegun'
  BY <1>1, <1>3, StillNotBegun DEF FreshInv, Storing
<1>7. Untouched' => Trusty'
  <2>1. CASE phase'[p] = "deleteVersion" /\ phase[p] = "setVersion" /\ db' = db
    <3>1. Untouched
      BY <1>3, <2>1 DEF Untouched, Upgrading, Storing
    <3> QED BY <2>1, <3>1 DEF FreshInv, Trusty, UpToDate, GetVersion
  <2>2. CASE phase'[p] \in {"insertRow", "dropSystem"}
    BY <2>2 DEF Untouched, Upgrading, Storing
  <2> QED BY <1>4, <2>1, <2>2
<1> QED BY <1>5, <1>6, <1>7 DEF FreshInv

LEMMA FreshExecute ==
    ASSUME UTypeOK, FreshInv, NEW p \in Procs, Execute(p)
    PROVE  SettledInv' \/ FreshInv'
<1>1. phase[p] \in Initialising /\ phase[p] \in Upgrading \ {"setVersion", "deleteVersion"}
  BY StatementNames DEF Execute, Initialising
<1>2. \A q \in Procs \ {p} : phase[q] \in {"new", "gone"} /\ phase'[q] = phase[q]
  BY <1>1, StatementOf, AloneAtDatabase DEF Goto, FreshInv, Early, UTypeOK
<1>3. mutex' = {p} /\ versionInDb' = versionInDb /\ versionInDb[p] >= 30 /\ AtStep(p)
  BY <1>1, AloneAtDatabase DEF Execute, supHistory, FreshInv, AtStep, Early
<1>4. CASE phase[p] = "createTemplates"
  <2>1. phase'[p] = "client" /\ db' = [db EXCEPT !.templates = "new"]
    BY <1>4, StatementOf DEF Goto, UTypeOK
  <2>2. UpToDate' /\ db'.templates = "new"
    BY <1>3, <1>4, <2>1, SupAssumption
    DEF AtStep, UpToDate, GetVersion, UTypeOK, Dbs, SupAssumption
  <2>3. SettledInv'
    BY <1>2, <2>1, <2>2 DEF SettledInv, Storing, Initialising
  <2> QED BY <2>3
<1>5. CASE phase[p] # "createTemplates"
  <2>1. phase'[p] \in Initialising
    BY <1>5, StatementOf DEF Goto, UTypeOK, Initialising
  <2>2. phase'[p] = "insertVersion" => db'.system
    BY <1>5, StatementOf DEF Goto, UTypeOK, Dbs
  <2>3. phase'[p] \in {"dropTemplates", "createTemplates"} => db'.system /\ db'.version = VERSION
    BY <1>3, <1>5, StatementOf DEF Goto, UTypeOK, Dbs, AtStep
  <2>4. OneEarly' /\ \A q \in Procs : AtStep(q)'
    BY <1>2, <1>3, <2>1, <2>2, <2>3 DEF OneEarly, AtStep, Early, Upgrading, Storing, Initialising
  <2>5. ~Untouched'
    BY <2>1 DEF Untouched, Upgrading, Storing, Initialising
  <2>6. NotBegun'
    BY <1>1, <1>2, StillNotBegun DEF Execute, FreshInv, Initialising
  <2> QED BY <2>4, <2>5, <2>6 DEF FreshInv
<1> QED BY <1>4, <1>5

LEMMA FreshStep ==
    ASSUME UTypeOK, FreshInv, [SupNext]_supVars
    PROVE  cut' \/ SettledInv' \/ FreshInv'
<1>1. CASE Start
  BY <1>1, FreshStart
<1>2. CASE UNCHANGED <<started, phase, mutex, db, versionInDb>>
  BY <1>2 DEF FreshInv, NotBegun, OneEarly, AtStep, Untouched, Trusty, UpToDate, GetVersion
<1>3. ASSUME NEW p \in Procs, OpenDbFails(p) PROVE FreshInv'
  BY <1>3, FreshEnd, StatementNames DEF OpenDbFails, supHistory, Initialising
<1>4. ASSUME NEW p \in Procs, CheckVersion(p) PROVE SettledInv' \/ FreshInv'
  BY <1>4, FreshCheck
<1>5. ASSUME NEW p \in Procs, ReadFails(p) PROVE cut' \/ SettledInv'
  BY <1>5, FreshUnread
<1>6. ASSUME NEW p \in Procs, Stores(p) PROVE FreshInv'
  BY <1>6, FreshSet
<1>7. ASSUME NEW p \in Procs, Execute(p) PROVE SettledInv' \/ FreshInv'
  BY <1>7, FreshExecute
<1>8. ASSUME NEW p \in Procs, StatementFails(p) PROVE cut'
  BY <1>8 DEF StatementFails
<1>9. ASSUME NEW p \in Procs, Killed(p) PROVE cut' \/ FreshInv'
  <2>1. CASE phase[p] \in {"insertRow"} \cup DOMAIN Statements
    <3>1. versionInDb[p] >= 30
      BY <2>1, StatementNames DEF FreshInv, AtStep, Storing
    <3> QED BY <1>9, <2>1, <3>1 DEF Killed
  <2>2. CASE phase[p] \notin {"insertRow"} \cup DOMAIN Statements
    BY <1>9, <2>2, FreshEnd DEF Killed
  <2> QED BY <2>1, <2>2
<1> QED BY <1>1, <1>2, <1>3, <1>4, <1>5, <1>6, <1>7, <1>8, <1>9, FreshSteps DEF FreshInv, AtDatabase

-----------------------------------------------------------------------------
(* The upgrade in every behaviour.                                         *)

LEMMA UpgradeInitially == SupInit => UpgradeInv
<1> SUFFICES ASSUME SupInit PROVE UpgradeInv
  OBVIOUS
<1>1. UTypeOK
  BY DbAssumption, SupAssumption DEF SupInit, UTypeOK, Dbs, Phases, SupAssumption
<1>2. CASE first >= 30
  <2>1. Trusty
    BY <1>2, DbAssumption, SupAssumption
    DEF SupInit, Trusty, UpToDate, GetVersion, SupAssumption, Dbs
  <2>2. FreshInv
    BY <2>1 DEF SupInit, FreshInv, NotBegun, OneEarly, Early, Upgrading, Storing, AtStep
  <2> QED BY <1>1, <2>2 DEF UpgradeInv
<1>3. first \in Int
  BY DbAssumption DEF SupInit, GetVersion, Dbs
<1> QED BY <1>1, <1>2, <1>3 DEF UpgradeInv

LEMMA UpgradeStep == UpgradeInv /\ [SupNext]_supVars => UpgradeInv'
BY UTypeStep, CutStays, SettledStep, FreshStep DEF UpgradeInv

LEMMA UpgradeWholeInInv == UpgradeInv => UpgradeWhole
BY DEF UpgradeInv, UpgradeWhole, SettledInv, FreshInv, OneEarly, Early, Upgrading, Storing,
       Building, Running

\* The inductive invariant of the upgrade holds in every state of every behaviour.
THEOREM UpgradeInvariance == SupSpec => []UpgradeInv
BY UpgradeInitially, UpgradeStep, PTL DEF SupSpec

\* A process past the local database works on the tables of its own version, unless the
\* database was first found below version 30, or a fault has hit the reading of a version to
\* be upgraded, a statement of the upgrade, or the process in it (main.cpp:92-101,
\* dbwrapper.cpp:69-118): however many processes are started and killed meanwhile, and
\* whatever else fails.
THEOREM UpgradeIsWhole == SupSpec => []UpgradeWhole
BY UpgradeWholeInInv, UpgradeInvariance, PTL

-----------------------------------------------------------------------------
(* Types: what bounds the signals in an event loop is the room there was.  *)

\* The signals in event loops are finitely many, those of one process among them.
LEMMA FinitelyPosted ==
    ASSUME posted \in [Procs -> 0..MaxStarts]
    PROVE  Pending \in Nat /\ \A p \in Procs : posted[p] <= Pending
<1> DEFINE All == UNION {{p} \X (1..posted[p]) : p \in Procs}
           Some(p) == {p} \X (1..posted[p])
           Grid == Procs \X (1..MaxStarts)
<1>1. MaxStarts \in Nat
  BY SupAssumption DEF SupAssumption
<1>2. IsFiniteSet(Grid)
  <2>1. IsFiniteSet(Procs) /\ IsFiniteSet(1..MaxStarts)
    BY <1>1, FS_Interval DEF Procs
  <2> QED BY <2>1, FS_Product
<1>3. All \subseteq Grid
  <2>1. ASSUME NEW p \in Procs PROVE Some(p) \subseteq Grid
    <3>1. 1..posted[p] \subseteq 1..MaxStarts
      BY <1>1
    <3> QED BY <3>1
  <2> QED BY <2>1
<1>4. IsFiniteSet(All)
  BY <1>2, <1>3, FS_Subset
<1>5. Pending = Cardinality(All)
  BY DEF Pending
<1> HIDE DEF All
<1>6. Pending \in Nat
  BY <1>4, <1>5, FS_CardinalityType
<1>7. ASSUME NEW p \in Procs PROVE posted[p] <= Pending
  <2>1. posted[p] \in Nat
    OBVIOUS
  <2>2. IsFiniteSet(1..posted[p]) /\ Cardinality(1..posted[p]) = posted[p]
    BY <2>1, FS_Interval
  <2>3. IsFiniteSet({p}) /\ Cardinality({p}) = 1
    BY FS_Singleton
  <2>4. Cardinality(Some(p)) = 1 * posted[p]
    BY <2>2, <2>3, FS_Product
  <2>5. Some(p) \subseteq All
    BY DEF All
  <2>6. Cardinality(Some(p)) <= Cardinality(All)
    BY <1>4, <2>5, FS_Subset
  <2> QED BY <1>5, <2>1, <2>4, <2>6
<1> QED BY <1>6, <1>7

LEMMA SupInitially == SupInit => SupTypeOK
<1> SUFFICES ASSUME SupInit PROVE SupTypeOK
  OBVIOUS
<1>1. db \in Dbs /\ first \in 0..VERSION /\ versionInDb \in [Procs -> 0..VERSION]
  BY DbAssumption, SupAssumption DEF SupInit, Dbs, GetVersion, SupAssumption
<1>2. started \in 0..MaxStarts /\ faults \in 0..MaxFaults
  BY SupAssumption DEF SupInit, SupAssumption
<1>3. phase \in [Procs -> Phases] /\ posted \in [Procs -> 0..MaxStarts]
  BY SupAssumption DEF SupInit, SupAssumption, Phases
<1>4. monitor \in [Procs -> {"none", "up", "down"}]
  BY DEF SupInit
<1> QED BY <1>1, <1>2, <1>3, <1>4 DEF SupInit, SupTypeOK

\* The variables outside the upgrade, step by step.
Rest == /\ started \in 0..MaxStarts
        /\ flagged \subseteq Procs /\ mutex \subseteq Procs /\ unheard \subseteq Procs
        /\ monitor \in [Procs -> {"none", "up", "down"}]
        /\ posted \in [Procs -> 0..MaxStarts]
        /\ broker \in BOOLEAN /\ cut \in BOOLEAN /\ first \in 0..VERSION
        /\ faults \in 0..MaxFaults

LEMMA RestStep ==
    ASSUME Rest, [SupNext]_supVars
    PROVE  Rest'
<1> USE DEF Rest, supHistory
<1>1. MaxStarts \in Nat /\ MaxFaults \in Nat
  BY SupAssumption DEF SupAssumption
<1>2. Pending \in Nat /\ \A p \in Procs : posted[p] <= Pending
  BY FinitelyPosted
<1>3. CASE Start
  <2>1. started' \in 0..MaxStarts /\ started' \in Procs
    BY <1>1, <1>2, <1>3 DEF Start, Room, Procs
  <2> QED BY <1>3, <2>1 DEF Start
<1>4. CASE BrokerChanges
  BY <1>4 DEF BrokerChanges
<1>5. ASSUME NEW p \in Procs, Answer(p) \/ CheckVersion(p) \/ Execute(p) \/ Build(p) \/ Connect(p) \/ Close(p)
      PROVE  Rest'
  BY <1>5 DEF Answer, CheckVersion, Execute, Build, Connect, Close, End
<1>6. ASSUME NEW p \in Procs, OpenDbFails(p) \/ ReadFails(p) \/ Stores(p) \/ StatementFails(p)
      PROVE  Rest'
  <2>1. faults' \in 0..MaxFaults
    BY <1>1, <1>6 DEF OpenDbFails, ReadFails, Stores, SetVersion, DeleteVersion, InsertRow, Done,
                     Fails, Fault, StatementFails
  <2>2. CASE OpenDbFails(p) \/ ReadFails(p) \/ StatementFails(p)
    BY <2>1, <2>2 DEF OpenDbFails, ReadFails, StatementFails, End
  <2>3. CASE Stores(p)
    BY <2>1, <2>3 DEF Stores, SetVersion, DeleteVersion, InsertRow
  <2> QED BY <1>6, <2>2, <2>3
<1>7. ASSUME NEW p \in Procs, InitialiseClient(p) \/ Login(p) PROVE Rest'
  BY <1>7 DEF InitialiseClient, Login, End
<1>8. ASSUME NEW p \in Procs, ConnectionLost(p) \/ AdapterEvent(p) PROVE Rest'
  <2>1. posted' \in [Procs -> 0..MaxStarts]
    <3>1. Room
      BY <1>8 DEF ConnectionLost, MonitorEnds, AdapterEvent
    <3>2. posted[p] + 1 \in 0..MaxStarts
      <4>1. posted[p] \in Nat /\ started \in Nat /\ posted[p] <= Pending
        BY <1>2
      <4> QED BY <1>1, <1>2, <3>1, <4>1 DEF Room
    <3>3. posted' = posted \/ posted' = [posted EXCEPT ![p] = posted[p] + 1]
      BY <1>8 DEF ConnectionLost, MonitorEnds, AdapterEvent, Post
    <3> QED BY <3>2, <3>3
  <2> QED BY <1>8, <2>1 DEF ConnectionLost, MonitorEnds, AdapterEvent
<1>9. ASSUME NEW p \in Procs, TakeError(p) \/ TimerFindsNoBroker(p) PROVE Rest'
  <2>1. started' \in 0..MaxStarts /\ started' \in Procs /\ flagged' = flagged \cup {started'}
    BY <1>1, <1>9 DEF TakeError, TimerFindsNoBroker, StopOnError, Procs
  <2>2. posted' \in [Procs -> 0..MaxStarts]
    <3>1. CASE TakeError(p)
      <4>1. posted[p] - 1 \in 0..MaxStarts /\ posted' = [posted EXCEPT ![p] = posted[p] - 1]
        BY <1>1, <3>1 DEF TakeError
      <4> QED BY <4>1
    <3>2. CASE TimerFindsNoBroker(p)
      BY <3>2 DEF TimerFindsNoBroker
    <3> QED BY <1>9, <3>1, <3>2
  <2> QED BY <1>9, <2>1, <2>2 DEF TakeError, TimerFindsNoBroker
<1>10. ASSUME NEW p \in Procs, Exit(p) PROVE Rest'
  BY <1>1, <1>10 DEF Exit, End
<1>11. ASSUME NEW p \in Procs, Killed(p) PROVE Rest'
  <2>1. faults' \in 0..MaxFaults
    BY <1>1, <1>11 DEF Killed, Fault
  <2>2. cut' \in BOOLEAN
    BY <1>11 DEF Killed
  <2> QED BY <1>1, <1>11, <2>1, <2>2 DEF Killed, End
<1>12. CASE UNCHANGED supVars
  BY <1>12 DEF supVars
<1> QED BY <1>3, <1>4, <1>5, <1>6, <1>7, <1>8, <1>9, <1>10, <1>11, <1>12 DEF SupNext, Stores

LEMMA SupTypeStep ==
    ASSUME SupTypeOK, [SupNext]_supVars
    PROVE  SupTypeOK'
<1>1. UTypeOK /\ Rest
  BY DEF SupTypeOK, UTypeOK, Rest
<1>2. UTypeOK' /\ Rest'
  BY <1>1, UTypeStep, RestStep
<1> QED BY <1>2 DEF SupTypeOK, UTypeOK, Rest

\* Supervision keeps its types: no event loop holds more errors than there is room for.
THEOREM SupTypeCorrect == SupSpec => []SupTypeOK
BY SupInitially, SupTypeStep, PTL DEF SupSpec

-----------------------------------------------------------------------------
(* CallQueue.                                                              *)

\* Events of both queues, and the names of the two events of a caller.
JoinOf(c) == [event |-> "join", caller |-> c]
LeaveOf(c) == [event |-> "leave", caller |-> c]
Waits(c) == c \in Range(waiting)
Listed(c) == c \in Range(mQueueListModel)
Coming(e) == e \in Range(queueEvents) \/ e \in Range(queueSignals)

QueueTyping ==
    /\ waiting \in Seq(Callers)
    /\ queueEvents \in Seq(QueueEvent)
    /\ queueSignals \in Seq(QueueEvent)
    /\ mQueueListModel \in Seq(Callers)
    /\ dialogSignals \in Seq(Callers)
    /\ m_verInfo \in Seq(Callers)
    /\ zone \in {"none", "built", "blind"}
    /\ windowHears \in BOOLEAN
    /\ deciding \in Callers \cup {"none"}
    /\ asking \in {"queue", "operators", "details"}
    /\ extList \cup operatorsMap \subseteq Callers
    /\ dialogShown \in BOOLEAN
    /\ boxOpen \in BOOLEAN
    /\ queueLosses \in 0..MaxQueueLosses
    /\ before \cup unannounced \cup misled \cup handled \subseteq Callers
    /\ closed \in BOOLEAN

\* Nothing is there twice, and a caller leaves after joining.
Once ==
    /\ IsInjective(waiting) /\ IsInjective(mQueueListModel)
    /\ IsInjective(queueEvents) /\ IsInjective(queueSignals)
    /\ Range(queueEvents) \cap Range(queueSignals) = {}
    /\ \A c \in Callers :
          /\ ~Precedes(queueEvents, LeaveOf(c), JoinOf(c))
          /\ ~Precedes(queueSignals, LeaveOf(c), JoinOf(c))
          /\ ~(LeaveOf(c) \in Range(queueSignals) /\ JoinOf(c) \in Range(queueEvents))

\* Where a caller who waits is on the way to the list, and one who does not.
OnTheWay == \A c \in Callers :
    /\ Waits(c) => ~Coming(LeaveOf(c))
    /\ Waits(c) /\ c \notin before => Coming(JoinOf(c)) \/ Listed(c)
    /\ c \in before => ~Coming(JoinOf(c)) /\ ~Listed(c)
    /\ ~Waits(c) /\ (Coming(JoinOf(c)) \/ Listed(c)) => Coming(LeaveOf(c))
    /\ ~(Coming(JoinOf(c)) /\ Listed(c))

Deaf == zone # "built" => queueSignals = <<>> /\ mQueueListModel = <<>>

\* The order is kept along the way: rows, then signals, then events.
Ahead(a, b) ==
    \/ Precedes(mQueueListModel, b, a)
    \/ Listed(a) /\ Coming(JoinOf(b))
    \/ Precedes(queueSignals, JoinOf(a), JoinOf(b))
    \/ JoinOf(a) \in Range(queueSignals) /\ JoinOf(b) \in Range(queueEvents)
    \/ Precedes(queueEvents, JoinOf(a), JoinOf(b))

OrderKept == \A a, b \in Callers :
    Precedes(waiting, a, b) /\ a \notin before /\ b \notin before => Ahead(a, b)

\* An emergency call is on its way to the dialog.
ToAnnounce ==
    (Range(waiting) \cap Emergency) \ (OwnChannels \cup unannounced \cup misled \cup handled)
Announced == \A c \in ToAnnounce :
    \/ JoinOf(c) \in Range(queueEvents)
    \/ deciding = c
    \/ c \in Range(dialogSignals)
    \/ c \in Range(m_verInfo)

DialogSeen == m_verInfo # <<>> => dialogShown \/ closed

\* A decision that has got its own replies so far knows the operators, or has them to ask for.
WellDecided ==
    /\ deciding = "none" => asking = "queue"
    /\ asking # "details" => extList = {} /\ operatorsMap = {}
    /\ asking = "details" /\ deciding \notin misled => extList \cup operatorsMap = OwnChannels

\* An operator's own call is not announced.
OwnQuiet == \A c \in OwnChannels \ misled :
    c \notin Range(dialogSignals) /\ c \notin Range(m_verInfo)

QueueInv == /\ QueueTyping /\ Once /\ OnTheWay /\ Deaf /\ OrderKept
            /\ Announced /\ DialogSeen /\ WellDecided /\ OwnQuiet

-----------------------------------------------------------------------------
(* The events, and what is known of a sequence.                            *)

LEMMA TwoEvents ==
    ASSUME NEW c, NEW d
    PROVE  /\ JoinOf(c) = JoinOf(d) <=> c = d
           /\ LeaveOf(c) = LeaveOf(d) <=> c = d
           /\ JoinOf(c) # LeaveOf(d)
           /\ JoinOf(c).event = "join" /\ JoinOf(c).caller = c
           /\ LeaveOf(c).event = "leave" /\ LeaveOf(c).caller = c
           /\ c \in Callers => JoinOf(c) \in QueueEvent /\ LeaveOf(c) \in QueueEvent
<1>1. JoinOf(c) = JoinOf(d) <=> c = d
  <2>1. JoinOf(c).caller = c /\ JoinOf(d).caller = d
    BY DEF JoinOf
  <2> QED BY <2>1
<1>2. LeaveOf(c) = LeaveOf(d) <=> c = d
  <2>1. LeaveOf(c).caller = c /\ LeaveOf(d).caller = d
    BY DEF LeaveOf
  <2> QED BY <2>1
<1>3. JoinOf(c) # LeaveOf(d)
  <2>1. JoinOf(c).event = "join" /\ LeaveOf(d).event = "leave"
    BY DEF JoinOf, LeaveOf
  <2> QED BY <2>1
<1> QED BY <1>1, <1>2, <1>3 DEF JoinOf, LeaveOf, QueueEvent

LEMMA EventIs ==
    ASSUME NEW e \in QueueEvent
    PROVE  e.caller \in Callers /\ (e = JoinOf(e.caller) \/ e = LeaveOf(e.caller))
<1>1. e.caller \in Callers /\ e.event \in {"join", "leave"}
  BY DEF QueueEvent
<1>2. e = [event |-> e.event, caller |-> e.caller]
  BY DEF QueueEvent
<1> QED BY <1>1, <1>2 DEF JoinOf, LeaveOf

\* A caller who joins is nowhere yet.
LEMMA NewCaller ==
    ASSUME QueueTyping, NEW c \in Callers, c \notin Known
    PROVE  /\ ~Waits(c) /\ ~Listed(c) /\ c \notin before
           /\ JoinOf(c) \notin Range(queueEvents) /\ LeaveOf(c) \notin Range(queueEvents)
           /\ JoinOf(c) \notin Range(queueSignals) /\ LeaveOf(c) \notin Range(queueSignals)
<1>1. \A e \in Range(queueEvents) : e.caller # c
  BY DEF Known, Calls, Range
<1>2. \A e \in Range(queueSignals) : e.caller # c
  BY DEF Known, Calls, Range
<1>3. ~Waits(c) /\ ~Listed(c) /\ c \notin before
  BY DEF Known, Waits, Listed
<1> QED BY <1>1, <1>2, <1>3, TwoEvents

LEMMA QueueInitially == QueueInit => QueueInv
<1> SUFFICES ASSUME QueueInit PROVE QueueInv
  OBVIOUS
<1> USE EmptyHasNothing DEF QueueInit
<1>1. QueueTyping
  <2>1. queueLosses \in 0..MaxQueueLosses
    BY QueueAssumption DEF QueueAssumption
  <2>2. <<>> \in Seq(Callers) /\ <<>> \in Seq(QueueEvent)
    OBVIOUS
  <2>3. zone \in {"none", "built", "blind"} /\ windowHears \in BOOLEAN /\ dialogShown \in BOOLEAN
        /\ boxOpen \in BOOLEAN /\ closed \in BOOLEAN
        /\ before \cup unannounced \cup misled \cup handled \subseteq Callers
        /\ deciding \in Callers \cup {"none"} /\ asking \in {"queue", "operators", "details"}
        /\ extList \cup operatorsMap \subseteq Callers
    OBVIOUS
  <2> QED BY <2>1, <2>2, <2>3 DEF QueueTyping
<1>2. Once
  BY DEF Once
<1>3. OnTheWay
  BY DEF OnTheWay, Waits, Coming, Listed
<1>4. OrderKept
  BY DEF OrderKept
<1>5. Deaf /\ Announced /\ DialogSeen /\ WellDecided /\ OwnQuiet
  BY DEF Deaf, Announced, ToAnnounce, DialogSeen, WellDecided, OwnQuiet
<1> QED BY <1>1, <1>2, <1>3, <1>4, <1>5 DEF QueueInv

-----------------------------------------------------------------------------
(* The exchange.                                                           *)

LEMMA JoinsKeeps ==
    ASSUME QueueInv, NEW c \in Callers, Joins(c)
    PROVE  QueueInv'
<1> USE DEF QueueInv, Joins, queueList, decision, emergencyDialog, queueHistory
<1>1. /\ waiting' \in Seq(Callers) /\ Range(waiting') = Range(waiting) \cup {c}
      /\ IsInjective(waiting')
      /\ \A a, b : Precedes(waiting', a, b) <=>
            Precedes(waiting, a, b) \/ (a \in Range(waiting) /\ b = c)
  BY AppendOrder, NewCaller DEF QueueTyping, Once, Waits
<1>2. queueEvents' = Append(queueEvents, JoinOf(c)) /\ JoinOf(c) \in QueueEvent
  BY TwoEvents DEF JoinOf
<1>3. /\ queueEvents' \in Seq(QueueEvent)
      /\ Range(queueEvents') = Range(queueEvents) \cup {JoinOf(c)}
      /\ IsInjective(queueEvents')
      /\ \A a, b : Precedes(queueEvents', a, b) <=>
            Precedes(queueEvents, a, b) \/ (a \in Range(queueEvents) /\ b = JoinOf(c))
  BY <1>2, AppendOrder, NewCaller DEF QueueTyping, Once
<1>4. QueueTyping'
  BY <1>1, <1>3 DEF QueueTyping
<1>5. Once'
  BY <1>1, <1>3, NewCaller, TwoEvents DEF Once
<1>6. OnTheWay'
  BY <1>1, <1>3, NewCaller, TwoEvents DEF OnTheWay, Waits, Coming, Listed
<1>7. OrderKept'
  <2> SUFFICES ASSUME NEW a \in Callers, NEW b \in Callers,
                      Precedes(waiting', a, b), a \notin before, b \notin before
               PROVE  Ahead(a, b)'
    BY DEF OrderKept
  <2>1. CASE Precedes(waiting, a, b)
    BY <2>1, <1>3 DEF OrderKept, Ahead, Coming, Listed
  <2>2. CASE a \in Range(waiting) /\ b = c
    <3>1. Coming(JoinOf(a)) \/ Listed(a)
      BY <2>2 DEF OnTheWay, Waits
    <3> QED BY <2>2, <3>1, <1>3 DEF Ahead, Coming, Listed
  <2> QED BY <2>1, <2>2, <1>1
<1>8. Deaf' /\ DialogSeen' /\ WellDecided' /\ OwnQuiet'
  BY DEF Deaf, DialogSeen, WellDecided, OwnQuiet
<1>9. Announced'
  BY <1>1, <1>3 DEF Announced, ToAnnounce
<1> QED BY <1>4, <1>5, <1>6, <1>7, <1>8, <1>9

LEMMA LeavesKeeps ==
    ASSUME QueueInv, NEW c \in Callers, Leaves(c)
    PROVE  QueueInv'
<1> USE DEF QueueInv, Leaves, queueList, decision, emergencyDialog, queueHistory
<1>1. /\ waiting' \in Seq(Callers) /\ Range(waiting') = Range(waiting) \ {c}
      /\ IsInjective(waiting')
      /\ \A a, b : Precedes(waiting', a, b) <=> Precedes(waiting, a, b) /\ a # c /\ b # c
  BY RemoveOrder DEF QueueTyping, Once
<1>2. queueEvents' = Append(queueEvents, LeaveOf(c)) /\ LeaveOf(c) \in QueueEvent
  BY TwoEvents DEF LeaveOf
<1>3. ~Coming(LeaveOf(c))
  BY DEF OnTheWay, Waits
<1>4. /\ queueEvents' \in Seq(QueueEvent)
      /\ Range(queueEvents') = Range(queueEvents) \cup {LeaveOf(c)}
      /\ IsInjective(queueEvents')
      /\ \A a, b : Precedes(queueEvents', a, b) <=>
            Precedes(queueEvents, a, b) \/ (a \in Range(queueEvents) /\ b = LeaveOf(c))
  BY <1>2, <1>3, AppendOrder DEF QueueTyping, Once, Coming
<1>5. QueueTyping'
  BY <1>1, <1>4 DEF QueueTyping
<1>6. Once'
  BY <1>1, <1>3, <1>4, TwoEvents DEF Once, Coming
<1>7. OnTheWay'
  BY <1>1, <1>3, <1>4, TwoEvents DEF OnTheWay, Waits, Coming, Listed
<1>8. OrderKept'
  <2> SUFFICES ASSUME NEW a \in Callers, NEW b \in Callers,
                      Precedes(waiting', a, b), a \notin before, b \notin before
               PROVE  Ahead(a, b)'
    BY DEF OrderKept
  <2>1. Ahead(a, b)
    BY <1>1 DEF OrderKept
  <2> QED BY <2>1, <1>4 DEF Ahead, Coming, Listed
<1>9. Deaf' /\ DialogSeen' /\ WellDecided' /\ OwnQuiet'
  BY DEF Deaf, DialogSeen, WellDecided, OwnQuiet
<1>10. Announced'
  BY <1>1, <1>4 DEF Announced, ToAnnounce
<1> QED BY <1>5, <1>6, <1>7, <1>8, <1>9, <1>10

LEMMA CallEndsTyped ==
    ASSUME QueueTyping, NEW end \in Endings, QueueCallEnds(end)
    PROVE  queueLosses' \in 0..MaxQueueLosses
BY QueueAssumption DEF QueueTyping, QueueCallEnds, QueueAssumption

LEMMA BuildKeeps ==
    ASSUME QueueInv, (\E end \in Endings : BuildQueueZone(end)) \/ RegisterWindow
    PROVE  QueueInv'
<1> USE DEF QueueInv, queueList, decision, emergencyDialog, queueHistory
<1>1. /\ UNCHANGED <<waiting, queueEvents, queueList, decision, emergencyDialog, queueHistory>>
      /\ zone # "built" \/ UNCHANGED zone
      /\ zone' \in {"none", "built", "blind"} /\ windowHears' \in BOOLEAN
      /\ queueLosses' \in 0..MaxQueueLosses
  <2>1. CASE RegisterWindow
    BY <2>1 DEF RegisterWindow, QueueTyping
  <2>2. ASSUME NEW end \in Endings, BuildQueueZone(end)
        PROVE  /\ UNCHANGED <<waiting, queueEvents, windowHears, queueList, decision,
                              emergencyDialog, queueHistory>>
               /\ zone = "none" /\ zone' \in {"built", "blind"}
               /\ queueLosses' \in 0..MaxQueueLosses
    BY <2>2, CallEndsTyped DEF BuildQueueZone, QueueTyping
  <2> QED BY <2>1, <2>2 DEF QueueTyping
<1>2. QueueTyping'
  BY <1>1 DEF QueueTyping
<1>3. Once' /\ OnTheWay' /\ OrderKept'
  BY <1>1 DEF Once, OnTheWay, Waits, Coming, Listed, OrderKept, Ahead
<1>4. Deaf' /\ DialogSeen' /\ Announced' /\ WellDecided' /\ OwnQuiet'
  BY <1>1 DEF Deaf, DialogSeen, Announced, ToAnnounce, WellDecided, OwnQuiet
<1> QED BY <1>2, <1>3, <1>4

-----------------------------------------------------------------------------
(* The monitor thread.                                                     *)

LEMMA HearsKeeps ==
    ASSUME QueueInv, MonitorHears
    PROVE  QueueInv'
<1> DEFINE e == Head(queueEvents)
           c == e.caller
<1> USE DEF QueueInv, MonitorHears, queueList, decision, emergencyDialog, queueHistory
<1>1. /\ e \in QueueEvent /\ queueEvents' \in Seq(QueueEvent)
      /\ Range(queueEvents) = Range(queueEvents') \cup {e}
      /\ IsInjective(queueEvents') /\ e \notin Range(queueEvents')
      /\ \A a, b : Precedes(queueEvents, a, b) <=>
            Precedes(queueEvents', a, b) \/ (a = e /\ b \in Range(queueEvents'))
  BY TailOrder DEF QueueTyping, Once
<1>2. c \in Callers /\ (e = JoinOf(c) \/ e = LeaveOf(c))
  BY <1>1, EventIs
<1>3. e.event = "join" <=> e = JoinOf(c)
  BY <1>2, TwoEvents
<1>4. zone = "built" =>
          /\ queueSignals' \in Seq(QueueEvent)
          /\ Range(queueSignals') = Range(queueSignals) \cup {e}
          /\ IsInjective(queueSignals')
          /\ \A a, b : Precedes(queueSignals', a, b) <=>
                Precedes(queueSignals, a, b) \/ (a \in Range(queueSignals) /\ b = e)
  BY <1>1, AppendOrder DEF QueueTyping, Once
<1>5. zone # "built" => queueSignals' = <<>> /\ queueSignals = <<>> /\ mQueueListModel = <<>>
  BY DEF Deaf
<1>6. /\ UNCHANGED <<waiting, zone, windowHears, mQueueListModel, asking, extList, operatorsMap,
                     dialogSignals, m_verInfo, dialogShown, boxOpen, queueLosses, misled, handled,
                     closed>>
      /\ deciding' = IF e = JoinOf(c) /\ c \in Emergency /\ windowHears THEN c ELSE "none"
      /\ before' = IF e = JoinOf(c) /\ zone # "built" THEN before \cup {c} ELSE before
      /\ unannounced' = IF e = JoinOf(c) /\ ~windowHears THEN unannounced \cup {c}
                        ELSE unannounced
      /\ deciding = "none"
  BY <1>3
<1> HIDE DEF e, c, MonitorHears
<1>7. QueueTyping'
  BY <1>1, <1>2, <1>4, <1>5, <1>6 DEF QueueTyping
<1>8. Once'
  BY <1>1, <1>2, <1>4, <1>5, <1>6, TwoEvents, EmptyHasNothing DEF Once
<1>9. OnTheWay'
  <2>1. CASE zone = "built"
    BY <2>1, <1>1, <1>4, <1>6 DEF OnTheWay, Waits, Coming, Listed
  <2>2. CASE zone # "built"
    BY <2>2, <1>1, <1>2, <1>5, <1>6, TwoEvents, EmptyHasNothing
    DEF OnTheWay, Waits, Coming, Listed, Once
  <2> QED BY <2>1, <2>2
<1>10. OrderKept'
  <2> SUFFICES ASSUME NEW a \in Callers, NEW b \in Callers,
                      Precedes(waiting, a, b), a \notin before', b \notin before'
               PROVE  Ahead(a, b)'
    BY <1>6 DEF OrderKept
  <2>1. Ahead(a, b)
    BY <1>6 DEF OrderKept
  <2>2. CASE zone = "built"
    BY <2>1, <2>2, <1>1, <1>4, <1>6 DEF Ahead, Coming, Listed
  <2>3. CASE zone # "built"
    <3>1. Precedes(queueEvents, JoinOf(a), JoinOf(b))
      BY <2>1, <2>3, <1>5, EmptyHasNothing DEF Ahead, Listed
    <3>2. JoinOf(a) # e
      BY <2>3, <1>2, <1>6, TwoEvents
    <3> QED BY <3>1, <3>2, <1>1 DEF Ahead
  <2> QED BY <2>2, <2>3
<1>11. Deaf' /\ DialogSeen' /\ WellDecided' /\ OwnQuiet'
  BY <1>5, <1>6 DEF Deaf, DialogSeen, WellDecided, OwnQuiet
<1>12. Announced'
  <2> SUFFICES ASSUME NEW d \in ToAnnounce' PROVE
                      \/ JoinOf(d) \in Range(queueEvents') \/ deciding' = d
                      \/ d \in Range(dialogSignals) \/ d \in Range(m_verInfo)
    BY <1>6 DEF Announced
  <2>1. d \in ToAnnounce /\ d \in Callers /\ d # "none" /\ d \in Emergency /\ d \notin unannounced'
    BY <1>6, QueueAssumption DEF ToAnnounce, QueueAssumption
  <2>2. CASE JoinOf(d) = e
    BY <2>1, <2>2, <1>2, <1>6, TwoEvents
  <2>3. CASE JoinOf(d) # e
    BY <2>1, <2>3, <1>1, <1>6 DEF Announced
  <2> QED BY <2>2, <2>3
<1> QED BY <1>7, <1>8, <1>9, <1>10, <1>11, <1>12

\* A call on behalf of a decision touches nothing else.
LEMMA DecisionRest ==
    ASSUME QueueInv, NEW end \in Endings, DecisionCallEnds(end), deciding \in Callers
    PROVE  /\ Once' /\ OnTheWay' /\ OrderKept' /\ Deaf' /\ DialogSeen' /\ OwnQuiet'
           /\ queueLosses' \in 0..MaxQueueLosses
           /\ misled \subseteq misled' /\ misled' \subseteq Callers
           /\ deciding \notin misled' => end = "own" /\ deciding \notin misled
           /\ \A c \in ToAnnounce' : c \in ToAnnounce
<1> USE DEF QueueInv, DecisionCallEnds, queueList, emergencyDialog
<1>1. Once' /\ OnTheWay' /\ OrderKept' /\ Deaf'
  BY DEF Once, OnTheWay, Waits, Coming, Listed, OrderKept, Ahead, Deaf
<1>2. DialogSeen' /\ OwnQuiet'
  BY DEF DialogSeen, OwnQuiet
<1> QED BY <1>1, <1>2, CallEndsTyped DEF QueueTyping, ToAnnounce

LEMMA AskKeeps ==
    ASSUME QueueInv, NEW end \in Endings, AskQueue(end) \/ AskOperators(end) \/ AskDetail(end)
    PROVE  QueueInv'
<1> USE DEF QueueInv
<1>1. DecisionCallEnds(end) /\ deciding \in Callers
  BY DEF AskQueue, AskOperators, AskDetail, QueueTyping
<1>2. /\ extList' \cup operatorsMap' \subseteq Callers
      /\ deciding' \in {deciding, "none"} /\ asking' \in {"queue", "operators", "details"}
      /\ deciding' = "none" => deciding \in misled'
      /\ WellDecided'
  <2>1. CASE AskQueue(end)
    BY <1>1, <2>1, DecisionRest, QueueAssumption
    DEF AskQueue, KnowsQueue, DecisionCallEnds, WellDecided, QueueTyping, QueueAssumption
  <2>2. CASE AskOperators(end)
    BY <1>1, <2>2, DecisionRest, QueueAssumption
    DEF AskOperators, Extens, WellDecided, QueueTyping, QueueAssumption
  <2>3. CASE AskDetail(end)
    <3>1. PICK c \in extList : \E found \in Detailed(end, c) :
              extList' = extList \ {c} /\ operatorsMap' = operatorsMap \cup found
      BY <2>3 DEF AskDetail
    <3>2. c \in Callers /\ UNCHANGED <<deciding, asking>> /\ asking = "details" /\ deciding # "none"
      BY <2>3, <3>1 DEF AskDetail, QueueTyping
    <3>3. \A found \in Detailed(end, c) : found \subseteq Callers /\ (end = "own" => found = {c})
      BY <3>2 DEF Detailed
    <3>4. WellDecided'
      <4>1. CASE deciding \in misled'
        BY <3>2, <4>1 DEF WellDecided
      <4>2. CASE deciding \notin misled'
        BY <1>1, <3>1, <3>2, <3>3, <4>2, DecisionRest DEF WellDecided
      <4> QED BY <4>1, <4>2
    <3> QED BY <1>1, <3>1, <3>2, <3>3, <3>4 DEF QueueTyping
  <2> QED BY <2>1, <2>2, <2>3
<1>3. QueueTyping'
  BY <1>1, <1>2, DecisionRest DEF QueueTyping, DecisionCallEnds, queueList, emergencyDialog
<1>4. Announced'
  BY <1>1, <1>2, DecisionRest
  DEF Announced, ToAnnounce, DecisionCallEnds, queueList, emergencyDialog
<1> QED BY <1>1, <1>2, <1>3, <1>4, DecisionRest

LEMMA AnnounceKeeps ==
    ASSUME QueueInv, Announce
    PROVE  QueueInv'
<1> USE DEF QueueInv, Announce, queueList, queueHistory
<1>1. deciding \in Callers
  BY DEF QueueTyping
<1>2. /\ Append(dialogSignals, deciding) \in Seq(Callers)
      /\ Range(Append(dialogSignals, deciding)) = Range(dialogSignals) \cup {deciding}
  BY <1>1, AppendOrder DEF QueueTyping
<1>3. deciding \notin misled => operatorsMap = OwnChannels
  BY DEF WellDecided
<1>4. QueueTyping'
  BY <1>1, <1>2 DEF QueueTyping
<1>5. Once' /\ OnTheWay' /\ OrderKept'
  BY DEF Once, OnTheWay, Waits, Coming, Listed, OrderKept, Ahead
<1>6. Deaf' /\ DialogSeen' /\ WellDecided'
  BY DEF Deaf, DialogSeen, WellDecided
<1>7. Announced' /\ OwnQuiet'
  BY <1>2, <1>3 DEF Announced, ToAnnounce, OwnQuiet
<1> QED BY <1>4, <1>5, <1>6, <1>7

-----------------------------------------------------------------------------
(* The GUI thread.                                                         *)

LEMMA SignalKeeps ==
    ASSUME QueueInv, TakeQueueSignal
    PROVE  QueueInv'
<1> DEFINE e == Head(queueSignals)
           c == e.caller
<1> USE DEF QueueInv, TakeQueueSignal, decision, emergencyDialog, queueHistory
<1>1. /\ e \in QueueEvent /\ queueSignals' \in Seq(QueueEvent)
      /\ Range(queueSignals) = Range(queueSignals') \cup {e}
      /\ IsInjective(queueSignals') /\ e \notin Range(queueSignals')
      /\ \A a, b : Precedes(queueSignals, a, b) <=>
            Precedes(queueSignals', a, b) \/ (a = e /\ b \in Range(queueSignals'))
  BY TailOrder DEF QueueTyping, Once
<1>2. c \in Callers /\ (e = JoinOf(c) \/ e = LeaveOf(c)) /\ Coming(e)
  BY <1>1, EventIs DEF Coming
<1>3. mQueueListModel' = IF e = JoinOf(c) THEN <<c>> \o mQueueListModel
                         ELSE RemoveFirst(mQueueListModel, c)
  BY <1>2, TwoEvents DEF QueueEventSlot
<1>4. UNCHANGED <<waiting, queueEvents, zone, windowHears, deciding, asking, extList, operatorsMap,
                  dialogSignals, m_verInfo, dialogShown, boxOpen, queueLosses, before, unannounced,
                  misled, handled, closed>>
  OBVIOUS
<1>5. zone = "built"
  BY DEF Deaf
<1> HIDE DEF e, c, TakeQueueSignal
<1>6. CASE e = JoinOf(c)
  <2>1. ~Listed(c)
    BY <1>2, <1>6 DEF OnTheWay
  <2>2. /\ mQueueListModel' \in Seq(Callers)
        /\ Range(mQueueListModel') = Range(mQueueListModel) \cup {c}
        /\ IsInjective(mQueueListModel')
        /\ \A a, b : Precedes(mQueueListModel', a, b) <=>
              Precedes(mQueueListModel, a, b) \/ (a = c /\ b \in Range(mQueueListModel))
    BY <1>2, <1>3, <1>6, <2>1, PushOrder DEF QueueTyping, Once, Listed
  <2>3. QueueTyping'
    BY <1>1, <1>4, <2>2 DEF QueueTyping
  <2>4. Once'
    BY <1>1, <1>4, <2>2 DEF Once
  <2>5. JoinOf(c) \notin Range(queueEvents)
    BY <1>1, <1>6 DEF Once
  <2>6. OnTheWay'
    BY <1>1, <1>2, <1>4, <1>6, <2>2, <2>5, TwoEvents DEF OnTheWay, Waits, Coming, Listed
  <2>7. OrderKept'
    <3> SUFFICES ASSUME NEW a \in Callers, NEW b \in Callers,
                        Precedes(waiting, a, b), a \notin before, b \notin before
                 PROVE  Ahead(a, b)'
      BY <1>4 DEF OrderKept
    <3>1. Ahead(a, b)
      BY DEF OrderKept
    <3> QED BY <3>1, <1>1, <1>2, <1>4, <1>6, <2>2, TwoEvents DEF Ahead, Coming, Listed
  <2> QED BY <1>4, <1>5, <2>3, <2>4, <2>6, <2>7
      DEF Deaf, DialogSeen, Announced, ToAnnounce, WellDecided, OwnQuiet
<1>7. CASE e = LeaveOf(c)
  <2>1. e # JoinOf(c)
    BY <1>7, TwoEvents
  <2>2. /\ mQueueListModel' \in Seq(Callers)
        /\ Range(mQueueListModel') = Range(mQueueListModel) \ {c}
        /\ IsInjective(mQueueListModel')
        /\ \A a, b : Precedes(mQueueListModel', a, b) <=>
              Precedes(mQueueListModel, a, b) /\ a # c /\ b # c
    BY <1>2, <1>3, <2>1, RemoveOrder DEF QueueTyping, Once
  <2>3. QueueTyping'
    BY <1>1, <1>4, <2>2 DEF QueueTyping
  <2>4. Once'
    BY <1>1, <1>4, <2>2 DEF Once
  <2>5. ~Waits(c)
    BY <1>2, <1>7 DEF OnTheWay
  <2>6. JoinOf(c) \notin Range(queueEvents') /\ JoinOf(c) \notin Range(queueSignals')
    BY <1>1, <1>2, <1>4, <1>7 DEF Once
  <2>7. OnTheWay'
    BY <1>1, <1>2, <1>4, <1>7, <2>2, <2>5, <2>6, TwoEvents DEF OnTheWay, Waits, Coming, Listed
  <2>8. OrderKept'
    <3> SUFFICES ASSUME NEW a \in Callers, NEW b \in Callers,
                        Precedes(waiting, a, b), a \notin before, b \notin before
                 PROVE  Ahead(a, b)'
      BY <1>4 DEF OrderKept
    <3>1. Ahead(a, b)
      BY DEF OrderKept
    <3>2. a # c /\ b # c
      BY <2>5, PrecedesIn DEF Waits
    <3> QED BY <3>1, <3>2, <1>1, <1>4, <1>7, <2>2, TwoEvents DEF Ahead, Coming, Listed
  <2> QED BY <1>4, <1>5, <2>3, <2>4, <2>7, <2>8
      DEF Deaf, DialogSeen, Announced, ToAnnounce, WellDecided, OwnQuiet
<1> QED BY <1>2, <1>6, <1>7

DialogActions ==
    \/ AddEmergencyCallInfo \/ (\E c \in Callers : ClickEmergency(c))
    \/ CloseEmergency \/ BoxAnswered \/ RejectEmergency

\* The dialog touches neither the list nor the decision.
LEMMA DialogRest ==
    ASSUME QueueInv, DialogActions
    PROVE  /\ UNCHANGED <<waiting, queueEvents, zone, windowHears, queueSignals, mQueueListModel,
                          deciding, asking, extList, operatorsMap, queueLosses, before,
                          unannounced, misled>>
           /\ Once' /\ OnTheWay' /\ OrderKept' /\ Deaf' /\ WellDecided'
<1>1. UNCHANGED <<waiting, queueEvents, zone, windowHears, queueSignals, mQueueListModel,
                  deciding, asking, extList, operatorsMap, queueLosses, before, unannounced,
                  misled>>
  BY DEF DialogActions, AddEmergencyCallInfo, ClickEmergency, CloseEmergency, BoxAnswered,
         RejectEmergency, Hides, queueList, decision, queueHistory
<1> QED BY <1>1 DEF QueueInv, Once, OnTheWay, Waits, Coming, Listed, OrderKept, Ahead, Deaf,
                    WellDecided

LEMMA DialogKeeps ==
    ASSUME QueueInv, DialogActions
    PROVE  QueueInv'
<1> USE DEF QueueInv
<1>1. CASE AddEmergencyCallInfo
  <2>1. /\ dialogSignals' \in Seq(Callers) /\ m_verInfo' \in Seq(Callers)
        /\ Range(dialogSignals) = Range(dialogSignals') \cup {Head(dialogSignals)}
        /\ Range(m_verInfo') = Range(m_verInfo) \cup {Head(dialogSignals)}
    BY <1>1, TailOrder, AppendOrder DEF AddEmergencyCallInfo, QueueTyping
  <2>2. QueueTyping' /\ DialogSeen'
    BY <1>1, <2>1, DialogRest DEF AddEmergencyCallInfo, QueueTyping, DialogSeen
  <2>3. Announced' /\ OwnQuiet'
    BY <1>1, <2>1, DialogRest DEF AddEmergencyCallInfo, Announced, ToAnnounce, OwnQuiet
  <2> QED BY <2>2, <2>3, DialogRest
<1>2. ASSUME NEW c \in Callers, ClickEmergency(c) PROVE QueueInv'
  <2>1. /\ m_verInfo' \in Seq(Callers) /\ Range(m_verInfo) \ {c} \subseteq Range(m_verInfo')
        /\ Range(m_verInfo') \subseteq Range(m_verInfo)
    <3>1. m_verInfo \in Seq(Callers) /\ m_verInfo' = RemoveFirst(m_verInfo, c)
      BY <1>2 DEF ClickEmergency, QueueTyping
    <3> QED BY <3>1, RemoveOrder
  <2>2. QueueTyping' /\ DialogSeen'
    BY <1>2, <2>1, DialogRest DEF ClickEmergency, QueueTyping, DialogSeen
  <2>3. Announced' /\ OwnQuiet'
    BY <1>2, <2>1, DialogRest DEF ClickEmergency, Announced, ToAnnounce, OwnQuiet
  <2> QED BY <2>2, <2>3, DialogRest
<1>3. CASE CloseEmergency \/ BoxAnswered \/ RejectEmergency
  <2>1. /\ UNCHANGED <<dialogSignals, m_verInfo, handled>>
        /\ dialogShown' \in BOOLEAN /\ boxOpen' \in BOOLEAN /\ closed' \in BOOLEAN
        /\ (dialogShown' = dialogShown /\ closed' = closed) \/ closed'
    BY <1>3 DEF CloseEmergency, BoxAnswered, RejectEmergency, Hides, queueHistory, QueueTyping
  <2>2. QueueTyping' /\ DialogSeen' /\ Announced' /\ OwnQuiet'
    BY <2>1, DialogRest DEF QueueTyping, DialogSeen, Announced, ToAnnounce, OwnQuiet
  <2> QED BY <2>2, DialogRest
<1> QED BY <1>1, <1>2, <1>3 DEF DialogActions

-----------------------------------------------------------------------------

LEMMA QueueStep == QueueInv /\ [QueueNext]_queueVars => QueueInv'
<1> SUFFICES ASSUME QueueInv, [QueueNext]_queueVars PROVE QueueInv'
  OBVIOUS
<1>1. CASE UNCHANGED queueVars
  BY <1>1 DEF queueVars, queueList, decision, emergencyDialog, queueHistory, QueueInv,
              QueueTyping, Once, OnTheWay, Waits, Coming, Listed, OrderKept, Ahead, Deaf,
              Announced, ToAnnounce, DialogSeen, WellDecided, OwnQuiet
<1> QED BY <1>1, JoinsKeeps, LeavesKeeps, BuildKeeps, HearsKeeps, AskKeeps, AnnounceKeeps,
           SignalKeeps, DialogKeeps DEF QueueNext, DialogActions

\* The inductive invariant of the queue holds in every state of every behaviour.
THEOREM QueueInvariance == QueueSpec => []QueueInv
BY QueueInitially, QueueStep, PTL DEF QueueSpec

LEMMA CallsShownInInv == QueueInv => CallsShown
<1>1. ASSUME QueueInv, queueEvents = <<>>, queueSignals = <<>>, dialogSignals = <<>>, deciding = "none"
      PROVE  /\ Range(mQueueListModel) = Range(waiting) \ before
             /\ \A c, d \in Range(mQueueListModel) :
                    Precedes(mQueueListModel, c, d) <=> Precedes(waiting, d, c)
             /\ \A c \in ToAnnounce : c \in Range(m_verInfo) /\ (dialogShown \/ closed)
             /\ \A c \in OwnChannels \ misled : c \notin Range(m_verInfo)
  <2> USE DEF QueueInv
  <2>1. \A e : ~Coming(e)
    BY <1>1, EmptyHasNothing DEF Coming
  <2>2. Range(mQueueListModel) \subseteq Callers /\ Range(waiting) \subseteq Callers
    BY <1>1, RangeIn DEF QueueTyping
  <2>3. Range(mQueueListModel) = Range(waiting) \ before
    BY <1>1, <2>1, <2>2 DEF OnTheWay, Waits, Listed
  <2>4. ASSUME NEW c \in Range(mQueueListModel), NEW d \in Range(mQueueListModel),
               Precedes(waiting, d, c)
        PROVE  Precedes(mQueueListModel, c, d)
    BY <1>1, <2>1, <2>2, <2>3, <2>4, EmptyHasNothing DEF OrderKept, Ahead, Coming
  <2>5. ASSUME NEW c \in Range(mQueueListModel), NEW d \in Range(mQueueListModel),
               Precedes(mQueueListModel, c, d)
        PROVE  Precedes(waiting, d, c)
    <3>1. c # d /\ ~Precedes(mQueueListModel, d, c)
      <4>1. \A i, j \in DOMAIN mQueueListModel :
                mQueueListModel[i] = mQueueListModel[j] => i = j
        BY <1>1 DEF Once, IsInjective
      <4>2. DOMAIN mQueueListModel \subseteq Nat
        BY <1>1 DEF QueueTyping
      <4> QED BY <2>5, <4>1, <4>2 DEF Precedes
    <3>2. PICK i, j \in DOMAIN waiting : waiting[i] = c /\ waiting[j] = d
      BY <2>3 DEF Range
    <3>3. i \in Nat /\ j \in Nat /\ i # j
      BY <1>1, <3>1, <3>2 DEF QueueTyping
    <3>4. Precedes(waiting, c, d) \/ Precedes(waiting, d, c)
      BY <3>2, <3>3 DEF Precedes
    <3> QED BY <2>4, <3>1, <3>4
  <2>6. ASSUME NEW c \in ToAnnounce PROVE c \in Range(m_verInfo) /\ (dialogShown \/ closed)
    <3>1. c # "none"
      BY <2>6, QueueAssumption DEF ToAnnounce, QueueAssumption
    <3>2. c \in Range(m_verInfo)
      BY <1>1, <2>6, <3>1, EmptyHasNothing DEF Announced
    <3>3. m_verInfo # <<>>
      BY <3>2, EmptyHasNothing
    <3> QED BY <1>1, <3>2, <3>3 DEF DialogSeen
  <2> QED BY <1>1, <2>3, <2>4, <2>5, <2>6 DEF OwnQuiet
<1> QED BY <1>1 DEF CallsShown, ToAnnounce

\* Once all is handled, the list shows those who wait, the last to come on top, except those
\* who came before the zone was built or did not know its queue; every emergency call has a
\* button, in a dialog that is seen unless it was closed since, except one that came before
\* the window could hear it, one decided about without a reply that was its own, and one that
\* was clicked; and an operator's own call has none, with the same exception for the decision
\* (QueueZone.cpp:16-53, MainWindow.cpp:40-66, dlgemergencycall.cpp:21-105).
THEOREM WaitingCallsShown == QueueSpec => []CallsShown
BY CallsShownInInv, QueueInvariance, PTL DEF QueueSpec

-----------------------------------------------------------------------------
(* MeetMe.                                                                 *)

MeetTyping ==
    /\ conferences \in [Rooms -> [Users -> {"out", "open", "muted"}]]
    /\ meetEvents \in Seq(RoomEvent \cup MuteEvent)
    /\ meetPosted \in Seq(RoomEvent \cup MuteEvent \cup {Gone})
    /\ roomBtns \subseteq Rooms
    /\ mCurrentRoom \in Rooms \cup {"none"}
    /\ mMemberBtns \in Buttons
    /\ reload \in {"idle", "asking", "answered"}
    /\ answer \in Buttons
    /\ happened \in 0..MaxMeetEvents
    /\ lostReplies \in 0..MaxLostReplies
    /\ roomsLost \in BOOLEAN
    /\ membersLost \in BOOLEAN
    /\ muteLost \subseteq Users

\* What an event speaks of.
IsRoom(e, room) == e.kind = "room" /\ e.room = room
IsMute(e, room, u) == e.kind = "mute" /\ e.room = room /\ e.user = u
About(e, room, u) == IsRoom(e, room) \/ IsMute(e, room, u)

\* What a queue says: nothing of a member, nothing of a room, or of a member at last m.
Silent(s, room, u) == \A i \in DOMAIN s : ~About(s[i], room, u)
NoRoomEvent(s, room) == \A i \in DOMAIN s : ~IsRoom(s[i], room)
Says(s, room, u, m) == \E i \in DOMAIN s :
    /\ IsMute(s[i], room, u) /\ s[i].muted = m
    /\ \A j \in DOMAIN s : j > i => ~About(s[j], room, u)

Muted(room, u, m) == conferences[room][u] = IF m THEN "muted" ELSE "open"

\* What is said last of a member is true.
EventsTrue == \A room \in Rooms, u \in Users, m \in BOOLEAN :
    Says(meetEvents, room, u, m) => Muted(room, u, m)

PostedTrue == \A room \in Rooms, u \in Users, m \in BOOLEAN :
    Says(meetPosted, room, u, m) /\ Silent(meetEvents, room, u) => Muted(room, u, m)

\* What is posted to a button finds it.
Addressed == \A i \in DOMAIN meetPosted : meetPosted[i].kind = "mute" =>
    /\ reload = "idle"
    /\ meetPosted[i].room = mCurrentRoom
    /\ meetPosted[i].user \in DOMAIN mMemberBtns

\* There are no buttons while the members are read.
NoneYet == reload # "idle" => mMemberBtns = NoMembers

\* The buttons there are, or that there will be.
Btns == IF reload = "answered" THEN answer ELSE mMemberBtns

Settled == /\ mCurrentRoom # "none" /\ reload # "asking" /\ ~membersLost
           /\ NoRoomEvent(meetEvents, mCurrentRoom) /\ NoRoomEvent(meetPosted, mCurrentRoom)

AllThere == Settled => DOMAIN Btns = In(mCurrentRoom)

MutesShown == Settled => \A u \in In(mCurrentRoom) \ muteLost :
    Silent(meetEvents, mCurrentRoom, u) /\ Silent(meetPosted, mCurrentRoom, u) =>
        Btns[u] = (conferences[mCurrentRoom][u] = "muted")

MeetInv == MeetTyping /\ EventsTrue /\ PostedTrue /\ Addressed /\ NoneYet /\ AllThere /\ MutesShown

-----------------------------------------------------------------------------
(* The events, and what a queue says.                                      *)

LEMMA MeetEventIs ==
    ASSUME NEW e \in RoomEvent \cup MuteEvent
    PROVE  /\ e.room \in Rooms
           /\ e.kind \in {"room", "mute"}
           /\ e.kind = "mute" => e.user \in Users /\ e.muted \in BOOLEAN
           /\ e # Gone /\ Gone.kind = "gone"
<1>1. CASE e \in RoomEvent
  BY <1>1 DEF RoomEvent, Gone
<1>2. CASE e \in MuteEvent
  BY <1>2 DEF MuteEvent, Gone
<1> QED BY <1>1, <1>2

\* What a queue says with one more event.
LEMMA AppendSays ==
    ASSUME NEW S, NEW s \in Seq(S), NEW e \in S, NEW room, NEW u, NEW m
    PROVE  /\ Append(s, e) \in Seq(S)
           /\ Silent(Append(s, e), room, u) <=> Silent(s, room, u) /\ ~About(e, room, u)
           /\ NoRoomEvent(Append(s, e), room) <=> NoRoomEvent(s, room) /\ ~IsRoom(e, room)
           /\ Says(Append(s, e), room, u, m) <=>
                 IF About(e, room, u) THEN IsMute(e, room, u) /\ e.muted = m
                 ELSE Says(s, room, u, m)
<1> DEFINE t == Append(s, e)
<1>1. t \in Seq(S) /\ Len(s) \in Nat /\ DOMAIN s = 1..Len(s) /\ DOMAIN t = 1..(Len(s) + 1)
  OBVIOUS
<1>2. t[Len(s) + 1] = e /\ \A i \in 1..Len(s) : t[i] = s[i]
  OBVIOUS
<1> HIDE DEF t
<1>3. DOMAIN t = DOMAIN s \cup {Len(s) + 1} /\ \A i \in DOMAIN s : i \in Nat /\ i < Len(s) + 1
  BY <1>1
<1>4. Silent(t, room, u) <=> Silent(s, room, u) /\ ~About(e, room, u)
  BY <1>1, <1>2, <1>3 DEF Silent
<1>5. NoRoomEvent(t, room) <=> NoRoomEvent(s, room) /\ ~IsRoom(e, room)
  BY <1>1, <1>2, <1>3 DEF NoRoomEvent
<1>6. ASSUME About(e, room, u) PROVE Says(t, room, u, m) <=> IsMute(e, room, u) /\ e.muted = m
  <2>1. ASSUME Says(t, room, u, m) PROVE IsMute(e, room, u) /\ e.muted = m
    BY <2>1, <1>1, <1>2, <1>3, <1>6 DEF Says
  <2>2. ASSUME IsMute(e, room, u), e.muted = m PROVE Says(t, room, u, m)
    <3>1. \A j \in DOMAIN t : ~(j > Len(s) + 1)
      BY <1>1
    <3> QED BY <2>2, <3>1, <1>2, <1>3 DEF Says
  <2> QED BY <1>6, <2>1, <2>2
<1>7. ASSUME ~About(e, room, u) PROVE Says(t, room, u, m) <=> Says(s, room, u, m)
  <2>1. ASSUME Says(t, room, u, m) PROVE Says(s, room, u, m)
    <3>1. PICK i \in DOMAIN t : /\ IsMute(t[i], room, u) /\ t[i].muted = m
                                /\ \A j \in DOMAIN t : j > i => ~About(t[j], room, u)
      BY <2>1 DEF Says
    <3>2. i \in DOMAIN s
      BY <3>1, <1>2, <1>3, <1>7 DEF About
    <3> QED BY <3>1, <3>2, <1>1, <1>2, <1>3 DEF Says
  <2>2. ASSUME Says(s, room, u, m) PROVE Says(t, room, u, m)
    <3>1. PICK i \in DOMAIN s : /\ IsMute(s[i], room, u) /\ s[i].muted = m
                                /\ \A j \in DOMAIN s : j > i => ~About(s[j], room, u)
      BY <2>2 DEF Says
    <3>2. \A j \in DOMAIN t : j > i => ~About(t[j], room, u)
      BY <3>1, <1>1, <1>2, <1>3, <1>7
    <3> QED BY <3>1, <3>2, <1>1, <1>2, <1>3 DEF Says
  <2> QED BY <1>7, <2>1, <2>2
<1> QED BY <1>1, <1>4, <1>5, <1>6, <1>7 DEF t

\* What a queue says is said by its first event or by the rest.
LEMMA TailSays ==
    ASSUME NEW S, NEW s \in Seq(S), s # <<>>, NEW room, NEW u, NEW m
    PROVE  /\ Head(s) \in S /\ Tail(s) \in Seq(S)
           /\ Silent(s, room, u) <=> Silent(Tail(s), room, u) /\ ~About(Head(s), room, u)
           /\ NoRoomEvent(s, room) <=> NoRoomEvent(Tail(s), room) /\ ~IsRoom(Head(s), room)
           /\ Says(s, room, u, m) <=>
                 \/ Says(Tail(s), room, u, m)
                 \/ /\ IsMute(Head(s), room, u) /\ Head(s).muted = m
                    /\ Silent(Tail(s), room, u)
<1> DEFINE e == Head(s)
           t == Tail(s)
<1>1. /\ e \in S /\ t \in Seq(S) /\ Len(s) \in Nat /\ DOMAIN s = 1..Len(s)
      /\ DOMAIN t = 1..(Len(s) - 1)
  OBVIOUS
<1>2. e = s[1] /\ \A i \in DOMAIN t : t[i] = s[i + 1]
  OBVIOUS
<1>3. Len(s) > 0
  OBVIOUS
<1> HIDE DEF e, t
<1>4. 1 \in DOMAIN s /\ \A i \in DOMAIN t : i \in Nat /\ i > 0 /\ i + 1 \in DOMAIN s
  BY <1>1, <1>3
<1>5. \A i \in DOMAIN s : i = 1 \/ (i > 1 /\ i - 1 \in DOMAIN t /\ t[i - 1] = s[i])
  BY <1>1, <1>2
<1>6. Silent(s, room, u) <=> Silent(t, room, u) /\ ~About(e, room, u)
  BY <1>2, <1>4, <1>5 DEF Silent
<1>7. NoRoomEvent(s, room) <=> NoRoomEvent(t, room) /\ ~IsRoom(e, room)
  BY <1>2, <1>4, <1>5 DEF NoRoomEvent
<1>8. ASSUME Says(s, room, u, m)
      PROVE  Says(t, room, u, m) \/ (IsMute(e, room, u) /\ e.muted = m /\ Silent(t, room, u))
  <2>1. PICK i \in DOMAIN s : /\ IsMute(s[i], room, u) /\ s[i].muted = m
                              /\ \A j \in DOMAIN s : j > i => ~About(s[j], room, u)
    BY <1>8 DEF Says
  <2>2. CASE i = 1
    <3>1. \A j \in DOMAIN t : ~About(t[j], room, u)
      BY <2>1, <2>2, <1>2, <1>4
    <3> QED BY <2>1, <2>2, <3>1, <1>2 DEF Silent
  <2>3. CASE i # 1
    <3>1. i - 1 \in DOMAIN t /\ t[i - 1] = s[i]
      BY <2>3, <1>5
    <3>2. \A j \in DOMAIN t : j > i - 1 => ~About(t[j], room, u)
      BY <2>1, <1>1, <1>2, <1>4
    <3> QED BY <2>1, <3>1, <3>2 DEF Says
  <2> QED BY <2>2, <2>3
<1>9. ASSUME Says(t, room, u, m) PROVE Says(s, room, u, m)
  <2>1. PICK i \in DOMAIN t : /\ IsMute(t[i], room, u) /\ t[i].muted = m
                              /\ \A j \in DOMAIN t : j > i => ~About(t[j], room, u)
    BY <1>9 DEF Says
  <2>2. \A j \in DOMAIN s : j > i + 1 => ~About(s[j], room, u)
    BY <2>1, <1>1, <1>4, <1>5
  <2> QED BY <2>1, <2>2, <1>2, <1>4 DEF Says
<1>10. ASSUME IsMute(e, room, u), e.muted = m, Silent(t, room, u) PROVE Says(s, room, u, m)
  <2>1. \A j \in DOMAIN s : j > 1 => ~About(s[j], room, u)
    BY <1>10, <1>5 DEF Silent
  <2> QED BY <1>10, <2>1, <1>2, <1>4 DEF Says
<1> QED BY <1>1, <1>6, <1>7, <1>8, <1>9, <1>10 DEF e, t

\* What is left of the signals when the buttons go.
Left(posts) == [i \in DOMAIN posts |-> IF posts[i].kind = "mute" THEN Gone ELSE posts[i]]

LEMMA LeftSays ==
    ASSUME NEW posts \in Seq(RoomEvent \cup MuteEvent \cup {Gone}), NEW room
    PROVE  /\ Left(posts) \in Seq(RoomEvent \cup MuteEvent \cup {Gone})
           /\ \A i \in DOMAIN Left(posts) : Left(posts)[i].kind # "mute"
           /\ NoRoomEvent(Left(posts), room) <=> NoRoomEvent(posts, room)
<1> DEFINE T == RoomEvent \cup MuteEvent \cup {Gone}
           n == Len(posts)
<1>1. n \in Nat /\ DOMAIN posts = 1..n /\ \A i \in 1..n : posts[i] \in T
  OBVIOUS
<1>2. \A i \in 1..n : (IF posts[i].kind = "mute" THEN Gone ELSE posts[i]) \in T
  BY <1>1
<1>3. Left(posts) = [i \in 1..n |-> IF posts[i].kind = "mute" THEN Gone ELSE posts[i]]
  BY <1>1 DEF Left
<1> HIDE DEF T, n
<1>4. Left(posts) \in [1..n -> T]
  BY <1>2, <1>3
<1>5. Left(posts) \in Seq(T)
  BY <1>1, <1>4, IsASeq
<1>6. Gone.kind = "gone"
  BY DEF Gone
<1>7. \A i \in 1..n : Left(posts)[i] = IF posts[i].kind = "mute" THEN Gone ELSE posts[i]
  BY <1>3
<1>8. DOMAIN Left(posts) = 1..n
  BY <1>3
<1>9. NoRoomEvent(Left(posts), room) <=> NoRoomEvent(posts, room)
  BY <1>1, <1>6, <1>7, <1>8 DEF NoRoomEvent, IsRoom
<1> QED BY <1>5, <1>6, <1>7, <1>8, <1>9 DEF T

LEMMA NoMuteSays ==
    ASSUME NEW s, \A i \in DOMAIN s : s[i].kind # "mute", NEW room, NEW u, NEW m
    PROVE  ~Says(s, room, u, m)
BY DEF Says, IsMute

LEMMA ButtonSet ==
    /\ NoMembers \in Buttons
    /\ \A b \in Buttons : DOMAIN b \subseteq Users /\ b \in [DOMAIN b -> BOOLEAN]
    /\ \A users \in SUBSET Users : [users -> BOOLEAN] \subseteq Buttons
BY DEF NoMembers, Buttons

LEMMA MeetInitially == MeetInit => MeetInv
<1> SUFFICES ASSUME MeetInit PROVE MeetInv
  OBVIOUS
<1>1. MeetTyping
  <2>1. conferences \in [Rooms -> [Users -> {"out", "open", "muted"}]]
    BY DEF MeetInit
  <2>2. happened \in 0..MaxMeetEvents /\ lostReplies \in 0..MaxLostReplies
    BY MeetAssumption DEF MeetInit, MeetAssumption
  <2>3. meetEvents \in Seq(RoomEvent \cup MuteEvent)
        /\ meetPosted \in Seq(RoomEvent \cup MuteEvent \cup {Gone})
    BY DEF MeetInit
  <2> QED BY <2>1, <2>2, <2>3, ButtonSet DEF MeetTyping, MeetInit
<1>2. DOMAIN meetEvents = {} /\ DOMAIN meetPosted = {}
  BY DEF MeetInit
<1>3. EventsTrue /\ PostedTrue /\ Addressed /\ NoneYet
  BY <1>2 DEF EventsTrue, PostedTrue, Addressed, NoneYet, Says, MeetInit
<1>4. AllThere /\ MutesShown
  BY DEF AllThere, MutesShown, Settled, MeetInit
<1> QED BY <1>1, <1>3, <1>4 DEF MeetInv

-----------------------------------------------------------------------------
(* The exchange.                                                           *)

LEMMA HappensKeeps ==
    ASSUME MeetInv, NEW room \in Rooms, NEW u \in Users, NEW now \in {"out", "open", "muted"},
           Happens(room, u, now)
    PROVE  MeetInv'
<1> DEFINE roomEvent == [kind |-> "room", room |-> room]
           muteEvent == [kind |-> "mute", room |-> room, user |-> u, muted |-> now = "muted"]
           e == IF "out" \in {now, conferences[room][u]} THEN roomEvent ELSE muteEvent
<1> USE DEF MeetInv, meetHistory
<1>1. /\ meetEvents' = Append(meetEvents, e)
      /\ conferences' = [conferences EXCEPT ![room][u] = now]
      /\ happened < MaxMeetEvents /\ happened' = happened + 1
      /\ UNCHANGED <<meetPosted, roomBtns, mCurrentRoom, mMemberBtns, reload, answer, lostReplies,
                     roomsLost, membersLost, muteLost>>
  BY DEF Happens
<1>2. e \in RoomEvent \cup MuteEvent
  <2>1. roomEvent \in RoomEvent
    BY DEF RoomEvent
  <2>2. muteEvent \in MuteEvent
    BY DEF MuteEvent
  <2> QED BY <2>1, <2>2
<1>3. /\ e.room = room /\ e.kind \in {"room", "mute"}
      /\ e.kind = "mute" =>
            /\ e.user = u /\ e.muted = (now = "muted")
            /\ now # "out" /\ conferences[room][u] # "out"
  BY <1>2
<1> HIDE DEF e, Happens
<1>4. conferences \in [Rooms -> [Users -> {"out", "open", "muted"}]]
  BY DEF MeetTyping
<1>5. /\ conferences' \in [Rooms -> [Users -> {"out", "open", "muted"}]]
      /\ conferences'[room][u] = now
      /\ \A r \in Rooms, v \in Users : r # room \/ v # u => conferences'[r][v] = conferences[r][v]
  BY <1>1, <1>4
<1>6. About(e, room, u)
  BY <1>3 DEF About, IsRoom, IsMute
<1>7. MeetTyping'
  <2>1. happened' \in 0..MaxMeetEvents
    BY <1>1, MeetAssumption DEF MeetTyping, MeetAssumption
  <2>2. meetEvents' \in Seq(RoomEvent \cup MuteEvent)
    BY <1>1, <1>2, AppendSays DEF MeetTyping
  <2> QED BY <1>1, <1>5, <2>1, <2>2 DEF MeetTyping
<1>8. \A r, v, m :
          /\ Silent(meetEvents', r, v) <=> Silent(meetEvents, r, v) /\ ~About(e, r, v)
          /\ NoRoomEvent(meetEvents', r) <=> NoRoomEvent(meetEvents, r) /\ ~IsRoom(e, r)
          /\ Says(meetEvents', r, v, m) <=>
                IF About(e, r, v) THEN IsMute(e, r, v) /\ e.muted = m
                ELSE Says(meetEvents, r, v, m)
  BY <1>1, <1>2, AppendSays DEF MeetTyping
<1>9. EventsTrue'
  <2> SUFFICES ASSUME NEW r \in Rooms, NEW v \in Users, NEW m \in BOOLEAN,
                      Says(meetEvents', r, v, m)
               PROVE  conferences'[r][v] = IF m THEN "muted" ELSE "open"
    BY DEF EventsTrue, Muted
  <2>1. CASE About(e, r, v)
    <3>1. r = room /\ v = u /\ m = (now = "muted") /\ now # "out"
      BY <2>1, <1>3, <1>8 DEF IsMute
    <3>2. CASE now = "muted"
      BY <3>1, <3>2, <1>5
    <3>3. CASE now = "open"
      BY <3>1, <3>3, <1>5
    <3> QED BY <3>1, <3>2, <3>3
  <2>2. CASE ~About(e, r, v)
    BY <2>2, <1>5, <1>6, <1>8 DEF EventsTrue, Muted
  <2> QED BY <2>1, <2>2
<1>10. PostedTrue'
  <2> SUFFICES ASSUME NEW r \in Rooms, NEW v \in Users, NEW m \in BOOLEAN,
                      Says(meetPosted, r, v, m), Silent(meetEvents', r, v)
               PROVE  conferences'[r][v] = IF m THEN "muted" ELSE "open"
    BY <1>1 DEF PostedTrue, Muted
  <2>1. Silent(meetEvents, r, v) /\ ~About(e, r, v)
    BY <1>8
  <2>2. conferences'[r][v] = conferences[r][v]
    BY <2>1, <1>5, <1>6
  <2> QED BY <2>1, <2>2 DEF PostedTrue, Muted
<1>11. Addressed' /\ NoneYet'
  BY <1>1 DEF Addressed, NoneYet
<1>12. ASSUME Settled'
       PROVE  /\ Settled /\ mCurrentRoom \in Rooms
              /\ In(mCurrentRoom)' = In(mCurrentRoom) /\ Btns' = Btns
  <2>1. Settled /\ ~IsRoom(e, mCurrentRoom)
    BY <1>1, <1>8, <1>12 DEF Settled
  <2>2. mCurrentRoom \in Rooms
    BY <2>1 DEF Settled, MeetTyping
  <2>3. \A v \in Users : conferences'[mCurrentRoom][v] # "out" <=> conferences[mCurrentRoom][v] # "out"
    <3>1. CASE mCurrentRoom # room
      BY <3>1, <2>2, <1>5
    <3>2. CASE mCurrentRoom = room
      BY <3>2, <2>1, <2>2, <1>3, <1>5 DEF IsRoom
    <3> QED BY <3>1, <3>2
  <2> QED BY <2>1, <2>2, <2>3, <1>1 DEF In, Btns
<1>13. AllThere'
  BY <1>1, <1>12 DEF AllThere
<1>14. MutesShown'
  <2> SUFFICES ASSUME Settled', NEW v \in In(mCurrentRoom)' \ muteLost',
                      Silent(meetEvents', mCurrentRoom, v), Silent(meetPosted, mCurrentRoom, v)
               PROVE  Btns'[v] = (conferences'[mCurrentRoom][v] = "muted")
    BY <1>1 DEF MutesShown
  <2>1. v \in Users /\ v \in In(mCurrentRoom) \ muteLost
    BY <1>1, <1>12 DEF In
  <2>2. mCurrentRoom # room \/ v # u
    BY <1>6, <1>8
  <2> QED BY <2>1, <2>2, <1>5, <1>8, <1>12 DEF MutesShown
<1> QED BY <1>7, <1>9, <1>10, <1>11, <1>13, <1>14

-----------------------------------------------------------------------------
(* The monitor thread.                                                     *)

LEMMA MonitorKeeps ==
    ASSUME MeetInv, MonitorTakes
    PROVE  MeetInv'
<1> DEFINE e == Head(meetEvents)
           hasButton == e.kind = "mute" /\ e.room = mCurrentRoom /\ e.user \in DOMAIN mMemberBtns
           posts == e.kind # "mute" \/ hasButton
<1> USE DEF MeetInv, meetHistory
<1>1. /\ meetEvents # <<>> /\ meetEvents' = Tail(meetEvents)
      /\ meetPosted' = IF posts THEN Append(meetPosted, e) ELSE meetPosted
      /\ muteLost' = IF e.kind = "mute" /\ e.room = mCurrentRoom /\ ~hasButton
                     THEN muteLost \cup {e.user} ELSE muteLost
      /\ UNCHANGED <<conferences, roomBtns, mCurrentRoom, mMemberBtns, reload, answer, happened,
                     lostReplies, roomsLost, membersLost>>
  BY DEF MonitorTakes
<1>2. /\ e \in RoomEvent \cup MuteEvent /\ meetEvents' \in Seq(RoomEvent \cup MuteEvent)
      /\ \A r, v, m :
            /\ Silent(meetEvents, r, v) <=> Silent(meetEvents', r, v) /\ ~About(e, r, v)
            /\ NoRoomEvent(meetEvents, r) <=> NoRoomEvent(meetEvents', r) /\ ~IsRoom(e, r)
            /\ Says(meetEvents, r, v, m) <=>
                  \/ Says(meetEvents', r, v, m)
                  \/ IsMute(e, r, v) /\ e.muted = m /\ Silent(meetEvents', r, v)
  BY <1>1, TailSays DEF MeetTyping
<1> HIDE DEF e, MonitorTakes
<1>3. /\ e.room \in Rooms /\ e.kind \in {"room", "mute"}
      /\ e.kind = "mute" => e.user \in Users /\ e.muted \in BOOLEAN
  BY <1>2, MeetEventIs
<1>4. posts =>
          /\ meetPosted' \in Seq(RoomEvent \cup MuteEvent \cup {Gone})
          /\ \A r, v, m :
                /\ Silent(meetPosted', r, v) <=> Silent(meetPosted, r, v) /\ ~About(e, r, v)
                /\ NoRoomEvent(meetPosted', r) <=> NoRoomEvent(meetPosted, r) /\ ~IsRoom(e, r)
                /\ Says(meetPosted', r, v, m) <=>
                      IF About(e, r, v) THEN IsMute(e, r, v) /\ e.muted = m
                      ELSE Says(meetPosted, r, v, m)
  BY <1>1, <1>2, AppendSays DEF MeetTyping
<1>5. MeetTyping'
  BY <1>1, <1>2, <1>3, <1>4 DEF MeetTyping
<1>6. EventsTrue'
  BY <1>1, <1>2 DEF EventsTrue, Muted
<1>7. PostedTrue'
  <2> SUFFICES ASSUME NEW r \in Rooms, NEW v \in Users, NEW m \in BOOLEAN,
                      Says(meetPosted', r, v, m), Silent(meetEvents', r, v)
               PROVE  Muted(r, v, m)
    BY <1>1 DEF PostedTrue, Muted
  <2>1. CASE posts /\ About(e, r, v)
    <3>1. Says(meetEvents, r, v, m)
      BY <2>1, <1>2, <1>4
    <3> QED BY <3>1 DEF EventsTrue
  <2>2. CASE posts /\ ~About(e, r, v)
    BY <2>2, <1>2, <1>4 DEF PostedTrue
  <2>3. CASE ~posts
    <3>1. Says(meetPosted, r, v, m)
      BY <2>3, <1>1
    <3>2. ~About(e, r, v)
      <4>1. PICK i \in DOMAIN meetPosted : IsMute(meetPosted[i], r, v)
        BY <3>1 DEF Says
      <4>2. r = mCurrentRoom /\ v \in DOMAIN mMemberBtns
        BY <4>1 DEF Addressed, IsMute
      <4> QED BY <4>2, <2>3 DEF About, IsMute, IsRoom
    <3> QED BY <3>1, <3>2, <1>2 DEF PostedTrue
  <2> QED BY <2>1, <2>2, <2>3
<1>8. Addressed'
  <2> SUFFICES ASSUME NEW i \in DOMAIN meetPosted', meetPosted'[i].kind = "mute"
               PROVE  /\ reload = "idle" /\ meetPosted'[i].room = mCurrentRoom
                      /\ meetPosted'[i].user \in DOMAIN mMemberBtns
    BY <1>1 DEF Addressed
  <2>1. CASE i \in DOMAIN meetPosted /\ meetPosted'[i] = meetPosted[i]
    BY <2>1 DEF Addressed
  <2>2. CASE posts /\ meetPosted'[i] = e
    <3>1. mMemberBtns # NoMembers
      BY <2>2 DEF NoMembers
    <3>2. reload = "idle"
      BY <3>1 DEF NoneYet
    <3> QED BY <2>2, <3>2
  <2>3. DOMAIN meetPosted = 1..Len(meetPosted) /\ Len(meetPosted) \in Nat
    BY DEF MeetTyping
  <2> QED BY <2>1, <2>2, <2>3, <1>1
<1>9. NoneYet'
  BY <1>1 DEF NoneYet
<1>10. Settled' => Settled
  <2> SUFFICES ASSUME Settled' PROVE Settled
    OBVIOUS
  <2>1. ~IsRoom(e, mCurrentRoom)
    <3>1. CASE posts
      BY <3>1, <1>1, <1>4 DEF Settled
    <3>2. CASE ~posts
      BY <3>2 DEF IsRoom
    <3> QED BY <3>1, <3>2
  <2>2. NoRoomEvent(meetEvents, mCurrentRoom)
    BY <2>1, <1>1, <1>2 DEF Settled
  <2>3. NoRoomEvent(meetPosted, mCurrentRoom)
    <3>1. CASE posts
      BY <3>1, <1>1, <1>4 DEF Settled
    <3>2. CASE ~posts
      BY <3>2, <1>1 DEF Settled
    <3> QED BY <3>1, <3>2
  <2> QED BY <2>2, <2>3, <1>1 DEF Settled
<1>11. AllThere'
  BY <1>1, <1>10 DEF AllThere, Btns, In
<1>12. MutesShown'
  <2> SUFFICES ASSUME Settled', NEW v \in In(mCurrentRoom) \ muteLost',
                      Silent(meetEvents', mCurrentRoom, v), Silent(meetPosted', mCurrentRoom, v)
               PROVE  Btns[v] = (conferences[mCurrentRoom][v] = "muted")
    BY <1>1 DEF MutesShown, Btns, In
  <2>1. ~IsMute(e, mCurrentRoom, v)
    <3>1. CASE posts
      BY <3>1, <1>4 DEF About
    <3>2. CASE ~posts
      BY <3>2, <1>1 DEF IsMute
    <3> QED BY <3>1, <3>2
  <2>2. ~IsRoom(e, mCurrentRoom)
    BY <1>2, <1>10 DEF Settled
  <2>3. Silent(meetPosted, mCurrentRoom, v)
    BY <1>1, <1>4
  <2>4. Silent(meetEvents, mCurrentRoom, v) /\ v \notin muteLost
    BY <2>1, <2>2, <1>1, <1>2 DEF About
  <2> QED BY <2>3, <2>4, <1>10 DEF MutesShown
<1> QED BY <1>5, <1>6, <1>7, <1>8, <1>9, <1>11, <1>12

-----------------------------------------------------------------------------
(* The GUI thread.                                                         *)

\* A reload takes the buttons away, and what was posted to them.
LEMMA ReloadKeeps ==
    ASSUME MeetInv, NEW room \in Rooms,
           NEW posts \in Seq(RoomEvent \cup MuteEvent \cup {Gone}), ReloadMembers(room, posts),
           UNCHANGED <<conferences, meetEvents, answer, happened, membersLost, muteLost>>,
           roomBtns' \subseteq Rooms, lostReplies' \in 0..MaxLostReplies, roomsLost' \in BOOLEAN
    PROVE  MeetInv'
<1> USE DEF MeetInv
<1>1. mCurrentRoom' = room /\ mMemberBtns' = NoMembers /\ meetPosted' = Left(posts) /\ reload' = "asking"
  BY DEF ReloadMembers, Left
<1>2. /\ meetPosted' \in Seq(RoomEvent \cup MuteEvent \cup {Gone})
      /\ \A i \in DOMAIN meetPosted' : meetPosted'[i].kind # "mute"
  BY <1>1, LeftSays
<1>3. MeetTyping'
  BY <1>1, <1>2, ButtonSet DEF MeetTyping
<1>4. EventsTrue' /\ PostedTrue'
  BY <1>2, NoMuteSays DEF EventsTrue, PostedTrue, Muted
<1>5. Addressed' /\ NoneYet'
  BY <1>1, <1>2 DEF Addressed, NoneYet
<1>6. AllThere' /\ MutesShown'
  BY <1>1 DEF AllThere, MutesShown, Settled
<1> QED BY <1>3, <1>4, <1>5, <1>6

\* A signal that is taken without a change.
LEMMA SkipKeeps ==
    ASSUME MeetInv, meetPosted # <<>>, meetPosted' = Tail(meetPosted),
           \A u : ~IsMute(Head(meetPosted), mCurrentRoom, u),
           ~IsRoom(Head(meetPosted), mCurrentRoom),
           UNCHANGED <<conferences, meetEvents, mCurrentRoom, mMemberBtns, reload, answer, happened,
                       membersLost, muteLost>>,
           roomBtns' \subseteq Rooms, lostReplies' \in 0..MaxLostReplies, roomsLost' \in BOOLEAN
    PROVE  MeetInv'
<1> USE DEF MeetInv
<1>1. /\ meetPosted' \in Seq(RoomEvent \cup MuteEvent \cup {Gone})
      /\ \A r, v, m :
            /\ Silent(meetPosted, r, v) <=> Silent(meetPosted', r, v) /\ ~About(Head(meetPosted), r, v)
            /\ NoRoomEvent(meetPosted, r) <=>
                  NoRoomEvent(meetPosted', r) /\ ~IsRoom(Head(meetPosted), r)
            /\ Says(meetPosted', r, v, m) => Says(meetPosted, r, v, m)
  BY TailSays DEF MeetTyping
<1>2. MeetTyping'
  BY <1>1 DEF MeetTyping
<1>3. EventsTrue' /\ PostedTrue' /\ NoneYet'
  BY <1>1 DEF EventsTrue, PostedTrue, Muted, NoneYet
<1>4. Addressed'
  <2>1. \A i \in DOMAIN meetPosted' : i + 1 \in DOMAIN meetPosted /\ meetPosted'[i] = meetPosted[i + 1]
    BY DEF MeetTyping
  <2> QED BY <2>1 DEF Addressed
<1>5. Settled' => Settled
  BY <1>1 DEF Settled
<1>6. AllThere' /\ MutesShown'
  BY <1>1, <1>5 DEF AllThere, MutesShown, Btns, In, About
<1> QED BY <1>2, <1>3, <1>4, <1>6

LEMMA ReplyTyped ==
    ASSUME MeetTyping, NEW end \in Endings, MeetCallEnds(end)
    PROVE  lostReplies' \in 0..MaxLostReplies
BY MeetAssumption DEF MeetTyping, MeetCallEnds, MeetAssumption

LEMMA RoomsTyped ==
    ASSUME MeetInv, NEW end \in Endings, ReloadRooms(end)
    PROVE  /\ roomBtns' \subseteq Rooms /\ lostReplies' \in 0..MaxLostReplies
           /\ roomsLost' \in BOOLEAN
BY ReplyTyped DEF ReloadRooms, AnsweredRooms, Open, MeetInv

LEMMA RoomSignalKeeps ==
    ASSUME MeetInv, NEW end \in Endings, TakeRoomSignal(end)
    PROVE  MeetInv'
<1> DEFINE e == Head(meetPosted)
<1>1. roomBtns' \subseteq Rooms /\ lostReplies' \in 0..MaxLostReplies /\ roomsLost' \in BOOLEAN
  BY RoomsTyped DEF TakeRoomSignal
<1>2. /\ e \in RoomEvent \cup MuteEvent \cup {Gone} /\ e.kind = "room"
      /\ Tail(meetPosted) \in Seq(RoomEvent \cup MuteEvent \cup {Gone})
  BY DEF TakeRoomSignal, MeetInv, MeetTyping
<1>3. e.room \in Rooms
  <2>1. e # Gone
    BY <1>2 DEF Gone
  <2> QED BY <2>1, <1>2, MeetEventIs
<1>4. CASE e.room = mCurrentRoom
  BY <1>1, <1>2, <1>3, <1>4, ReloadKeeps DEF TakeRoomSignal
<1>5. CASE e.room # mCurrentRoom
  <2>1. ~IsRoom(e, mCurrentRoom) /\ \A u : ~IsMute(e, mCurrentRoom, u)
    BY <1>2, <1>5 DEF IsRoom, IsMute
  <2> QED BY <1>1, <1>5, <2>1, SkipKeeps DEF TakeRoomSignal
<1> QED BY <1>4, <1>5

LEMMA MuteSignalKeeps ==
    ASSUME MeetInv, TakeMuteSignal
    PROVE  MeetInv'
<1> DEFINE e == Head(meetPosted)
           u == e.user
<1> USE DEF MeetInv, meetHistory
<1>1. e \in RoomEvent \cup MuteEvent \cup {Gone} /\ e.kind # "room"
  BY DEF TakeMuteSignal, MeetTyping
<1>2. CASE e = Gone
  <2>1. e.kind = "gone"
    BY <1>2 DEF Gone
  <2>2. ~IsRoom(e, mCurrentRoom) /\ \A v : ~IsMute(e, mCurrentRoom, v)
    BY <2>1 DEF IsRoom, IsMute
  <2>3. UNCHANGED <<conferences, meetEvents, mCurrentRoom, mMemberBtns, reload, answer, happened,
                    membersLost, muteLost>> /\ meetPosted # <<>> /\ meetPosted' = Tail(meetPosted)
    BY <1>2 DEF TakeMuteSignal
  <2>4. roomBtns' \subseteq Rooms /\ lostReplies' \in 0..MaxLostReplies /\ roomsLost' \in BOOLEAN
    BY DEF TakeMuteSignal, MeetTyping
  <2> QED BY <2>2, <2>3, <2>4, SkipKeeps
<1>3. CASE e # Gone
  <2>1. /\ reload = "idle" /\ meetPosted # <<>> /\ meetPosted' = Tail(meetPosted)
        /\ mMemberBtns' = [mMemberBtns EXCEPT ![u] = e.muted]
        /\ UNCHANGED <<conferences, meetEvents, roomBtns, mCurrentRoom, reload, answer, happened,
                       lostReplies, roomsLost, membersLost, muteLost>>
    BY <1>3 DEF TakeMuteSignal
  <2>2. e.kind = "mute" /\ u \in Users /\ e.muted \in BOOLEAN
    BY <1>1, <1>3, MeetEventIs
  <2>3. e.room = mCurrentRoom /\ u \in DOMAIN mMemberBtns
    <3>1. 1 \in DOMAIN meetPosted /\ e = meetPosted[1]
      BY <2>1 DEF MeetTyping
    <3> QED BY <2>2, <3>1 DEF Addressed
  <2>4. /\ meetPosted' \in Seq(RoomEvent \cup MuteEvent \cup {Gone})
        /\ \A r, v, m :
              /\ Silent(meetPosted, r, v) <=> Silent(meetPosted', r, v) /\ ~About(e, r, v)
              /\ NoRoomEvent(meetPosted, r) <=> NoRoomEvent(meetPosted', r) /\ ~IsRoom(e, r)
              /\ Says(meetPosted, r, v, m) <=>
                    \/ Says(meetPosted', r, v, m)
                    \/ IsMute(e, r, v) /\ e.muted = m /\ Silent(meetPosted', r, v)
    BY <2>1, TailSays DEF MeetTyping
  <2>5. \A i \in DOMAIN meetPosted' : i + 1 \in DOMAIN meetPosted /\ meetPosted'[i] = meetPosted[i + 1]
    BY <2>1 DEF MeetTyping
  <2> HIDE DEF e, u, TakeMuteSignal
  <2>6. /\ mMemberBtns' \in Buttons /\ DOMAIN mMemberBtns' = DOMAIN mMemberBtns
        /\ mMemberBtns'[u] = e.muted
        /\ \A v \in DOMAIN mMemberBtns : v # u => mMemberBtns'[v] = mMemberBtns[v]
    <3>1. mMemberBtns \in [DOMAIN mMemberBtns -> BOOLEAN] /\ DOMAIN mMemberBtns \subseteq Users
      BY ButtonSet DEF MeetTyping
    <3>2. mMemberBtns' \in [DOMAIN mMemberBtns -> BOOLEAN]
      BY <2>1, <2>2, <3>1
    <3>3. mMemberBtns' \in Buttons
      BY <3>1, <3>2, ButtonSet
    <3> QED BY <2>1, <2>3, <3>1, <3>3
  <2>7. MeetTyping'
    BY <2>1, <2>4, <2>6 DEF MeetTyping
  <2>8. EventsTrue' /\ PostedTrue' /\ NoneYet'
    BY <2>1, <2>4 DEF EventsTrue, PostedTrue, Muted, NoneYet
  <2>9. Addressed'
    BY <2>1, <2>5, <2>6 DEF Addressed
  <2>10. Settled' => Settled /\ mCurrentRoom \in Rooms
    BY <2>1, <2>2, <2>4 DEF Settled, IsRoom, MeetTyping
  <2>11. AllThere'
    BY <2>1, <2>6, <2>10 DEF AllThere, Btns, In
  <2>12. MutesShown'
    <3> SUFFICES ASSUME Settled', NEW v \in In(mCurrentRoom) \ muteLost,
                        Silent(meetEvents, mCurrentRoom, v), Silent(meetPosted', mCurrentRoom, v)
                 PROVE  mMemberBtns'[v] = (conferences[mCurrentRoom][v] = "muted")
      BY <2>1 DEF MutesShown, Btns, In
    <3>1. v \in Users /\ v \in DOMAIN mMemberBtns
      BY <2>1, <2>10 DEF AllThere, Btns, In
    <3>2. CASE v = u
      <4>1. Says(meetPosted, mCurrentRoom, u, e.muted)
        BY <3>2, <2>2, <2>3, <2>4 DEF IsMute, u
      <4>2. Muted(mCurrentRoom, u, e.muted)
        BY <3>2, <4>1, <2>2, <2>10 DEF PostedTrue
      <4> QED BY <3>2, <4>2, <2>2, <2>6 DEF Muted
    <3>3. CASE v # u
      <4>1. ~About(e, mCurrentRoom, v)
        BY <3>3, <2>2 DEF About, IsRoom, IsMute, u
      <4>2. Silent(meetPosted, mCurrentRoom, v)
        BY <4>1, <2>4
      <4> QED BY <3>1, <3>3, <4>2, <2>1, <2>6, <2>10 DEF MutesShown, Btns
    <3> QED BY <3>2, <3>3
  <2> QED BY <2>7, <2>8, <2>9, <2>11, <2>12
<1> QED BY <1>2, <1>3

LEMMA ResumeKeeps ==
    ASSUME MeetInv, NEW end \in Endings, OnResume(end)
    PROVE  MeetInv'
<1>1. roomBtns' \subseteq Rooms /\ lostReplies' \in 0..MaxLostReplies /\ roomsLost' \in BOOLEAN
  BY RoomsTyped DEF OnResume
<1>2. ASSUME NEW room \in roomBtns', ReloadMembers(room, meetPosted) PROVE MeetInv'
  <2>1. room \in Rooms /\ meetPosted \in Seq(RoomEvent \cup MuteEvent \cup {Gone})
    BY <1>1, <1>2 DEF MeetInv, MeetTyping
  <2> QED BY <1>1, <1>2, <2>1, ReloadKeeps DEF OnResume
<1>3. CASE roomBtns' = {}
  <2>1. UNCHANGED <<conferences, meetEvents, meetPosted, mCurrentRoom, mMemberBtns, reload, answer,
                    happened, membersLost, muteLost>>
    BY <1>3 DEF OnResume
  <2>2. MeetTyping'
    BY <1>1, <2>1 DEF MeetInv, MeetTyping
  <2> QED BY <2>1, <2>2 DEF MeetInv, EventsTrue, PostedTrue, Muted, Addressed, NoneYet, AllThere,
                            MutesShown, Settled, Btns, In
<1> QED BY <1>2, <1>3 DEF OnResume

LEMMA RoomButtonKeeps ==
    ASSUME MeetInv, NEW room \in Rooms, OnRoomBtnClicked(room)
    PROVE  MeetInv'
<1>1. roomBtns' \subseteq Rooms /\ lostReplies' \in 0..MaxLostReplies /\ roomsLost' \in BOOLEAN
  BY DEF OnRoomBtnClicked, meetHistory, MeetInv, MeetTyping
<1>2. meetPosted \in Seq(RoomEvent \cup MuteEvent \cup {Gone})
  BY DEF MeetInv, MeetTyping
<1> QED BY <1>1, <1>2, ReloadKeeps DEF OnRoomBtnClicked, meetHistory

LEMMA InfoKeeps ==
    ASSUME MeetInv, NEW end \in Endings, GetMeetmeInfo(end)
    PROVE  MeetInv'
<1> USE DEF MeetInv
<1>1. /\ answer' \in AnsweredMembers(end)
      /\ membersLost' = (end # "own") /\ muteLost' = {}
      /\ reload = "asking" /\ reload' = "answered"
      /\ UNCHANGED <<conferences, meetEvents, meetPosted, roomBtns, mCurrentRoom, mMemberBtns,
                     happened, roomsLost>>
  BY DEF GetMeetmeInfo
<1>2. /\ Members(mCurrentRoom) \in Buttons /\ DOMAIN Members(mCurrentRoom) = In(mCurrentRoom)
      /\ \A u \in In(mCurrentRoom) :
            Members(mCurrentRoom)[u] = (conferences[mCurrentRoom][u] = "muted")
  BY ButtonSet DEF Members, In
<1>3. lostReplies' \in 0..MaxLostReplies
  BY ReplyTyped DEF GetMeetmeInfo
<1>4. MeetTyping'
  <2>1. answer' \in Buttons
    BY <1>1, <1>2, ButtonSet DEF AnsweredMembers
  <2> QED BY <1>1, <1>3, <2>1 DEF MeetTyping
<1>5. EventsTrue' /\ PostedTrue' /\ Addressed' /\ NoneYet'
  BY <1>1 DEF EventsTrue, PostedTrue, Muted, Addressed, NoneYet
<1>6. AllThere' /\ MutesShown'
  <2>1. CASE end = "own"
    BY <1>1, <1>2, <2>1 DEF AnsweredMembers, AllThere, MutesShown, Settled, Btns, In
  <2>2. CASE end # "own"
    BY <1>1, <2>2 DEF AllThere, MutesShown, Settled
  <2> QED BY <2>1, <2>2
<1> QED BY <1>4, <1>5, <1>6

LEMMA ShowKeeps ==
    ASSUME MeetInv, ShowMembers
    PROVE  MeetInv'
<1> USE DEF MeetInv, ShowMembers, meetHistory
<1>1. MeetTyping'
  BY ButtonSet DEF MeetTyping
<1>2. Btns' = Btns /\ (Settled' <=> Settled)
  BY DEF Btns, Settled
<1>3. EventsTrue' /\ PostedTrue' /\ NoneYet'
  BY DEF EventsTrue, PostedTrue, Muted, NoneYet
<1>4. Addressed'
  BY DEF Addressed
<1>5. AllThere' /\ MutesShown'
  BY <1>2 DEF AllThere, MutesShown, In
<1> QED BY <1>1, <1>3, <1>4, <1>5

-----------------------------------------------------------------------------

LEMMA MeetStep == MeetInv /\ [MeetNext]_meetVars => MeetInv'
<1> SUFFICES ASSUME MeetInv, [MeetNext]_meetVars PROVE MeetInv'
  OBVIOUS
<1>1. CASE UNCHANGED meetVars
  BY <1>1 DEF meetVars, meetHistory, MeetInv, MeetTyping, EventsTrue, PostedTrue, Muted,
              Addressed, NoneYet, AllThere, MutesShown, Settled, Btns, In
<1> QED BY <1>1, HappensKeeps, MonitorKeeps, RoomSignalKeeps, MuteSignalKeeps, ResumeKeeps,
           RoomButtonKeeps, InfoKeeps, ShowKeeps DEF MeetNext

\* The inductive invariant of conference control holds in every state of every behaviour.
THEOREM MeetInvariance == MeetSpec => []MeetInv
BY MeetInitially, MeetStep, PTL DEF MeetSpec

LEMMA MembersFollowInInv == MeetInv => MembersFollow
<1>1. ASSUME MeetInv, meetEvents = <<>>, Range(meetPosted) \subseteq {Gone}, reload = "idle",
             mCurrentRoom # "none", ~membersLost
      PROVE  /\ DOMAIN mMemberBtns = In(mCurrentRoom)
             /\ \A u \in In(mCurrentRoom) \ muteLost :
                    mMemberBtns[u] = Members(mCurrentRoom)[u]
  <2> USE DEF MeetInv
  <2>1. \A i \in DOMAIN meetPosted : meetPosted[i].kind = "gone"
    BY <1>1 DEF Range, Gone
  <2>2. DOMAIN meetEvents = {}
    BY <1>1
  <2>3. Settled
    BY <1>1, <2>1, <2>2 DEF Settled, NoRoomEvent, IsRoom
  <2>4. \A u : Silent(meetEvents, mCurrentRoom, u) /\ Silent(meetPosted, mCurrentRoom, u)
    BY <2>1, <2>2 DEF Silent, About, IsRoom, IsMute
  <2> QED BY <1>1, <2>3, <2>4 DEF AllThere, MutesShown, Btns, Members
<1> QED BY <1>1 DEF MembersFollow

\* Once all is handled, the members on show are those of the room on show, unless the last
\* question for them was not answered by its own reply, and who is muted is shown as such,
\* except one whose muting came while there was no button to tell (MeetMeWidget.cpp:18-50,
\* 129-167), for every set of rooms and members.
THEOREM ShownMembersFollow == MeetSpec => []MembersFollow
BY MembersFollowInInv, MeetInvariance, PTL DEF MeetSpec

-----------------------------------------------------------------------------
(* The parts together.                                                     *)

LEMMA QueueTypesInInv == QueueInv => QueueTypeOK
<1>1. ASSUME NEW S, NEW s \in Seq(S) PROVE \A i \in DOMAIN s : s[i] \in S
  OBVIOUS
<1> QED BY <1>1, RangeIn DEF QueueInv, QueueTyping, Once, QueueTypeOK

LEMMA MeetTypesInInv == MeetInv => MeetTypeOK
<1>1. ASSUME NEW S, NEW s \in Seq(S) PROVE \A i \in DOMAIN s : s[i] \in S
  OBVIOUS
<1> QED BY <1>1 DEF MeetInv, MeetTyping, MeetTypeOK

LifeInv == SupTypeOK /\ UpgradeInv /\ QueueInv /\ MeetInv

LEMMA LifeStep == LifeInv /\ [LifeNext]_lifeVars => LifeInv'
<1> SUFFICES ASSUME LifeInv, [LifeNext]_lifeVars PROVE LifeInv'
  OBVIOUS
<1>1. [SupNext]_supVars /\ [QueueNext]_queueVars /\ [MeetNext]_meetVars
  BY DEF LifeNext, lifeVars
<1> QED BY <1>1, SupTypeStep, UpgradeStep, QueueStep, MeetStep DEF LifeInv

\* The parts keep their invariants side by side.
THEOREM LifeInvariance == LifeSpec => []LifeInv
<1>1. LifeInit => LifeInv
  BY SupInitially, UpgradeInitially, QueueInitially, MeetInitially DEF LifeInit, LifeInv
<1> QED BY <1>1, LifeStep, PTL DEF LifeSpec

\* All variables of the three parts keep their types.
THEOREM LifeTypeCorrect == LifeSpec => []LifeTypeOK
<1>1. LifeInv => LifeTypeOK
  BY QueueTypesInInv, MeetTypesInInv DEF LifeInv, LifeTypeOK
<1> QED BY <1>1, LifeInvariance, PTL
=============================================================================
