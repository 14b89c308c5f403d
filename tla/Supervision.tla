----------------------------- MODULE Supervision -----------------------------
(***************************************************************************)
(* The life of the panel's processes (main.cpp, ui/MainWindow.cpp,         *)
(* EventMonitor, misc/dbwrapper.cpp, ui/LoginForm.cpp): a start by the     *)
(* user takes the mutex of checkSingleton; a start by stopOnErrorSlot      *)
(* carries RESTART_FLAG and takes none.  A process upgrades the local      *)
(* database, connects, builds its main window and runs until its event     *)
(* loop ends.  The monitor thread of a process ends when its connection    *)
(* does and says so through the callbacks registered at that time.         *)
(*                                                                         *)
(* A statement of SQL is one step and may fail; a process may be killed    *)
(* between any two steps.                                                  *)
(***************************************************************************)
EXTENDS Integers, FiniteSets

CONSTANTS
    VERSION,    \* the version of the program
    InitialDbs, \* the local databases a first start may find
    MaxStarts,  \* bound: processes started
    MaxFaults   \* bound: statements that fail and processes that are killed

ASSUME SupAssumption ==
    /\ VERSION \in Nat \ {0}
    /\ MaxStarts \in Nat \ {0}
    /\ MaxFaults \in Nat

VARIABLES
    started,    \* processes started so far
    phase,      \* where each process is
    flagged,    \* the processes started with RESTART_FLAG
    mutex,      \* the processes that hold a handle of the mutex
    monitor,    \* the monitor thread of each process: none, up or down
    posted,     \* of each process: error signals posted to its event loop
    broker,     \* whether the message broker can be reached
    db,         \* the local database: [system, version, templates]
    faults,     \* statements failed and processes killed so far (bounded)
    versionInDb,\* the version each process has read, if it was not up to date
    first,      \* the version of the local database before any process (history)
    cut,        \* whether a fault has kept an old version from being upgraded (history)
    unheard     \* processes whose monitor ended before anyone could hear it (history)

supHistory == <<first, cut, unheard>>
supVars == <<started, phase, flagged, mutex, monitor, posted, broker, db, faults, versionInDb,
             supHistory>>

Procs == 1..MaxStarts

\* The phases of an upgrade, one for each statement to come: of setVersion and of initialise.
Storing == {"setVersion", "deleteVersion", "insertRow"}
Upgrading == Storing \cup {"dropSystem", "createSystem", "insertVersion", "dropTemplates",
                          "createTemplates"}

Building == {"login", "build", "connect"}
Running == {"running", "quitting"}
Phases == {"new", "asking", "database", "client", "gone"} \cup Upgrading \cup Building \cup Running

Dbs == [system : BOOLEAN, version : 0..VERSION, templates : {"none", "old", "new"}]

\* A database of this version has its tables: it is the one that is shipped.
ASSUME DbAssumption == \A d \in InitialDbs :
    d \in Dbs /\ (d.system /\ d.version >= VERSION => d.templates = "new")

SupTypeOK ==
    /\ started \in 0..MaxStarts
    /\ phase \in [Procs -> Phases]
    /\ flagged \subseteq Procs
    /\ mutex \subseteq Procs
    /\ monitor \in [Procs -> {"none", "up", "down"}]
    /\ posted \in [Procs -> 0..MaxStarts]
    /\ broker \in BOOLEAN
    /\ db \in Dbs
    /\ faults \in 0..MaxFaults
    /\ versionInDb \in [Procs -> 0..VERSION]
    /\ first \in 0..VERSION
    /\ cut \in BOOLEAN
    /\ unheard \subseteq Procs

\* Without a table, or without the row in it, the version is 0.
GetVersion == IF db.system THEN db.version ELSE 0

SupInit ==
    /\ started = 0
    /\ phase = [p \in Procs |-> "new"]
    /\ flagged = {}
    /\ mutex = {}
    /\ monitor = [p \in Procs |-> "none"]
    /\ posted = [p \in Procs |-> 0]
    /\ broker = TRUE
    /\ db \in InitialDbs
    /\ faults = 0
    /\ versionInDb = [p \in Procs |-> 0]
    /\ first = GetVersion
    /\ cut = FALSE
    /\ unheard = {}

\* The error signals in event loops, each of which starts a process.
Pending == Cardinality(UNION {{p} \X (1..posted[p]) : p \in Procs})

\* Whether another start is within the bound, with those that errors will make.
Room == started + Pending < MaxStarts

Goto(p, next) == phase' = [phase EXCEPT ![p] = next]
End(p) == Goto(p, "gone") /\ mutex' = mutex \ {p}

-----------------------------------------------------------------------------
(* checkSingleton.                                                         *)

\* The user starts the program: it goes on as the one holder of the mutex or not at all.
Start ==
    /\ Room
    /\ started' = started + 1
    /\ IF mutex = {}
       THEN mutex' = {started'} /\ Goto(started', "database")
       ELSE Goto(started', "gone") /\ UNCHANGED mutex
    /\ UNCHANGED <<flagged, monitor, posted, broker, db, faults, versionInDb,
                   supHistory>>

\* A restarted process asks whether to go on.
Answer(p) ==
    /\ phase[p] = "asking"
    /\ \/ Goto(p, "database") /\ UNCHANGED mutex
       \/ End(p)
    /\ UNCHANGED <<started, flagged, monitor, posted, broker, db, faults, versionInDb,
                   supHistory>>

-----------------------------------------------------------------------------
(* initialiseLocalDB and DbWrapper.                                        *)

\* Bug: the oldest version that can be upgraded counts as the newest.
UpToDateOld == GetVersion >= 30

UpToDate == GetVersion >= VERSION

Upgradable == GetVersion >= 30 /\ ~UpToDate

Fault == faults < MaxFaults /\ faults' = faults + 1

\* openDb fails, and the process ends.
OpenDbFails(p) ==
    /\ phase[p] = "database"
    /\ Fault
    /\ End(p)
    /\ UNCHANGED <<started, flagged, monitor, posted, broker, db, versionInDb, supHistory>>

CheckVersion(p) ==
    /\ phase[p] = "database"
    /\ IF UpToDate
       THEN Goto(p, "client") /\ UNCHANGED versionInDb
       ELSE Goto(p, "setVersion") /\ versionInDb' = [versionInDb EXCEPT ![p] = GetVersion]
    /\ UNCHANGED <<started, flagged, mutex, monitor, posted, broker, db, faults, supHistory>>

\* A select that fails passes for version 0.
ReadFails(p) ==
    /\ phase[p] = "database"
    /\ Fault
    /\ versionInDb' = [versionInDb EXCEPT ![p] = 0]
    /\ Goto(p, "setVersion")
    /\ cut' = (cut \/ Upgradable)
    /\ UNCHANGED <<started, flagged, mutex, monitor, posted, broker, db, first, unheard>>

\* After setVersion, however it went: only a version from 30 on is upgraded.
Stored(p) == Goto(p, IF versionInDb[p] >= 30 THEN "dropSystem" ELSE "client")

\* A statement on the system table is done, or fails by a fault or for want of the table.
Done(after) == db.system /\ db' = after /\ UNCHANGED faults
Fails ==
    /\ IF db.system THEN Fault ELSE UNCHANGED faults
    /\ UNCHANGED db

\* setVersion: an update that changes the row if there is one, and when it fails a delete
\* and an insert, whose failure nobody looks at.
SetVersion(p) ==
    /\ phase[p] = "setVersion"
    /\ \/ Done([db EXCEPT !.version = IF @ = 0 THEN 0 ELSE VERSION]) /\ Stored(p)
       \/ Fails /\ Goto(p, "deleteVersion")
    /\ UNCHANGED <<started, flagged, mutex, monitor, posted, broker, versionInDb, supHistory>>

DeleteVersion(p) ==
    /\ phase[p] = "deleteVersion"
    /\ Done([db EXCEPT !.version = 0]) \/ Fails
    /\ Goto(p, "insertRow")
    /\ UNCHANGED <<started, flagged, mutex, monitor, posted, broker, versionInDb, supHistory>>

\* Of two rows, the older one is read.
InsertRow(p) ==
    /\ phase[p] = "insertRow"
    /\ Done([db EXCEPT !.version = IF @ = 0 THEN VERSION ELSE @]) \/ Fails
    /\ Stored(p)
    /\ UNCHANGED <<started, flagged, mutex, monitor, posted, broker, versionInDb, supHistory>>

\* The statements of DbWrapper::initialise, and where each leads.
Statements ==
    [dropSystem |-> [db |-> [db EXCEPT !.system = FALSE, !.version = 0], next |-> "createSystem"],
     createSystem |-> [db |-> [db EXCEPT !.system = TRUE], next |-> "insertVersion"],
     insertVersion |-> [db |-> [db EXCEPT !.version = VERSION], next |-> "dropTemplates"],
     dropTemplates |-> [db |-> [db EXCEPT !.templates = "none"], next |-> "createTemplates"],
     createTemplates |-> [db |-> [db EXCEPT !.templates = "new"], next |-> "client"]]

Execute(p) ==
    /\ phase[p] \in DOMAIN Statements
    /\ db' = Statements[phase[p]].db
    /\ Goto(p, Statements[phase[p]].next)
    /\ UNCHANGED <<started, flagged, mutex, monitor, posted, broker, faults, versionInDb,
                   supHistory>>

\* A failed drop of the system table is not noticed: the create after it fails.
StatementFails(p) ==
    /\ phase[p] \in DOMAIN Statements
    /\ Fault
    /\ cut' = TRUE
    /\ End(p)
    /\ UNCHANGED <<started, flagged, monitor, posted, broker, db, versionInDb, first, unheard>>

-----------------------------------------------------------------------------
(* MessageClient, and the constructor of MainWindow.                       *)

\* Both connections are made and the monitor thread starts, or the process ends.
InitialiseClient(p) ==
    /\ phase[p] = "client"
    /\ IF broker
       THEN /\ monitor' = [monitor EXCEPT ![p] = "up"]
            /\ Goto(p, IF p \in flagged THEN "build" ELSE "login")
            /\ UNCHANGED mutex
       ELSE End(p) /\ UNCHANGED monitor
    /\ UNCHANGED <<started, flagged, posted, broker, db, faults, versionInDb,
                   supHistory>>

\* The adapter can say yes to operatorLogin.
OperatorLogin == broker

\* The form goes away when operatorLogin has said yes, or when it is rejected: exit(2).
\* After any other answer the form stays.
Login(p) ==
    /\ phase[p] = "login"
    /\ \/ OperatorLogin /\ Goto(p, "build") /\ UNCHANGED <<mutex, monitor>>
       \/ End(p) /\ monitor' = [monitor EXCEPT ![p] = "none"]
    /\ UNCHANGED <<started, flagged, posted, broker, db, faults, versionInDb,
                   supHistory>>

\* The constructor up to line 189, where the callback is registered.
Build(p) ==
    /\ phase[p] = "build"
    /\ Goto(p, "connect")
    /\ UNCHANGED <<started, flagged, mutex, monitor, posted, broker, db, faults, versionInDb,
                   supHistory>>

\* The signals are connected, the timer started, and the event loop begins.
Connect(p) ==
    /\ phase[p] = "connect"
    /\ Goto(p, "running")
    /\ UNCHANGED <<started, flagged, mutex, monitor, posted, broker, db, faults, versionInDb,
                   supHistory>>

-----------------------------------------------------------------------------
(* EventMonitor::run and the broker.                                       *)

\* A signal reaches the event loop when it is emitted after the connects.
Heard(p) == phase[p] \in Running

Post(p) == posted' = IF Heard(p) THEN [posted EXCEPT ![p] = @ + 1] ELSE posted

\* Bug: the thread ends without a word.
MonitorEndsSilently(p) ==
    /\ monitor[p] = "up"
    /\ Room
    /\ monitor' = [monitor EXCEPT ![p] = "down"]
    /\ unheard' = IF Heard(p) THEN unheard ELSE unheard \cup {p}
    /\ UNCHANGED posted

\* A wait for a frame fails, or a frame is not the one expected: the thread leaves its
\* loop and tells whoever has registered by then.
MonitorEnds(p) ==
    /\ monitor[p] = "up"
    /\ Room
    /\ monitor' = [monitor EXCEPT ![p] = "down"]
    /\ unheard' = IF Heard(p) THEN unheard ELSE unheard \cup {p}
    /\ Post(p)

ConnectionLost(p) ==
    /\ MonitorEnds(p)
    /\ UNCHANGED <<started, phase, flagged, mutex, broker, db, faults, versionInDb, first,
                   cut>>

\* An AdapterEvent with NeedRestart.
AdapterEvent(p) ==
    /\ monitor[p] = "up"
    /\ Room
    /\ Heard(p)
    /\ Post(p)
    /\ UNCHANGED <<started, phase, flagged, mutex, monitor, broker, db, faults, versionInDb,
                   supHistory>>

BrokerChanges ==
    /\ broker' = ~broker
    /\ UNCHANGED <<started, phase, flagged, mutex, monitor, posted, db, faults, versionInDb,
                   supHistory>>

-----------------------------------------------------------------------------
(* The event loop.                                                         *)

\* stopOnErrorSlot: the loop is told to end, and a process is started at once.
StopOnError(p) ==
    /\ started < MaxStarts
    /\ started' = started + 1
    /\ flagged' = flagged \cup {started'}
    /\ phase' = [phase EXCEPT ![p] = "quitting", ![started'] = "asking"]

\* The events that were posted before the loop is back at its top are all handled.
TakeError(p) ==
    /\ phase[p] \in Running
    /\ posted[p] > 0
    /\ posted' = [posted EXCEPT ![p] = @ - 1]
    /\ StopOnError(p)
    /\ UNCHANGED <<mutex, monitor, broker, db, faults, versionInDb,
                   supHistory>>

\* timerEvent, when Housekeeper::check cannot open a socket.
TimerFindsNoBroker(p) ==
    /\ phase[p] = "running"
    /\ ~broker
    /\ Room
    /\ StopOnError(p)
    /\ UNCHANGED <<mutex, monitor, posted, broker, db, faults, versionInDb,
                   supHistory>>

Close(p) ==
    /\ phase[p] = "running"
    /\ Goto(p, "quitting")
    /\ UNCHANGED <<started, flagged, mutex, monitor, posted, broker, db, faults, versionInDb,
                   supHistory>>

\* exec returns, the monitor thread is terminated and the process ends.
Exit(p) ==
    /\ phase[p] = "quitting"
    /\ End(p)
    /\ posted' = [posted EXCEPT ![p] = 0]
    /\ monitor' = [monitor EXCEPT ![p] = "none"]
    /\ UNCHANGED <<started, flagged, broker, db, faults, versionInDb,
                   supHistory>>

Killed(p) ==
    /\ phase[p] \notin {"new", "gone"}
    /\ Fault
    /\ cut' = (cut \/ (versionInDb[p] >= 30 /\ phase[p] \in {"insertRow"} \cup DOMAIN Statements))
    /\ End(p)
    /\ posted' = [posted EXCEPT ![p] = 0]
    /\ monitor' = [monitor EXCEPT ![p] = "none"]
    /\ UNCHANGED <<started, flagged, broker, db, versionInDb, first, unheard>>

-----------------------------------------------------------------------------

SupNext ==
    \/ Start
    \/ BrokerChanges
    \/ \E p \in Procs :
          \/ Answer(p)
          \/ OpenDbFails(p) \/ CheckVersion(p) \/ ReadFails(p)
          \/ SetVersion(p) \/ DeleteVersion(p) \/ InsertRow(p)
          \/ Execute(p) \/ StatementFails(p)
          \/ InitialiseClient(p) \/ Login(p) \/ Build(p) \/ Connect(p)
          \/ ConnectionLost(p) \/ AdapterEvent(p)
          \/ TakeError(p) \/ TimerFindsNoBroker(p) \/ Close(p) \/ Exit(p)
          \/ Killed(p)

SupSpec == SupInit /\ [][SupNext]_supVars

\* The event loop of a process takes what was posted to it, and ends when it is told to.
SupFairness == \A p \in Procs : WF_supVars(TakeError(p) \/ Exit(p))

-----------------------------------------------------------------------------
(* Properties.                                                             *)

\* A process that has got past the local database works on the tables of its own version
\* (main.cpp:92-101, dbwrapper.cpp:69-118): whatever process made the upgrade, whatever
\* others were started meanwhile, and although the new number is stored before the upgrade
\* and perhaps in vain.  Not so for a database that was first found too old to be upgraded,
\* nor once a fault has hit the reading of a version that should have been upgraded, or a
\* statement of the upgrade, or has killed the process in it: nothing makes up for that.
UpgradeWhole == \A p \in Procs :
    phase[p] \in {"client"} \cup Building \cup Running =>
        db.templates = "new" \/ cut \/ first < 30

\* A panel whose monitor thread has ended while its event loop runs does not stay up
\* without events (MessageClient.cpp:417, MainWindow.cpp:92-98, 293-307).
LossNoticed == \A p \in Procs :
    (phase[p] = "running" /\ monitor[p] = "down" /\ p \notin unheard) ~> phase[p] = "gone"

\* "程序已在运行中，不能重复启动" (main.cpp:73): the program never runs twice.
OneInstance == Cardinality({p \in Procs : phase[p] = "running"}) <= 1
=============================================================================
