# A verification project for pbx-panel

pbx-panel is the dispatcher's console of an Asterisk telephone exchange: a Qt 5
program in C++ that shows the extensions and their calls, lets the dispatcher
call, hang up, transfer, page and poll them, and runs emergency plans. It talks to
an adapter process beside the exchange through RabbitMQ: requests and replies (RPC)
on one connection, events on another. The adapter, the broker and the AMQP library
(`lib/rabbitmq.dll`) are not part of the repository; they are modelled from how
the code in `src/` uses them.

This directory holds TLA+ modules translated from the source, TLC configurations
that check them on small instances, and theorems about them that TLAPS checks for
every value of the constants. `PROJECT.json` lists components, runs, mutants (one
plausible bug for every property, that the property must catch), the source lines
each definition stands for, the hazards of the code, and the theorems.

- [1. Inventory](#1-inventory)
- [2. The modules and the code](#2-the-modules-and-the-code)
- [3. Runs](#3-runs)
- [4. Fairness](#4-fairness)
- [5. What is proved](#5-what-is-proved)
- [6. What the code does that its comments deny](#6-what-the-code-does-that-its-comments-deny)
- [7. What is left out, and the plan](#7-what-is-left-out-and-the-plan)

## 1. Inventory

Two threads run in the process: the GUI thread (every window, every button, and
with them most RPCs; a timer in it probes the broker, `Housekeeper::check`) and the
event-monitor thread (`EventMonitor::run`: takes events from the broker, runs the
callbacks, and makes RPCs from within them).

| component | state it keeps | operations | talks to | what is hard, and what makes it correct |
|---|---|---|---|---|
| **RPC client** (`MessageClient.cpp` 75-277) | one AMQP connection, one reply queue, the mutex `RpcLock` | `init`, `rpcCall` | called by GUI and monitor thread; adapter over AMQP | replies cut into frames, timeouts that leave a reply behind, a connection that ends in the middle. A text returned is a whole reply; no reply is returned twice; whoever has the lock lets go of it |
| **Event monitor** (`MessageClient.cpp` 335-489) | callback registry `mCallbacks`, the second connection | `run`, `addCallback`, `removeCallback`, `fireCallback`, `stop`; `Housekeeper::check` | calls PBX and the zones; signals errors to MainWindow | registry shared by threads without a lock, events cut into frames, `terminate()` inside an RPC |
| **Extension cache** (`pbx.cpp`) | `mExtensions`, callbacks of the zones | `initialise`, `eventMessageReceived`, `getExtensionDetail`, `fireCallback` | RPC client, event monitor, all zones | filled by a snapshot, kept by events, read without a lock. No change is lost; the roll-call result survives refreshes |
| **RPC commands** (`RPCCommand.cpp`) | none | one function per request: builds JSON, parses the reply | RPC client | a reply of another kind is read like the expected one |
| **Extension panel** (`ExtensionsZone.cpp`, `uiextensionbase.cpp`) | the buttons, the group on show | load a group, take a state or roll-call signal | cache (reads), monitor thread (queued signals), selection | signals that are old when taken, groups loaded in the middle of a refresh. What is on show follows the cache |
| **Event reports and emergency plans** (`ui/event`) | event id, selected plan, buttons of two windows | choose a plan or an event, save, call, SMS, broadcast, play, raise the alarm | RPC commands, activities | a row of RPCs per click, any of which may fail or take a late reply. A report has one record, its own; an alarm acts |
| **Activities and navigation** (`MainWindow.cpp`, `BaseWidget.cpp`, `MainWidget.cpp`) | the stack of windows | `loadActivity`, `onResume`, back | all windows | windows are kept alive and reused with new parameters |
| **Supervision and restart** (`main.cpp`, `MainWindow.cpp` 69-116 and 256-307, `LoginForm.cpp`, `dbwrapper.cpp`) | the mutex of the one instance, the local database and its version, posted errors | start, upgrade, log in, connect, `stopOnErrorSlot`, `timerEvent`, `quit` | event monitor, broker | an upgrade cut short, restarts that race with each other, errors posted to a loop that is about to end. Whoever passes the database has its tables; a loss of the connection is noticed |
| **Selection and fast functions** (`RinggroupsZone.cpp`, `SelectedExtensZone.cpp`, `FastFuncZone.cpp`, the toggles of `ExtensionsZone.cpp`) | toggled buttons, the list of selected extensions, the "select all" box | clicks on buttons, boxes, groups; the commands | panel, pager, modal dialogs | one choice kept twice, every change of a side calling into the other. The panel shows what the commands act on |
| **Operators and three-way call** (`OperatorZone.cpp`, `MainWidget.cpp`) | a button for each operator, the three-way button | signals and clicks into one slot, a dial pad | cache, settings | a button that was right when it was clicked. It is enabled only for an operator in a call |
| **FTP transfers** (`ftpclient.cpp` over `qftp.cpp`) | waiting jobs, current job, retries; the queue of commands | `addJob`, `nextJob`, `onFtpCommandFinished`, `timerEvent` | the recordings list | two queues, the second of which is thrown away when a command fails. QFtp reads files that exist, files are stored in order and in place; a failed one does not hold up the next |
| **Command processor** (`tools.cpp`) | queue of programs to run | `addJob`, `onJobFinished` | FTP jobs with a command, of which there are none | a program that does not start |
| **Paging widget** (`multitablewidgets.cpp`, `tablewidget.cpp`) | items, pages, the page on show | add, remove, turn, change the page size, a timer | the panel | items go, and pages are turned, between two ticks. The page exists and the buttons lead to those there are |
| **Emergency call dialog** (`dlgemergencycall.cpp`, `MainWindow.cpp` 28-67) and **queue** (`QueueZone.cpp`) | waiting callers; announced emergency calls | join, leave, click, close | event monitor, RPC commands | two components hear the same events, one of them after two RPCs. Rows are those who wait; no emergency call is missed |
| **Conference control** (`MeetMeWidget.cpp`) | rooms, the room on show, its members | events, reload, choose a room | event monitor, RPC commands | members come, go and are muted while they are read. What is shown is the room |
| **Video linkage** (`VideoLinkage/`) | lists of calls, windows, players, layout | signals of the operators and of the panel, layouts, settings | operator zone, panel, cache | calls of several kinds to one extension, windows re-ordered while they start. No window outlives its calls |
| **Timed broadcasts and plan editor** (`TimedBroadcastEditor.cpp`, `EventPlanEditor.cpp`, `PlanListZone.cpp`, `TimingBroadcastZone.cpp`, `RecordingFileZone.cpp`) | the plan in the editor, its lists, the time settings | new, edit, delete, save, choose, move, the time dialog | RPC commands, phone book | detours and lost replies between a change and its save. The plan is on record as it is shown, once; a task runs when it says |
| **Phone book** (`UiPhoneBook.cpp`, `UiPhoneBookList.cpp`) | records, ticked cells, the purpose it was opened for | tick, edit, save, call | RPC commands, activities | one table with five meanings. The call reaches who is ticked |
| **Configuration, logging** (`Config.cpp`, `logger.cpp`) | settings, group-call number | read, write | everything | the number wraps at a limit |
| **Call and event logs, settings, text messages** | forms | query, create, delete | RPC commands | little state beyond the screen |

`ui/mainwindow/*` is an older front end that `PbxPanel.pro` no longer compiles;
`qftp.cpp`, `qurlinfo.cpp` and the AMQP headers are third-party code.

The code is built in two variants. The default one (`DEFINES += OEM V5`) takes the
next delivery of the reply queue as the reply to the call in progress. With
`EEPBX` (commented out in the project file) requests and replies carry an `rpcID`
that `rpcCall` compares. Both are modelled: the constant `EEPBX` selects one.

## 2. The modules and the code

```
RpcContract            what callers of rpcCall may rely on (abstract)
   ^ implements
RpcClient              rpcCall, frame by frame           MCRpcClient, RpcClientProofs
   : its contract is what an RPC may do in the others
CallEndings            how a call ends for whoever makes it: extended by CallQueue,
                       MeetMe and PlanEditor
ExtensionCache         pbx.cpp over the event monitor    MCExtensionCache, ExtensionCacheProofs
   ^ extends
ExtensionsZone         the panel over the cache          MCExtensionsZone, ExtensionsZoneProofs
EventDesk              reports and emergency plans       MCEventDesk, EventDeskProofs
FtpTransfer            FTPClient over QFtp               MCFtpTransfer, FtpTransferProofs

MCWindowLife  puts beside each other                     WindowLifeProofs
   Supervision         processes, upgrade, restarts
   CallQueue           waiting callers, emergency calls
   MeetMe              conferences
MCMainWindow  puts beside each other                     MainWindowProofs
   Selection           choosing extensions, the pager
   OperatorZone        operators, three-way call
      ^ extends
   VideoLinkage        the video windows
   PlanEditor          event plans and timed broadcasts
   TimeSetting         when a timed broadcast runs
   PhoneBook           ticks, editing, calls

Orders                 orders in sequences, and that of a QMap
SequenceLemmas         what the proofs need to know of sequences
```

**RpcContract.** Calls are numbered as they begin and are answered one at a time.
A call that ends returns nothing (0), its own reply, or - unless `OwnOnly` - the
reply to a call that ended without one and that nobody has been given. That is the
composition: `RpcClient` is checked and proved to implement the contract, the other
modules build on the contract and need not carry frames. They do so in two ways.

- `ExtensionCache` and `EventDesk` keep the abandoned replies themselves, in `late`, with
  three actions that end a call: `ReturnsOwn` or a clean answer, `ReturnsLate`, `GivesUp`.
- `CallQueue`, `MeetMe` and `PlanEditor` take the ending of each call from
  `CallEndings`: `"own"`, `"none"`, or, in the default build, `"stray"`: a reply that some
  call of the panel has given up on. The connection is common to all windows, so that a
  stray reply may be to any request; a module lets it read as anything that an older answer
  to the same question, or a reply to another one, can read as - an older list, another
  plan's id, nothing. Since each call picks its ending anew, one time-out after which every
  later reply is shifted is among the behaviours of these specifications, as is a shift that
  ends. A bound
  (`MaxQueueLosses`, `MaxLostReplies`, `MaxPlanLosses`) limits the calls without their own
  reply in a run, to two in `MeetMe` and to one in the others; the theorems hold for any.

Section 7 says where a call is modelled with less than this.

**RpcClient.** `pc[t]` is where a thread is in `rpcCall`; `lock`, `own[t]`,
`ret[t]`, `left[t]` are `RpcLock`, the correlation id, `strRet` and
`body_target - body_received`. A delivery is a method frame, a header frame and
`size` body frames; it travels from `unsent` (not here yet) over `kernel` (the
socket) to `buffer` (read by the library, not decoded), and `at` is how far the
decoder is in the first one. `Acquire`, `Publish`/`PublishFails`, `SelectReady`/
`SelectTimeout`, `ReadMethod`, `ReadHeader`, `ReadBody`/`ReadFails`, `Unlock` are the
steps of the function between the points where another thread or the network can
come in between; `EndOfAttempt` is the `while` of the EEPBX build. The environment
answers (`Answer`), sends another method (`Notify`), delivers frames (`Arrive`)
and loses the connection, closed or silently (`LoseLink`). `WaitFrame` models the
library: it reads what the socket holds in one go and decodes one frame.

**ExtensionCache.** `truth` is the exchange; `Change` and `RollCallResult` publish events,
and `rolled` is the result published last. `BootLoad` and `BootListen` are lines 82 and 84
of `PBX::initialise`; `Drop`/`Receive` the monitor loop before and after the callback is
registered; `Refresh` the RPC of `eventMessageReceived`, `Replace` and `Insert` its two
writes to `mExtensions` - apart, since nothing keeps the GUI thread from reading in between
- and `Fire` the callbacks. `GetState` is `PBX::Extension::getState`.

**ExtensionsZone** extends it: `FireCallback` is `Fire` together with
`ExtensionsZone::eventMessageReceived`, which emits queued signals; `TakeSignal` is
`extenStateChangedSlot` or `extenRollCallResultSlot` in the GUI thread; `LoadGroup`
and `LoadRinggroup` are `loadExtensFromRinggroup`. Each look-up in the cache finds it
as it is at that moment, also in the middle of a refresh. Where that was a refresh after
the result of a roll call, no signal of a state follows it and an old icon stays: `unseen`
holds the extensions last looked up so.

**EventDesk.** The chooser of the main window and the two `EventWidget` activities,
`k = "normal"` and `k = "emergency"`, each with its `PlanZone` and its buttons. A
click handler blocks the GUI thread from its first to its last line; `todo` holds
the RPCs it has still to make, and each of them is a step, because replies that are
late and calls of the monitor thread come in between. The fields
(`mEventId`, `mSelectedPlan`, `saveBtn`, ...) have the names of the code. `records`
is the event table of the adapter. The field `type` of a selected plan is never
assigned when the plan is not found (`typed`, `TypesOf`): whatever is in memory is
read, so both outcomes are possible.

**FtpTransfer.** `mJobs`, `mCurrentJob`, `mRetry`, `mError` are the fields of
`FTPClient`, `pending` the commands of `QFtpPrivate`, `link` the state of `QFtpPI` and
its socket (`blocked`: `waitForDtpToConnect` was left set), `loggedIn` and `cwd` what
the server knows of the session. All of it runs in the GUI thread; the calls that lead
from one event to the next are taken one at a time, and `step` says which is next:
`start` is `_q_startNextCommand`, `finished` and `failed` are `_q_piFinished` and
`_q_piError`, which call the slot `onFtpCommandFinished` (`Connected`, `NotConnected`,
`LoggedIn`, `NotLoggedIn`, `Transferred`, `Noticed`), and `dialog` is the message box in
that slot, whose own event loop lets the keep-alive timer and the socket go on. `NextJob`
is `nextJob`, with the values at the moment of the call as parameters. `Rest` is the queue after
`clearPendingCommands`. `link` is `down` again after `Close`, which also stands for the
socket errors that `QFtpPI::error` does not look at: nothing is reported, the command
that runs never ends.

**Supervision.** `phase[p]` is where process `p` is in `main` - `asking` for the mutex, at
the `database`, in one of the statements of the upgrade (`Upgrading`; each is a step and may
fail: those of `setVersion` are `SetVersion`, `DeleteVersion` and `InsertRow`, those of
`initialise` are in `Statements`), at the `client`, in `login`, `build`, `connect`,
`running`, `quitting`. `flagged` are the processes started with `RESTART_FLAG`, which ask
for no mutex. `Heard` says whose callback is registered when the monitor thread ends
(`MonitorEnds`), `posted` counts the error signals in the event loop of a process: each of
those handled before the loop ends starts another process (`StopOnError`). `Killed` may
strike between any two steps. `ReadFails` is the select of `getVersion` that fails: it
counts as version 0, and the new number is stored without an upgrade. The database is what
the code asks of it: whether there is a system table, the version in it, and whether the
templates are those of the new program.

**CallQueue.** `MonitorHears` hands an event to the zone (`queueSignals`) and begins the
decision of the main window (`deciding`), which makes its calls one by one: `AskQueue`
for the number of the queue, `AskOperators` for the operators, `AskDetail` for each of them;
`Announce` ends it. Each of them may get no reply or an abandoned one, the zone's own
question for its queue (`BuildQueueZone`) too.
`QueueEventSlot` is the slot with the model of rows, which takes out the first row of
a caller (`RemoveFirst`); `AddEmergencyCallInfo` is the dialog. `CloseEmergency` opens the
message box of `closeEvent`, whose event loop goes on taking signals (`boxOpen`), and
`BoxAnswered` lets the dialog go, with what came meanwhile; `RejectEmergency` is the escape
key, which `QDialog` handles without a `closeEvent`.

**MeetMe.** `MonitorTakes` turns an event into a posted signal; `TakeRoomSignal`,
`OnResume` and `OnRoomBtnClicked` read the rooms and begin a reload, which is cut where
other threads can come in between: `reload = "asking"` before the reply,
`"answered"` before the buttons are made. A signal posted to a button that a reload has
deleted stays in the queue as `Gone` and does nothing, as Qt has it.

**Selection.** `toggled` (buttons of the panel) and `selected` (list) are the two copies of
the choice; `boxChecked` is the box of the toggled group. `ToggleAll`, `Deselect` and
`Load` are what the slots do to both together. `items`, `pages` and `pager` are
`MultiTableWidgets`: `pages` is what `items` was at the last tick. `Buttons` is
`FastFuncZone`'s choice of what to offer, `Command` what a button leaves selected. That a
button comes or goes by itself is the matter of `ExtensionsZone`; here it may at any time.

**OperatorZone** and **VideoLinkage**, which extends it: `OpExtenClicked` is the slot that
both a click and a signal call, `RefreshOperatorsZone` the zone built anew after the
settings. The windows are a sequence, since `Sorted` re-orders them; a player is `idle`,
`opening` or `playing`, and goes from one to the other by itself. `OpenAndClose` is the
common part of the slots: what is in the lists of calls and not yet open, and the other
way round.

**PlanEditor.** `mPlan` is the editor's own copy, `plans` are those of the server.
`LoadActivity` goes between settings, editor and phone book, and `Leave` saves on the
way as the code does. `Ends` gives each of the calls of a save or a reload its ending. A
request without its own reply may have been carried out or not (`Done`), and the reply to a
creation is searched for any `Result` (`NewIds`): a plan may end up with no id, with that of
another plan, or with a text that is no id. `Listings` are the recordings that a request for
the list can bring; `EventRows` and
`TimedRows` are the lists as each editor builds them from it; `MoveLoop` is the loop of the
two move buttons, row after row. Recordings whose name the server spells in another way
(`Encoded`) are those that the choosing dialog (`BtnSelectRecordFileClicked`) never ticks.

**TimeSetting.** The dialog `TimedSettingEditDialog`: its modes and ticks clear each other
(`ChangeSetting`), and `ExecuteDate` puts day, month and year together as lines 655-684 do.

**PhoneBook.** `ticks` are pairs of record and column; `RecordListViewClicked` is the slot
that keeps the columns together, `Conference` and `Target` build what is dialled.

*History variables* (`returned`, `rolled`, `rollLost`, `lost`, `missed`, `unseen`, `report`,
`reports`, `hurt`, `acted`, `ended`, `trouble`; `first`, `cut`, `unheard`; `before`,
`unannounced`, `misled`, `handled`, `closed`; `roomsLost`, `membersLost`, `muteLost`; `outdated`,
`removed`; `saveFailed`, `replyLost`, `warned`, `asked`, `lastTicked`) record what has
happened for the properties to speak about; no guard of a modelled handler reads one,
except the bounds on the number of reports (and of uploads, `added`) and that a caller
of `CallQueue` joins once.

## 3. Runs

All pass with no error or, for the last kind, end with a violation of their only property
(section 6). Deadlock is not checked in any run: each model stops when its bound on calls,
events or reports is used up, which the program does not do. `LockReleased`, `CatchesUp`,
`CallsAppear`, `AlertActs`, `JobsEnd` and `LossNoticed` say that the modelled work does not
get stuck before that.

| run | question | states | bounds |
|---|---|---|---|
| `rpc_default` | Does `rpcCall` keep in step with the frame decoder, return whole replies, implement `RpcContract`, and let go of the lock, with two threads? | 96,596 | 2 threads, 2 calls, replies of up to 2 body frames |
| `rpc_eepbx` | Does the EEPBX build return only own replies? | 7,690 | 2 threads, 3 calls, 1 body frame |
| `cache_default` | Is a change, or a roll call's result, ever lost between snapshot, events, and refreshes that fail or return late replies? | 288,844 | 2 extensions, 3 events, 1 call given up |
| `zone_panel` | Do buttons, icons and the two dynamic groups follow the cache? | 93,448 | 1 extension, 3 events, no call given up |
| `desk_default` | Do reports get one record of their own, and do alarms act? | 747,175 | 2 reports, 2 records, 1 call given up, 3 plans |
| `ftp_default` | Are uploads read from files that exist, stored in order and in place, and what becomes of them when a command fails? | 12,982 | 4 uploads, 3 retries as in the code, up to 5 commands queued when a keep-alive is added |
| `window_life` | Does an upgrade stay whole, and a lost connection noticed, over starts, restarts and faults? Are those who wait, the emergency calls and the members of a conference on show? | 889,296 | 3 processes, 2 faults, 4 first databases; 3 callers, 1 call without its own reply; 2 rooms, 2 users, 3 events, 2 calls without their own reply |
| `main_window` | Do the panel and the forms do what the user chose? (`selection` 244,012 states, `operators` 394, `video` 27,081, `plans` 634,412, `times` 137,852, `book` 39,197) | 1,082,948 | see below |
| `rpc_mismatch`, `cache_gap`, `one_instance`, `book_call` | violations, see section 6 | | |

`MCWindowLife` and `MCMainWindow` check several modules in one run. These modules share no
state, so that nothing is lost by taking them one at a time: the variable `part` is chosen
at first and never changes, the part it names runs, and the others rest. The constant `Parts` of
`MCMainWindow` says which parts a run takes; the theorems hold for all of them.

What the properties of the passing runs say:

- `StreamInStep`: a thread that waits for a method, header or body frame is where
  the decoder is, and between calls the decoder is between deliveries or the
  connection has ended. `WholeReply`: a text about to be returned is empty or all
  the fragments of one delivery, in order. `Contract`: refinement of `RpcContract`.
  `LockReleased`: the holder of `RpcLock` lets go, unless the peer goes silent in the
  middle of a delivery - the one wait in the function that has no timeout.
- `Tracks`: an extension is in the cache with its present state, or an event is on its way
  that will refresh it, unless its last event was dropped at start-up or its last refresh
  failed (`lost`). `RollKept`: the cached roll-call result is the last one the exchange has
  announced, or that one is still on its way, unless its event was dropped at start-up or
  its refresh failed (`rollLost`). `CatchesUp`: the cache comes to hold the present state.
- `IconsFollow`, `DynamicGroupsExact`: an icon, and membership in "current calls" and
  "online", agree with the cache or something is on its way that will make them.
  Two kinds of extensions are left out: those whose refresh was lost or never signalled to
  the zone (`missed`), and those last looked up in the middle of a roll call's refresh
  (`unseen`), which shows them wrongly although no call has failed.
  `CallsAppear`: a call appears in "current calls" as long as that group is on show.
- `OwnRecord`, `OneRecord`: a report is written to its own record, with its own plan,
  and to one only. `Recorded`: no call, message or broadcast for a report that is not
  on record. `AlertFirst`: the save button of the emergency window never records a
  plan without its alarm. `AlertActs`: a raised alarm hangs up, messages, calls and
  plays. All of these leave out reports in which a call got no reply or a wrong one
  (`hurt`), but not the reports before and after them: with one failing call, its late
  reply and whatever it does to the next report are in the run.
- `DeviceAlive`: a put in the queue of QFtp is that of the current job, whose `QFile` is
  open; no other put holds a pointer to a deleted one. `InOrder`: uploads end in the order
  of the clicks, and none twice. `RightDir`: what was stored is in the directory asked for,
  although `cd` and `put` are separate commands with keep-alives, failures and new
  connections in between. `JobsEnd`: every upload ends, unless a command other than a
  put fails or the connection does (`trouble`): a refused put alone never holds up the
  rest. `StuckForGood` states the price of the other failures as an action property: once
  the put of the current job has been thrown away - its `cd` failed, on purpose or for
  want of a login, or the connection was lost - `mCurrentJob` is never reset and no
  upload ends again, whether jobs are added or not.
- `UpgradeWhole`: a process that has got past the local database finds the tables of its
  version, whichever process made the upgrade and whoever was started meanwhile; not so when
  the database found first was older than the oldest version upgraded (30, `first`), or a
  fault has hit the reading of a version to be upgraded, a statement of the upgrade, or the
  process in it (`cut`). A failed statement of `setVersion`, which stores the number, leads
  to no such exception, unless the process is killed before the upgrade. `LossNoticed`: a
  running panel whose monitor thread has ended ends too, unless the thread ended before
  anyone could hear it (`unheard`).
- `CallsShown`: once events and signals are taken, the rows are those who wait, the latest
  on top, each emergency call has its button in a visible dialog, and an operator's own call
  has none. Left out are those who came before anyone could hear (`before`,
  `unannounced`), calls that were clicked (`handled`), a dialog that was closed since
  (`closed`), and calls decided about without replies of their own (`misled`) - these alone:
  what a stray reply does to one decision leaves the next as it should be. `MembersFollow`: the
  members shown are those of the room, muted or not, after any reloads, unless the last
  question for them was not answered by its own reply (`membersLost`); whether one is muted
  is left open where the event found no button (`muteLost`).
- `SelectionMirrors`: a button is toggled exactly when its extension is selected.
  `PagerRight`: the page on show exists, the pager offers the neighbours there are, and
  what it shows is up to date or will be at the next tick.
- `ThreeWayHonest`: the three-way button is enabled only for the one toggled operator, who
  is in a call or whose end of call is still posted. `NoGhostVideo`: once its signals are taken,
  a labelled window belongs to an extension in a call.
- `OnRecord`: a plan begun is one plan on the server, its editor changes no other plan, and
  the one in the editor is there as it is - at once for event plans, at the latest when the
  editor is left for timed ones. Left out are a plan whose own creation had no reply of its
  own (`replyLost`), and what is in the editor while its last save or reading had none
  (`saveFailed`): what happens to any other call does not excuse it. `MovesOneStep`, an
  action property: the play list of the plan in the editor changes only by a choice, which
  sorts it, or by a move of one place.
- `TaskRunsAsChosen`: a task set without ignoring a warning has a mode and a day, stops
  after it starts, and a single run is on the next day of that name, over month and year
  ends; the year may be blank when that day is in another month of the same year (lines
  655-662).
  `ReachesLastTicked`: where one callee is to be chosen the call is made, and to the one
  ticked last.

*Why the bounds are enough for the interesting cases.* A reply that is taken by the wrong
call needs two calls; a chain of them needs three, which the EEPBX run has and the default
build is proved for. Two body frames are the least at which a reply can be cut. An event, an
event for the same extension while the first is handled, and one for another extension need
three events and two extensions; the zone handles each extension by itself, so one is enough
there, with three events for "came, changed, changed back". Mixing up reports needs two; a
second record for the same report needs two records; one failing call with its late reply is
what gives rise to either. Two normal plans are needed to change between plans, and an
emergency plan for the alarm. Four uploads are one that is stored, one that fails, one
behind it and one that comes in while either is under way; five commands are a transfer with
its login and keep-alives around it, and the theorems of section 5 do away with both bounds
for safety. For a race of restarts it takes a process, the one it starts, and one that the
user starts; two faults are a failed update of the version and a second one before the
upgrade is over, and the four first databases - none, version 29, 35 and the one that is
shipped - take each branch of the upgrade. Three callers are two emergency calls, one of
them an operator's own channel (`OwnChannels`), and one other. Three conference events are
one that starts a reload, one during it and one after. For the panel: extensions 1 to 3, a
ring group {1, 2}, and pages of one or two buttons, so that a page is full, becomes empty,
and one is in the middle. Two operators and two extensions, of which one has two cameras, on
up to four windows, with two changes: a call that overlaps another one, and its end. Two
recordings, one spelled in another way, one that comes and goes; two plans begun, so that a
stray reply can give one the id of the other (a third recording, and with it moves among
more than two rows, are the matter of `MovesAreSteps`, for any number); one call without its
own reply, one person. Two weekdays, two times of the day, two repetitions, and two dates,
the day before a leap day and two days before a new year. Two records, one without an
extension, one lost save. In `zone_panel` no call is given up: what a failed refresh does to
the cache is the subject of `cache_default`, and the zone only reads the cache.

Every property has a mutant in `PROJECT.json`: a change of a modelled definition
that a plausible bug would make (the definitions marked `Bug:` in the modules, which
no specification uses), and that the run then reports.

## 4. Fairness

- `RpcClient!FairSpec`: weak fairness of each thread's steps inside `rpcCall` - they
  are computations, or waits that `select` ends after the timeout - and of the arrival
  of frames that have been sent while the connection is up. Nothing says that the
  adapter answers or that anyone calls.
- `FairCacheSpec`: the monitor thread keeps running, and `initialise` comes to its end.
  Its RPCs return by `LockReleased`; that they succeed is not assumed.
- `FairZoneSpec`: the same, and the GUI thread takes queued signals, as Qt's event
  loop does. Nothing says that the user loads a group.
- `EventDesk!FairSpec`: a handler that runs goes on, its RPCs return and the dialogs
  it opens are answered or cancelled. Nothing makes the user click.
- `FtpTransfer!FairSpec`: the event loop runs and message boxes are closed; a command
  that was sent is answered, or the connection ends. A server that stays silent for ever on
  an open connection is left out, as QFtp has no timeout. Nothing makes the user add a
  job or the timer tick.

- `SupFairness`: the event loop of a process takes an error that was posted to it, and
  ends when it has been told to. Nothing makes a process start or come to run, and nothing
  says that the connection ends.

`LockReleased` excludes a peer that is silent in the middle of a delivery. When that
happens (a hazard of its own: `MessageClient.cpp:212`) the fairness of the other
modules does not hold, and the whole program stands still.

## 5. What is proved

The seven `...Proofs` modules and `SequenceLemmas` are checked by TLAPS to the last leaf,
from the assumptions on constants alone, each named `...Assumption` in the module that
declares the constants. The results hold for any set of threads, any number of calls, any
size of replies, both builds; any extensions and ring group, any number of events
and of failed calls; any number of reports, records and plans; any number of uploads, any
retry limit, any length of the command queue; any number of processes and faults, callers
and conferences; any extensions, page sizes, operators, cameras and windows; any plans,
losses, dates and times; any phone book. What is assumed beyond the types:

- `DbAssumption`: a database found at first that claims the program's version has its tables.
- `DeskAssumption`: a plan is normal or an emergency plan, and not both.
- `QueueAssumption`: the word `"none"` is no caller's.
- `SelAssumption`, `VideoAssumption`: there are finitely many extensions, they are numbers
  that can be put in order, no operator is one of them, each has one camera or two, as the
  settings dialog has it, and there is a page size and a window.
- `TimeAssumption`: a date is one of the calendar.
- `BookAssumption`: there are finitely many records; "all" names no kind of number.

| theorem | says |
|---|---|
| `TypeCorrect` | `RpcClient!Spec => []TypeOK` |
| `StreamStaysInStep` | `Spec => []StreamInStep` |
| `RepliesAreWhole` | `Spec => []WholeReply` |
| `KeepsContract` | `Spec => Contract`: every step of `rpcCall` is a step of `RpcContract` or a stutter |
| `CacheTypeCorrect` | `ExtensionCache!CacheSpec => []TypeOK` |
| `CacheTracks` | `CacheSpec => []Tracks` |
| `RollCallsKept` | `CacheSpec => []RollKept` |
| `ZoneTypeCorrect` | `ExtensionsZone!ZoneSpec => []ZoneTypeOK` |
| `IconsAreRight` | `ZoneSpec => []IconsFollow` |
| `GroupsAreExact` | `ZoneSpec => []DynamicGroupsExact` |
| `FtpTypeCorrect` | `FtpTransfer!Spec => []TypeOK` |
| `FileAlive` | `Spec => []DeviceAlive` |
| `TransfersInOrder` | `Spec => []InOrder` |
| `StoredInPlace` | `Spec => []RightDir` |
| `StaysStuck` | `Spec => StuckForGood` |
| `DeskTypeCorrect` | `EventDesk!Spec => []TypeOK` |
| `ReportsOwnRecords` | `Spec => []OwnRecord` |
| `ReportsHaveOneRecord` | `Spec => []OneRecord` |
| `ActsAreRecorded` | `Spec => []Recorded` |
| `AlarmComesFirst` | `Spec => []AlertFirst` |
| `UpgradeIsWhole` | `Supervision!SupSpec => []UpgradeWhole` |
| `WaitingCallsShown` | `CallQueue!QueueSpec => []CallsShown` |
| `ShownMembersFollow` | `MeetMe!MeetSpec => []MembersFollow` |
| `LifeTypeCorrect` | `MCWindowLife!LifeSpec => []LifeTypeOK` |
| `ThreeWayIsHonest` | `MCMainWindow!MainSpec => []ThreeWayHonest` |
| `PanelMirrorsSelection` | `MainSpec => []SelectionMirrors` |
| `PagerIsRight` | `MainSpec => []PagerRight` |
| `NoGhostWindows` | `MainSpec => []NoGhostVideo` |
| `PlansOnRecord` | `MainSpec => []OnRecord` |
| `TasksRunAsChosen` | `MainSpec => []TaskRunsAsChosen` |
| `CallReachesLastTicked` | `MainSpec => []ReachesLastTicked` |
| `EditorsInOrder` | `MainSpec => []EditorInv` |
| `MovesAreSteps` | `MainSpec => MovesOneStep` |
| `MainTypeCorrect` | `MainSpec => []MainTypeOK` |

The theorems `Invariance`, `CacheInvariance`, `ZoneInvariance`, `DeskInvariance`,
`UpgradeInvariance`, `QueueInvariance`, `MeetInvariance`, `LifeInvariance`,
`SelectionInvariance` and `EditorsInOrder` say that the inductive invariants hold; the
others follow from them.

*RpcClient.* `WholeReply` is not inductive: that the text put together so far is a
prefix of one reply says nothing unless the decoder stands right behind it.
The invariant `IInv` has six parts. `LockInv`: exactly the holder of the lock is
inside. `ReadInv`: a reader of a header or a body frame is inside the first delivery of the
connection, where the decoder is. `TextInv`: its text is the fragments decoded so far of
that delivery. `CallInv`: every request numbered so far has returned, once, but the one
in progress. `TokenInv` is about where a
reply can be: a request is with the adapter, or its reply is in the inbox, or in
somebody's text, or was handed out, and never in two of these places. From it follows that
the reply a call returns was handed to nobody before, which is what the contract asks.
The frame lemmas (`WaitFrameMoves`, `TextQuiet`, `TokenQuiet`, ...) say which parts a step
cannot disturb, so that every `...Step` lemma deals only with the actions it is about.

*ExtensionCache.* `Tracks` needs to know that the handler is idle until the callback
is registered (`HandlerInv`), or an event could be under way while the snapshot is
stored. `RollKept` follows a result from its announcement to the entry (`RollInv`): the last
one on its way among the events is the last one announced (`RollsInOrder`); when none is, the
handler has it, in `msg` and, between the two writes, where the entry is absent, in
`rollCallState` alone (`RollHeld`); and an extension without an entry has no result to keep
(`NoRoll`).

*FtpTransfer.* `DeviceAlive` is kept only because `nextJob` queues a put when no job is
current, so that no put is queued then: the same invariant, read for `NoJob`
(`CurrentNoPut`). `RightDir` needs that a put stands right behind its own `cd`
(`Led`) and that whoever is logged in when a put comes up is in its directory
(`DirInv`); after a failure there is nothing behind the command. `InOrder` needs the
numbers of the waiting, the current and the ended jobs to be in order among each other
(`Ordered`). `StaysStuck` uses the same invariant: a put ends only as the put of the
current job, which a stuck job has lost.

*ExtensionsZone.* Neither property can be proved by comparing panel and cache, since between
an event and its signal each may be ahead of the other. `ZoneInv` compares both with the
exchange. A refresh is *expected* for an extension when its event is pending or being
handled. `CacheInv`: the cache has the present state, or a refresh is expected. `SignalInv`:
the last signal of an extension carries its present state, or a refresh is expected; an
earlier signal may carry anything. `IconInv` and `GroupInv`: the icon, or membership in a
dynamic group, is right for the present state, or a refresh is expected, or a signal is
on its way. A change of the exchange makes a refresh expected for the extension changed; the
end of a refresh, which ends the expectation, appends a signal with the state stored;
taking the last signal makes icon and membership right. `Expected` counts only the events of
a change: the result of a roll call promises no signal of a state. That is also why `IconInv`
and `GroupInv` leave out `unseen`: a look-up in the middle of such a refresh breaks them with
nothing on its way. They hold again for an extension with the next signal of its state, or
the next loading, that finds it in the cache. The invariant of `ExtensionCacheProofs` is part of it.

*EventDesk.* A handler is cut into its RPCs, so what a report is written to depends on what
`todo` still holds. `Control` says what each pending RPC presupposes: which window is on
show, which fields are set, what may follow. `Offer` and `Choice` carry the plan that the
chooser shows with an event to the window it opens. `OnShow` relates the report on show to
its event id and to the adapter's records - it has an id exactly when it is on record, and
the id is of its own record - except for reports in which a call failed (`hurt`), and 0 in
`hurt` stands for a failure before the report has begun. `Alarmed` says that the emergency
window can save only once its alarm was raised. `Bounded`: no reply, late or not, speaks of
a record that does not exist, which is what keeps a late reply harmless to the types.

*OperatorZone.* The three-way button depends on what a button *shows*. `ShownInv` - a button
that shows a call belongs to an operator in a call, or the end is posted - is what
carries `ThreeWayHonest` over the end of the call.

*Supervision.* There can be one upgrade. `UpgradeInv` is a disjunction, kept by every step: a
fault has cut an upgrade (`cut`); or the version found was below 30 (`first`); or the upgrade
is over (`SettledInv`): the tables are new, and whatever reads another version than the
program's reads one below 30, stores the number and upgrades nothing; or it is to come or
under way (`FreshInv`), with at most one process at the database, which holds the mutex, and
none started by a restart, because nobody has run yet. `AtStep` says what that process has
done. `StoresWhat` sums up the statements of `setVersion`, however they fail.

*CallQueue.* `CallsShown` speaks of the moment when nothing is on its way. In between, a
caller is known by where the two events are: `OnTheWay` says that one who waits is listed or
the `join` is coming, that one who does not and is listed or coming is followed by the
`leave`, and never both listed and coming. `Once` says that no queue holds an event twice
and that the `leave` of a caller is always behind the `join`. `OrderKept` says how the order
of those who wait is spread over rows, signals and events (`Ahead`), each of which was
handed on before the next. `Announced` does the same for an emergency call up to the dialog,
`OwnQuiet` says that an operator's own call is not on that way, and both need `WellDecided`:
a decision all of whose replies so far were its own knows the operators or has them still to
ask for, whatever an earlier decision was told.

*MeetMe.* `EventsTrue` and `PostedTrue`: the last event about a member says how the member
is, and so does the last signal when no event is left. `Settled` are the states in which the
buttons can be compared with the room at all; in them `AllThere` and `MutesShown` hold, of the
buttons there are or, when the reply has come, of those that will be (`Btns`). `Addressed` says
that a posted mute finds its button, since a reload takes its signals with it.

*Selection.* `SelectionMirrors` and `PagerRight` are inductive with the types and the
fact that the buttons are sequences. What it takes is that each of the slots that call each
other changes both copies alike (`Deselected`, `SelectionKept`), and that `InOrder` lists the
extensions of a group (`PanelInOrder`).

*VideoLinkage.* `NoGhostVideo` needs three links between a window and a call: a label is of
an extension that has been opened (`ScreenOK`, through `Sorted`, `Open` and `Close`), one
that has been opened is in a list (`OpenedListed`), and an entry of a list is a call, or the
signal that the call is over is posted (`OperatorsExplained`, `OthersExplained`). An
extension can be in several lists at a time; `close` closes what left one of them, so that
`OpenedListed` is an implication only.

*PlanEditor.* `OnRecord` needs to know of every plan on record which task it was made for:
plans of one task are one, and one without an id has none on record, unless its creation had
no reply of its own (`OnePlanEach`), and that the plan in the editor is on record as it is,
except in the editor of a timed broadcast, which saves when it is left (`EditorOnRecord`).
`MovesOneStep` looks simple and is not: the loop of the move buttons goes over the rows
while it changes them, so that with two rows ticked, or one met twice, more than two
neighbours would change places. It holds because a click on a row takes the tick from every
other (`EditorInv`, by `OneTicked`), and because the loop downwards starts at the bottom: up
to the ticked row nothing changes, and the row that has moved is not met again
(`LoopMoves`).

*TimeSetting.* What runs once has at most one day, in the dialog and in the task (`OneDay`).
`ExecuteDateIs` is the lemma about dates: day, month and year, which the code computes
separately, are those of the date that many days ahead, but for a year left blank.

*PhoneBook.* With a purpose that takes one callee the ticks are all in one row (`OneRow`), so
that the one selected record is that of the last tick, and it has a number to call. The types
(`CallsTyped`) need that the pattern, once filled in, holds a number of the list (`ConferenceIs`),
and that the callees before the first record without a number are a sequence (`EmergencyIs`).

*The types of the main window.* `MainTypeCorrect` puts the invariants of the parts together. The
layout needs that there is a side for any number of windows, the first that has room
(`SideForIs`), and that a free window is found before windows are counted (`OccupiedNat`).

*SequenceLemmas.* `InOrder` gives the i-th of a finite set of integers as the one with
i - 1 below it. That there is one for each i is a count: otherwise two members would have
the same number below them (`EachRank`, by the pigeonhole principle). The
other lemmas say what appending, putting in, taking out and picking elements do to the order.
The loops of the move buttons and of a conference are recursive functions over the numbers up to
the length of a sequence. That such a function exists is `StepsExist`; what it yields is proved
by taking the set of the numbers for which the claim holds (`UpTo`), with the least number
outside it as the contradiction, so that no induction theorem with an operator for a parameter
is needed.

*Only model-checked:* the liveness properties. They rest on fairness, and with it on ENABLED,
which is beyond the prover. Every invariant and every action property of a passing run has its
theorem.

## 6. What the code does that its comments deny

Four runs end with a violation. Each checks what a comment or a text of the repository
says; the counterexample is a run of the code.

| run | text | what happens |
|---|---|---|
| `rpc_mismatch` | `MessageClient.cpp:90`, the queue "to receive the rpc responses" | the default build never compares correlation ids: after a timeout, later calls return the replies of earlier ones |
| `cache_gap` | `FastFuncZone.cpp:396`, "take the real-time state of this extension" | an event between the snapshot and the registration of the callback is dropped; the cache stays old |
| `one_instance` | `main.cpp:73`, "the program is running already and cannot be started again" | a restart takes no mutex (line 62), and every error signal handled before the event loop ends makes one (`MainWindow.cpp:293-307`): two panels run |
| `book_call` | `UiPhoneBookList.cpp:279`, "call each number selected" | the first number that is no extension is filled into the pattern itself (lines 287, 291, 295); every later one dials it again |

Other things the modules show, for which no run was set up: `rpcCall` waits on the socket
although its reply may be in the library's buffer (`MessageClient.cpp:165`); the group of all
extensions does not grow after it was loaded, and a roll-call result that the cache keeps
is not shown on a new button (`ExtensionsZone.cpp:78`, 294); a report may take the late reply
to the save of the report before it (`EventWidget.cpp:154`), which is where `hurt` begins; a move in
the play list drops the recordings not on show (`TimedBroadcastEditor.cpp:291`);
`Housekeeper::check` never closes the sockets it opens (`MessageClient.cpp:486`).

What the exclusions of the properties stand for goes wrong in the code as well:

- A look-up while a roll call's refresh has the entry out of the cache shows the extension
  as offline until its next change (`pbx.cpp:48`, `ExtensionsZone.cpp:336`): `unseen`.
- A process killed after the version was stored and before the upgrade is over, a
  statement of it that fails, or a version that cannot be read, leaves the new number with the
  old tables, and no later start repairs them (`main.cpp:97`, `dbwrapper.cpp:94-105`): `cut`.
- In the default build one time-out anywhere in the panel shifts the replies of the calls
  after it. An emergency call may then be kept back, or an operator's own be announced
  (`MainWindow.cpp:47-61`): `misled`; a conference shows older members
  (`MeetMeWidget.cpp:134`): `membersLost`; a new plan takes another plan's id, and the next
  save changes that one (`RPCCommand.cpp:831-839`): `replyLost`.
- Closing the dialog of emergency calls hides also a call that was announced while its message
  box was open (`dlgemergencycall.cpp:100`): `closed`.
- A muting that comes while a reload has no buttons is not shown (`MeetMeWidget.cpp:38`):
  `muteLost`.
- A save of a report or a plan that was done but not answered is made a second time
  (`EventWidget.cpp:154`, `TimedBroadcastEditor.cpp:495`): `hurt`, `replyLost`.

## 7. What is left out, and the plan

Abstractions of the modules that exist:

- Texts: JSON, wording, encodings. A body frame is converted to a string on its own
  in `rpcCall`, which garbles a character cut in two; fragments are not bytes here.
- The memory of Qt containers read and written by two threads. The order of the two
  writes to the cache is modelled, a torn `QMap` is not.
- `EventDesk`: a plan has one number, one terminal, one sound; a loop of RPCs counts
  as one step; plans do not change while the program runs; the title and description of
  a report; the extension list of the event window. The replies to calls, text
  messages and hang-ups are taken to hold no event id, where `saveEvent` would take the text
  of any `Result` for one: a report that takes such a reply is in `hurt` whatever it says.
- Endings of a call: `PhoneBook` knows a request that got lost, with an empty list or an
  unsaved record for it, and no reply of another call; `Supervision` only whether the
  adapter says yes to a login; `Selection`, `OperatorZone`, `VideoLinkage` and `FtpTransfer`
  make no calls whose replies they read, or leave them out. `CallQueue`, `MeetMe` and
  `PlanEditor` do not say which call a stray reply belongs to, so that they allow more than
  the panel does; a request without its own reply is carried out at once or never, not later.
- `PlanEditor`: the version of a plan that `getEventPlans` finds in a stray reply differs
  from the plan in its recordings and members only.
- `FtpTransfer`: downloads, removals, notices and commands after a transfer, which no
  caller asks for; a file that cannot be opened; `TransferLock`, which only the GUI thread
  takes; the modes and data connections of FTP beyond accepted or refused. It has no
  abstract specification "every job ends once, done or reported": the code does not
  implement one, as `StuckForGood` shows.
- `ExtensionsZone`: the duration of calls.
- `Supervision`: the timer that checks HA storage (EEPBX) and the change of a password.
- `Selection`: the channels of an extension, and with them what a command does to a call
  that ended while a dialog was open. A turn onto a page with a button deleted since the
  last tick uses a deleted object, which is undefined, and is left out.
- `VideoLinkage`: an open with every window playing reads past the end of the list, which is
  undefined, and is left out; so is what a deleted operator zone does when its callback,
  which is never removed (`OperatorZone.cpp:74`), is called.
- `CallQueue`: `emergencyCall` stops at the first record without a number.
- `PlanEditor`: the broadcast terminals of an event plan, which work like its
  recordings, and the names of plans; another panel that changes the same plans.
- `PhoneBook`: names; records that are added or taken out.

Not modelled at all: the command processor (`tools.cpp`), which no caller reaches; call and
event logs, settings and text messages (`CallLogWidget`, `EventLog`, `PlaySoundWidget`,
`OpSettingsZone`, the SMS templates), which are queries and forms without state of their
own; `Config` and the log; the vendored sources themselves, and everything drawn.

Next, in this order:

1. **EventMonitor**: `run` by frames (`MessageClient.cpp` 335-419) with the callback registry
   (421-447, `pbx.cpp` 56-77, `OperatorZone.cpp` 68/74): a callback is not run after it
   was removed ("remove the callback by its uuid", `pbx.h:97`), an event is handed on
   whole or not at all.
2. **GroupCallNumber** (`Config.cpp:194`): the number wraps and starts anew with the process,
   while a conference of an earlier call may still have it.
3. The channels of an extension in **Selection**: what is read before a modal dialog still
   holds after it (`FastFuncZone.cpp:433`).
4. Proofs about what 1-3 add, from the invariants there are.
