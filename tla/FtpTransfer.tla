----------------------------- MODULE FtpTransfer -----------------------------
(***************************************************************************)
(* Uploads of sound files: FTPClient (misc/ftpclient.cpp) over the command *)
(* queue of QFtp (misc/qftp.cpp).  FTPClient keeps its own queue of jobs   *)
(* and one current job, for which it puts a cd and a put into the queue of *)
(* QFtp.  QFtp runs the commands one at a time; a failing command throws   *)
(* away the commands behind it.  A timer queues a pwd every minute, to     *)
(* keep the connection alive.                                              *)
(*                                                                         *)
(* Everything runs in the GUI thread.  What follows from one event before  *)
(* control returns to the event loop is taken step by step; step says what *)
(* comes next, "none" when the loop has control.  The error dialogs run a  *)
(* loop of their own, in which sockets and timers still work.              *)
(*                                                                         *)
(* Jobs are numbered in the order in which the user adds them.  All of     *)
(* them are uploads without a command to run afterwards, the only kind     *)
(* that RecordingFileZone adds.                                            *)
(***************************************************************************)
EXTENDS Integers, Sequences

CONSTANTS
    MaxRetryTimes,  \* FTPClient::MaxRetryTimes, 3 in the code
    MaxJobs,        \* bound: jobs the user adds
    MaxPending      \* bound: commands in the queue when the timer adds another

ASSUME FtpAssumption ==
    /\ MaxRetryTimes \in Nat
    /\ MaxJobs \in Nat
    /\ MaxPending \in Nat

VARIABLES
    mJobs,       \* jobs that wait
    mCurrentJob, \* the job whose commands were queued, or NoJob
    mRetry,      \* failed attempts to connect since the last good one, at most MaxRetryTimes
    mError,      \* FTPClient has given up
    pending,     \* the commands of QFtp, the one that runs first: [cmd, job]
    timer,       \* a single shot that starts the first command is under way
    step,        \* what comes before control returns to the event loop
    link,        \* the control connection, as QFtpPI has it
    loggedIn,    \* the server knows who we are
    cwd,         \* the job for which the server last changed its directory, or NoJob
    added,       \* how many jobs were added
    ended,       \* how the jobs ended, in order: [job, ok, dir] (history)
    trouble      \* a command other than a put failed, or the connection did (history)

jobs == <<mJobs, mCurrentJob>>
server == <<loggedIn, cwd>>
vars == <<jobs, mRetry, mError, pending, timer, step, link, server, added, ended, trouble>>

NoJob == 0
Jobs == 1..MaxJobs

Simple == {"connect", "login", "pwd"}
Command == [cmd : Simple, job : {NoJob}] \cup [cmd : {"cd", "put"}, job : Jobs]
Plain(c) == [cmd |-> c, job |-> NoJob]

TypeOK ==
    /\ mJobs \in Seq(Jobs)
    /\ mCurrentJob \in {NoJob} \cup Jobs
    /\ mRetry \in 0..MaxRetryTimes
    /\ mError \in BOOLEAN
    /\ pending \in Seq(Command)
    /\ timer \in BOOLEAN
    /\ step \in {"none", "start", "finished", "failed", "dialog"}
    /\ timer => step = "none" /\ pending # <<>>
    /\ step \in {"start", "finished", "failed", "dialog"} => pending # <<>>
    /\ link \in {"down", "connecting", "idle", "waiting", "blocked"}
    /\ loggedIn \in BOOLEAN
    /\ cwd \in {NoJob} \cup Jobs
    /\ added \in 0..MaxJobs
    /\ ended \in Seq([job : Jobs, ok : BOOLEAN, dir : {NoJob} \cup Jobs])
    /\ trouble \in BOOLEAN

\* The constructor of FTPClient asks for a connection.
Init ==
    /\ mJobs = <<>>
    /\ mCurrentJob = NoJob
    /\ mRetry = 0
    /\ mError = FALSE
    /\ pending = <<Plain("connect")>>
    /\ timer = TRUE
    /\ step = "none"
    /\ link = "down"
    /\ loggedIn = FALSE
    /\ cwd = NoJob
    /\ added = 0
    /\ ended = <<>>
    /\ trouble = FALSE

Current == Head(pending).cmd
Return == step' = IF pending' = <<>> THEN "none" ELSE "start"

\* QFtpPrivate::addCommand: an empty queue is started by a single shot.
Shot == timer' = (timer \/ (pending = <<>> /\ pending' # <<>>))

-----------------------------------------------------------------------------
(* Operators of FTPClient.                                                 *)

\* Bug: a job is begun while another one is being transferred.
NextJobAnyway(current, waiting, queue) ==
    IF ~mError /\ waiting # <<>>
    THEN LET job == Head(waiting) IN
         /\ mCurrentJob' = job
         /\ mJobs' = Tail(waiting)
         /\ pending' = queue \o <<[cmd |-> "cd", job |-> job], [cmd |-> "put", job |-> job]>>
    ELSE /\ mCurrentJob' = current
         /\ mJobs' = waiting
         /\ pending' = queue

\* Bug: the job is left in the queue of jobs.
NextJobKeeps(current, waiting, queue) ==
    IF ~mError /\ current = NoJob /\ waiting # <<>>
    THEN LET job == Head(waiting) IN
         /\ mCurrentJob' = job
         /\ mJobs' = waiting
         /\ pending' = queue \o <<[cmd |-> "cd", job |-> job], [cmd |-> "put", job |-> job]>>
    ELSE /\ mCurrentJob' = current
         /\ mJobs' = waiting
         /\ pending' = queue

\* nextJob, with the current job, the waiting jobs and the queue as they are then.
NextJob(current, waiting, queue) ==
    IF ~mError /\ current = NoJob /\ waiting # <<>>
    THEN LET job == Head(waiting) IN
         /\ mCurrentJob' = job
         /\ mJobs' = Tail(waiting)
         /\ pending' = queue \o <<[cmd |-> "cd", job |-> job], [cmd |-> "put", job |-> job]>>
    ELSE /\ mCurrentJob' = current
         /\ mJobs' = waiting
         /\ pending' = queue

\* The user uploads a file.  After an error nothing is added, and nobody is told.
AddJob ==
    /\ step = "none"
    /\ ~mError
    /\ added < MaxJobs
    /\ added' = added + 1
    /\ NextJob(mCurrentJob, Append(mJobs, added + 1), pending)
    /\ Shot
    /\ UNCHANGED <<mRetry, mError, step, link, server, ended, trouble>>

\* timerEvent: a pwd, unless jobs wait.  The current job is not looked at.
KeepAlive ==
    /\ step \in {"none", "dialog"}
    /\ mJobs = <<>>
    /\ Len(pending) < MaxPending
    /\ pending' = Append(pending, Plain("pwd"))
    /\ Shot
    /\ UNCHANGED <<jobs, mRetry, mError, step, link, server, added, ended, trouble>>

-----------------------------------------------------------------------------
(* QFtp and the control connection.                                        *)

SingleShot ==
    /\ timer
    /\ timer' = FALSE
    /\ step' = "start"
    /\ UNCHANGED <<jobs, mRetry, mError, pending, link, server, added, ended, trouble>>

\* _q_startNextCommand: a command fails at once without a connection, and is never
\* sent when QFtpPI still waits for a data connection that was refused.
Start ==
    /\ step = "start"
    /\ IF Current = "connect"
       THEN link' = "connecting" /\ step' = "none"
       ELSE /\ link' = IF link = "idle" THEN "waiting" ELSE link
            /\ step' = IF link \in {"idle", "blocked"} THEN "none" ELSE "failed"
    /\ UNCHANGED <<jobs, mRetry, mError, pending, timer, server, added, ended, trouble>>

Connect ==
    /\ step = "none"
    /\ link = "connecting"
    /\ link' = "idle"
    /\ step' = "finished"
    /\ UNCHANGED <<jobs, mRetry, mError, pending, timer, server, added, ended, trouble>>

\* Refused, not found, or timed out.
ConnectFails ==
    /\ step = "none"
    /\ link = "connecting"
    /\ link' = "down"
    /\ step' = "failed"
    /\ UNCHANGED <<jobs, mRetry, mError, pending, timer, server, added, ended, trouble>>

\* The server does what the command says; before the login it changes and stores nothing.
Succeed ==
    /\ step = "none"
    /\ link = "waiting"
    /\ Current \in {"cd", "put"} => loggedIn
    /\ loggedIn' = (loggedIn \/ Current = "login")
    /\ cwd' = IF Current = "cd" THEN Head(pending).job ELSE cwd
    /\ link' = "idle"
    /\ step' = "finished"
    /\ UNCHANGED <<jobs, mRetry, mError, pending, timer, added, ended, trouble>>

Refuse ==
    /\ step = "none"
    /\ link = "waiting"
    /\ link' = "idle"
    /\ step' = "failed"
    /\ UNCHANGED <<jobs, mRetry, mError, pending, timer, server, added, ended, trouble>>

\* The data connection of a put is refused; waitForDtpToConnect stays set.
RefuseData ==
    /\ step = "none"
    /\ link = "waiting"
    /\ Current = "put"
    /\ link' = "blocked"
    /\ step' = "failed"
    /\ UNCHANGED <<jobs, mRetry, mError, pending, timer, server, added, ended, trouble>>

\* The server closes the connection, at the end of its patience or instead of a greeting,
\* or the socket has an error that QFtpPI::error does not look at.  The command that runs
\* gets no answer, and QFtp reports no error.
Close ==
    /\ step \in {"none", "dialog"}
    /\ link # "down"
    /\ link' = "down"
    /\ loggedIn' = FALSE
    /\ cwd' = NoJob
    /\ trouble' = TRUE
    /\ UNCHANGED <<jobs, mRetry, mError, pending, timer, step, added, ended>>

-----------------------------------------------------------------------------
(* onFtpCommandFinished, within _q_piFinished and _q_piError, which then   *)
(* remove the command and start the next one.                              *)

\* Bug: a failing command leaves the ones behind it in the queue.
RestKept == Tail(pending)

\* The commands left when the slot is called: clearPendingCommands after an error.
Rest == IF step = "failed" THEN <<>> ELSE Tail(pending)

Connected ==
    /\ step = "finished"
    /\ Current = "connect"
    /\ mRetry' = 0
    /\ NextJob(mCurrentJob, mJobs, Append(Rest, Plain("login")))
    /\ Return
    /\ UNCHANGED <<mError, timer, link, server, added, ended, trouble>>

\* Bug: attempts are counted beyond the limit.
NotConnectedCounts ==
    /\ step = "failed"
    /\ Current = "connect"
    /\ IF mRetry >= MaxRetryTimes
       THEN pending' = <<Head(pending), Plain("connect")>> /\ step' = "dialog"
       ELSE pending' = Append(Rest, Plain("connect")) /\ Return
    /\ mRetry' = mRetry + 1
    /\ trouble' = TRUE
    /\ UNCHANGED <<jobs, mError, timer, link, server, added, ended>>

\* Another attempt is queued in any case; after the last one a dialog says so.
NotConnected ==
    /\ step = "failed"
    /\ Current = "connect"
    /\ IF mRetry >= MaxRetryTimes
       THEN /\ pending' = <<Head(pending), Plain("connect")>>
            /\ step' = "dialog"
            /\ UNCHANGED mRetry
       ELSE /\ pending' = Append(Rest, Plain("connect"))
            /\ Return
            /\ mRetry' = mRetry + 1
    /\ trouble' = TRUE
    /\ UNCHANGED <<jobs, mError, timer, link, server, added, ended>>

LoggedIn ==
    /\ step = "finished"
    /\ Current = "login"
    /\ NextJob(mCurrentJob, mJobs, Rest)
    /\ Return
    /\ UNCHANGED <<mRetry, mError, timer, link, server, added, ended, trouble>>

NotLoggedIn ==
    /\ step = "failed"
    /\ Current = "login"
    /\ pending' = <<Head(pending)>>
    /\ step' = "dialog"
    /\ trouble' = TRUE
    /\ UNCHANGED <<jobs, mRetry, mError, timer, link, server, added, ended>>

CloseDialog ==
    /\ step = "dialog"
    /\ mError' = TRUE
    /\ pending' = Tail(pending)
    /\ Return
    /\ UNCHANGED <<jobs, mRetry, timer, link, server, added, ended, trouble>>

\* Bug: the next job is not begun after one that has failed.
TransferredStops ==
    /\ step \in {"finished", "failed"}
    /\ Current = "put"
    /\ ended' = IF mCurrentJob = NoJob THEN ended
                ELSE Append(ended, [job |-> mCurrentJob, ok |-> step = "finished", dir |-> cwd])
    /\ IF step = "finished"
       THEN NextJob(NoJob, mJobs, Rest)
       ELSE mCurrentJob' = NoJob /\ pending' = Rest /\ UNCHANGED mJobs
    /\ Return
    /\ trouble' = (trouble \/ link # "idle")
    /\ UNCHANGED <<mRetry, mError, timer, link, server, added>>

\* The current job has ended, well or not: its file is closed and deleted.
Transferred ==
    /\ step \in {"finished", "failed"}
    /\ Current = "put"
    /\ ended' = IF mCurrentJob = NoJob THEN ended
                ELSE Append(ended, [job |-> mCurrentJob, ok |-> step = "finished", dir |-> cwd])
    /\ NextJob(NoJob, mJobs, Rest)
    /\ Return
    /\ trouble' = (trouble \/ link # "idle")
    /\ UNCHANGED <<mRetry, mError, timer, link, server, added>>

\* Bug: a cd or pwd that fails gives the current job up, whose file stays open.
NoticedEndsJob ==
    /\ step \in {"finished", "failed"}
    /\ Current \in {"cd", "pwd"}
    /\ IF step = "failed" THEN NextJob(NoJob, mJobs, Rest)
       ELSE pending' = Rest /\ UNCHANGED jobs
    /\ Return
    /\ trouble' = (trouble \/ step = "failed")
    /\ UNCHANGED <<mRetry, mError, timer, link, server, added, ended>>

\* A cd or a pwd has ended, well or not: nothing more is done about it.
Noticed ==
    /\ step \in {"finished", "failed"}
    /\ Current \in {"cd", "pwd"}
    /\ pending' = Rest
    /\ Return
    /\ trouble' = (trouble \/ step = "failed")
    /\ UNCHANGED <<jobs, mRetry, mError, timer, link, server, added, ended>>

-----------------------------------------------------------------------------

\* What the GUI thread does without waiting for anyone.
Run ==
    \/ SingleShot
    \/ Start
    \/ Connected
    \/ NotConnected
    \/ LoggedIn
    \/ NotLoggedIn
    \/ CloseDialog
    \/ Transferred
    \/ Noticed

\* What comes from the network.
Network ==
    \/ Connect
    \/ ConnectFails
    \/ Succeed
    \/ Refuse
    \/ RefuseData
    \/ Close

Next == AddJob \/ KeepAlive \/ Run \/ Network

Spec == Init /\ [][Next]_vars

\* The event loop runs; a command that was sent is answered or the connection ends.
FairSpec ==
    /\ Spec
    /\ WF_vars(Run)
    /\ WF_vars(link \in {"connecting", "waiting"} /\ Network)

-----------------------------------------------------------------------------
(* Properties.                                                             *)

\* QFtp reads the file of a put from the QFile of its job until the put has ended.  That
\* QFile is deleted with the current job (lines 122-125), so a put in the queue must be
\* the only one, and that of the current job.
DeviceAlive ==
    /\ \A i \in DOMAIN pending : pending[i].cmd = "put" => pending[i].job = mCurrentJob
    /\ \A i, k \in DOMAIN pending :
          pending[i].cmd = "put" /\ pending[k].cmd = "put" => i = k

\* Files are transferred in the order in which they were added, and none twice, whatever
\* fails in between and however often the connection is made anew.
InOrder == \A i, k \in DOMAIN ended : i < k => ended[i].job < ended[k].job

\* A file is stored in the directory asked for: a put never runs after the cd before it
\* has failed, nor in a session that began after it.
RightDir == \A i \in DOMAIN ended : ended[i].ok => ended[i].dir = ended[i].job

\* A put that fails does not keep the jobs behind it from being tried: unless something
\* else goes wrong, every job ends.
JobsEnd == \A j \in Jobs : (added >= j) ~> (trouble \/ \E i \in DOMAIN ended : ended[i].job = j)

\* The put of the current job was thrown away: with a cd that failed, with the connection,
\* or because the job was added before the login and its cd ran first.
Stuck == mCurrentJob # NoJob /\ \A i \in DOMAIN pending : pending[i].cmd # "put"

\* What FTPClient makes of it: from then on no job ends.  Neither a new job, nor the
\* keep-alive, nor another login sets mCurrentJob free (lines 149, 155).
StuckForGood == [][Stuck => Stuck' /\ UNCHANGED ended]_vars
=============================================================================
