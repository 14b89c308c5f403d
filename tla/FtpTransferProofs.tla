-------------------------- MODULE FtpTransferProofs --------------------------
(***************************************************************************)
(* Theorems about FtpTransfer for any retry limit, any number of jobs and  *)
(* any length of the command queue: type correctness, that QFtp only reads *)
(* files that are there, the order and the place of what is stored, and    *)
(* that a current job that lost its put blocks the queue for good.         *)
(***************************************************************************)
EXTENDS FtpTransfer, TLAPS

\* The puts of a queue: at most one, for the current job, right behind its cd.
Alive(queue, current) ==
    /\ \A i \in DOMAIN queue : queue[i].cmd = "put" => queue[i].job = current
    /\ \A i, k \in DOMAIN queue : queue[i].cmd = "put" /\ queue[k].cmd = "put" => i = k

Led(queue) == \A i \in DOMAIN queue : queue[i].cmd = "put" /\ i # 1 =>
    queue[i - 1].cmd = "cd" /\ queue[i - 1].job = queue[i].job

NoPut(queue) == \A i \in DOMAIN queue : queue[i].cmd # "put"

\* Which command runs when the connection or the steps of QFtp are busy with one.
RunInv ==
    /\ link \in {"connecting", "waiting"} => step = "none" /\ ~timer /\ pending # <<>>
    /\ link = "connecting" => Current = "connect"
    /\ step = "dialog" => Current \in {"connect", "login"}

\* Where the server is when a put comes up.
DirInv ==
    /\ loggedIn /\ pending # <<>> /\ Current = "put" => cwd = Head(pending).job
    /\ step = "finished" /\ Current \in {"cd", "put"} => cwd = Head(pending).job

\* Jobs pass from waiting to current to done in the order of their numbers, up to n.
Ordered(current, waiting, done, n) ==
    /\ \A i, k \in DOMAIN waiting : i < k => waiting[i] < waiting[k]
    /\ \A i \in DOMAIN waiting : current < waiting[i] /\ waiting[i] <= n
    /\ current <= n
    /\ \A i \in DOMAIN done : done[i].job <= n
    /\ current # NoJob => \A i \in DOMAIN done : done[i].job < current
    /\ \A i \in DOMAIN done, k \in DOMAIN waiting : done[i].job < waiting[k]
    /\ \A i, k \in DOMAIN done : i < k => done[i].job < done[k].job

QueueInv ==
    /\ Alive(pending, mCurrentJob)
    /\ Led(pending)
    /\ Ordered(mCurrentJob, mJobs, ended, added)
    /\ RightDir

IInv ==
    /\ TypeOK
    /\ RunInv
    /\ DirInv
    /\ QueueInv

-----------------------------------------------------------------------------
(* Queues of commands.                                                     *)

LEMMA Domain == ASSUME NEW S, NEW s \in Seq(S) PROVE DOMAIN s = 1..Len(s) /\ Len(s) \in Nat
OBVIOUS

LEMMA Element == ASSUME NEW S, NEW s \in Seq(S), NEW i \in DOMAIN s PROVE s[i] \in S
OBVIOUS

LEMMA JobsPositive == ASSUME NEW j \in Jobs PROVE j \in Nat /\ j > 0
BY FtpAssumption DEF Jobs

LEMMA PlainTyped == ASSUME NEW c \in Simple PROVE Plain(c) \in Command /\ Plain(c).cmd = c
BY DEF Plain, Command

LEMMA CommandTyped ==
    ASSUME NEW c \in Command
    PROVE  /\ c.cmd \in Simple \cup {"cd", "put"}
           /\ c.job \in {NoJob} \cup Jobs
           /\ c.cmd \in {"cd", "put"} => c.job \in Jobs
BY DEF Command, Simple

\* What a command without a file changes when it is put at the end.
LEMMA PlainAdded ==
    ASSUME NEW q \in Seq(Command), NEW c \in Simple, NEW current,
           Alive(q, current), Led(q)
    PROVE  /\ Append(q, Plain(c)) \in Seq(Command)
           /\ Append(q, Plain(c)) # <<>>
           /\ Alive(Append(q, Plain(c)), current)
           /\ Led(Append(q, Plain(c)))
           /\ NoPut(q) => NoPut(Append(q, Plain(c)))
           /\ q # <<>> => Head(Append(q, Plain(c))) = Head(q)
           /\ q = <<>> => Head(Append(q, Plain(c))) = Plain(c)
<1> DEFINE a == Append(q, Plain(c))
<1>1. /\ a \in Seq(Command)
      /\ Len(a) = Len(q) + 1
      /\ a[Len(q) + 1] = Plain(c)
      /\ \A i \in 1..Len(q) : a[i] = q[i]
  BY PlainTyped
<1>2. a[Len(q) + 1].cmd # "put"
  BY <1>1, PlainTyped DEF Simple
<1>3. DOMAIN a = 1..(Len(q) + 1) /\ DOMAIN q = 1..Len(q) /\ Len(q) \in Nat
  BY <1>1, Domain
<1>4. \A i \in DOMAIN a : a[i].cmd = "put" => i \in DOMAIN q /\ a[i] = q[i]
  BY <1>1, <1>2, <1>3
<1>5. Alive(a, current)
  BY <1>4 DEF Alive
<1>6. Led(a)
  <2>1. ASSUME NEW i \in DOMAIN a, a[i].cmd = "put", i # 1
        PROVE  a[i - 1].cmd = "cd" /\ a[i - 1].job = a[i].job
    <3>1. i \in DOMAIN q /\ a[i] = q[i] /\ i - 1 \in DOMAIN q
      BY <1>3, <1>4, <2>1
    <3>2. a[i - 1] = q[i - 1]
      BY <1>1, <1>3, <3>1
    <3>3. QED
      BY <2>1, <3>1, <3>2 DEF Led
  <2>2. QED
    BY <2>1 DEF Led
<1>7. NoPut(q) => NoPut(a)
  BY <1>4 DEF NoPut
<1>8. q # <<>> => Head(a) = Head(q)
  BY <1>1
<1>9. q = <<>> => Head(a) = Plain(c)
  BY <1>1
<1>10. a # <<>>
  BY <1>1, <1>3
<1>11. QED
  BY <1>1, <1>5, <1>6, <1>7, <1>8, <1>9, <1>10

\* What is left when the first command is removed.
LEMMA FirstRemoved ==
    ASSUME NEW q \in Seq(Command), q # <<>>, NEW current, Alive(q, current), Led(q)
    PROVE  /\ Tail(q) \in Seq(Command)
           /\ Alive(Tail(q), current)
           /\ Led(Tail(q))
           /\ NoPut(q) => NoPut(Tail(q))
           /\ Head(q).cmd = "put" => NoPut(Tail(q))
           /\ Tail(q) # <<>> /\ Head(Tail(q)).cmd = "put" =>
                 Head(q).cmd = "cd" /\ Head(q).job = Head(Tail(q)).job
<1> DEFINE t == Tail(q)
<1>1. /\ t \in Seq(Command)
      /\ Len(t) = Len(q) - 1
      /\ \A i \in 1..Len(t) : t[i] = q[i + 1]
      /\ Head(q) = q[1]
      /\ Len(q) \in Nat \ {0}
  OBVIOUS
<1>2. DOMAIN t = 1..(Len(q) - 1) /\ DOMAIN q = 1..Len(q)
  BY <1>1, Domain
<1>3. \A i \in DOMAIN t : i + 1 \in DOMAIN q /\ t[i] = q[i + 1] /\ i \in Nat /\ i + 1 # 1
  BY <1>1, <1>2
<1>4. Alive(t, current)
  <2>1. \A i \in DOMAIN t : t[i].cmd = "put" => t[i].job = current
    BY <1>3 DEF Alive
  <2>2. ASSUME NEW i \in DOMAIN t, NEW k \in DOMAIN t, t[i].cmd = "put", t[k].cmd = "put"
        PROVE  i = k
    <3>1. i + 1 = k + 1
      BY <1>3, <2>2 DEF Alive
    <3>2. QED
      BY <1>3, <3>1
  <2>3. QED
    BY <2>1, <2>2 DEF Alive
<1>5. Led(t)
  <2>1. ASSUME NEW i \in DOMAIN t, t[i].cmd = "put", i # 1
        PROVE  t[i - 1].cmd = "cd" /\ t[i - 1].job = t[i].job
    <3>1. i - 1 \in DOMAIN t /\ (i - 1) + 1 = i /\ (i + 1) - 1 = i
      BY <1>2, <1>1, <2>1
    <3>2. t[i - 1] = q[i] /\ t[i] = q[i + 1]
      BY <1>3, <3>1
    <3>3. QED
      BY <1>3, <2>1, <3>1, <3>2 DEF Led
  <2>2. QED
    BY <2>1 DEF Led
<1>6. NoPut(q) => NoPut(t)
  BY <1>3 DEF NoPut
<1>7. ASSUME Head(q).cmd = "put"
      PROVE  NoPut(t)
  <2>1. ASSUME NEW i \in DOMAIN t, t[i].cmd = "put"
        PROVE  FALSE
    <3>1. 1 \in DOMAIN q /\ q[1].cmd = "put"
      BY <1>1, <1>2, <1>7
    <3>2. 1 = i + 1
      BY <1>3, <2>1, <3>1 DEF Alive
    <3>3. QED
      BY <1>3, <3>2
  <2>2. QED
    BY <2>1 DEF NoPut
<1>8. ASSUME t # <<>>, Head(t).cmd = "put"
      PROVE  Head(q).cmd = "cd" /\ Head(q).job = Head(t).job
  <2>1. Head(t) = t[1] /\ 1 \in DOMAIN t
    BY <1>1, <1>2, <1>8
  <2>2. t[1] = q[2] /\ 2 \in DOMAIN q /\ 2 - 1 = 1
    BY <1>3, <2>1
  <2>3. QED
    BY <1>1, <1>8, <2>1, <2>2 DEF Led
<1>9. QED
  BY <1>1, <1>4, <1>5, <1>6, <1>7, <1>8

-----------------------------------------------------------------------------
(* The next job.                                                           *)

LEMMA CurrentNoPut ==
    ASSUME NEW q \in Seq(Command), Alive(q, NoJob)
    PROVE  NoPut(q)
<1>1. ASSUME NEW i \in DOMAIN q, q[i].cmd = "put"
      PROVE  FALSE
  <2>1. q[i] \in Command
    OBVIOUS
  <2>2. q[i].job \in Jobs
    BY <1>1, <2>1, CommandTyped
  <2>3. q[i].job = NoJob
    BY <1>1 DEF Alive
  <2>4. QED
    BY <2>2, <2>3, FtpAssumption DEF NoJob, Jobs
<1>2. QED
  BY <1>1 DEF NoPut

\* A queue without a put that gets the cd and the put of a job.
LEMMA TransferAdded ==
    ASSUME NEW q \in Seq(Command), NEW job \in Jobs, NoPut(q), NEW new,
           new = q \o <<[cmd |-> "cd", job |-> job], [cmd |-> "put", job |-> job]>>
    PROVE  /\ new \in Seq(Command)
           /\ new # <<>>
           /\ Alive(new, job)
           /\ Led(new)
           /\ Head(new) = IF q = <<>> THEN [cmd |-> "cd", job |-> job] ELSE Head(q)
<1> DEFINE cd == [cmd |-> "cd", job |-> job]
           put == [cmd |-> "put", job |-> job]
<1>1. cd \in Command /\ put \in Command
  BY DEF Command
<1>2. <<cd, put>> \in Seq(Command) /\ Len(<<cd, put>>) = 2
  BY <1>1
<1>3. /\ new \in Seq(Command)
      /\ Len(new) = Len(q) + 2
      /\ \A i \in 1..Len(q) : new[i] = q[i]
      /\ new[Len(q) + 1] = cd
      /\ new[Len(q) + 2] = put
  BY <1>1, <1>2
<1> HIDE DEF cd, put
<1>4. cd.cmd = "cd" /\ cd.job = job /\ put.cmd = "put" /\ put.job = job
  BY DEF cd, put
<1>5. DOMAIN new = 1..(Len(q) + 2) /\ DOMAIN q = 1..Len(q) /\ Len(q) \in Nat
  BY <1>3, Domain
<1>6. \A i \in DOMAIN new : new[i].cmd = "put" => i = Len(q) + 2 /\ new[i] = put
  <2>1. ASSUME NEW i \in DOMAIN new, new[i].cmd = "put", i # Len(q) + 2
        PROVE  FALSE
    <3>1. CASE i = Len(q) + 1
      BY <1>3, <1>4, <2>1, <3>1
    <3>2. CASE i \in DOMAIN q
      BY <1>3, <1>5, <2>1, <3>2 DEF NoPut
    <3>3. QED
      BY <1>5, <2>1, <3>1, <3>2
  <2>2. QED
    BY <1>3, <2>1
<1>7. Alive(new, job)
  BY <1>4, <1>6 DEF Alive
<1>8. Led(new)
  <2>1. ASSUME NEW i \in DOMAIN new, new[i].cmd = "put", i # 1
        PROVE  new[i - 1].cmd = "cd" /\ new[i - 1].job = new[i].job
    <3>1. i - 1 = Len(q) + 1 /\ new[i] = put
      BY <1>5, <1>6, <2>1
    <3>2. QED
      BY <1>3, <1>4, <3>1
  <2>2. QED
    BY <2>1 DEF Led
<1>9. new # <<>> /\ Head(new) = new[1]
  BY <1>3, <1>5
<1>10. CASE q = <<>>
  BY <1>3, <1>7, <1>8, <1>9, <1>10 DEF cd
<1>11. CASE q # <<>>
  BY <1>3, <1>5, <1>7, <1>8, <1>9, <1>11
<1>12. QED
  BY <1>10, <1>11

LEMMA NextJobQueue ==
    ASSUME NEW current \in {NoJob} \cup Jobs, NEW waiting \in Seq(Jobs), NEW q \in Seq(Command),
           Alive(q, current), Led(q), NextJob(current, waiting, q)
    PROVE  /\ mCurrentJob' \in {NoJob} \cup Jobs
           /\ mJobs' \in Seq(Jobs)
           /\ pending' \in Seq(Command)
           /\ Alive(pending', mCurrentJob')
           /\ Led(pending')
           /\ q # <<>> => pending' # <<>> /\ Head(pending') = Head(q)
           /\ q = <<>> /\ pending' # <<>> => Head(pending').cmd = "cd"
           /\ current # NoJob => mCurrentJob' = current /\ pending' = q
<1>1. CASE ~mError /\ current = NoJob /\ waiting # <<>>
  <2> DEFINE job == Head(waiting)
  <2>1. job \in Jobs /\ Tail(waiting) \in Seq(Jobs)
    BY <1>1
  <2>2. /\ mCurrentJob' = job
        /\ mJobs' = Tail(waiting)
        /\ pending' = q \o <<[cmd |-> "cd", job |-> job], [cmd |-> "put", job |-> job]>>
    BY <1>1 DEF NextJob
  <2>3. NoPut(q)
    BY <1>1, CurrentNoPut
  <2> HIDE DEF job
  <2>4. /\ pending' \in Seq(Command)
        /\ pending' # <<>>
        /\ Alive(pending', job)
        /\ Led(pending')
        /\ Head(pending') = IF q = <<>> THEN [cmd |-> "cd", job |-> job] ELSE Head(q)
    BY <2>1, <2>2, <2>3, TransferAdded
  <2>5. QED
    BY <1>1, <2>1, <2>2, <2>4
<1>2. CASE ~(~mError /\ current = NoJob /\ waiting # <<>>)
  <2>1. mCurrentJob' = current /\ mJobs' = waiting /\ pending' = q
    BY <1>2 DEF NextJob
  <2>2. QED
    BY <2>1
<1>3. QED
  BY <1>1, <1>2

LEMMA NextJobOrdered ==
    ASSUME NEW current \in {NoJob} \cup Jobs, NEW waiting \in Seq(Jobs), NEW q,
           NEW done, NEW n \in Nat,
           Ordered(current, waiting, done, n), NextJob(current, waiting, q)
    PROVE  Ordered(mCurrentJob', mJobs', done, n)
<1>1. CASE ~mError /\ current = NoJob /\ waiting # <<>>
  <2>1. mCurrentJob' = Head(waiting) /\ mJobs' = Tail(waiting)
    BY <1>1 DEF NextJob
  <2> DEFINE t == Tail(waiting)
             job == Head(waiting)
  <2>2. /\ t \in Seq(Jobs)
        /\ Len(t) = Len(waiting) - 1
        /\ \A i \in 1..Len(t) : t[i] = waiting[i + 1]
        /\ job = waiting[1]
        /\ job \in Jobs
        /\ Len(waiting) \in Nat \ {0}
    BY <1>1
  <2>3. DOMAIN t = 1..(Len(waiting) - 1) /\ DOMAIN waiting = 1..Len(waiting)
    BY <2>2, Domain
  <2>4. /\ 1 \in DOMAIN waiting
        /\ \A i \in DOMAIN t : i + 1 \in DOMAIN waiting /\ t[i] = waiting[i + 1] /\ 1 < i + 1
    BY <2>2, <2>3
  <2> HIDE DEF t, job
  <2>5. \A i, k \in DOMAIN t : i < k => t[i] < t[k]
    <3>1. ASSUME NEW i \in DOMAIN t, NEW k \in DOMAIN t, i < k
          PROVE  t[i] < t[k]
      <4>1. i + 1 < k + 1
        BY <2>2, <2>3, <3>1
      <4>2. QED
        BY <2>4, <4>1 DEF Ordered
    <3>2. QED
      BY <3>1
  <2>6. \A i \in DOMAIN t : job < t[i] /\ t[i] <= n
    BY <2>2, <2>4 DEF Ordered
  <2>7. job <= n
    BY <2>2, <2>4 DEF Ordered
  <2>8. \A i \in DOMAIN done : done[i].job <= n /\ done[i].job < job
    BY <2>2, <2>4 DEF Ordered
  <2>9. \A i \in DOMAIN done, k \in DOMAIN t : done[i].job < t[k]
    BY <2>4 DEF Ordered
  <2>10. \A i, k \in DOMAIN done : i < k => done[i].job < done[k].job
    BY DEF Ordered
  <2>11. Ordered(job, t, done, n)
    BY <2>5, <2>6, <2>7, <2>8, <2>9, <2>10 DEF Ordered
  <2>12. QED
    BY <2>1, <2>11 DEF t, job
<1>2. CASE ~(~mError /\ current = NoJob /\ waiting # <<>>)
  BY <1>2 DEF NextJob
<1>3. QED
  BY <1>1, <1>2

LEMMA JobAdded ==
    ASSUME NEW current, NEW waiting \in Seq(Jobs), NEW done, NEW n \in Nat,
           current \in {NoJob} \cup Jobs, n < MaxJobs,
           \A i \in DOMAIN done : done[i].job \in Nat,
           Ordered(current, waiting, done, n)
    PROVE  /\ Append(waiting, n + 1) \in Seq(Jobs)
           /\ Ordered(current, Append(waiting, n + 1), done, n + 1)
<1> DEFINE w == Append(waiting, n + 1)
<1>1. n + 1 \in Jobs
  BY FtpAssumption DEF Jobs
<1>2. /\ w \in Seq(Jobs)
      /\ Len(w) = Len(waiting) + 1
      /\ w[Len(waiting) + 1] = n + 1
      /\ \A i \in 1..Len(waiting) : w[i] = waiting[i]
  BY <1>1
<1>3. /\ DOMAIN w = 1..(Len(waiting) + 1)
      /\ DOMAIN waiting = 1..Len(waiting)
      /\ Len(waiting) \in Nat
  BY <1>2, Domain
<1> HIDE DEF w
<1>4. \A i \in DOMAIN w : \/ i \in DOMAIN waiting /\ w[i] = waiting[i] /\ w[i] <= n
                          \/ i = Len(waiting) + 1 /\ w[i] = n + 1
  BY <1>2, <1>3 DEF Ordered
<1>5. \A i \in DOMAIN waiting : i < Len(waiting) + 1 /\ waiting[i] \in Nat
  <2>1. \A i \in DOMAIN waiting : waiting[i] \in Nat
    BY Element, JobsPositive
  <2>2. QED
    BY <1>3, <2>1
<1>6. \A i, k \in DOMAIN w : i < k => w[i] < w[k]
  <2>1. ASSUME NEW i \in DOMAIN w, NEW k \in DOMAIN w, i < k
        PROVE  w[i] < w[k]
    <3>1. i \in DOMAIN waiting /\ w[i] = waiting[i] /\ w[i] <= n /\ w[i] \in Nat
      BY <1>3, <1>4, <1>5, <2>1
    <3>2. CASE k = Len(waiting) + 1
      BY <1>2, <3>1, <3>2
    <3>3. CASE k \in DOMAIN waiting /\ w[k] = waiting[k]
      BY <2>1, <3>1, <3>3 DEF Ordered
    <3>4. QED
      BY <1>4, <3>2, <3>3
  <2>2. QED
    BY <2>1
<1>7. current \in Nat /\ current <= n
  BY DEF Ordered, NoJob, Jobs
<1>8. \A i \in DOMAIN w : current < w[i] /\ w[i] <= n + 1
  BY <1>4, <1>5, <1>7 DEF Ordered
<1>9. \A i \in DOMAIN done : done[i].job <= n + 1 /\ done[i].job <= n
  BY DEF Ordered
<1>10. \A i \in DOMAIN done, k \in DOMAIN w : done[i].job < w[k]
  BY <1>4, <1>9 DEF Ordered
<1>11. Ordered(current, w, done, n + 1)
  BY <1>6, <1>7, <1>8, <1>9, <1>10 DEF Ordered
<1>12. QED
  BY <1>2, <1>11 DEF w

\* A job ends, and none is current.
LEMMA JobEnded ==
    ASSUME NEW current \in Jobs, NEW waiting \in Seq(Jobs), NEW done, NEW n \in Nat, NEW S,
           done \in Seq(S), NEW e \in S, e.job = current,
           Ordered(current, waiting, done, n)
    PROVE  Ordered(NoJob, waiting, Append(done, e), n)
<1> DEFINE d == Append(done, e)
<1>1. /\ d \in Seq(S)
      /\ Len(d) = Len(done) + 1
      /\ d[Len(done) + 1] = e
      /\ \A i \in 1..Len(done) : d[i] = done[i]
  OBVIOUS
<1>2. DOMAIN d = 1..(Len(done) + 1) /\ DOMAIN done = 1..Len(done) /\ Len(done) \in Nat
  BY <1>1, Domain
<1> HIDE DEF d
<1>3. current # NoJob /\ current > 0
  BY DEF NoJob, Jobs
<1>4. \A i \in DOMAIN d : \/ i \in DOMAIN done /\ d[i] = done[i] /\ d[i].job < current
                          \/ i = Len(done) + 1 /\ d[i].job = current
  BY <1>1, <1>2, <1>3 DEF Ordered
<1>5. \A i \in DOMAIN d : d[i].job <= n
  BY <1>4 DEF Ordered
<1>6. \A i \in DOMAIN d, k \in DOMAIN waiting : d[i].job < waiting[k]
  BY <1>4 DEF Ordered
<1>7. \A i, k \in DOMAIN d : i < k => d[i].job < d[k].job
  <2>1. ASSUME NEW i \in DOMAIN d, NEW k \in DOMAIN d, i < k
        PROVE  d[i].job < d[k].job
    <3>1. i \in DOMAIN done /\ d[i] = done[i] /\ d[i].job < current
      BY <1>2, <1>4, <2>1
    <3>2. QED
      BY <1>4, <2>1, <3>1 DEF Ordered
  <2>2. QED
    BY <2>1
<1>8. \A i \in DOMAIN waiting : waiting[i] \in Nat /\ 0 < waiting[i] /\ waiting[i] <= n
  <2>1. \A i \in DOMAIN waiting : waiting[i] \in Nat /\ waiting[i] > 0
    BY Element, JobsPositive
  <2>2. QED
    BY <2>1 DEF Ordered
<1>9. Ordered(NoJob, waiting, d, n)
  BY <1>5, <1>6, <1>7, <1>8 DEF Ordered, NoJob
<1>10. QED
  BY <1>9 DEF d

-----------------------------------------------------------------------------
(* The steps.                                                              *)

LEMMA FirstTyped ==
    ASSUME TypeOK, pending # <<>>
    PROVE  /\ Head(pending) \in Command
           /\ Current \in Simple \cup {"cd", "put"}
           /\ Head(pending).job \in {NoJob} \cup Jobs
           /\ Current \in {"cd", "put"} => Head(pending).job \in Jobs
<1>1. Head(pending) \in Command
  BY DEF TypeOK
<1>2. QED
  BY <1>1, CommandTyped DEF Current

\* What is known of the queues is not touched by what happens on the connection.
LEMMA QueueFrame ==
    ASSUME QueueInv, UNCHANGED <<jobs, pending, added, ended>>
    PROVE  QueueInv'
<1>1. /\ pending' = pending
      /\ mCurrentJob' = mCurrentJob
      /\ mJobs' = mJobs
      /\ ended' = ended
      /\ added' = added
  BY DEF jobs
<1>2. QED
  BY <1>1 DEF QueueInv, RightDir

\* The connection and the steps of QFtp that leave the queue as it is.
LEMMA QFtpStep ==
    ASSUME TypeOK, RunInv, DirInv, SingleShot \/ Start \/ Network
    PROVE  TypeOK' /\ RunInv' /\ DirInv' /\ UNCHANGED <<jobs, pending, added, ended>>
<1> USE DEF server, jobs
<1>1. CASE SingleShot
  <2>1. TypeOK'
    BY <1>1 DEF SingleShot, TypeOK
  <2>2. RunInv'
    BY <1>1 DEF SingleShot, RunInv, Current
  <2>3. DirInv'
    BY <1>1 DEF SingleShot, DirInv, Current
  <2>4. QED
    BY <1>1, <2>1, <2>2, <2>3 DEF SingleShot
<1>2. CASE Start
  <2>1. TypeOK'
    BY <1>2 DEF Start, TypeOK
  <2>2. RunInv'
    BY <1>2 DEF Start, TypeOK, RunInv, Current
  <2>3. DirInv'
    BY <1>2 DEF Start, DirInv, Current
  <2>4. QED
    BY <1>2, <2>1, <2>2, <2>3 DEF Start
<1>3. CASE Connect
  <2>1. pending # <<>>
    BY <1>3 DEF Connect, RunInv
  <2>2. TypeOK'
    BY <1>3, <2>1 DEF Connect, TypeOK, RunInv
  <2>3. RunInv'
    BY <1>3 DEF Connect, RunInv, Current
  <2>4. DirInv'
    BY <1>3 DEF Connect, DirInv, RunInv, Current
  <2>5. QED
    BY <1>3, <2>2, <2>3, <2>4 DEF Connect
<1>4. CASE ConnectFails
  <2>1. pending # <<>> /\ ~timer
    BY <1>4 DEF ConnectFails, RunInv
  <2>2. TypeOK'
    BY <1>4, <2>1 DEF ConnectFails, TypeOK
  <2>3. RunInv'
    BY <1>4 DEF ConnectFails, RunInv, Current
  <2>4. DirInv'
    BY <1>4 DEF ConnectFails, DirInv, Current
  <2>5. QED
    BY <1>4, <2>2, <2>3, <2>4 DEF ConnectFails
<1>5. CASE Succeed
  <2>1. pending # <<>> /\ ~timer
    BY <1>5 DEF Succeed, RunInv
  <2>2. TypeOK'
    BY <1>5, <2>1, FirstTyped DEF Succeed, TypeOK
  <2>3. RunInv'
    BY <1>5 DEF Succeed, RunInv, Current
  <2>4. DirInv'
    BY <1>5, <2>1 DEF Succeed, DirInv, Current
  <2>5. QED
    BY <1>5, <2>2, <2>3, <2>4 DEF Succeed
<1>6. CASE Refuse \/ RefuseData
  <2>1. pending # <<>> /\ ~timer
    BY <1>6 DEF Refuse, RefuseData, RunInv
  <2>2. TypeOK'
    BY <1>6, <2>1 DEF Refuse, RefuseData, TypeOK
  <2>3. RunInv'
    BY <1>6 DEF Refuse, RefuseData, RunInv, Current
  <2>4. DirInv'
    BY <1>6 DEF Refuse, RefuseData, DirInv, Current
  <2>5. QED
    BY <1>6, <2>2, <2>3, <2>4 DEF Refuse, RefuseData
<1>7. CASE Close
  <2>1. TypeOK'
    BY <1>7 DEF Close, TypeOK
  <2>2. RunInv'
    BY <1>7 DEF Close, RunInv, Current
  <2>3. DirInv'
    BY <1>7 DEF Close, DirInv, Current
  <2>4. QED
    BY <1>7, <2>1, <2>2, <2>3 DEF Close
<1>8. QED
  BY <1>1, <1>2, <1>3, <1>4, <1>5, <1>6, <1>7 DEF Network

\* What stays when the slot of a command returns to QFtp.
LEMMA Returned ==
    ASSUME TypeOK, RunInv, step \in {"finished", "failed", "dialog"},
           Return, UNCHANGED <<timer, link>>
    PROVE  /\ step' \in {"none", "start"}
           /\ ~timer'
           /\ step' # "none" => pending' # <<>>
           /\ RunInv'
<1>1. ~timer /\ link \notin {"connecting", "waiting"}
  BY DEF TypeOK, RunInv
<1>2. step' \in {"none", "start"} /\ (step' # "none" => pending' # <<>>)
  BY DEF Return
<1>3. RunInv'
  BY <1>1, <1>2 DEF RunInv
<1>4. QED
  BY <1>1, <1>2, <1>3

\* The commands left when the slot is called, and what the first of them may be.
LEMMA RestLeft ==
    ASSUME TypeOK, pending # <<>>, QueueInv, step \in {"finished", "failed", "dialog"}, DirInv
    PROVE  /\ Rest \in Seq(Command)
           /\ Alive(Rest, mCurrentJob)
           /\ Led(Rest)
           /\ Current = "put" => NoPut(Rest)
           /\ NoPut(pending) => NoPut(Rest)
           /\ step # "dialog" /\ Rest # <<>> /\ Head(Rest).cmd = "put" => cwd = Head(Rest).job
<1>1. CASE step = "failed"
  <2>1. Rest = <<>>
    BY <1>1 DEF Rest
  <2>2. QED
    BY <2>1 DEF Alive, Led, NoPut
<1>2. CASE step # "failed"
  <2>1. Rest = Tail(pending) /\ pending \in Seq(Command)
    BY <1>2 DEF Rest, TypeOK
  <2>2. Alive(pending, mCurrentJob) /\ Led(pending)
    BY DEF QueueInv
  <2>3. step # "dialog" => step = "finished"
    BY <1>2
  <2>4. QED
    BY <2>1, <2>2, <2>3, FirstRemoved DEF DirInv, Current
<1>3. QED
  BY <1>1, <1>2

LEMMA EndedJobs ==
    ASSUME TypeOK
    PROVE  \A i \in DOMAIN ended : ended[i].job \in Nat
<1>1. ended \in Seq([job : Jobs, ok : BOOLEAN, dir : {NoJob} \cup Jobs])
  BY DEF TypeOK
<1>2. \A i \in DOMAIN ended : ended[i] \in [job : Jobs, ok : BOOLEAN, dir : {NoJob} \cup Jobs]
  BY <1>1, Element
<1>3. QED
  BY <1>2, JobsPositive

LEMMA AddJobStep ==
    ASSUME TypeOK, RunInv, DirInv, QueueInv, AddJob
    PROVE  TypeOK' /\ RunInv' /\ DirInv' /\ QueueInv'
<1> USE DEF server
<1> DEFINE waiting == Append(mJobs, added + 1)
<1>1. added \in Nat /\ added < MaxJobs /\ added' = added + 1 /\ added' \in 0..MaxJobs
  BY FtpAssumption DEF TypeOK, AddJob
<1>2. mJobs \in Seq(Jobs) /\ mCurrentJob \in {NoJob} \cup Jobs /\ pending \in Seq(Command)
  BY DEF TypeOK
<1>3. waiting \in Seq(Jobs) /\ Ordered(mCurrentJob, waiting, ended, added + 1)
  BY <1>1, <1>2, EndedJobs, JobAdded DEF QueueInv
<1>4. NextJob(mCurrentJob, waiting, pending)
  BY DEF AddJob
<1> HIDE DEF waiting
<1>5. Ordered(mCurrentJob', mJobs', ended, added + 1)
  BY <1>1, <1>2, <1>3, <1>4, NextJobOrdered
<1>6. /\ mCurrentJob' \in {NoJob} \cup Jobs
      /\ mJobs' \in Seq(Jobs)
      /\ pending' \in Seq(Command)
      /\ Alive(pending', mCurrentJob')
      /\ Led(pending')
      /\ pending # <<>> => pending' # <<>> /\ Head(pending') = Head(pending)
      /\ pending = <<>> /\ pending' # <<>> => Head(pending').cmd = "cd"
  BY <1>2, <1>3, <1>4, NextJobQueue DEF QueueInv
<1>7. step = "none" /\ UNCHANGED <<mRetry, mError, step, link, loggedIn, cwd, ended, trouble>>
  BY DEF AddJob
<1>8. /\ timer' \in BOOLEAN
      /\ timer' => pending' # <<>>
      /\ pending # <<>> => timer' = timer
  BY <1>6, <1>7 DEF AddJob, Shot, TypeOK
<1>9. TypeOK'
  BY <1>1, <1>6, <1>7, <1>8 DEF TypeOK
<1>10. RunInv'
  BY <1>6, <1>7, <1>8 DEF RunInv, Current
<1>11. DirInv'
  BY <1>6, <1>7 DEF DirInv, Current
<1>12. QueueInv'
  BY <1>1, <1>5, <1>6, <1>7 DEF QueueInv, RightDir
<1>13. QED
  BY <1>9, <1>10, <1>11, <1>12

LEMMA KeepAliveStep ==
    ASSUME TypeOK, RunInv, DirInv, QueueInv, KeepAlive
    PROVE  TypeOK' /\ RunInv' /\ DirInv' /\ QueueInv' /\ (NoPut(pending) => NoPut(pending'))
<1> USE DEF server, jobs
<1>1. /\ pending' = Append(pending, Plain("pwd"))
      /\ step \in {"none", "dialog"}
      /\ UNCHANGED <<mJobs, mCurrentJob, mRetry, mError, step, link, loggedIn, cwd, added, ended, trouble>>
  BY DEF KeepAlive
<1>2. pending \in Seq(Command) /\ "pwd" \in Simple
  BY DEF TypeOK, Simple
<1>3. /\ pending' \in Seq(Command)
      /\ pending' # <<>>
      /\ Alive(pending', mCurrentJob)
      /\ Led(pending')
      /\ NoPut(pending) => NoPut(pending')
      /\ pending # <<>> => Head(pending') = Head(pending)
      /\ pending = <<>> => Head(pending').cmd = "pwd"
  BY <1>1, <1>2, PlainAdded, PlainTyped DEF QueueInv
<1>4. /\ timer' \in BOOLEAN
      /\ timer' => step = "none"
      /\ pending # <<>> => timer' = timer
  BY <1>1 DEF KeepAlive, Shot, TypeOK
<1>5. TypeOK'
  BY <1>1, <1>3, <1>4 DEF TypeOK
<1>6. RunInv'
  BY <1>1, <1>3, <1>4 DEF RunInv, Current, TypeOK
<1>7. DirInv'
  BY <1>1, <1>3 DEF DirInv, Current
<1>8. QueueInv'
  BY <1>1, <1>3 DEF QueueInv, RightDir
<1>9. QED
  BY <1>3, <1>5, <1>6, <1>7, <1>8

\* A slot that ends by asking for the next job, no job having ended.
LEMMA NextJobReturns ==
    ASSUME TypeOK, RunInv, DirInv, QueueInv, step \in {"finished", "failed"},
           NEW q \in Seq(Command), Alive(q, mCurrentJob), Led(q),
           q # <<>> /\ Head(q).cmd = "put" => cwd = Head(q).job,
           NextJob(mCurrentJob, mJobs, q), Return, mRetry' \in 0..MaxRetryTimes,
           UNCHANGED <<mError, timer, link, server, added, ended, trouble>>
    PROVE  TypeOK' /\ RunInv' /\ DirInv' /\ QueueInv'
<1> USE DEF server
<1>1. mJobs \in Seq(Jobs) /\ mCurrentJob \in {NoJob} \cup Jobs /\ added \in Nat
  BY DEF TypeOK
<1>2. Ordered(mCurrentJob', mJobs', ended, added)
  BY <1>1, NextJobOrdered DEF QueueInv
<1>3. /\ mCurrentJob' \in {NoJob} \cup Jobs
      /\ mJobs' \in Seq(Jobs)
      /\ pending' \in Seq(Command)
      /\ Alive(pending', mCurrentJob')
      /\ Led(pending')
      /\ q # <<>> => pending' # <<>> /\ Head(pending') = Head(q)
      /\ q = <<>> /\ pending' # <<>> => Head(pending').cmd = "cd"
  BY <1>1, NextJobQueue
<1>4. /\ step' \in {"none", "start"}
      /\ ~timer'
      /\ step' # "none" => pending' # <<>>
      /\ RunInv'
  BY Returned
<1>5. TypeOK'
  BY <1>3, <1>4 DEF TypeOK
<1>6. DirInv'
  BY <1>3, <1>4 DEF DirInv, Current
<1>7. QueueInv'
  BY <1>2, <1>3 DEF QueueInv, RightDir
<1>8. QED
  BY <1>4, <1>5, <1>6, <1>7

LEMMA ConnectedStep ==
    ASSUME TypeOK, RunInv, DirInv, QueueInv, Connected
    PROVE  TypeOK' /\ RunInv' /\ DirInv' /\ QueueInv'
<1>1. pending # <<>> /\ step = "finished" /\ "login" \in Simple
  BY DEF Connected, TypeOK, Simple
<1>2. /\ Rest \in Seq(Command)
      /\ Alive(Rest, mCurrentJob)
      /\ Led(Rest)
      /\ Rest # <<>> /\ Head(Rest).cmd = "put" => cwd = Head(Rest).job
  BY <1>1, RestLeft
<1> DEFINE q == Append(Rest, Plain("login"))
<1>3. /\ q \in Seq(Command)
      /\ Alive(q, mCurrentJob)
      /\ Led(q)
      /\ Rest # <<>> => Head(q) = Head(Rest)
      /\ Rest = <<>> => Head(q).cmd = "login"
  BY <1>1, <1>2, PlainAdded, PlainTyped
<1>4. NextJob(mCurrentJob, mJobs, q) /\ Return /\ mRetry' \in 0..MaxRetryTimes
  BY FtpAssumption DEF Connected
<1>5. UNCHANGED <<mError, timer, link, server, added, ended, trouble>>
  BY DEF Connected
<1> HIDE DEF q
<1>6. q # <<>> /\ Head(q).cmd = "put" => cwd = Head(q).job
  BY <1>2, <1>3
<1>7. QED
  BY <1>1, <1>3, <1>4, <1>5, <1>6, NextJobReturns

LEMMA LoggedInStep ==
    ASSUME TypeOK, RunInv, DirInv, QueueInv, LoggedIn
    PROVE  TypeOK' /\ RunInv' /\ DirInv' /\ QueueInv'
<1>1. pending # <<>> /\ step = "finished"
  BY DEF LoggedIn, TypeOK
<1>2. /\ Rest \in Seq(Command)
      /\ Alive(Rest, mCurrentJob)
      /\ Led(Rest)
      /\ Rest # <<>> /\ Head(Rest).cmd = "put" => cwd = Head(Rest).job
  BY <1>1, RestLeft
<1>3. NextJob(mCurrentJob, mJobs, Rest) /\ Return /\ mRetry' \in 0..MaxRetryTimes
  BY DEF LoggedIn, TypeOK
<1>4. UNCHANGED <<mError, timer, link, server, added, ended, trouble>>
  BY DEF LoggedIn
<1>5. QED
  BY <1>1, <1>2, <1>3, <1>4, NextJobReturns

LEMMA NoticedStep ==
    ASSUME TypeOK, RunInv, DirInv, QueueInv, Noticed
    PROVE  TypeOK' /\ RunInv' /\ DirInv' /\ QueueInv' /\ (NoPut(pending) => NoPut(pending'))
<1> USE DEF server, jobs
<1>1. pending # <<>>
  BY DEF Noticed, TypeOK
<1>2. /\ pending' \in Seq(Command)
      /\ Alive(pending', mCurrentJob)
      /\ Led(pending')
      /\ NoPut(pending) => NoPut(pending')
      /\ pending' # <<>> /\ Head(pending').cmd = "put" => cwd = Head(pending').job
  BY <1>1, RestLeft DEF Noticed
<1>3. UNCHANGED <<mJobs, mCurrentJob, mRetry, mError, timer, link, loggedIn, cwd, added, ended>>
  BY DEF Noticed
<1>4. /\ step' \in {"none", "start"}
      /\ ~timer'
      /\ step' # "none" => pending' # <<>>
      /\ RunInv'
  BY <1>3, Returned DEF Noticed
<1>5. trouble' \in BOOLEAN
  BY DEF Noticed, TypeOK
<1>6. TypeOK'
  BY <1>2, <1>3, <1>4, <1>5 DEF TypeOK
<1>7. DirInv'
  BY <1>2, <1>3, <1>4 DEF DirInv, Current
<1>8. QueueInv'
  BY <1>2, <1>3 DEF QueueInv, RightDir
<1>9. QED
  BY <1>2, <1>4, <1>6, <1>7, <1>8

LEMMA CloseDialogStep ==
    ASSUME TypeOK, RunInv, DirInv, QueueInv, CloseDialog
    PROVE  TypeOK' /\ RunInv' /\ DirInv' /\ QueueInv' /\ (NoPut(pending) => NoPut(pending'))
<1> USE DEF server, jobs
<1>1. pending # <<>> /\ pending \in Seq(Command) /\ Current \in {"connect", "login"}
  BY DEF CloseDialog, TypeOK, RunInv
<1>2. /\ pending' \in Seq(Command)
      /\ Alive(pending', mCurrentJob)
      /\ Led(pending')
      /\ NoPut(pending) => NoPut(pending')
      /\ ~(pending' # <<>> /\ Head(pending').cmd = "put")
  BY <1>1, FirstRemoved DEF CloseDialog, QueueInv, Current
<1>3. UNCHANGED <<mJobs, mCurrentJob, mRetry, timer, link, loggedIn, cwd, added, ended, trouble>>
  BY DEF CloseDialog
<1>4. /\ step' \in {"none", "start"}
      /\ ~timer'
      /\ step' # "none" => pending' # <<>>
      /\ RunInv'
  BY <1>3, Returned DEF CloseDialog
<1>5. mError' \in BOOLEAN
  BY DEF CloseDialog
<1>6. TypeOK'
  BY <1>2, <1>3, <1>4, <1>5 DEF TypeOK
<1>7. DirInv'
  BY <1>2, <1>3, <1>4 DEF DirInv, Current
<1>8. QueueInv'
  BY <1>2, <1>3 DEF QueueInv, RightDir
<1>9. QED
  BY <1>2, <1>4, <1>6, <1>7, <1>8

\* A queue of one command that needs no file, and perhaps another.
LEMMA PlainQueue ==
    ASSUME NEW c \in Simple, NEW d \in Simple, NEW current, NEW q,
           q = <<Plain(c)>> \/ q = <<Plain(c), Plain(d)>>
    PROVE  /\ q \in Seq(Command)
           /\ q # <<>>
           /\ Head(q).cmd = c
           /\ Alive(q, current)
           /\ Led(q)
           /\ NoPut(q)
<1>1. /\ Plain(c) \in Command /\ Plain(c).cmd # "put" /\ Plain(c).cmd = c
      /\ Plain(d) \in Command /\ Plain(d).cmd # "put"
  BY PlainTyped DEF Simple
<1> DEFINE pc == Plain(c)
           pd == Plain(d)
<1> HIDE DEF pc, pd
<1>2. q = <<pc>> \/ q = <<pc, pd>>
  BY DEF pc, pd
<1>3. /\ pc \in Command /\ pc.cmd # "put" /\ pc.cmd = c
      /\ pd \in Command /\ pd.cmd # "put"
  BY <1>1 DEF pc, pd
<1>4. \A i \in DOMAIN q : q[i].cmd # "put"
  <2>1. CASE q = <<pc>>
    <3>1. DOMAIN q = {1} /\ q[1] = pc
      BY <2>1
    <3>2. QED
      BY <1>3, <3>1
  <2>2. CASE q = <<pc, pd>>
    <3>1. DOMAIN q = {1, 2} /\ q[1] = pc /\ q[2] = pd
      BY <2>2
    <3>2. QED
      BY <1>3, <3>1
  <2>3. QED
    BY <1>2, <2>1, <2>2
<1>5. q \in Seq(Command) /\ q # <<>> /\ Head(q) = pc
  <2>1. CASE q = <<pc>>
    BY <1>3, <2>1
  <2>2. CASE q = <<pc, pd>>
    BY <1>3, <2>2
  <2>3. QED
    BY <1>2, <2>1, <2>2
<1>6. QED
  BY <1>3, <1>4, <1>5 DEF Alive, Led, NoPut

LEMMA FirstPlain ==
    ASSUME TypeOK, pending # <<>>, Current \in Simple
    PROVE  Head(pending) = Plain(Current)
<1>1. Head(pending) \in Command
  BY FirstTyped
<1>2. QED
  BY <1>1 DEF Command, Simple, Plain, Current

LEMMA NotConnectedStep ==
    ASSUME TypeOK, RunInv, DirInv, QueueInv, NotConnected
    PROVE  TypeOK' /\ RunInv' /\ DirInv' /\ QueueInv' /\ NoPut(pending')
<1> USE DEF server, jobs
<1>1. /\ step = "failed" /\ Current = "connect" /\ pending # <<>> /\ "connect" \in Simple
      /\ ~timer /\ link \notin {"connecting", "waiting"}
      /\ UNCHANGED <<mJobs, mCurrentJob, mError, timer, link, loggedIn, cwd, added, ended>>
      /\ trouble' = TRUE
  BY DEF NotConnected, TypeOK, RunInv, Simple
<1>2. CASE mRetry >= MaxRetryTimes
  <2>1. pending' = <<Plain("connect"), Plain("connect")>>
    BY <1>1, <1>2, FirstPlain DEF NotConnected
  <2>2. step' = "dialog" /\ mRetry' = mRetry
    BY <1>2 DEF NotConnected
  <2>3. /\ pending' \in Seq(Command) /\ Alive(pending', mCurrentJob) /\ Led(pending')
        /\ NoPut(pending') /\ pending' # <<>> /\ Current' = "connect"
    BY <1>1, <2>1, PlainQueue DEF Current
  <2>4. TypeOK'
    BY <1>1, <2>2, <2>3 DEF TypeOK
  <2>5. RunInv'
    BY <1>1, <2>2, <2>3 DEF RunInv
  <2>6. DirInv'
    BY <2>2, <2>3 DEF DirInv
  <2>7. QueueInv'
    BY <1>1, <2>3 DEF QueueInv, RightDir
  <2>8. QED
    BY <2>3, <2>4, <2>5, <2>6, <2>7
<1>3. CASE ~(mRetry >= MaxRetryTimes)
  <2>1. pending' = <<Plain("connect")>>
    BY <1>1, <1>3 DEF NotConnected, Rest
  <2>2. Return /\ mRetry' \in 0..MaxRetryTimes
    BY <1>3, FtpAssumption DEF NotConnected, TypeOK
  <2>3. /\ pending' \in Seq(Command) /\ Alive(pending', mCurrentJob) /\ Led(pending')
        /\ NoPut(pending') /\ pending' # <<>> /\ Current' = "connect"
    BY <1>1, <2>1, PlainQueue DEF Current
  <2>4. /\ step' \in {"none", "start"}
        /\ ~timer'
        /\ RunInv'
    BY <1>1, <2>2, Returned
  <2>5. TypeOK'
    BY <1>1, <2>2, <2>3, <2>4 DEF TypeOK
  <2>6. DirInv'
    BY <2>3, <2>4 DEF DirInv
  <2>7. QueueInv'
    BY <1>1, <2>3 DEF QueueInv, RightDir
  <2>8. QED
    BY <2>3, <2>4, <2>5, <2>6, <2>7
<1>4. QED
  BY <1>2, <1>3

LEMMA NotLoggedInStep ==
    ASSUME TypeOK, RunInv, DirInv, QueueInv, NotLoggedIn
    PROVE  TypeOK' /\ RunInv' /\ DirInv' /\ QueueInv' /\ NoPut(pending')
<1> USE DEF server, jobs
<1>1. /\ step = "failed" /\ Current = "login" /\ pending # <<>> /\ "login" \in Simple
      /\ ~timer /\ link \notin {"connecting", "waiting"}
      /\ UNCHANGED <<mJobs, mCurrentJob, mRetry, mError, timer, link, loggedIn, cwd, added, ended>>
      /\ trouble' = TRUE /\ step' = "dialog"
  BY DEF NotLoggedIn, TypeOK, RunInv, Simple
<1>2. pending' = <<Plain("login")>>
  BY <1>1, FirstPlain DEF NotLoggedIn
<1>3. /\ pending' \in Seq(Command) /\ Alive(pending', mCurrentJob) /\ Led(pending')
      /\ NoPut(pending') /\ pending' # <<>> /\ Current' = "login"
  BY <1>1, <1>2, PlainQueue DEF Current
<1>4. TypeOK'
  BY <1>1, <1>3 DEF TypeOK
<1>5. RunInv'
  BY <1>1, <1>3 DEF RunInv
<1>6. DirInv'
  BY <1>1, <1>3 DEF DirInv
<1>7. QueueInv'
  BY <1>1, <1>3 DEF QueueInv, RightDir
<1>8. QED
  BY <1>3, <1>4, <1>5, <1>6, <1>7

\* The put that runs is that of the current job.
LEMMA CurrentPut ==
    ASSUME TypeOK, QueueInv, pending # <<>>, Current = "put"
    PROVE  /\ mCurrentJob = Head(pending).job
           /\ mCurrentJob \in Jobs
           /\ mCurrentJob # NoJob
           /\ ~NoPut(pending)
<1>1. 1 \in DOMAIN pending /\ pending[1] = Head(pending)
  BY DEF TypeOK
<1>2. pending[1].cmd = "put"
  BY <1>1 DEF Current
<1>3. mCurrentJob = Head(pending).job
  BY <1>1, <1>2 DEF QueueInv, Alive
<1>4. Head(pending).job \in Jobs
  BY FirstTyped
<1>5. QED
  BY <1>1, <1>2, <1>3, <1>4, JobsPositive DEF NoPut, NoJob

LEMMA TransferredStep ==
    ASSUME TypeOK, RunInv, DirInv, QueueInv, Transferred
    PROVE  TypeOK' /\ RunInv' /\ DirInv' /\ QueueInv' /\ ~NoPut(pending)
<1> USE DEF server
<1> DEFINE e == [job |-> mCurrentJob, ok |-> step = "finished", dir |-> cwd]
           Ending == [job : Jobs, ok : BOOLEAN, dir : {NoJob} \cup Jobs]
<1>1. pending # <<>> /\ Current = "put" /\ step \in {"finished", "failed"}
  BY DEF Transferred, TypeOK
<1>2. mCurrentJob = Head(pending).job /\ mCurrentJob \in Jobs /\ mCurrentJob # NoJob /\ ~NoPut(pending)
  BY <1>1, CurrentPut
<1>3. ended' = Append(ended, e) /\ ended \in Seq(Ending)
  BY <1>2 DEF Transferred, TypeOK
<1>4. e \in Ending /\ e.job = mCurrentJob
  BY <1>2 DEF TypeOK
<1>5. e.ok => e.dir = e.job
  BY <1>1, <1>2 DEF DirInv
<1> HIDE DEF e, Ending
<1>6. mJobs \in Seq(Jobs) /\ added \in Nat /\ NoJob \in {NoJob} \cup Jobs
  BY DEF TypeOK
<1>7. Ordered(NoJob, mJobs, ended', added)
  BY <1>2, <1>3, <1>4, <1>6, JobEnded DEF QueueInv
<1>8. Rest \in Seq(Command) /\ NoPut(Rest)
  BY <1>1, RestLeft
<1>9. Alive(Rest, NoJob) /\ Led(Rest)
  BY <1>8 DEF NoPut, Alive, Led
<1>10. NextJob(NoJob, mJobs, Rest) /\ Return
  BY DEF Transferred
<1>11. /\ mCurrentJob' \in {NoJob} \cup Jobs
       /\ mJobs' \in Seq(Jobs)
       /\ pending' \in Seq(Command)
       /\ Alive(pending', mCurrentJob')
       /\ Led(pending')
       /\ Rest # <<>> => pending' # <<>> /\ Head(pending') = Head(Rest)
       /\ Rest = <<>> /\ pending' # <<>> => Head(pending').cmd = "cd"
  BY <1>6, <1>8, <1>9, <1>10, NextJobQueue
<1>12. Ordered(mCurrentJob', mJobs', ended', added)
  BY <1>6, <1>7, <1>10, NextJobOrdered
<1>13. Rest # <<>> => Head(Rest).cmd # "put"
  <2>1. Rest # <<>> => 1 \in DOMAIN Rest /\ Rest[1] = Head(Rest)
    BY <1>8
  <2>2. QED
    BY <1>8, <2>1 DEF NoPut
<1>14. UNCHANGED <<mRetry, mError, timer, link, loggedIn, cwd, added>> /\ trouble' \in BOOLEAN
  BY DEF Transferred, TypeOK
<1>15. /\ step' \in {"none", "start"}
       /\ ~timer'
       /\ step' # "none" => pending' # <<>>
       /\ RunInv'
  BY <1>1, <1>10, <1>14, Returned
<1>16. ended' \in Seq(Ending)
  BY <1>3, <1>4
<1>17. TypeOK'
  BY <1>11, <1>14, <1>15, <1>16 DEF TypeOK, Ending
<1>18. DirInv'
  BY <1>11, <1>13, <1>15 DEF DirInv, Current
<1>19. RightDir'
  <2>1. \A i \in DOMAIN ended : ended[i].ok => ended[i].dir = ended[i].job
    BY DEF QueueInv, RightDir
  <2>2. /\ DOMAIN ended' = 1..(Len(ended) + 1) /\ DOMAIN ended = 1..Len(ended)
        /\ ended'[Len(ended) + 1] = e
        /\ \A i \in 1..Len(ended) : ended'[i] = ended[i]
        /\ Len(ended) \in Nat
    BY <1>3, <1>4
  <2>3. ASSUME NEW i \in DOMAIN ended', ended'[i].ok
        PROVE  ended'[i].dir = ended'[i].job
    <3>1. CASE i = Len(ended) + 1
      BY <1>5, <2>2, <2>3, <3>1
    <3>2. CASE i \in DOMAIN ended
      BY <2>1, <2>2, <2>3, <3>2
    <3>3. QED
      BY <2>2, <2>3, <3>1, <3>2
  <2>4. QED
    BY <2>3 DEF RightDir
<1>20. QueueInv'
  BY <1>11, <1>12, <1>14, <1>19 DEF QueueInv
<1>21. QED
  BY <1>2, <1>15, <1>17, <1>18, <1>20

-----------------------------------------------------------------------------
(* The invariant and what follows from it.                                 *)

LEMMA InitInv == Init => IInv
<1> SUFFICES ASSUME Init PROVE IInv
  OBVIOUS
<1>1. "connect" \in Simple /\ pending = <<Plain("connect")>>
  BY DEF Simple, Init
<1>2. /\ pending \in Seq(Command) /\ pending # <<>> /\ Current = "connect"
      /\ Alive(pending, mCurrentJob) /\ Led(pending)
  BY <1>1, PlainQueue DEF Current
<1>3. mJobs = <<>> /\ ended = <<>> /\ mCurrentJob = NoJob /\ added = 0
  BY DEF Init
<1>4. TypeOK
  <2>1. /\ mRetry = 0 /\ mError = FALSE /\ timer = TRUE /\ step = "none"
        /\ link = "down" /\ loggedIn = FALSE /\ cwd = NoJob /\ trouble = FALSE
    BY DEF Init
  <2>2. 0 \in 0..MaxRetryTimes /\ 0 \in 0..MaxJobs
    BY FtpAssumption
  <2>3. mJobs \in Seq(Jobs)
    BY <1>3
  <2>4. ended \in Seq([job : Jobs, ok : BOOLEAN, dir : {NoJob} \cup Jobs])
    BY <1>3
  <2>5. QED
    BY <1>2, <1>3, <2>1, <2>2, <2>3, <2>4 DEF TypeOK
<1>5. RunInv /\ DirInv
  BY <1>2 DEF Init, RunInv, DirInv
<1>6. Ordered(mCurrentJob, mJobs, ended, added) /\ RightDir
  BY <1>3 DEF Ordered, NoJob, RightDir
<1>7. QED
  BY <1>2, <1>4, <1>5, <1>6 DEF IInv, QueueInv

LEMMA NextInv == IInv /\ [Next]_vars => IInv'
<1> SUFFICES ASSUME IInv, [Next]_vars PROVE IInv'
  OBVIOUS
<1> USE DEF IInv
<1>1. CASE AddJob
  BY <1>1, AddJobStep
<1>2. CASE KeepAlive
  BY <1>2, KeepAliveStep
<1>3. CASE SingleShot \/ Start \/ Network
  BY <1>3, QFtpStep, QueueFrame
<1>4. CASE Connected
  BY <1>4, ConnectedStep
<1>5. CASE NotConnected
  BY <1>5, NotConnectedStep
<1>6. CASE LoggedIn
  BY <1>6, LoggedInStep
<1>7. CASE NotLoggedIn
  BY <1>7, NotLoggedInStep
<1>8. CASE CloseDialog
  BY <1>8, CloseDialogStep
<1>9. CASE Transferred
  BY <1>9, TransferredStep
<1>10. CASE Noticed
  BY <1>10, NoticedStep
<1>11. CASE UNCHANGED vars
  <2>1. UNCHANGED <<jobs, mRetry, mError, pending, timer, step, link, server, added, ended, trouble>>
    BY <1>11 DEF vars
  <2>2. QueueInv'
    BY <2>1, QueueFrame
  <2>3. TypeOK' /\ RunInv' /\ DirInv'
    BY <2>1 DEF TypeOK, RunInv, DirInv, Current, jobs, server
  <2>4. QED
    BY <2>2, <2>3
<1>12. QED
  BY <1>1, <1>2, <1>3, <1>4, <1>5, <1>6, <1>7, <1>8, <1>9, <1>10, <1>11 DEF Next, Run

\* The inductive invariant holds in every state the client of the FTP server reaches.
THEOREM Invariance == Spec => []IInv
<1>1. Init => IInv
  BY InitInv
<1>2. IInv /\ [Next]_vars => IInv'
  BY NextInv
<1>3. QED
  BY <1>1, <1>2, PTL DEF Spec

\* Every variable keeps to its values: attempts never pass the limit, a timer or a slot
\* never finds the queue empty.
THEOREM FtpTypeCorrect == Spec => []TypeOK
<1>1. IInv => TypeOK
  BY DEF IInv
<1>2. QED
  BY <1>1, Invariance, PTL

\* QFtp never reads a file that FTPClient has deleted: lines 122-125 delete the file of the
\* current job, and no other put is in the queue then.
THEOREM FileAlive == Spec => []DeviceAlive
<1>1. IInv => DeviceAlive
  BY DEF IInv, QueueInv, Alive, DeviceAlive
<1>2. QED
  BY <1>1, Invariance, PTL

\* Uploads end in the order in which they were asked for, and none ends twice.
THEOREM TransfersInOrder == Spec => []InOrder
<1>1. IInv => InOrder
  BY DEF IInv, QueueInv, Ordered, InOrder
<1>2. QED
  BY <1>1, Invariance, PTL

\* A file that was stored is in the directory it was meant for.
THEOREM StoredInPlace == Spec => []RightDir
<1>1. IInv => RightDir
  BY DEF IInv, QueueInv
<1>2. QED
  BY <1>1, Invariance, PTL

-----------------------------------------------------------------------------
(* A current job without a put.                                            *)

LEMMA StuckSame ==
    ASSUME Stuck, mCurrentJob' = mCurrentJob, NoPut(pending) => NoPut(pending')
    PROVE  Stuck'
BY DEF Stuck, NoPut

\* nextJob does nothing while a job is current.
LEMMA NextJobIdle ==
    ASSUME NEW waiting, NEW q, mCurrentJob # NoJob, NextJob(mCurrentJob, waiting, q)
    PROVE  mCurrentJob' = mCurrentJob /\ pending' = q
BY DEF NextJob

LEMMA StuckStep ==
    ASSUME IInv, Stuck, Next
    PROVE  Stuck' /\ UNCHANGED ended
<1> USE DEF IInv, jobs
<1>1. mCurrentJob # NoJob /\ NoPut(pending) /\ pending \in Seq(Command)
  BY DEF Stuck, NoPut, TypeOK
<1>2. Alive(pending, mCurrentJob) /\ Led(pending)
  BY DEF QueueInv
<1>3. CASE AddJob
  <2>1. NextJob(mCurrentJob, Append(mJobs, added + 1), pending) /\ UNCHANGED ended
    BY <1>3 DEF AddJob
  <2>2. mCurrentJob' = mCurrentJob /\ pending' = pending
    BY <1>1, <2>1, NextJobIdle
  <2>3. QED
    BY <2>1, <2>2, StuckSame
<1>4. CASE KeepAlive
  BY <1>4, KeepAliveStep, StuckSame DEF KeepAlive
<1>5. CASE SingleShot \/ Start \/ Network
  BY <1>5, QFtpStep, StuckSame
<1>6. CASE Connected
  <2>1. NextJob(mCurrentJob, mJobs, Append(Rest, Plain("login"))) /\ UNCHANGED ended
    BY <1>6 DEF Connected
  <2>2. mCurrentJob' = mCurrentJob /\ pending' = Append(Rest, Plain("login"))
    BY <1>1, <2>1, NextJobIdle
  <2>3. /\ Rest \in Seq(Command) /\ NoPut(Rest)
        /\ Alive(Rest, mCurrentJob) /\ Led(Rest) /\ "login" \in Simple
    BY <1>1, <1>6, RestLeft DEF Connected, TypeOK, Simple
  <2>4. NoPut(pending')
    BY <2>2, <2>3, PlainAdded
  <2>5. QED
    BY <2>1, <2>2, <2>4, StuckSame
<1>7. CASE NotConnected
  BY <1>7, NotConnectedStep, StuckSame DEF NotConnected
<1>8. CASE LoggedIn
  <2>1. NextJob(mCurrentJob, mJobs, Rest) /\ UNCHANGED ended
    BY <1>8 DEF LoggedIn
  <2>2. mCurrentJob' = mCurrentJob /\ pending' = Rest
    BY <1>1, <2>1, NextJobIdle
  <2>3. NoPut(Rest)
    BY <1>1, <1>8, RestLeft DEF LoggedIn, TypeOK
  <2>4. QED
    BY <2>1, <2>2, <2>3, StuckSame
<1>9. CASE NotLoggedIn
  BY <1>9, NotLoggedInStep, StuckSame DEF NotLoggedIn
<1>10. CASE CloseDialog
  BY <1>10, CloseDialogStep, StuckSame DEF CloseDialog
<1>11. CASE Transferred
  BY <1>1, <1>11, TransferredStep
<1>12. CASE Noticed
  BY <1>12, NoticedStep, StuckSame DEF Noticed
<1>13. QED
  BY <1>3, <1>4, <1>5, <1>6, <1>7, <1>8, <1>9, <1>10, <1>11, <1>12 DEF Next, Run

\* Once the put of the current job is gone, no upload ever ends again, whatever is added
\* and however often the client logs in.
THEOREM StaysStuck == Spec => StuckForGood
<1>1. IInv /\ [Next]_vars => [Stuck => Stuck' /\ UNCHANGED ended]_vars
  BY StuckStep
<1>2. QED
  BY <1>1, Invariance, PTL DEF Spec, StuckForGood

=============================================================================
