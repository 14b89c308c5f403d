-------------------------- MODULE RpcClientProofs --------------------------
(***************************************************************************)
(* Theorems about RpcClient for any set of threads, any number of calls    *)
(* and replies of any length: type correctness, the alignment of the       *)
(* decoder, and that rpcCall implements RpcContract.                       *)
(***************************************************************************)
EXTENDS RpcClient, TLAPS

\* RpcLock is held by the thread that is between lock() and unlock().
LockInv == \A t \in Threads : pc[t] \in Critical <=> lock = t

\* What a reader has decoded of the head delivery.
ReadInv ==
    /\ StreamInStep
    /\ \A t \in Threads : pc[t] \in {"header", "body"} =>
          inbox # <<>> /\ Head(inbox).kind = "deliver"
    /\ \A t \in Threads : pc[t] = "body" => at >= 2

\* What a call has put together so far.
TextInv ==
    \A t \in Threads :
        /\ pc[t] \in {"selecting", "method", "header"} => ret[t] = <<>>
        /\ pc[t] = "body" =>
              /\ Len(ret[t]) = at - 2
              /\ \A i \in 1..Len(ret[t]) : ret[t][i] = [of |-> Head(inbox).of, part |-> i]
        /\ pc[t] = "returning" =>
              /\ ret[t] # <<>> => left[t] = 0
              /\ \A i \in 1..Len(ret[t]) : ret[t][i] = [of |-> ReplyOf(ret[t]), part |-> i]
              /\ EEPBX => ReplyOf(ret[t]) = own[t]

\* Every request numbered so far has returned, but the one in progress.
CallInv ==
    /\ lock # Nobody => own[lock] = published /\ published > 0
    /\ \A r \in returned : r.call \in 1..published
    /\ \A c \in 1..published :
          (\E r \in returned : r.call = c) <=> ~(lock # Nobody /\ c = published)

\* A reply is in one place: with the adapter, on the connection, in the hands
\* of a call about to return it, or handed out.
Travels(c) == \E i \in 1..Len(inbox) : inbox[i].of = c
Holds(t, c) == pc[t] = "returning" /\ ReplyOf(ret[t]) = c
Given(c) == \E r \in returned : r.of = c

WaitingInv ==
    \A c \in requests :
        /\ c \in 1..published
        /\ ~Travels(c) /\ ~Given(c)
        /\ \A t \in Threads : ~Holds(t, c)

TravellingInv ==
    \A i \in 1..Len(inbox) :
        /\ inbox[i].of \in 0..published
        /\ inbox[i].kind = "deliver" => inbox[i].of # 0
        /\ inbox[i].of # 0 =>
              /\ \A j \in 1..Len(inbox) : inbox[j].of = inbox[i].of => j = i
              /\ ~Given(inbox[i].of)
              /\ \A t \in Threads : ~Holds(t, inbox[i].of)

HeldInv ==
    \A t \in Threads : pc[t] = "returning" /\ ReplyOf(ret[t]) # 0 =>
        ReplyOf(ret[t]) \in 1..published /\ ~Given(ReplyOf(ret[t]))

GivenInv == \A r \in returned : r.of \in 0..published

\* A request that is about to be published has no reply anywhere.
NewInv ==
    \A t \in Threads : pc[t] = "publishing" =>
        own[t] \notin requests /\ ~Travels(own[t]) /\ ~Given(own[t])

TokenInv == WaitingInv /\ TravellingInv /\ HeldInv /\ GivenInv /\ NewInv

IInv == TypeOK /\ LockInv /\ ReadInv /\ TextInv /\ CallInv /\ TokenInv

-----------------------------------------------------------------------------
(* The deliveries on the connection.                                       *)

LEMMA FramesPositive ==
    ASSUME NEW m \in Delivery
    PROVE  FramesOf(m) \in Nat /\ FramesOf(m) > 0
BY DEF FramesOf, Delivery

\* What appending a delivery leaves alone.
LEMMA Appended ==
    ASSUME NEW s \in Seq(Delivery), NEW m \in Delivery
    PROVE  /\ Append(s, m) \in Seq(Delivery)
           /\ Append(s, m) # <<>>
           /\ Len(Append(s, m)) = Len(s) + 1
           /\ Append(s, m)[Len(s) + 1] = m
           /\ \A i \in 1..Len(s) : Append(s, m)[i] = s[i]
           /\ s # <<>> => Head(Append(s, m)) = Head(s)
<1> DEFINE a == Append(s, m)
<1>1. /\ a \in Seq(Delivery)
      /\ Len(a) = Len(s) + 1
      /\ a[Len(s) + 1] = m
      /\ \A i \in 1..Len(s) : a[i] = s[i]
  OBVIOUS
<1>2. a # <<>>
  BY <1>1
<1>3. ASSUME s # <<>>
      PROVE  Head(a) = Head(s)
  BY <1>1, <1>2, <1>3
<1>4. QED
  BY <1>1, <1>2, <1>3

LEMMA Removed ==
    ASSUME NEW s \in Seq(Delivery), s # <<>>
    PROVE  /\ Head(s) \in Delivery
           /\ Head(s) = s[1]
           /\ Len(s) > 0
           /\ Tail(s) \in Seq(Delivery)
           /\ Len(Tail(s)) = Len(s) - 1
           /\ \A i \in 1..Len(Tail(s)) : Tail(s)[i] = s[i + 1]
OBVIOUS

\* A text names the request it answers by its first fragment.
LEMMA ReplyOfNat ==
    ASSUME NEW text \in Seq(Fragment)
    PROVE  ReplyOf(text) \in Nat
<1>1. ASSUME text # <<>>
      PROVE  text[1] \in Fragment
  BY <1>1
<1>2. QED
  BY <1>1 DEF ReplyOf, Fragment

\* Decoding a frame keeps the types of what it changes.
LEMMA WaitFrameTypes ==
    ASSUME TypeOK, WaitFrame
    PROVE  /\ inbox' \in Seq(Delivery)
           /\ at' \in Nat
           /\ buffer' \in Nat
           /\ kernel' \in Nat
           /\ UNCHANGED <<requests, unsent, link>>
<1> inbox \in Seq(Delivery) /\ inbox # <<>> /\ at \in Nat /\ kernel \in Nat /\ buffer \in Nat
  BY DEF TypeOK, WaitFrame
<1>1. inbox' \in Seq(Delivery) /\ at' \in Nat
  BY Removed DEF WaitFrame
<1>2. buffer' \in Nat /\ kernel' \in Nat
  BY DEF WaitFrame
<1>3. QED
  BY <1>1, <1>2 DEF WaitFrame

\* The end of an attempt puts the text, or none, in ret.
LEMMA EndOfAttemptTypes ==
    ASSUME TypeOK, NEW t \in Threads, NEW text \in Seq(Fragment), EndOfAttempt(t, text)
    PROVE  /\ ret' \in [Threads -> Seq(Fragment)]
           /\ pc' \in [Threads -> Places]
BY DEF TypeOK, EndOfAttempt, Goto, Places, Critical, Reading

LEMMA TypeInit == Init => TypeOK
BY RpcAssumption DEF Init, TypeOK, Places

LEMMA TypeStep ==
    ASSUME TypeOK, ReadInv, [Next]_vars
    PROVE  TypeOK'
<1> USE DEF TypeOK, net
<1> <<>> \in Seq(Fragment)
  OBVIOUS
<1>1. ASSUME NEW t \in Threads, Call(t)
      PROVE  TypeOK'
  BY <1>1 DEF Call, Goto, Places, Critical
<1>2. ASSUME NEW t \in Threads, Acquire(t)
      PROVE  TypeOK'
  BY <1>2 DEF Acquire, Goto, Places, Critical
<1>3. ASSUME NEW t \in Threads, Publish(t)
      PROVE  TypeOK'
  BY <1>3 DEF Publish, Goto, Places, Critical
<1>4. ASSUME NEW t \in Threads, PublishFails(t)
      PROVE  TypeOK'
  BY <1>4 DEF PublishFails, Return, ReplyOf, Goto, Places, Critical
<1>5. ASSUME NEW t \in Threads, SelectReady(t)
      PROVE  TypeOK'
  BY <1>5 DEF SelectReady, Goto, Places, Critical, Reading
<1>6. ASSUME NEW t \in Threads, SelectTimeout(t)
      PROVE  TypeOK'
  BY <1>6, EndOfAttemptTypes DEF SelectTimeout
<1>7. ASSUME NEW t \in Threads, ReadMethod(t)
      PROVE  TypeOK'
  <2>1. WaitFrame /\ UNCHANGED <<lock, own, left, published, returned>>
    BY <1>7 DEF ReadMethod
  <2>2. ret' \in [Threads -> Seq(Fragment)] /\ pc' \in [Threads -> Places]
    BY <1>7, EndOfAttemptTypes DEF ReadMethod, Goto, Places, Critical, Reading
  <2>3. QED
    BY <2>1, <2>2, WaitFrameTypes
<1>8. ASSUME NEW t \in Threads, ReadHeader(t)
      PROVE  TypeOK'
  <2>1. WaitFrame /\ UNCHANGED <<lock, own, published, returned>>
    BY <1>8 DEF ReadHeader
  <2>2. ret' \in [Threads -> Seq(Fragment)] /\ pc' \in [Threads -> Places]
    BY <1>8, EndOfAttemptTypes DEF ReadHeader, Goto, Places, Critical, Reading
  <2>3. left' \in [Threads -> Nat]
    BY <1>8, <2>1, Removed DEF ReadHeader, WaitFrame, Delivery
  <2>4. QED
    BY <2>1, <2>2, <2>3, WaitFrameTypes
<1>9. ASSUME NEW t \in Threads, ReadBody(t)
      PROVE  TypeOK'
  <2>1. WaitFrame /\ UNCHANGED <<lock, own, published, returned>>
    BY <1>9 DEF ReadBody
  <2>2. left[t] > 0
    BY <1>9 DEF ReadBody, ReadInv, StreamInStep
  <2>3. left' \in [Threads -> Nat]
    BY <1>9, <2>2 DEF ReadBody
  <2> DEFINE text == Append(ret[t], [of |-> Head(inbox).of, part |-> at - 1])
  <2>4. ASSUME NextFrame = "body"
        PROVE  text \in Seq(Fragment)
    <3>1. Head(inbox) \in Delivery
      BY <2>1, Removed DEF WaitFrame
    <3>2. at \in Nat \ {0}
      BY <2>4, <3>1 DEF NextFrame, Delivery
    <3>3. [of |-> Head(inbox).of, part |-> at - 1] \in Fragment
      BY <3>1, <3>2 DEF Fragment, Delivery
    <3>4. QED
      BY <3>3
  <2>5. ret' \in [Threads -> Seq(Fragment)] /\ pc' \in [Threads -> Places]
    <3>1. CASE NextFrame # "body"
      BY <1>9, <3>1, EndOfAttemptTypes DEF ReadBody
    <3>2. CASE NextFrame = "body" /\ left[t] = 1
      BY <1>9, <3>2, <2>4, EndOfAttemptTypes DEF ReadBody
    <3>3. CASE NextFrame = "body" /\ left[t] # 1
      BY <1>9, <3>3, <2>4 DEF ReadBody
    <3>4. QED
      BY <3>1, <3>2, <3>3
  <2>6. QED
    BY <2>1, <2>3, <2>5, WaitFrameTypes
<1>10. ASSUME NEW t \in Threads, ReadFails(t)
       PROVE  TypeOK'
  BY <1>10, EndOfAttemptTypes DEF ReadFails
<1>11. ASSUME NEW t \in Threads, Unlock(t)
       PROVE  TypeOK'
  BY <1>11, ReplyOfNat DEF Unlock, Return, Goto, Places
<1>12. ASSUME NEW m \in Delivery, Send(m), requests' \subseteq requests
       PROVE  TypeOK'
  BY <1>12, FramesPositive, Appended DEF Send
<1>13. ASSUME NEW c \in requests, NEW size \in 0..MaxFrags, Answer(c, size)
       PROVE  TypeOK'
  <2>1. [of |-> c, kind |-> "deliver", size |-> size] \in Delivery
    BY <1>13, RpcAssumption DEF Delivery
  <2>2. QED
    BY <1>12, <1>13, <2>1 DEF Answer
<1>14. ASSUME Notify
       PROVE  TypeOK'
  BY <1>12, <1>14 DEF Notify, Delivery
<1>15. ASSUME Arrive
       PROVE  TypeOK'
  BY <1>15 DEF Arrive
<1>16. ASSUME LoseLink
       PROVE  TypeOK'
  BY <1>16 DEF LoseLink
<1>17. ASSUME UNCHANGED vars
       PROVE  TypeOK'
  BY <1>17 DEF vars
<1>18. QED
  BY <1>1, <1>2, <1>3, <1>4, <1>5, <1>6, <1>7, <1>8, <1>9, <1>10, <1>11, <1>13,
     <1>14, <1>15, <1>16, <1>17 DEF Next, Step, Environment

-----------------------------------------------------------------------------
(* Who holds the lock.                                                     *)

LEMMA EndOfAttemptPlace ==
    ASSUME TypeOK, NEW t \in Threads, NEW text, EndOfAttempt(t, text)
    PROVE  \E place \in {"selecting", "returning"} : Goto(t, place)
BY DEF EndOfAttempt

\* The steps that only the holder takes and that keep it the holder.
Reads(t) == ReadMethod(t) \/ ReadHeader(t) \/ ReadBody(t) \/ ReadFails(t)
Works(t) == Publish(t) \/ SelectReady(t) \/ SelectTimeout(t) \/ Reads(t)

\* The steps of everybody else leave the callers alone.
LEMMA EnvironmentFrame ==
    ASSUME Environment
    PROVE  UNCHANGED <<lock, pc, own, ret, left, published, returned>>
BY DEF Environment, Answer, Notify, Send, Arrive, LoseLink

\* Where the holder goes, and what it leaves alone.
LEMMA WorksFrame ==
    ASSUME TypeOK, NEW t \in Threads, Works(t)
    PROVE  /\ pc[t] \in Critical
           /\ \E place \in Critical \ {"publishing"} : pc' = [pc EXCEPT ![t] = place]
           /\ UNCHANGED <<lock, own, published, returned>>
<1> USE DEF Critical, Reading
<1>1. CASE Publish(t)
  BY <1>1 DEF Publish, Goto
<1>2. CASE SelectReady(t)
  BY <1>2 DEF SelectReady, Goto
<1>3. CASE SelectTimeout(t)
  BY <1>3, EndOfAttemptPlace DEF SelectTimeout, Goto
<1>4. CASE ReadMethod(t)
  BY <1>4, EndOfAttemptPlace DEF ReadMethod, Goto
<1>5. CASE ReadHeader(t)
  BY <1>5, EndOfAttemptPlace DEF ReadHeader, Goto
<1>6. CASE ReadBody(t)
  <2>1. pc' = [pc EXCEPT ![t] = "body"] \/ \E text : EndOfAttempt(t, text)
    <3>1. pc = [pc EXCEPT ![t] = "body"]
      BY <1>6 DEF ReadBody, TypeOK
    <3>2. QED
      BY <1>6, <3>1 DEF ReadBody
  <2>2. QED
    BY <1>6, <2>1, EndOfAttemptPlace DEF ReadBody, Goto
<1>7. CASE ReadFails(t)
  BY <1>7, EndOfAttemptPlace DEF ReadFails, Goto
<1>8. QED
  BY <1>1, <1>2, <1>3, <1>4, <1>5, <1>6, <1>7 DEF Works, Reads

\* Two threads are never both between lock() and unlock().
LEMMA OneHolder ==
    ASSUME LockInv, NEW t \in Threads, NEW u \in Threads,
           pc[t] \in Critical, pc[u] \in Critical
    PROVE  t = u
BY DEF LockInv

LEMMA LockStep ==
    ASSUME TypeOK, LockInv, [Next]_vars
    PROVE  LockInv'
<1> USE RpcAssumption DEF LockInv, TypeOK
<1>1. ASSUME NEW t \in Threads, Call(t)
      PROVE  LockInv'
  BY <1>1 DEF Call, Goto, Critical, Reading
<1>2. ASSUME NEW t \in Threads, Acquire(t)
      PROVE  LockInv'
  BY <1>2 DEF Acquire, Goto, Critical, Reading
<1>3. ASSUME NEW t \in Threads, Works(t)
      PROVE  LockInv'
  BY <1>3, WorksFrame
<1>4. ASSUME NEW t \in Threads, PublishFails(t)
      PROVE  LockInv'
  BY <1>4 DEF PublishFails, Return, Goto, Critical, Reading
<1>5. ASSUME NEW t \in Threads, Unlock(t)
      PROVE  LockInv'
  BY <1>5 DEF Unlock, Return, Goto, Critical, Reading
<1>6. ASSUME Environment
      PROVE  LockInv'
  BY <1>6, EnvironmentFrame
<1>7. ASSUME UNCHANGED vars
      PROVE  LockInv'
  BY <1>7 DEF vars
<1>8. QED
  BY <1>1, <1>2, <1>3, <1>4, <1>5, <1>6, <1>7 DEF Next, Step, Works, Reads

-----------------------------------------------------------------------------
(* Where the holder stands in the delivery it reads.                       *)

Ended == link = "closed" /\ buffer = 0 /\ kernel = 0

\* What decoding a frame does to the deliveries on the connection.
LEMMA WaitFrameMoves ==
    ASSUME TypeOK, WaitFrame
    PROVE  /\ ~Ended
           /\ inbox # <<>>
           /\ Head(inbox) \in Delivery
           /\ FramesOf(Head(inbox)) \in Nat
           /\ at' = IF at + 1 = FramesOf(Head(inbox)) THEN 0 ELSE at + 1
           /\ at + 1 # FramesOf(Head(inbox)) => inbox' = inbox
           /\ at + 1 = FramesOf(Head(inbox)) => inbox' = Tail(inbox)
           /\ link' = link
BY Removed, FramesPositive DEF TypeOK, WaitFrame, Ended

\* ReadInv speaks of the holder only, and of nobody when there is none.
LEMMA ReadInvQuiet ==
    ASSUME TypeOK, LockInv, ReadInv,
           \A u \in Threads : pc'[u] \in Reading => pc'[u] = pc[u],
           \A u \in Threads : pc[u] \in {"header", "body"} => pc'[u] = pc[u],
           UNCHANGED <<left, at>>,
           Ended => Ended',
           \A u \in Threads : pc[u] \in {"header", "body"} => inbox' # <<>> /\ Head(inbox') = Head(inbox)
    PROVE  ReadInv'
BY DEF ReadInv, StreamInStep, Reading, Ended, FramesOf

\* The holder leaves a delivery only when it has decoded the last frame of it,
\* or when the connection has ended.
LEMMA ReadInvLeave ==
    ASSUME TypeOK, LockInv, NEW t \in Threads, pc[t] \in Critical,
           NEW place \in {"selecting", "returning"}, pc' = [pc EXCEPT ![t] = place],
           at' = 0 \/ Ended'
    PROVE  ReadInv'
<1>1. \A u \in Threads : pc'[u] \notin Reading
  BY DEF LockInv, TypeOK, Critical, Reading
<1>2. QED
  BY <1>1 DEF ReadInv, StreamInStep, Reading, Ended

LEMMA ReadStep ==
    ASSUME TypeOK, LockInv, ReadInv, [Next]_vars
    PROVE  ReadInv'
<1> USE DEF net
<1>1. ASSUME NEW t \in Threads, Call(t)
      PROVE  ReadInv'
  BY <1>1, ReadInvQuiet DEF Call, Goto, TypeOK, Reading, Ended, ReadInv
<1>2. ASSUME NEW t \in Threads, Acquire(t)
      PROVE  ReadInv'
  BY <1>2, ReadInvQuiet DEF Acquire, Goto, TypeOK, Reading, Ended, ReadInv
<1>3. ASSUME NEW t \in Threads, Publish(t)
      PROVE  ReadInv'
  BY <1>3, ReadInvQuiet DEF Publish, Goto, TypeOK, Reading, Ended, ReadInv
<1>4. ASSUME NEW t \in Threads, PublishFails(t)
      PROVE  ReadInv'
  BY <1>4, ReadInvQuiet DEF PublishFails, Return, Goto, TypeOK, Reading, Ended, ReadInv
<1>5. ASSUME NEW t \in Threads, Unlock(t)
      PROVE  ReadInv'
  BY <1>5, ReadInvQuiet DEF Unlock, Return, Goto, TypeOK, Reading, Ended, ReadInv
<1>6. ASSUME NEW t \in Threads, SelectReady(t)
      PROVE  ReadInv'
  <2>1. \A u \in Threads : u # t => pc[u] \notin Critical
    BY <1>6, OneHolder DEF SelectReady, Critical
  <2>2. at = 0 \/ Ended
    BY <1>6, <2>1 DEF ReadInv, StreamInStep, SelectReady, Critical, Reading, Ended
  <2>3. \A u \in Threads : pc'[u] \in Reading <=> u = t
    BY <1>6, <2>1 DEF SelectReady, Goto, TypeOK, Critical, Reading
  <2>4. pc'[t] = "method" /\ UNCHANGED <<at, link, buffer, kernel>>
    BY <1>6 DEF SelectReady, Goto, TypeOK
  <2>5. QED
    BY <2>2, <2>3, <2>4 DEF ReadInv, StreamInStep, Reading, Ended
<1>7. ASSUME NEW t \in Threads, SelectTimeout(t)
      PROVE  ReadInv'
  BY <1>7, EndOfAttemptPlace, ReadInvQuiet
     DEF SelectTimeout, Goto, TypeOK, Reading, Ended, ReadInv
<1>8. ASSUME NEW t \in Threads, Reads(t)
      PROVE  ReadInv'
  <2>1. \A u \in Threads : u # t => pc[u] \notin Critical
    BY <1>8, OneHolder, WorksFrame DEF Works
  <2>2. pc[t] \in Critical
    BY <1>8, WorksFrame DEF Works
  <2>3. ASSUME NEW place \in {"header", "body"}, pc' = [pc EXCEPT ![t] = place]
        PROVE  \A u \in Threads : pc'[u] \in Reading <=> u = t
    BY <2>1, <2>3 DEF TypeOK, Critical, Reading
  <2>4. CASE ReadMethod(t)
    <3>1. pc[t] = "method" /\ WaitFrame
      BY <2>4 DEF ReadMethod
    <3>2. at = 0
      BY <3>1, WaitFrameMoves DEF ReadInv, StreamInStep, Ended
    <3>3. CASE Head(inbox).kind = "deliver"
      <4>1. FramesOf(Head(inbox)) >= 2
        BY <3>1, <3>3, WaitFrameMoves DEF FramesOf, Delivery
      <4>2. at' = 1 /\ inbox' = inbox /\ inbox # <<>>
        BY <3>1, <3>2, <4>1, WaitFrameMoves
      <4>3. pc' = [pc EXCEPT ![t] = "header"]
        BY <2>4, <3>2, <3>3 DEF ReadMethod, NextFrame, Goto
      <4>4. pc'[t] = "header"
        BY <4>3 DEF TypeOK
      <4>5. QED
        BY <2>3, <3>3, <4>2, <4>3, <4>4 DEF ReadInv, StreamInStep, Reading
    <3>4. CASE Head(inbox).kind # "deliver"
      <4>1. at' = 0
        BY <3>1, <3>2, <3>4, WaitFrameMoves DEF FramesOf
      <4>2. EndOfAttempt(t, <<>>)
        BY <2>4, <3>2, <3>4 DEF ReadMethod, NextFrame
      <4>3. QED
        BY <2>2, <4>1, <4>2, EndOfAttemptPlace, ReadInvLeave DEF Goto
    <3>5. QED
      BY <3>3, <3>4
  <2>5. CASE ReadHeader(t)
    <3>1. pc[t] = "header" /\ WaitFrame
      BY <2>5 DEF ReadHeader
    <3>2. at = 1 /\ Head(inbox).kind = "deliver"
      BY <3>1 DEF ReadInv, StreamInStep
    <3>3. Head(inbox).size \in Nat /\ FramesOf(Head(inbox)) = 2 + Head(inbox).size
      BY <3>1, <3>2, WaitFrameMoves DEF FramesOf, Delivery
    <3>4. CASE Head(inbox).size = 0
      <4>1. at' = 0
        BY <3>1, <3>2, <3>3, <3>4, WaitFrameMoves
      <4>2. EndOfAttempt(t, <<>>)
        BY <2>5, <3>2, <3>4 DEF ReadHeader, NextFrame
      <4>3. QED
        BY <2>2, <4>1, <4>2, EndOfAttemptPlace, ReadInvLeave DEF Goto
    <3>5. CASE Head(inbox).size # 0
      <4>1. at' = 2 /\ inbox' = inbox /\ inbox # <<>>
        BY <3>1, <3>2, <3>3, <3>5, WaitFrameMoves
      <4>2. pc' = [pc EXCEPT ![t] = "body"] /\ left' = [left EXCEPT ![t] = Head(inbox).size]
        BY <2>5, <3>2, <3>5 DEF ReadHeader, NextFrame, Goto
      <4>3. pc'[t] = "body" /\ left'[t] = Head(inbox).size
        BY <4>2 DEF TypeOK
      <4>4. FramesOf(Head(inbox'))  = 2 + Head(inbox).size /\ Head(inbox').kind = "deliver"
        BY <3>2, <3>3, <4>1
      <4>5. QED
        BY <2>3, <3>3, <3>5, <4>1, <4>2, <4>3, <4>4 DEF ReadInv, StreamInStep, Reading, FramesOf
    <3>6. QED
      BY <3>4, <3>5
  <2>6. CASE ReadBody(t)
    <3>1. pc[t] = "body" /\ WaitFrame
      BY <2>6 DEF ReadBody
    <3>2. /\ at >= 2
          /\ left[t] \in Nat
          /\ left[t] > 0
          /\ at \in Nat
          /\ at + left[t] = FramesOf(Head(inbox))
          /\ Head(inbox).kind = "deliver"
      BY <3>1 DEF ReadInv, StreamInStep, TypeOK
    <3>3. NextFrame = "body" /\ left' = [left EXCEPT ![t] = @ - 1]
      BY <2>6, <3>2 DEF ReadBody, NextFrame
    <3>4. CASE left[t] = 1
      <4>1. at' = 0
        BY <3>1, <3>2, <3>4, WaitFrameMoves
      <4>2. \E text : EndOfAttempt(t, text)
        BY <2>6, <3>3, <3>4 DEF ReadBody
      <4>3. QED
        BY <2>2, <4>1, <4>2, EndOfAttemptPlace, ReadInvLeave DEF Goto
    <3>5. CASE left[t] # 1
      <4>1. at' = at + 1 /\ inbox' = inbox /\ inbox # <<>>
        BY <3>1, <3>2, <3>5, WaitFrameMoves
      <4>2. pc' = [pc EXCEPT ![t] = "body"]
        BY <2>6, <3>1, <3>3, <3>5 DEF ReadBody, TypeOK
      <4>3. pc'[t] = "body" /\ left'[t] = left[t] - 1
        BY <3>3, <4>2 DEF TypeOK
      <4>4. FramesOf(Head(inbox')) = at' + left'[t] /\ left'[t] > 0 /\ at' >= 2
        BY <3>2, <3>5, <4>1, <4>3 DEF FramesOf
      <4>5. QED
        BY <2>3, <3>2, <4>1, <4>2, <4>3, <4>4 DEF ReadInv, StreamInStep, Reading, FramesOf
    <3>6. QED
      BY <3>4, <3>5
  <2>7. CASE ReadFails(t)
    <3>1. Ended' /\ EndOfAttempt(t, <<>>)
      BY <2>7 DEF ReadFails, WaitFrameFails, Ended
    <3>2. QED
      BY <2>2, <3>1, EndOfAttemptPlace, ReadInvLeave DEF Goto
  <2>8. QED
    BY <1>8, <2>4, <2>5, <2>6, <2>7 DEF Reads
<1>9. ASSUME NEW m \in Delivery, Send(m)
      PROVE  ReadInv'
  BY <1>9, Appended, ReadInvQuiet DEF Send, TypeOK, Reading, Ended, ReadInv
<1>10. ASSUME NEW c \in requests, NEW size \in 0..MaxFrags, Answer(c, size)
       PROVE  ReadInv'
  <2>1. [of |-> c, kind |-> "deliver", size |-> size] \in Delivery
    BY RpcAssumption DEF Delivery, TypeOK
  <2>2. QED
    BY <1>9, <1>10, <2>1 DEF Answer
<1>11. ASSUME Notify
       PROVE  ReadInv'
  BY <1>9, <1>11 DEF Notify, Delivery
<1>12. ASSUME Arrive
       PROVE  ReadInv'
  BY <1>12, ReadInvQuiet DEF Arrive, Ended, ReadInv
<1>13. ASSUME LoseLink
       PROVE  ReadInv'
  BY <1>13, ReadInvQuiet DEF LoseLink, Ended, ReadInv
<1>14. ASSUME UNCHANGED vars
       PROVE  ReadInv'
  BY <1>14, ReadInvQuiet DEF vars, Ended, ReadInv
<1>15. QED
  BY <1>1, <1>2, <1>3, <1>4, <1>5, <1>6, <1>7, <1>8, <1>10, <1>11, <1>12, <1>13, <1>14
     DEF Next, Step, Environment, Reads

-----------------------------------------------------------------------------
(* The text the holder has put together.                                   *)

LEMMA TextQuiet ==
    ASSUME TypeOK, LockInv, TextInv, UNCHANGED <<own, ret, left>>,
           \A u \in Threads : pc'[u] \in {"selecting", "header", "body", "returning"} => pc'[u] = pc[u],
           \A u \in Threads : pc'[u] = "method" => pc[u] \in {"selecting", "method"},
           \A u \in Threads : pc[u] = "body" => at' = at /\ Head(inbox') = Head(inbox)
    PROVE  TextInv'
BY DEF TextInv, ReplyOf

\* An attempt that ends with no text, or with a whole reply.
LEMMA TextAttempt ==
    ASSUME TypeOK, LockInv, TextInv, NEW t \in Threads, pc[t] \in Critical,
           NEW text \in Seq(Fragment), EndOfAttempt(t, text), own' = own,
           text # <<>> => left'[t] = 0,
           \A i \in 1..Len(text) : text[i] = [of |-> ReplyOf(text), part |-> i]
    PROVE  TextInv'
<1>1. \A u \in Threads : u # t => pc'[u] \notin Critical
  BY OneHolder DEF EndOfAttempt, Goto, TypeOK
<1>2. CASE EEPBX /\ ReplyOf(text) # own[t]
  <2>1. pc'[t] = "selecting" /\ ret'[t] = <<>>
    BY <1>2 DEF EndOfAttempt, Goto, TypeOK
  <2>2. QED
    BY <1>1, <2>1 DEF TextInv, Critical, Reading
<1>3. CASE ~(EEPBX /\ ReplyOf(text) # own[t])
  <2>1. pc'[t] = "returning" /\ ret'[t] = text
    BY <1>3 DEF EndOfAttempt, Goto, TypeOK
  <2>2. /\ EEPBX => ReplyOf(ret'[t]) = own'[t]
        /\ ret'[t] # <<>> => left'[t] = 0
        /\ \A i \in 1..Len(ret'[t]) : ret'[t][i] = [of |-> ReplyOf(ret'[t]), part |-> i]
    BY <1>3, <2>1
  <2>3. QED
    BY <1>1, <2>1, <2>2 DEF TextInv, Critical, Reading, ReplyOf
<1>4. QED
  BY <1>2, <1>3

LEMMA TextNone ==
    ASSUME TypeOK, LockInv, TextInv, NEW t \in Threads, pc[t] \in Critical,
           EndOfAttempt(t, <<>>), own' = own
    PROVE  TextInv'
<1> DEFINE text == <<>>
<1>1. text \in Seq(Fragment) /\ text = <<>> /\ Len(text) = 0
  OBVIOUS
<1>2. \A i \in 1..Len(text) : text[i] = [of |-> ReplyOf(text), part |-> i]
  BY <1>1
<1>3. EndOfAttempt(t, text)
  OBVIOUS
<1> HIDE DEF text
<1>4. QED
  BY <1>1, <1>2, <1>3, TextAttempt

\* The last fragment makes the text a whole reply.
LEMMA TextGrows ==
    ASSUME TypeOK, ReadInv, TextInv, NEW t \in Threads, ReadBody(t)
    PROVE  LET text == Append(ret[t], [of |-> Head(inbox).of, part |-> at - 1])
           IN  /\ NextFrame = "body"
               /\ Head(inbox) \in Delivery
               /\ Head(inbox).kind = "deliver"
               /\ text \in Seq(Fragment)
               /\ text # <<>>
               /\ Len(text) = at - 1
               /\ ReplyOf(text) = Head(inbox).of
               /\ \A i \in 1..Len(text) : text[i] = [of |-> Head(inbox).of, part |-> i]
<1> DEFINE f == [of |-> Head(inbox).of, part |-> at - 1]
           text == Append(ret[t], f)
<1>1. pc[t] = "body" /\ WaitFrame
  BY DEF ReadBody
<1>2. /\ at \in Nat /\ at >= 2
      /\ Head(inbox) \in Delivery
      /\ Head(inbox).kind = "deliver"
      /\ ret[t] \in Seq(Fragment)
      /\ Len(ret[t]) = at - 2
      /\ \A i \in 1..Len(ret[t]) : ret[t][i] = [of |-> Head(inbox).of, part |-> i]
  BY <1>1, Removed DEF ReadInv, TextInv, TypeOK
<1>3. f \in Fragment
  BY <1>2 DEF Fragment, Delivery
<1>4. /\ text \in Seq(Fragment)
      /\ Len(text) = at - 1
      /\ text[at - 1] = f
      /\ \A i \in 1..Len(ret[t]) : text[i] = ret[t][i]
  BY <1>2, <1>3
<1>5. \A i \in 1..Len(text) : text[i] = [of |-> Head(inbox).of, part |-> i]
  BY <1>2, <1>4
<1>6. text # <<>> /\ text[1] = [of |-> Head(inbox).of, part |-> 1]
  <2>1. Len(text) >= 1
    BY <1>2, <1>4
  <2>2. 1 \in 1..Len(text)
    BY <2>1, <1>4
  <2>3. text # <<>>
    BY <2>1
  <2> HIDE DEF text
  <2>4. QED
    BY <1>5, <2>2, <2>3
<1>7. ReplyOf(text) = Head(inbox).of
  BY <1>6 DEF ReplyOf
<1>8. NextFrame = "body"
  BY <1>2 DEF NextFrame
<1>9. QED
  BY <1>2, <1>4, <1>5, <1>6, <1>7, <1>8

LEMMA TextStep ==
    ASSUME TypeOK, LockInv, ReadInv, TextInv, [Next]_vars
    PROVE  TextInv'
<1> USE DEF net
<1>1. ASSUME NEW t \in Threads, Call(t)
      PROVE  TextInv'
  BY <1>1, TextQuiet DEF Call, Goto, TypeOK
<1>2. ASSUME NEW t \in Threads, Acquire(t)
      PROVE  TextInv'
  <2>1. \A u \in Threads : pc'[u] \in Critical => u = t
    BY <1>2, RpcAssumption DEF Acquire, Goto, LockInv, TypeOK
  <2>2. pc'[t] = "publishing"
    BY <1>2 DEF Acquire, Goto, TypeOK
  <2>3. QED
    BY <2>1, <2>2 DEF TextInv, Critical, Reading
<1>3. ASSUME NEW t \in Threads, Publish(t)
      PROVE  TextInv'
  <2>1. pc'[t] = "selecting" /\ ret'[t] = <<>>
    BY <1>3 DEF Publish, Goto, TypeOK
  <2>2. \A u \in Threads : pc'[u] \in Critical => u = t
    BY <1>3, OneHolder DEF Publish, Goto, TypeOK, Critical
  <2>3. QED
    BY <2>1, <2>2 DEF TextInv, Critical, Reading
<1>4. ASSUME NEW t \in Threads, PublishFails(t)
      PROVE  TextInv'
  BY <1>4, TextQuiet DEF PublishFails, Return, Goto, TypeOK
<1>5. ASSUME NEW t \in Threads, Unlock(t)
      PROVE  TextInv'
  BY <1>5, TextQuiet DEF Unlock, Return, Goto, TypeOK
<1>6. ASSUME NEW t \in Threads, SelectReady(t)
      PROVE  TextInv'
  BY <1>6, TextQuiet DEF SelectReady, Goto, TypeOK
<1>7. ASSUME NEW t \in Threads, SelectTimeout(t)
      PROVE  TextInv'
  BY <1>7, TextNone DEF SelectTimeout, Critical
<1>8. ASSUME NEW t \in Threads, Reads(t)
      PROVE  TextInv'
  <2>1. pc[t] \in Critical /\ own' = own
    BY <1>8, WorksFrame DEF Works
  <2>2. \A u \in Threads : u # t => pc'[u] \notin Critical
    BY <1>8, <2>1, OneHolder, WorksFrame DEF Works, TypeOK
  <2>3. CASE ReadMethod(t)
    <3>1. CASE EndOfAttempt(t, <<>>)
      BY <2>1, <3>1, TextNone
    <3>2. CASE Goto(t, "header") /\ UNCHANGED ret
      <4>1. pc'[t] = "header" /\ ret'[t] = <<>>
        BY <2>3, <3>2 DEF ReadMethod, Goto, TypeOK, TextInv
      <4>2. QED
        BY <2>2, <4>1 DEF TextInv, Critical, Reading
    <3>3. QED
      BY <2>3, <3>1, <3>2 DEF ReadMethod
  <2>4. CASE ReadHeader(t)
    <3>1. CASE EndOfAttempt(t, <<>>)
      BY <2>1, <3>1, TextNone
    <3>2. CASE NextFrame = "header" /\ Head(inbox).size # 0
      <4>1. pc'[t] = "body" /\ ret'[t] = <<>>
        BY <2>4, <3>2 DEF ReadHeader, Goto, TypeOK, TextInv
      <4>2. pc[t] = "header" /\ WaitFrame /\ at = 1 /\ Head(inbox).kind = "deliver"
        BY <2>4 DEF ReadHeader, ReadInv, StreamInStep
      <4>3. at' = 2
        BY <3>2, <4>2, WaitFrameMoves DEF FramesOf, Delivery
      <4>4. Len(ret'[t]) = 0
        BY <4>1
      <4>5. QED
        BY <2>2, <4>1, <4>3, <4>4 DEF TextInv, Critical, Reading
    <3>3. QED
      BY <2>4, <3>1, <3>2 DEF ReadHeader
  <2>5. CASE ReadBody(t)
    <3> DEFINE text == Append(ret[t], [of |-> Head(inbox).of, part |-> at - 1])
    <3>1. /\ NextFrame = "body" /\ text \in Seq(Fragment) /\ Len(text) = at - 1
          /\ ReplyOf(text) = Head(inbox).of
          /\ \A i \in 1..Len(text) : text[i] = [of |-> Head(inbox).of, part |-> i]
      BY <2>5, TextGrows
    <3>2. CASE left[t] = 1
      <4>1. EndOfAttempt(t, text) /\ left'[t] = 0
        BY <2>5, <3>1, <3>2 DEF ReadBody, TypeOK
      <4>2. QED
        BY <2>1, <3>1, <4>1, TextAttempt
    <3>3. CASE left[t] # 1
      <4>1. pc'[t] = "body" /\ ret'[t] = text
        BY <2>5, <3>1, <3>3 DEF ReadBody, TypeOK
      <4>2. at' = at + 1 /\ inbox' = inbox /\ at \in Nat
        <5>1. WaitFrame /\ at + left[t] = FramesOf(Head(inbox)) /\ left[t] \in Nat /\ at \in Nat
          BY <2>5 DEF ReadBody, ReadInv, StreamInStep, TypeOK
        <5>2. QED
          BY <3>3, <5>1, WaitFrameMoves
      <4>3. Len(ret'[t]) = at' - 2
        BY <3>1, <4>1, <4>2
      <4>4. \A i \in 1..Len(ret'[t]) : ret'[t][i] = [of |-> Head(inbox').of, part |-> i]
        BY <3>1, <4>1, <4>2
      <4>5. QED
        BY <2>2, <4>1, <4>3, <4>4 DEF TextInv, Critical, Reading
    <3>4. QED
      BY <3>2, <3>3
  <2>6. CASE ReadFails(t)
    BY <2>1, <2>6, TextNone DEF ReadFails
  <2>7. QED
    BY <1>8, <2>3, <2>4, <2>5, <2>6 DEF Reads
<1>9. ASSUME NEW m \in Delivery, Send(m)
      PROVE  TextInv'
  BY <1>9, Appended, TextQuiet DEF Send, TypeOK, ReadInv
<1>10. ASSUME NEW c \in requests, NEW size \in 0..MaxFrags, Answer(c, size)
       PROVE  TextInv'
  <2>1. [of |-> c, kind |-> "deliver", size |-> size] \in Delivery
    BY RpcAssumption DEF Delivery, TypeOK
  <2>2. QED
    BY <1>9, <1>10, <2>1 DEF Answer
<1>11. ASSUME Notify
       PROVE  TextInv'
  BY <1>9, <1>11 DEF Notify, Delivery
<1>12. ASSUME Arrive
       PROVE  TextInv'
  BY <1>12, TextQuiet DEF Arrive
<1>13. ASSUME LoseLink
       PROVE  TextInv'
  BY <1>13, TextQuiet DEF LoseLink
<1>14. ASSUME UNCHANGED vars
       PROVE  TextInv'
  BY <1>14, TextQuiet DEF vars
<1>15. QED
  BY <1>1, <1>2, <1>3, <1>4, <1>5, <1>6, <1>7, <1>8, <1>10, <1>11, <1>12, <1>13, <1>14
     DEF Next, Step, Environment, Reads

-----------------------------------------------------------------------------
(* Which calls have returned.                                              *)

LEMMA CallStep ==
    ASSUME TypeOK, LockInv, CallInv, [Next]_vars
    PROVE  CallInv'
<1>1. ASSUME UNCHANGED <<lock, own, published, returned>>
      PROVE  CallInv'
  BY <1>1 DEF CallInv
<1>2. ASSUME NEW t \in Threads, Acquire(t)
      PROVE  CallInv'
  <2>1. /\ lock = Nobody /\ lock' = t /\ t # Nobody
        /\ published \in Nat /\ published' = published + 1
        /\ own'[t] = published + 1
        /\ returned' = returned
    BY <1>2, RpcAssumption DEF Acquire, TypeOK
  <2>2. \A r \in returned' : r.call \in 1..published'
    BY <2>1 DEF CallInv
  <2>3. \A c \in 1..published : \E r \in returned' : r.call = c
    BY <2>1 DEF CallInv
  <2>4. ~\E r \in returned' : r.call = published'
    BY <2>1 DEF CallInv
  <2>5. ASSUME NEW c \in 1..published'
        PROVE  (\E r \in returned' : r.call = c) <=> c # published'
    <3>1. c = published' \/ c \in 1..published
      BY <2>1
    <3>2. published' \notin 1..published
      BY <2>1
    <3>3. QED
      BY <2>3, <2>4, <3>1, <3>2
  <2>6. own'[lock'] = published' /\ published' > 0 /\ lock' # Nobody
    BY <2>1
  <2>7. QED
    BY <2>2, <2>5, <2>6 DEF CallInv
<1>3. ASSUME NEW t \in Threads, NEW of, lock = t, lock' = Nobody, UNCHANGED <<own, published>>,
             returned' = returned \cup {[call |-> own[t], of |-> of]}
      PROVE  CallInv'
  <2>1. t # Nobody /\ own[t] = published /\ published \in Nat /\ published > 0
    BY <1>3, RpcAssumption DEF CallInv, TypeOK
  <2>2. \A r \in returned' : r.call \in 1..published
    BY <1>3, <2>1 DEF CallInv
  <2>3. ASSUME NEW c \in 1..published
        PROVE  \E r \in returned' : r.call = c
    <3>1. CASE c = published
      <4>1. [call |-> own[t], of |-> of] \in returned' /\ [call |-> own[t], of |-> of].call = c
        BY <1>3, <2>1, <3>1
      <4>2. QED
        BY <4>1
    <3>2. CASE c # published
      BY <1>3, <3>2 DEF CallInv
    <3>3. QED
      BY <3>1, <3>2
  <2>4. QED
    BY <1>3, <2>2, <2>3 DEF CallInv
<1>4. ASSUME NEW t \in Threads, PublishFails(t)
      PROVE  CallInv'
  <2>1. lock = t
    BY <1>4 DEF PublishFails, LockInv, Critical
  <2>2. QED
    BY <1>3, <1>4, <2>1 DEF PublishFails, Return
<1>5. ASSUME NEW t \in Threads, Unlock(t)
      PROVE  CallInv'
  <2>1. lock = t
    BY <1>5 DEF Unlock, LockInv, Critical
  <2>2. QED
    BY <1>3, <1>5, <2>1 DEF Unlock, Return
<1>6. ASSUME NEW t \in Threads, Call(t) \/ Works(t)
      PROVE  CallInv'
  BY <1>1, <1>6, WorksFrame DEF Call
<1>7. ASSUME Environment
      PROVE  CallInv'
  BY <1>1, <1>7, EnvironmentFrame
<1>8. ASSUME UNCHANGED vars
      PROVE  CallInv'
  BY <1>1, <1>8 DEF vars
<1>9. QED
  BY <1>2, <1>4, <1>5, <1>6, <1>7, <1>8 DEF Next, Step, Works, Reads

-----------------------------------------------------------------------------
(* Where the replies are.                                                  *)

\* The deliveries left after a step are a suffix of those before it.
Suffix == \E d \in {0, 1} : /\ Len(inbox') = Len(inbox) - d
                            /\ \A i \in 1..Len(inbox') : inbox'[i] = inbox[i + d]

LEMMA WaitFrameSuffix ==
    ASSUME TypeOK, WaitFrame
    PROVE  Suffix
<1>1. inbox \in Seq(Delivery) /\ inbox # <<>>
  BY DEF TypeOK, WaitFrame
<1>2. CASE inbox' = inbox
  BY <1>1, <1>2 DEF Suffix
<1>3. CASE inbox' = Tail(inbox)
  BY <1>1, <1>3, Removed DEF Suffix
<1>4. QED
  BY <1>2, <1>3, WaitFrameMoves

\* The replies that travel after such a step travelled before it.
LEMMA SuffixTravels ==
    ASSUME TypeOK, inbox' \in Seq(Delivery), Suffix, NEW c
    PROVE  Travels(c)' => Travels(c)
BY DEF Suffix, Travels, TypeOK

\* A step that hands nothing out and takes nothing new in hand.
LEMMA TokenQuiet ==
    ASSUME TypeOK, TokenInv, inbox' \in Seq(Delivery), Suffix,
           UNCHANGED <<requests, own, published>>,
           \A r \in returned' : r \in returned \/ r.of = 0,
           \A u \in Threads : pc'[u] = "returning" /\ ReplyOf(ret'[u]) # 0 =>
               pc[u] = "returning" /\ ret'[u] = ret[u],
           \A u \in Threads : pc'[u] = "publishing" => pc[u] = "publishing",
           \A u \in Threads : pc[u] = "publishing" => own[u] # 0
    PROVE  TokenInv'
<1> USE DEF TokenInv
<1>1. \A c : Given(c)' => Given(c) \/ c = 0
  BY DEF Given
<1>2. \A u \in Threads : \A c : Holds(u, c)' => Holds(u, c) \/ c = 0
  BY DEF Holds
<1>3. WaitingInv'
  BY <1>1, <1>2, SuffixTravels DEF WaitingInv, TypeOK
<1>4. TravellingInv'
  <2>1. PICK d \in {0, 1} : /\ Len(inbox') = Len(inbox) - d
                            /\ \A i \in 1..Len(inbox') : inbox'[i] = inbox[i + d]
    BY DEF Suffix
  <2>2. Len(inbox) \in Nat /\ Len(inbox') \in Nat
    BY DEF TypeOK
  <2> SUFFICES ASSUME NEW i \in 1..Len(inbox')
               PROVE  TravellingInv!(i)'
    BY DEF TravellingInv
  <2>3. i + d \in 1..Len(inbox) /\ inbox'[i] = inbox[i + d]
    BY <2>1, <2>2
  <2>4. /\ inbox'[i].of \in 0..published'
        /\ inbox'[i].kind = "deliver" => inbox'[i].of # 0
    BY <2>3 DEF TravellingInv
  <2>5. ASSUME inbox'[i].of # 0, NEW j \in 1..Len(inbox'), inbox'[j].of = inbox'[i].of
        PROVE  j = i
    <3>1. j + d \in 1..Len(inbox) /\ inbox'[j] = inbox[j + d]
      BY <2>1, <2>2
    <3>2. j + d = i + d
      BY <2>3, <2>5, <3>1 DEF TravellingInv
    <3>3. QED
      BY <2>2, <3>2
  <2>6. ASSUME inbox'[i].of # 0
        PROVE  /\ \A r \in returned' : r.of # inbox'[i].of
               /\ \A t \in Threads : ~(pc'[t] = "returning" /\ ReplyOf(ret'[t]) = inbox'[i].of)
    <3>1. ~Given(inbox[i + d].of) /\ \A t \in Threads : ~Holds(t, inbox[i + d].of)
      BY <2>3, <2>6 DEF TravellingInv
    <3>2. QED
      BY <2>3, <2>6, <3>1 DEF Given, Holds
  <2>7. QED
    BY <2>4, <2>5, <2>6 DEF Given, Holds, ReplyOf
<1>5. HeldInv'
  BY <1>1 DEF HeldInv, Given
<1>6. GivenInv'
  BY DEF GivenInv, TypeOK
<1>7. NewInv'
  BY <1>1, SuffixTravels DEF NewInv
<1>8. QED
  BY <1>3, <1>4, <1>5, <1>6, <1>7

\* A delivery with a reply that was still at the adapter, or with none.
LEMMA TokenSend ==
    ASSUME TypeOK, TokenInv, NEW m \in Delivery, Send(m), requests' = requests \ {m.of},
           m.kind = "deliver" => m.of # 0,
           m.of = 0 \/ m.of \in requests,
           \A u \in Threads : pc[u] = "publishing" => own[u] # 0
    PROVE  TokenInv'
<1> USE DEF TokenInv
<1>1. /\ inbox' \in Seq(Delivery)
      /\ Len(inbox) \in Nat
      /\ Len(inbox') = Len(inbox) + 1
      /\ inbox'[Len(inbox) + 1] = m
      /\ \A i \in 1..Len(inbox) : inbox'[i] = inbox[i]
      /\ UNCHANGED <<pc, own, ret, published, returned>>
  BY Appended DEF Send, TypeOK
<1>2. \A c : Travels(c)' => Travels(c) \/ c = m.of
  BY <1>1 DEF Travels
<1>3. /\ \A c : Given(c)' <=> Given(c)
      /\ \A u \in Threads : \A c : Holds(u, c)' <=> Holds(u, c)
  BY <1>1 DEF Given, Holds, ReplyOf
<1>4. WaitingInv'
  BY <1>1, <1>2, <1>3 DEF WaitingInv
<1>5. m.of # 0 => /\ m.of \in 1..published
                  /\ ~Travels(m.of) /\ ~Given(m.of)
                  /\ \A t \in Threads : ~Holds(t, m.of)
  BY DEF WaitingInv
<1>6. TravellingInv'
  <2> SUFFICES ASSUME NEW i \in 1..Len(inbox')
               PROVE  TravellingInv!(i)'
    BY DEF TravellingInv
  <2>1. CASE i \in 1..Len(inbox)
    <3>1. inbox'[i] = inbox[i]
      BY <1>1, <2>1
    <3>2. /\ inbox'[i].of \in 0..published'
          /\ inbox'[i].kind = "deliver" => inbox'[i].of # 0
      BY <1>1, <2>1, <3>1 DEF TravellingInv
    <3>3. ASSUME inbox'[i].of # 0, NEW j \in 1..Len(inbox'), inbox'[j].of = inbox'[i].of
          PROVE  j = i
      <4>1. CASE j \in 1..Len(inbox)
        BY <1>1, <2>1, <3>1, <3>3, <4>1 DEF TravellingInv
      <4>2. CASE j = Len(inbox) + 1
        BY <1>1, <1>5, <2>1, <3>1, <3>3, <4>2 DEF Travels
      <4>3. QED
        BY <1>1, <4>1, <4>2
    <3>4. ASSUME inbox'[i].of # 0
          PROVE  /\ \A r \in returned' : r.of # inbox'[i].of
                 /\ \A t \in Threads : ~(pc'[t] = "returning" /\ ReplyOf(ret'[t]) = inbox'[i].of)
      BY <1>1, <2>1, <3>1, <3>4 DEF TravellingInv, Given, Holds
    <3>5. QED
      BY <3>2, <3>3, <3>4 DEF Given, Holds, ReplyOf
  <2>2. CASE i = Len(inbox) + 1
    <3>1. inbox'[i] = m
      BY <1>1, <2>2
    <3>2. /\ inbox'[i].of \in 0..published'
          /\ inbox'[i].kind = "deliver" => inbox'[i].of # 0
      BY <1>1, <1>5, <3>1 DEF TypeOK
    <3>3. ASSUME inbox'[i].of # 0, NEW j \in 1..Len(inbox'), inbox'[j].of = inbox'[i].of
          PROVE  j = i
      <4>1. CASE j \in 1..Len(inbox)
        BY <1>1, <1>5, <3>1, <3>3, <4>1 DEF Travels
      <4>2. CASE j = Len(inbox) + 1
        BY <2>2, <4>2
      <4>3. QED
        BY <1>1, <4>1, <4>2
    <3>4. ASSUME inbox'[i].of # 0
          PROVE  /\ \A r \in returned' : r.of # inbox'[i].of
                 /\ \A t \in Threads : ~(pc'[t] = "returning" /\ ReplyOf(ret'[t]) = inbox'[i].of)
      BY <1>1, <1>5, <3>1, <3>4 DEF Given, Holds
    <3>5. QED
      BY <3>2, <3>3, <3>4 DEF Given, Holds, ReplyOf
  <2>3. QED
    BY <1>1, <2>1, <2>2
<1>7. HeldInv'
  BY <1>1, <1>3 DEF HeldInv, ReplyOf, Given
<1>8. GivenInv'
  BY <1>1 DEF GivenInv
<1>9. NewInv'
  BY <1>1, <1>2, <1>3 DEF NewInv, Given
<1>10. QED
  BY <1>4, <1>6, <1>7, <1>8, <1>9

\* The end of an attempt holds the reply its text answers, or none.
LEMMA EndOfAttemptHolds ==
    ASSUME TypeOK, NEW t \in Threads, NEW text, EndOfAttempt(t, text)
    PROVE  \A u \in Threads : pc'[u] = "returning" /\ ReplyOf(ret'[u]) # 0 =>
               \/ pc[u] = "returning" /\ ret'[u] = ret[u]
               \/ u = t /\ ret'[u] = text
BY DEF EndOfAttempt, Goto, TypeOK, ReplyOf

\* The last frame of a delivery: its reply leaves the connection for the hands
\* of the call that read it.
LEMMA TokenTaken ==
    ASSUME TypeOK, LockInv, ReadInv, TextInv, TokenInv,
           NEW t \in Threads, ReadBody(t), left[t] = 1
    PROVE  TokenInv'
<1> DEFINE text == Append(ret[t], [of |-> Head(inbox).of, part |-> at - 1])
           reply == Head(inbox).of
<1> USE DEF TokenInv
<1>1. /\ WaitFrame /\ pc[t] = "body"
      /\ UNCHANGED <<lock, own, published, returned, requests>>
      /\ EndOfAttempt(t, text) /\ ReplyOf(text) = reply
  BY TextGrows DEF ReadBody, WaitFrame
<1>2. /\ inbox \in Seq(Delivery) /\ inbox # <<>>
      /\ Head(inbox) = inbox[1] /\ Head(inbox) \in Delivery /\ Head(inbox).kind = "deliver"
      /\ Len(inbox) \in Nat /\ Len(inbox) > 0
  BY <1>1, Removed DEF TypeOK, ReadInv
<1>3. at + 1 = FramesOf(Head(inbox))
  BY <1>1 DEF ReadInv, StreamInStep
<1>4. inbox' = Tail(inbox)
  BY <1>1, <1>3, WaitFrameMoves
<1>5. /\ inbox' \in Seq(Delivery)
      /\ Len(inbox') = Len(inbox) - 1
      /\ \A i \in 1..Len(inbox') : inbox'[i] = inbox[i + 1]
  BY <1>2, <1>4, Removed
<1>6. /\ reply \in 1..published
      /\ ~Given(reply)
      /\ reply \notin requests
      /\ \A i \in 1..Len(inbox) : inbox[i].of = reply => i = 1
  <2>1. 1 \in 1..Len(inbox)
    BY <1>2
  <2>2. reply # 0 /\ reply \in 0..published /\ ~Given(reply)
    BY <1>2, <2>1 DEF TravellingInv
  <2>3. \A i \in 1..Len(inbox) : inbox[i].of = reply => i = 1
    BY <1>2, <2>1, <2>2 DEF TravellingInv
  <2>4. reply \notin requests
    BY <1>2, <2>1 DEF WaitingInv, Travels
  <2>5. reply \in 1..published
    BY <2>2 DEF TypeOK
  <2>6. QED
    BY <2>2, <2>3, <2>4, <2>5
<1>7. /\ \A c : Travels(c)' => Travels(c) /\ c # reply
      /\ \A c : Given(c)' <=> Given(c)
  <2>1. \A i \in 1..Len(inbox') : i + 1 \in 1..Len(inbox) /\ i + 1 # 1
    BY <1>2, <1>5
  <2>2. \A i \in 1..Len(inbox') : inbox'[i].of # reply
    BY <1>5, <1>6, <2>1
  <2>3. QED
    BY <1>1, <1>5, <2>1, <2>2 DEF Travels, Given
<1>8. \A u \in Threads : pc'[u] = "returning" => u = t
  BY <1>1, OneHolder, WorksFrame DEF Works, Reads, Critical, TypeOK
<1>9. \A u \in Threads : \A c : Holds(u, c)' => c = 0 \/ (u = t /\ c = reply)
  <2> HIDE DEF text
  <2>1. pc[t] # "returning"
    BY <1>1
  <2>2. QED
    BY <1>1, <1>8, <2>1, EndOfAttemptHolds DEF Holds
<1>10. WaitingInv'
  <2> HIDE DEF reply
  <2>1. \A c \in requests : c # reply
    BY <1>6
  <2>2. \A c \in requests : c # 0 /\ c \in 1..published
    BY DEF WaitingInv, TypeOK
  <2>3. ASSUME NEW c \in requests
        PROVE  ~Travels(c)' /\ ~Given(c)' /\ \A u \in Threads : ~Holds(u, c)'
    BY <1>7, <1>9, <2>1, <2>2 DEF WaitingInv
  <2>4. QED
    BY <1>1, <2>2, <2>3 DEF WaitingInv
<1>11. TravellingInv'
  <2> SUFFICES ASSUME NEW i \in 1..Len(inbox')
               PROVE  TravellingInv!(i)'
    BY DEF TravellingInv
  <2>1. i + 1 \in 1..Len(inbox) /\ i + 1 # 1 /\ inbox'[i] = inbox[i + 1]
    BY <1>2, <1>5
  <2>2. /\ inbox'[i].of \in 0..published'
        /\ inbox'[i].kind = "deliver" => inbox'[i].of # 0
    BY <1>1, <2>1 DEF TravellingInv
  <2>3. ASSUME inbox'[i].of # 0, NEW j \in 1..Len(inbox'), inbox'[j].of = inbox'[i].of
        PROVE  j = i
    <3>1. j + 1 \in 1..Len(inbox) /\ inbox'[j] = inbox[j + 1]
      BY <1>2, <1>5
    <3>2. j + 1 = i + 1
      BY <2>1, <2>3, <3>1 DEF TravellingInv
    <3>3. QED
      BY <1>5, <3>2
  <2>4. ASSUME inbox'[i].of # 0
        PROVE  /\ \A r \in returned' : r.of # inbox'[i].of
               /\ \A u \in Threads : ~(pc'[u] = "returning" /\ ReplyOf(ret'[u]) = inbox'[i].of)
    <3>1. ~Given(inbox[i + 1].of) /\ inbox[i + 1].of # reply
      BY <1>6, <2>1, <2>4 DEF TravellingInv
    <3>2. \A u \in Threads : \A c : pc'[u] = "returning" /\ ReplyOf(ret'[u]) = c => c = 0 \/ c = reply
      BY <1>9 DEF Holds, ReplyOf
    <3>3. QED
      BY <1>1, <2>1, <2>4, <3>1, <3>2 DEF Given
  <2>5. QED
    BY <2>2, <2>3, <2>4 DEF Given, Holds, ReplyOf
<1>12. HeldInv'
  <2>1. \A u \in Threads : \A c : pc'[u] = "returning" /\ ReplyOf(ret'[u]) = c => c = 0 \/ c = reply
    BY <1>9 DEF Holds, ReplyOf
  <2>2. QED
    BY <1>1, <1>6, <2>1 DEF HeldInv, Given, ReplyOf
<1>13. GivenInv'
  BY <1>1 DEF GivenInv
<1>14. NewInv'
  <2>1. \A u \in Threads : pc'[u] # "publishing"
    BY <1>1, OneHolder, WorksFrame DEF Works, Reads, Critical, TypeOK
  <2>2. QED
    BY <2>1 DEF NewInv
<1>15. QED
  BY <1>10, <1>11, <1>12, <1>13, <1>14

\* The calls that are about to publish carry a number that is not 0.
LEMMA OwnPositive ==
    ASSUME TypeOK, LockInv, CallInv, NEW t \in Threads, pc[t] \in Critical
    PROVE  lock = t /\ own[t] = published /\ own[t] # 0
BY RpcAssumption DEF LockInv, CallInv, TypeOK

LEMMA TokenStep ==
    ASSUME TypeOK, TypeOK', LockInv, ReadInv, TextInv, CallInv, TokenInv, [Next]_vars
    PROVE  TokenInv'
<1> USE DEF net
<1>1. \A u \in Threads : pc[u] = "publishing" => own[u] # 0
  BY OwnPositive DEF Critical
<1>2. inbox' \in Seq(Delivery) /\ ReplyOf(<<>>) = 0
  BY DEF TypeOK, ReplyOf
<1>3. ASSUME inbox' = inbox
      PROVE  Suffix
  BY <1>3 DEF Suffix, TypeOK
<1>4. ASSUME NEW t \in Threads, EndOfAttempt(t, <<>>), Suffix, pc[t] \in Critical,
             UNCHANGED <<requests, own, published, returned>>
      PROVE  TokenInv'
  <2>1. \A u \in Threads : pc'[u] = "returning" /\ ReplyOf(ret'[u]) # 0 =>
            pc[u] = "returning" /\ ret'[u] = ret[u]
    BY <1>2, <1>4, EndOfAttemptHolds
  <2>2. \A u \in Threads : pc'[u] = "publishing" => pc[u] = "publishing"
    BY <1>4, EndOfAttemptPlace DEF Goto, TypeOK
  <2>3. QED
    BY <1>1, <1>2, <1>4, <2>1, <2>2, TokenQuiet
<1>5. ASSUME NEW t \in Threads, Call(t)
      PROVE  TokenInv'
  <2>1. \A u \in Threads : pc'[u] \in {"returning", "publishing"} => pc[u] = pc'[u]
    BY <1>5 DEF Call, Goto, TypeOK
  <2>2. QED
    BY <1>1, <1>2, <1>3, <1>5, <2>1, TokenQuiet DEF Call
<1>6. ASSUME NEW t \in Threads, Acquire(t)
      PROVE  TokenInv'
  <2>1. /\ \A u \in Threads : pc'[u] \in Critical => u = t
        /\ pc'[t] = "publishing" /\ own'[t] = published + 1 /\ published' = published + 1
    BY <1>6, RpcAssumption DEF Acquire, Goto, LockInv, TypeOK
  <2>2. UNCHANGED <<requests, inbox, returned>> /\ published \in Nat
    BY <1>6 DEF Acquire, TypeOK
  <2>3. \A u \in Threads : pc'[u] # "returning"
    BY <2>1 DEF Critical
  <2>4. WaitingInv'
    BY <2>1, <2>2, <2>3 DEF TokenInv, WaitingInv, Travels, Given, Holds
  <2>5. TravellingInv'
    BY <2>1, <2>2, <2>3 DEF TokenInv, TravellingInv, Given, Holds
  <2>6. HeldInv' /\ GivenInv'
    BY <2>1, <2>2, <2>3 DEF TokenInv, HeldInv, GivenInv
  <2>7. published + 1 \notin requests /\ ~Travels(published + 1) /\ ~Given(published + 1)
    BY <2>2 DEF TokenInv, WaitingInv, TravellingInv, GivenInv, Travels, Given
  <2>8. NewInv'
    BY <2>1, <2>2, <2>7 DEF NewInv, Travels, Given, Critical
  <2>9. QED
    BY <2>4, <2>5, <2>6, <2>8 DEF TokenInv
<1>7. ASSUME NEW t \in Threads, Publish(t)
      PROVE  TokenInv'
  <2>1. pc[t] = "publishing" /\ own[t] \in 1..published
    BY <1>7, OwnPositive DEF Publish, Critical, TypeOK
  <2>2. /\ \A u \in Threads : pc[u] # "returning"
        /\ \A u \in Threads : pc'[u] \notin {"returning", "publishing"}
    BY <1>7, OneHolder DEF Publish, Goto, TypeOK, Critical
  <2>3. requests' \subseteq requests \cup {own[t]} /\ UNCHANGED <<inbox, published, returned>>
    BY <1>7 DEF Publish
  <2>4. ~Travels(own[t]) /\ ~Given(own[t])
    BY <2>1 DEF TokenInv, NewInv
  <2>5. WaitingInv'
    BY <2>1, <2>2, <2>3, <2>4 DEF TokenInv, WaitingInv, Travels, Given, Holds
  <2>6. TravellingInv'
    BY <2>2, <2>3 DEF TokenInv, TravellingInv, Given, Holds
  <2>7. HeldInv' /\ GivenInv' /\ NewInv'
    BY <2>2, <2>3 DEF TokenInv, HeldInv, GivenInv, NewInv
  <2>8. QED
    BY <2>5, <2>6, <2>7 DEF TokenInv
<1>8. ASSUME NEW t \in Threads, PublishFails(t)
      PROVE  TokenInv'
  <2>1. \A u \in Threads : pc'[u] \in {"returning", "publishing"} => pc[u] = pc'[u]
    BY <1>8 DEF PublishFails, Return, Goto, TypeOK
  <2>2. \A r \in returned' : r \in returned \/ r.of = 0
    BY <1>2, <1>8 DEF PublishFails, Return
  <2>3. QED
    BY <1>1, <1>2, <1>3, <1>8, <2>1, <2>2, TokenQuiet DEF PublishFails
<1>9. ASSUME NEW t \in Threads, SelectReady(t)
      PROVE  TokenInv'
  <2>1. \A u \in Threads : pc'[u] \in {"returning", "publishing"} => pc[u] = pc'[u]
    BY <1>9 DEF SelectReady, Goto, TypeOK
  <2>2. QED
    BY <1>1, <1>2, <1>3, <1>9, <2>1, TokenQuiet DEF SelectReady
<1>10. ASSUME NEW t \in Threads, SelectTimeout(t)
       PROVE  TokenInv'
  BY <1>3, <1>4, <1>10 DEF SelectTimeout, Critical
<1>11. ASSUME NEW t \in Threads, Reads(t)
       PROVE  TokenInv'
  <2>1. pc[t] \in Critical /\ UNCHANGED <<own, published, returned>>
    BY <1>11, WorksFrame DEF Works
  <2>2. requests' = requests /\ Suffix
    BY <1>3, <1>11, WaitFrameSuffix DEF Reads, ReadMethod, ReadHeader, ReadBody, ReadFails, WaitFrame
  <2>3. ASSUME UNCHANGED ret, NEW place \in {"header", "body"}, pc' = [pc EXCEPT ![t] = place]
        PROVE  TokenInv'
    <3>1. \A u \in Threads : pc'[u] \in {"returning", "publishing"} => pc[u] = pc'[u]
      BY <2>3 DEF TypeOK
    <3>2. QED
      BY <1>1, <1>2, <2>1, <2>2, <2>3, <3>1, TokenQuiet
  <2>4. CASE ReadMethod(t)
    BY <1>4, <2>1, <2>2, <2>3, <2>4 DEF ReadMethod, Goto
  <2>5. CASE ReadHeader(t)
    BY <1>4, <2>1, <2>2, <2>3, <2>5 DEF ReadHeader, Goto
  <2>6. CASE ReadBody(t)
    <3>1. CASE left[t] = 1
      BY <2>6, <3>1, TokenTaken
    <3>2. CASE left[t] # 1
      <4>1. UNCHANGED pc /\ pc[t] = "body" /\ \A u \in Threads : u # t => ret'[u] = ret[u]
        BY <2>6, <3>2, TextGrows DEF ReadBody, TypeOK
      <4>2. QED
        BY <1>1, <1>2, <2>1, <2>2, <4>1, TokenQuiet
    <3>3. QED
      BY <3>1, <3>2
  <2>7. CASE ReadFails(t)
    BY <1>4, <2>1, <2>2, <2>7 DEF ReadFails
  <2>8. QED
    BY <1>11, <2>4, <2>5, <2>6, <2>7 DEF Reads
<1>12. ASSUME NEW t \in Threads, Unlock(t)
       PROVE  TokenInv'
  <2> DEFINE reply == ReplyOf(ret[t])
  <2>1. /\ pc[t] = "returning" /\ UNCHANGED <<requests, inbox, published>>
        /\ returned' = returned \cup {[call |-> own[t], of |-> reply]}
    BY <1>12 DEF Unlock, Return
  <2>2. \A u \in Threads : pc'[u] \notin {"returning", "publishing"}
    BY <1>12, OneHolder DEF Unlock, Return, Goto, TypeOK, Critical
  <2>3. Holds(t, reply) /\ (reply # 0 => reply \in 1..published) /\ reply \in Nat
    BY <2>1, ReplyOfNat DEF Holds, TokenInv, HeldInv, TypeOK
  <2> HIDE DEF reply
  <2>4. \A c : Given(c)' => Given(c) \/ c = reply
    BY <2>1 DEF Given
  <2>5. WaitingInv'
    <3>1. \A c \in requests : c # reply /\ ~Given(c) /\ ~Travels(c) /\ c \in 1..published
      BY <2>3 DEF TokenInv, WaitingInv
    <3>2. QED
      BY <2>1, <2>2, <2>4, <3>1 DEF WaitingInv, Travels, Holds
  <2>6. TravellingInv'
    <3>1. \A i \in 1..Len(inbox) : inbox[i].of # 0 =>
              inbox[i].of # reply /\ \A r \in returned : r.of # inbox[i].of
      BY <2>3 DEF TokenInv, TravellingInv, Given
    <3>2. \A i \in 1..Len(inbox) : inbox[i].of # 0 => \A r \in returned' : r.of # inbox[i].of
      BY <2>1, <3>1
    <3>3. QED
      BY <2>1, <2>2, <3>2 DEF TokenInv, TravellingInv, Given, Holds
  <2>7. GivenInv'
    BY <2>1, <2>3 DEF TokenInv, GivenInv, TypeOK
  <2>8. HeldInv' /\ NewInv'
    BY <2>2 DEF HeldInv, NewInv
  <2>9. QED
    BY <2>5, <2>6, <2>7, <2>8 DEF TokenInv
<1>13. ASSUME NEW c \in requests, NEW size \in 0..MaxFrags, Answer(c, size)
       PROVE  TokenInv'
  <2> DEFINE m == [of |-> c, kind |-> "deliver", size |-> size]
  <2>1. m \in Delivery /\ m.of = c /\ c # 0
    BY RpcAssumption DEF Delivery, TypeOK, TokenInv, WaitingInv
  <2>2. Send(m) /\ requests' = requests \ {m.of}
    BY <1>13 DEF Answer
  <2> HIDE DEF m
  <2>3. QED
    BY <1>1, <2>1, <2>2, TokenSend
<1>14. ASSUME Notify
       PROVE  TokenInv'
  <2> DEFINE m == [of |-> 0, kind |-> "other", size |-> 0]
  <2>1. m \in Delivery /\ m.of = 0 /\ m.kind # "deliver"
    BY DEF Delivery
  <2>2. Send(m) /\ requests' = requests \ {m.of}
    BY <1>14 DEF Notify, TokenInv, WaitingInv
  <2> HIDE DEF m
  <2>3. QED
    BY <1>1, <2>1, <2>2, TokenSend
<1>15. ASSUME Arrive \/ LoseLink \/ UNCHANGED vars
       PROVE  TokenInv'
  <2>1. UNCHANGED <<requests, inbox, own, published, returned, pc, ret>>
    BY <1>15 DEF Arrive, LoseLink, vars
  <2>2. QED
    BY <1>1, <1>2, <1>3, <2>1, TokenQuiet
<1>16. QED
  BY <1>5, <1>6, <1>7, <1>8, <1>9, <1>10, <1>11, <1>12, <1>13, <1>14, <1>15
     DEF Next, Step, Environment, Reads

-----------------------------------------------------------------------------
(* The theorems.                                                           *)

LEMMA InvInit == Init => IInv
<1> SUFFICES ASSUME Init PROVE IInv
  OBVIOUS
<1> USE DEF Init
<1>1. TypeOK
  BY TypeInit
<1>2. LockInv
  BY RpcAssumption DEF LockInv, Critical, Reading
<1>3. ReadInv /\ TextInv
  BY DEF ReadInv, StreamInStep, TextInv
<1>4. CallInv
  BY DEF CallInv
<1>5. TokenInv
  BY DEF TokenInv, WaitingInv, TravellingInv, HeldInv, GivenInv, NewInv
<1>6. QED
  BY <1>1, <1>2, <1>3, <1>4, <1>5 DEF IInv

LEMMA InvStep == IInv /\ [Next]_vars => IInv'
BY TypeStep, LockStep, ReadStep, TextStep, CallStep, TokenStep DEF IInv

\* The conjunction of what is known of the lock, the decoder, the texts, the
\* calls and the replies holds in every state.
THEOREM Invariance == Spec => []IInv
BY InvInit, InvStep, PTL DEF Spec

\* Every variable keeps its type; body_received never passes body_target.
THEOREM TypeCorrect == Spec => []TypeOK
<1>1. IInv => TypeOK
  BY DEF IInv
<1>2. QED
  BY Invariance, <1>1, PTL

\* However calls, timeouts, errors and arrivals interleave, the caller and the
\* library's decoder agree on where they are in a delivery, and only an ended
\* connection is left elsewhere than at the start of one.
THEOREM StreamStaysInStep == Spec => []StreamInStep
<1>1. IInv => StreamInStep
  BY DEF IInv, ReadInv
<1>2. QED
  BY Invariance, <1>1, PTL

\* rpcCall returns "" or all of one reply, in order.
THEOREM RepliesAreWhole == Spec => []WholeReply
<1>1. IInv => WholeReply
  <2> SUFFICES ASSUME IInv, NEW t \in Threads, pc[t] = "returning", ret[t] # <<>>
               PROVE  /\ left[t] = 0
                      /\ \A i \in DOMAIN ret[t] : ret[t][i] = [of |-> ReplyOf(ret[t]), part |-> i]
    BY DEF WholeReply
  <2>1. DOMAIN ret[t] = 1..Len(ret[t])
    BY DEF IInv, TypeOK
  <2>2. QED
    BY <2>1 DEF IInv, TextInv
<1>2. QED
  BY Invariance, <1>1, PTL

LEMMA ContractInit == Init => RC!Init
BY DEF Init, RC!Init

\* A call that ends may return what it is about to return.
LEMMA ContractFinish ==
    ASSUME TypeOK, LockInv, CallInv, NEW t \in Threads, pc[t] \in Critical,
           NEW text, Return(t, text), UNCHANGED <<own, published>>,
           \/ ReplyOf(text) \in {0, own[t]}
           \/ ~EEPBX /\ ReplyOf(text) \in 1..published /\ ~Given(ReplyOf(text))
    PROVE  RC!Finish
<1>1. /\ lock = t /\ lock' = Nobody /\ t # Nobody
      /\ own[t] = published /\ own[t] # 0
      /\ returned' = returned \cup {[call |-> own[t], of |-> ReplyOf(text)]}
  BY OwnPositive, RpcAssumption DEF Return, TypeOK
<1>2. ReplyOf(text) \in {0, own[t]} \cup (IF EEPBX THEN {} ELSE RC!GivenUp)
  <2>1. CASE ReplyOf(text) \in {0, own[t]}
    BY <2>1
  <2>2. CASE ~EEPBX /\ ReplyOf(text) \in 1..published /\ ReplyOf(text) # own[t] /\ ~Given(ReplyOf(text))
    <3>1. \E r \in returned : r.call = ReplyOf(text)
      BY <1>1, <2>2 DEF CallInv
    <3>2. QED
      BY <2>2, <3>1 DEF RC!GivenUp, RC!Answered, Given
  <2>3. QED
    BY <2>1, <2>2
<1>3. QED
  BY <1>1, <1>2 DEF RC!Finish

LEMMA ContractStep == IInv /\ [Next]_vars => [RC!Next]_(RC!vars)
<1> SUFFICES ASSUME IInv, [Next]_vars
             PROVE  RC!Next \/ UNCHANGED RC!vars
  OBVIOUS
<1> USE DEF IInv
<1>1. ASSUME UNCHANGED <<lock, own, published, returned>>
      PROVE  UNCHANGED RC!vars
  BY <1>1 DEF RC!vars
<1>2. ASSUME NEW t \in Threads, Acquire(t)
      PROVE  RC!Next
  <2>1. /\ lock = Nobody /\ lock' = t /\ t # Nobody
        /\ published' = published + 1 /\ own'[t] = published + 1 /\ returned' = returned
    BY <1>2, RpcAssumption DEF Acquire, TypeOK
  <2>2. QED
    BY <2>1 DEF RC!Next, RC!Begin
<1>3. ASSUME NEW t \in Threads, PublishFails(t)
      PROVE  RC!Next
  <2>1. pc[t] \in Critical /\ Return(t, <<>>) /\ UNCHANGED <<own, published>> /\ ReplyOf(<<>>) = 0
    BY <1>3 DEF PublishFails, Critical, ReplyOf
  <2>2. QED
    BY <2>1, ContractFinish DEF RC!Next
<1>4. ASSUME NEW t \in Threads, Unlock(t)
      PROVE  RC!Next
  <2>1. pc[t] = "returning" /\ pc[t] \in Critical /\ Return(t, ret[t]) /\ UNCHANGED <<own, published>>
    BY <1>4 DEF Unlock, Critical
  <2>2. \/ ReplyOf(ret[t]) \in {0, own[t]}
        \/ ~EEPBX /\ ReplyOf(ret[t]) \in 1..published /\ ~Given(ReplyOf(ret[t]))
    BY <2>1, RpcAssumption DEF TextInv, TokenInv, HeldInv
  <2>3. QED
    BY <2>1, <2>2, ContractFinish DEF RC!Next
<1>5. ASSUME NEW t \in Threads, Call(t) \/ Works(t)
      PROVE  UNCHANGED RC!vars
  BY <1>1, <1>5, WorksFrame DEF Call
<1>6. ASSUME Environment
      PROVE  UNCHANGED RC!vars
  BY <1>1, <1>6, EnvironmentFrame
<1>7. ASSUME UNCHANGED vars
      PROVE  UNCHANGED RC!vars
  BY <1>1, <1>7 DEF vars
<1>8. QED
  BY <1>2, <1>3, <1>4, <1>5, <1>6, <1>7 DEF Next, Step, Works, Reads

\* rpcCall keeps its contract with any number of callers: one call at a time, a
\* reply handed out once, and to another call only after its own gave up on it.
\* With EEPBX a call is given its own reply or none.
THEOREM KeepsContract == Spec => Contract
<1>1. Spec => RC!Init /\ [][RC!Next]_(RC!vars)
  BY ContractInit, ContractStep, Invariance, PTL DEF Spec
<1>2. QED
  BY <1>1 DEF Contract, RC!Spec
=============================================================================
