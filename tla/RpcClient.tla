----------------------------- MODULE RpcClient -----------------------------
(***************************************************************************)
(* MessageClient::RPCClient::rpcCall (message_queue/MessageClient.cpp):    *)
(* the GUI thread and the event-monitor thread call the PBX adapter        *)
(* through one AMQP connection and one reply queue, one call at a time     *)
(* under the global mutex RpcLock.                                         *)
(*                                                                         *)
(* A call publishes a request, waits for the socket with select(), then    *)
(* takes a method frame, a header frame and the body frames of one         *)
(* delivery from the AMQP library.  The library reads the socket in        *)
(* chunks: frames are in the kernel, then in the library's buffer, then    *)
(* decoded one at a time.  A call that meets an error or the timeout       *)
(* returns "" and leaves what was sent to it on the connection.            *)
(*                                                                         *)
(* Requests are numbered in the order they are published; a reply carries  *)
(* the number of the request it answers.  The adapter answers a request at *)
(* most once, in any order, or never.                                      *)
(***************************************************************************)
EXTENDS Integers, Sequences, FiniteSets

CONSTANTS
    Threads,   \* the threads that call: the GUI thread, the monitor thread
    Nobody,    \* the holder of an unlocked mutex
    MaxCalls,  \* bound: how many calls are made in all
    MaxFrags,  \* bound: into how many body frames a reply is cut
    EEPBX      \* the build variant that tags requests with rpcID

ASSUME RpcAssumption ==
    /\ Nobody \notin Threads
    /\ MaxCalls \in Nat
    /\ MaxFrags \in Nat
    /\ EEPBX \in BOOLEAN

VARIABLES
    lock,      \* the holder of RpcLock, or Nobody
    pc,        \* where each thread is in rpcCall
    own,       \* the number of the request of each thread's latest call
    ret,       \* the text a call has put together: a sequence of fragments
    left,      \* body_target - body_received, in frames
    published, \* how many requests have been numbered
    requests,  \* requests the adapter has not answered
    inbox,     \* deliveries on the connection, not wholly decoded, oldest first
    at,        \* how many frames of Head(inbox) have been decoded
    unsent,    \* frames of the last delivery that have not reached this host
    kernel,    \* frames that have arrived and wait in the socket
    buffer,    \* frames the AMQP library has read and not yet decoded
    link,      \* the connection: up, closed by the peer, or silently cut
    returned   \* what the finished calls returned (history)

net == <<requests, inbox, at, unsent, kernel, buffer, link>>
vars == <<lock, pc, own, ret, left, published, requests, inbox, at, unsent,
          kernel, buffer, link, returned>>

Reading == {"method", "header", "body"}
Critical == {"publishing", "selecting", "returning"} \cup Reading
Places == {"idle", "locking"} \cup Critical

\* A delivery is a method frame, and if that is basic.deliver a header frame and size body frames.
Delivery == [of : Nat, kind : {"deliver", "other"}, size : Nat]
FramesOf(m) == IF m.kind = "deliver" THEN 2 + m.size ELSE 1

Fragment == [of : Nat, part : Nat]
ReplyOf(text) == IF text = <<>> THEN 0 ELSE text[1].of

TypeOK ==
    /\ lock \in Threads \cup {Nobody}
    /\ pc \in [Threads -> Places]
    /\ own \in [Threads -> Nat]
    /\ ret \in [Threads -> Seq(Fragment)]
    /\ left \in [Threads -> Nat]
    /\ published \in Nat
    /\ requests \subseteq Nat
    /\ inbox \in Seq(Delivery)
    /\ at \in Nat
    /\ unsent \in Nat
    /\ kernel \in Nat
    /\ buffer \in Nat
    /\ link \in {"up", "closed", "silent"}
    /\ returned \subseteq [call : Nat, of : Nat]

Init ==
    /\ lock = Nobody
    /\ pc = [t \in Threads |-> "idle"]
    /\ own = [t \in Threads |-> 0]
    /\ ret = [t \in Threads |-> <<>>]
    /\ left = [t \in Threads |-> 0]
    /\ published = 0
    /\ requests = {}
    /\ inbox = <<>>
    /\ at = 0
    /\ unsent = 0
    /\ kernel = 0
    /\ buffer = 0
    /\ link = "up"
    /\ returned = {}

-----------------------------------------------------------------------------
(* The steps of rpcCall.                                                   *)

Goto(t, place) == pc' = [pc EXCEPT ![t] = place]

Return(t, text) ==
    /\ lock' = Nobody
    /\ Goto(t, "idle")
    /\ returned' = returned \cup {[call |-> own[t], of |-> ReplyOf(text)]}

\* A caller enters rpcCall.
Call(t) ==
    /\ pc[t] = "idle"
    /\ published + Cardinality({u \in Threads : pc[u] = "locking"}) < MaxCalls
    /\ Goto(t, "locking")
    /\ UNCHANGED <<lock, own, ret, left, published, net, returned>>

\* Bug: the mutex is not taken.
AcquireUnlocked(t) ==
    /\ pc[t] = "locking"
    /\ lock' = t
    /\ published' = published + 1
    /\ own' = [own EXCEPT ![t] = published + 1]
    /\ Goto(t, "publishing")
    /\ UNCHANGED <<ret, left, net, returned>>

Acquire(t) ==
    /\ pc[t] = "locking"
    /\ lock = Nobody
    /\ lock' = t
    /\ published' = published + 1
    /\ own' = [own EXCEPT ![t] = published + 1]
    /\ Goto(t, "publishing")
    /\ UNCHANGED <<ret, left, net, returned>>

\* Bug: the mutex guards the publishing only.
PublishAndUnlock(t) ==
    /\ pc[t] = "publishing"
    /\ requests' = requests \cup {own[t]}
    /\ ret' = [ret EXCEPT ![t] = <<>>]
    /\ lock' = Nobody
    /\ Goto(t, "selecting")
    /\ UNCHANGED <<own, left, published, inbox, at, unsent, kernel, buffer, link, returned>>

\* The request reaches the adapter only over a connection that works.
Publish(t) ==
    /\ pc[t] = "publishing"
    /\ requests' = IF link = "up" THEN requests \cup {own[t]} ELSE requests
    /\ ret' = [ret EXCEPT ![t] = <<>>]
    /\ Goto(t, "selecting")
    /\ UNCHANGED <<lock, own, left, published, inbox, at, unsent, kernel, buffer,
                   link, returned>>

\* Bug: the early return does not unlock.
PublishFailsLocked(t) ==
    /\ pc[t] = "publishing"
    /\ link = "closed"
    /\ Goto(t, "idle")
    /\ returned' = returned \cup {[call |-> own[t], of |-> 0]}
    /\ UNCHANGED <<lock, own, ret, left, published, net>>

PublishFails(t) ==
    /\ pc[t] = "publishing"
    /\ link = "closed"
    /\ Return(t, <<>>)
    /\ UNCHANGED <<own, ret, left, published, net>>

\* A socket at end of file is readable too.
Readable == kernel > 0 \/ link = "closed"

SelectReady(t) ==
    /\ pc[t] = "selecting"
    /\ Readable
    /\ Goto(t, "method")
    /\ UNCHANGED <<lock, own, ret, left, published, net, returned>>

\* Bug: the EEPBX build makes one attempt, like the default build.
EndOfAttemptOnce(t, text) ==
    /\ ret' = [ret EXCEPT ![t] = text]
    /\ Goto(t, "returning")

\* The attempt to read a reply is over with this text.  The EEPBX build reads
\* on until the text starts with its own rpcID.
EndOfAttempt(t, text) ==
    LET again == EEPBX /\ ReplyOf(text) # own[t]
    IN  /\ ret' = [ret EXCEPT ![t] = IF again THEN <<>> ELSE text]
        /\ Goto(t, IF again THEN "selecting" ELSE "returning")

SelectTimeout(t) ==
    /\ pc[t] = "selecting"
    /\ ~Readable
    /\ EndOfAttempt(t, <<>>)
    /\ UNCHANGED <<lock, own, left, published, net, returned>>

\* amqp_simple_wait_frame: decode a frame from the buffer, reading the socket
\* when the buffer is empty and then taking all that has arrived.  It blocks
\* while there is nothing to read.
WaitFrame ==
    /\ inbox # <<>>
    /\ \/ buffer > 0 /\ buffer' = buffer - 1 /\ UNCHANGED kernel
       \/ /\ buffer = 0
          /\ kernel > 0
          /\ kernel' = 0
          /\ buffer' = kernel - 1
    /\ IF at + 1 = FramesOf(Head(inbox))
       THEN inbox' = Tail(inbox) /\ at' = 0
       ELSE at' = at + 1 /\ UNCHANGED inbox
    /\ UNCHANGED <<requests, unsent, link>>

WaitFrameFails == buffer = 0 /\ kernel = 0 /\ link = "closed"

NextFrame == IF at = 0 THEN Head(inbox).kind ELSE IF at = 1 THEN "header" ELSE "body"

ReadMethod(t) ==
    /\ pc[t] = "method"
    /\ WaitFrame
    /\ IF NextFrame = "deliver"
       THEN Goto(t, "header") /\ UNCHANGED ret
       ELSE EndOfAttempt(t, <<>>)
    /\ UNCHANGED <<lock, own, left, published, returned>>

ReadHeader(t) ==
    /\ pc[t] = "header"
    /\ WaitFrame
    /\ IF NextFrame # "header"
       THEN EndOfAttempt(t, <<>>) /\ UNCHANGED left
       ELSE /\ left' = [left EXCEPT ![t] = Head(inbox).size]
            /\ IF Head(inbox).size = 0
               THEN EndOfAttempt(t, <<>>)
               ELSE Goto(t, "body") /\ UNCHANGED ret
    /\ UNCHANGED <<lock, own, published, returned>>

\* Bug: the loop runs one frame too far and does not look at the frame's type.
ReadBodyTooFar(t) ==
    /\ pc[t] = "body"
    /\ WaitFrame
    /\ LET text == Append(ret[t], [of |-> Head(inbox).of, part |-> at - 1])
       IN  IF left[t] = 0
           THEN EndOfAttempt(t, text)
           ELSE ret' = [ret EXCEPT ![t] = text] /\ UNCHANGED pc
    /\ left' = [left EXCEPT ![t] = @ - 1]
    /\ UNCHANGED <<lock, own, published, returned>>

ReadBody(t) ==
    /\ pc[t] = "body"
    /\ WaitFrame
    /\ IF NextFrame # "body"
       THEN EndOfAttempt(t, <<>>) /\ UNCHANGED left
       ELSE LET text == Append(ret[t], [of |-> Head(inbox).of, part |-> at - 1])
            IN  /\ left' = [left EXCEPT ![t] = @ - 1]
                /\ IF left[t] = 1
                   THEN EndOfAttempt(t, text)
                   ELSE ret' = [ret EXCEPT ![t] = text] /\ UNCHANGED pc
    /\ UNCHANGED <<lock, own, published, returned>>

\* Bug: what came of the body is returned.
ReadFailsKeepsText(t) ==
    /\ pc[t] \in Reading
    /\ WaitFrameFails
    /\ EndOfAttempt(t, ret[t])
    /\ UNCHANGED <<lock, own, left, published, net, returned>>

\* The connection has ended: in the middle of a body the text is discarded.
ReadFails(t) ==
    /\ pc[t] \in Reading
    /\ WaitFrameFails
    /\ EndOfAttempt(t, <<>>)
    /\ UNCHANGED <<lock, own, left, published, net, returned>>

Unlock(t) ==
    /\ pc[t] = "returning"
    /\ Return(t, ret[t])
    /\ UNCHANGED <<own, ret, left, published, net>>

-----------------------------------------------------------------------------
(* The adapter, the broker and the network.                                *)

Send(m) ==
    /\ link = "up"
    /\ unsent = 0
    /\ inbox' = Append(inbox, m)
    /\ unsent' = FramesOf(m)
    /\ UNCHANGED <<lock, pc, own, ret, left, published, at, kernel, buffer, link, returned>>

\* The adapter answers a request.
Answer(c, size) ==
    /\ c \in requests
    /\ requests' = requests \ {c}
    /\ Send([of |-> c, kind |-> "deliver", size |-> size])

\* The broker sends a method that is no delivery, such as channel.close.
Notify ==
    /\ published > 0
    /\ \A i \in DOMAIN inbox : inbox[i].kind # "other"
    /\ Send([of |-> 0, kind |-> "other", size |-> 0])
    /\ UNCHANGED requests

Arrive ==
    /\ link = "up"
    /\ \E k \in 1..unsent : unsent' = unsent - k /\ kernel' = kernel + k
    /\ UNCHANGED <<lock, pc, own, ret, left, published, requests, inbox, at, buffer,
                   link, returned>>

LoseLink ==
    /\ link = "up"
    /\ link' \in {"closed", "silent"}
    /\ UNCHANGED <<lock, pc, own, ret, left, published, requests, inbox, at, unsent,
                   kernel, buffer, returned>>

-----------------------------------------------------------------------------

Step(t) ==
    \/ Acquire(t)
    \/ Publish(t)
    \/ PublishFails(t)
    \/ SelectReady(t)
    \/ SelectTimeout(t)
    \/ ReadMethod(t)
    \/ ReadHeader(t)
    \/ ReadBody(t)
    \/ ReadFails(t)
    \/ Unlock(t)

Environment ==
    \/ \E c \in requests, size \in 0..MaxFrags : Answer(c, size)
    \/ Notify
    \/ Arrive
    \/ LoseLink

Next == (\E t \in Threads : Call(t) \/ Step(t)) \/ Environment

Spec == Init /\ [][Next]_vars

\* A thread inside rpcCall keeps running, and the frames of a delivery under way
\* arrive while the connection is up.  Nothing makes the adapter answer.
FairSpec ==
    /\ Spec
    /\ \A t \in Threads : WF_vars(Step(t))
    /\ WF_vars(Arrive)

-----------------------------------------------------------------------------
(* Properties.                                                             *)

\* The decoder and the caller agree on where they are in a delivery, and between
\* two calls the connection stands at the start of a delivery: a call that gives
\* up never leaves half a delivery for the next one to misread (the exits at
\* lines 166-200 and 212-236).  Only an ended connection can be left elsewhere.
StreamInStep ==
    LET ended == link = "closed" /\ buffer = 0 /\ kernel = 0
        inside == \E t \in Threads : pc[t] \in {"header", "body"}
    IN  /\ at = 0 \/ ended \/ inside
        /\ \A t \in Threads :
              /\ pc[t] = "method" => at = 0 \/ ended
              /\ pc[t] = "header" => at = 1
              /\ pc[t] = "body" => /\ left[t] > 0
                                  /\ at + left[t] = FramesOf(Head(inbox))

\* A text about to be returned is empty or is every fragment of one reply, in
\* order: never a part of a reply, never pieces of two (lines 209-236).
WholeReply ==
    \A t \in Threads : pc[t] = "returning" /\ ret[t] # <<>> =>
        /\ left[t] = 0
        /\ \A i \in DOMAIN ret[t] : ret[t][i] = [of |-> ReplyOf(ret[t]), part |-> i]

\* rpcCall implements RpcContract: calls are answered one at a time; a reply is
\* handed out once, and to another call only after its own call gave up on it.
\* In the EEPBX build a call returns its own reply or "".
RC == INSTANCE RpcContract WITH
        begun <- published,
        open <- IF lock = Nobody THEN 0 ELSE own[lock],
        OwnOnly <- EEPBX
Contract == RC!Spec

\* A read of a delivery whose remaining frames will never come has no timeout
\* (only the select of line 165 has): the thread stays in amqp_simple_wait_frame.
Starved == link = "silent" /\ buffer = 0 /\ kernel = 0 /\ at > 0

\* Every exit of rpcCall unlocks RpcLock, and no exit waits for the adapter: a
\* thread that holds the lock releases it, unless it starves inside a delivery.
LockReleased == \A t \in Threads : (lock = t) ~> (lock # t \/ Starved)

\* The text a call returns is the reply to its own request.
OwnReply == \A r \in returned : r.of \in {0, r.call}
=============================================================================
