---------------------------- MODULE RpcContract ----------------------------
(***************************************************************************)
(* What the panel may rely on when it calls MessageClient::rpcCall: calls  *)
(* are answered one at a time, each returns once, and the text returned is *)
(* "" or the reply to some call.  With OwnOnly the reply is the caller's   *)
(* own (the EEPBX build, which tags requests and replies); without it the  *)
(* reply may also be one that an earlier call has given up on, but never   *)
(* one that was already handed out and never one of a later call.          *)
(***************************************************************************)
EXTENDS Integers

CONSTANT OwnOnly    \* whether a call may only return its own reply

VARIABLES
    begun,     \* how many calls have begun; they are numbered from 1
    open,      \* the call in progress, 0 when there is none
    returned   \* what the finished calls returned: [call, of] with of = 0 for ""

vars == <<begun, open, returned>>

Answered(c) == \E r \in returned : r.of = c

\* Calls that returned without their own reply, and whose reply nobody was given.
GivenUp == {c \in 1..begun : /\ \E r \in returned : r.call = c
                             /\ ~Answered(c)}

Init == begun = 0 /\ open = 0 /\ returned = {}

Begin ==
    /\ open = 0
    /\ begun' = begun + 1
    /\ open' = begun + 1
    /\ UNCHANGED returned

Finish ==
    /\ open # 0
    /\ \E of \in {0, open} \cup (IF OwnOnly THEN {} ELSE GivenUp) :
          returned' = returned \cup {[call |-> open, of |-> of]}
    /\ open' = 0
    /\ UNCHANGED begun

Next == Begin \/ Finish

Spec == Init /\ [][Next]_vars
=============================================================================
