----------------------------- MODULE CallEndings -----------------------------
(***************************************************************************)
(* How a call to the server ends for whoever makes it: what RpcContract    *)
(* promises, seen from one caller.  The whole panel has one connection for *)
(* its calls, so that in the default build any call may be given a reply   *)
(* that another one, of whatever part of the panel, has given up on.  Each *)
(* part says what such a reply can make of its own call, and bounds the    *)
(* number of its calls that do not get their own reply.                    *)
(***************************************************************************)
CONSTANT EEPBX      \* whether this is the build that tags requests and replies

ASSUME EEPBXAssumption == EEPBX \in BOOLEAN

\* Its own reply; nothing, after the timeout or a lost connection; an abandoned reply.
Endings == {"own", "none"} \cup (IF EEPBX THEN {} ELSE {"stray"})
=============================================================================
