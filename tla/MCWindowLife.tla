---------------------------- MODULE MCWindowLife ----------------------------
(* Supervision, CallQueue and MeetMe for TLC.  They share no state, so one *)
(* part is exercised in a behaviour and the others rest in their initial   *)
(* states.                                                                 *)
EXTENDS Supervision, CallQueue, MeetMe

VARIABLE part   \* the part exercised

MCVersion == 41

\* No database yet, one too old to be upgraded, an old one, and the one that is shipped.
MCInitialDbs ==
    {[system |-> FALSE, version |-> 0, templates |-> "none"],
     [system |-> TRUE, version |-> 29, templates |-> "old"],
     [system |-> TRUE, version |-> 35, templates |-> "old"],
     [system |-> TRUE, version |-> 41, templates |-> "new"]}

lifeVars == <<part, supVars, queueVars, meetVars>>

LifeInit ==
    /\ part \in {"processes", "queue", "conferences"}
    /\ SupInit /\ QueueInit /\ MeetInit
    /\ part # "processes" => db.version = MCVersion

LifeNext ==
    \/ part = "processes" /\ SupNext /\ UNCHANGED <<part, queueVars, meetVars>>
    \/ part = "queue" /\ QueueNext /\ UNCHANGED <<part, supVars, meetVars>>
    \/ part = "conferences" /\ MeetNext /\ UNCHANGED <<part, supVars, queueVars>>

LifeSpec == LifeInit /\ [][LifeNext]_lifeVars
FairLifeSpec == LifeSpec /\ SupFairness

\* The types of the parts.
LifeTypeOK == SupTypeOK /\ QueueTypeOK /\ MeetTypeOK
=============================================================================
