------------------------------- MODULE MeetMe -------------------------------
(***************************************************************************)
(* Conference control (ui/meetme/MeetMeWidget.cpp, and the meetme calls of *)
(* RPCCommand.cpp).  The monitor thread turns events of conferences into   *)
(* signals.  On one of those the GUI thread asks the adapter for the rooms *)
(* and, when the room on show has changed, throws its members away and     *)
(* asks for them; an event that mutes a member meanwhile finds no button.  *)
(***************************************************************************)
EXTENDS Integers, FiniteSets, SequencesExt, CallEndings

CONSTANTS
    Rooms,          \* the conference rooms
    Users,          \* the user numbers within a room
    MaxMeetEvents,  \* bound: changes of conferences
    MaxLostReplies  \* bound: calls that do not get their own reply

ASSUME MeetAssumption == MaxMeetEvents \in Nat /\ MaxLostReplies \in Nat

VARIABLES
    conferences,  \* who is in which room, and whether muted: "out", "open" or "muted"
    meetEvents,   \* events of the adapter that the monitor thread has not handled
    meetPosted,   \* signals posted to the GUI thread
    roomBtns,     \* the rooms on show
    mCurrentRoom, \* the room whose members are shown, or "none"
    mMemberBtns,  \* the members on show: user -> whether shown as muted
    reload,       \* "idle", or where a reload of the members is: "asking" or "answered"
    answer,       \* the answered members
    happened,     \* changes so far (bounded)
    lostReplies,  \* calls without their own reply so far (bounded)
    roomsLost,    \* whether the last question for the rooms got no reply of its own (history)
    membersLost,  \* likewise the one for the members (history)
    muteLost      \* members whose muting found no button (history)

meetHistory == <<roomsLost, membersLost, muteLost>>
meetVars == <<conferences, meetEvents, meetPosted, roomBtns, mCurrentRoom, mMemberBtns, reload,
              answer, happened, lostReplies, meetHistory>>

NoMembers == [u \in {} |-> FALSE]
In(room) == {u \in Users : conferences[room][u] # "out"}
Members(room) == [u \in In(room) |-> conferences[room][u] = "muted"]
Open == {room \in Rooms : In(room) # {}}

RoomEvent == [kind : {"room"}, room : Rooms]
MuteEvent == [kind : {"mute"}, room : Rooms, user : Users, muted : BOOLEAN]

\* What is left in the event loop of a signal whose receiver has been deleted.
Gone == [kind |-> "gone"]

Buttons == UNION {[users -> BOOLEAN] : users \in SUBSET Users}

MeetTypeOK ==
    /\ conferences \in [Rooms -> [Users -> {"out", "open", "muted"}]]
    /\ \A i \in DOMAIN meetEvents : meetEvents[i] \in RoomEvent \cup MuteEvent
    /\ \A i \in DOMAIN meetPosted : meetPosted[i] \in RoomEvent \cup MuteEvent \cup {Gone}
    /\ roomBtns \subseteq Rooms
    /\ mCurrentRoom \in Rooms \cup {"none"}
    /\ mMemberBtns \in Buttons
    /\ reload \in {"idle", "asking", "answered"}
    /\ answer \in Buttons
    /\ happened \in 0..MaxMeetEvents
    /\ lostReplies \in 0..MaxLostReplies
    /\ roomsLost \in BOOLEAN
    /\ membersLost \in BOOLEAN
    /\ muteLost \subseteq Users

MeetInit ==
    /\ conferences = [room \in Rooms |-> [u \in Users |-> "out"]]
    /\ meetEvents = <<>>
    /\ meetPosted = <<>>
    /\ roomBtns = {}
    /\ mCurrentRoom = "none"
    /\ mMemberBtns = NoMembers
    /\ reload = "idle"
    /\ answer = NoMembers
    /\ happened = 0
    /\ lostReplies = 0
    /\ roomsLost = FALSE
    /\ membersLost = FALSE
    /\ muteLost = {}

-----------------------------------------------------------------------------
(* The adapter.                                                            *)

\* Somebody joins or leaves a conference, or is muted or not: at the wish of anyone, or of
\* this panel (an invitation, or the buttons of a member, which send a command and wait
\* for the event).
Happens(room, u, now) ==
    /\ happened < MaxMeetEvents
    /\ happened' = happened + 1
    /\ conferences[room][u] # now
    /\ conferences' = [conferences EXCEPT ![room][u] = now]
    /\ now = "muted" => conferences[room][u] # "out"
    /\ meetEvents' = Append(meetEvents,
           IF "out" \in {now, conferences[room][u]} THEN [kind |-> "room", room |-> room]
           ELSE [kind |-> "mute", room |-> room, user |-> u, muted |-> now = "muted"])
    /\ UNCHANGED <<meetPosted, roomBtns, mCurrentRoom, mMemberBtns, reload, answer, lostReplies,
                   meetHistory>>

\* A call of this part ends one way or the other.
MeetCallEnds(end) ==
    IF end = "own" THEN UNCHANGED lostReplies
    ELSE lostReplies < MaxLostReplies /\ lostReplies' = lostReplies + 1

-----------------------------------------------------------------------------
(* The monitor thread: eventMessageReceived.                               *)

MonitorTakes ==
    /\ meetEvents # <<>>
    /\ meetEvents' = Tail(meetEvents)
    /\ LET e == Head(meetEvents)
           isMute == e.kind = "mute"
           hasButton == isMute /\ e.room = mCurrentRoom /\ e.user \in DOMAIN mMemberBtns
       IN  /\ meetPosted' = IF ~isMute \/ hasButton THEN Append(meetPosted, e) ELSE meetPosted
           /\ muteLost' = IF isMute /\ e.room = mCurrentRoom /\ ~hasButton
                          THEN muteLost \cup {e.user} ELSE muteLost
    /\ UNCHANGED <<conferences, roomBtns, mCurrentRoom, mMemberBtns, reload, answer, happened,
                   lostReplies, roomsLost, membersLost>>

-----------------------------------------------------------------------------
(* The GUI thread.                                                         *)

\* The rooms in the reply to getMeetmeRooms.  An abandoned one may be an older list.
AnsweredRooms(end) ==
    IF end = "own" THEN {Open} ELSE IF end = "none" THEN {{}} ELSE SUBSET Rooms

\* reloadRoomWidget.
ReloadRooms(end) ==
    /\ MeetCallEnds(end)
    /\ roomBtns' \in AnsweredRooms(end)
    /\ roomsLost' = (end # "own")

\* reloadMembersWidget up to the call of getMeetmeInfo.  What was posted to the buttons
\* goes with them.
ReloadMembers(room, posted) ==
    /\ mCurrentRoom' = room
    /\ mMemberBtns' = NoMembers
    /\ meetPosted' = [i \in DOMAIN posted |-> IF posted[i].kind = "mute" THEN Gone ELSE posted[i]]
    /\ reload' = "asking"

\* Bug: the members are read again when the room on show is another one.
TakeRoomSignalOther(end) ==
    /\ reload = "idle"
    /\ meetPosted # <<>>
    /\ Head(meetPosted).kind = "room"
    /\ ReloadRooms(end)
    /\ IF Head(meetPosted).room # mCurrentRoom
       THEN ReloadMembers(Head(meetPosted).room, Tail(meetPosted))
       ELSE meetPosted' = Tail(meetPosted) /\ UNCHANGED <<mCurrentRoom, mMemberBtns, reload>>
    /\ UNCHANGED <<conferences, meetEvents, answer, happened, membersLost, muteLost>>

\* roomStatusChangeSlot.
TakeRoomSignal(end) ==
    /\ reload = "idle"
    /\ meetPosted # <<>>
    /\ Head(meetPosted).kind = "room"
    /\ ReloadRooms(end)
    /\ IF Head(meetPosted).room = mCurrentRoom
       THEN ReloadMembers(mCurrentRoom, Tail(meetPosted))
       ELSE meetPosted' = Tail(meetPosted) /\ UNCHANGED <<mCurrentRoom, mMemberBtns, reload>>
    /\ UNCHANGED <<conferences, meetEvents, answer, happened, membersLost, muteLost>>

\* Member::muteStatusSlot; nobody takes what was posted to a deleted button.
TakeMuteSignal ==
    /\ reload = "idle"
    /\ meetPosted # <<>>
    /\ Head(meetPosted).kind # "room"
    /\ mMemberBtns' = IF Head(meetPosted) = Gone THEN mMemberBtns
                      ELSE [mMemberBtns EXCEPT ![Head(meetPosted).user] = Head(meetPosted).muted]
    /\ meetPosted' = Tail(meetPosted)
    /\ UNCHANGED <<conferences, meetEvents, roomBtns, mCurrentRoom, reload, answer, happened,
                   lostReplies, meetHistory>>

\* onResume: the members of the first room; without a room, those of the last one stay.
OnResume(end) ==
    /\ reload = "idle"
    /\ ReloadRooms(end)
    /\ IF roomBtns' # {}
       THEN \E room \in roomBtns' : ReloadMembers(room, meetPosted)
       ELSE UNCHANGED <<meetPosted, mCurrentRoom, mMemberBtns, reload>>
    /\ UNCHANGED <<conferences, meetEvents, answer, happened, membersLost, muteLost>>

OnRoomBtnClicked(room) ==
    /\ reload = "idle"
    /\ room \in roomBtns
    /\ ReloadMembers(room, meetPosted)
    /\ UNCHANGED <<conferences, meetEvents, roomBtns, answer, happened, lostReplies, meetHistory>>

\* The members in the reply to getMeetmeInfo: none of a room that is gone.  An abandoned one
\* may be an older list of this room; that of another room has no members for it.
AnsweredMembers(end) ==
    IF end = "own" THEN {Members(mCurrentRoom)} ELSE IF end = "none" THEN {NoMembers} ELSE Buttons

GetMeetmeInfo(end) ==
    /\ reload = "asking"
    /\ MeetCallEnds(end)
    /\ answer' \in AnsweredMembers(end)
    /\ membersLost' = (end # "own")
    /\ muteLost' = {}
    /\ reload' = "answered"
    /\ UNCHANGED <<conferences, meetEvents, meetPosted, roomBtns, mCurrentRoom, mMemberBtns,
                   happened, roomsLost>>

\* A button for each member of the answer.
ShowMembers ==
    /\ reload = "answered"
    /\ mMemberBtns' = answer
    /\ answer' = NoMembers
    /\ reload' = "idle"
    /\ UNCHANGED <<conferences, meetEvents, meetPosted, roomBtns, mCurrentRoom, happened,
                   lostReplies, meetHistory>>

-----------------------------------------------------------------------------

MeetNext ==
    \/ \E room \in Rooms, u \in Users, now \in {"out", "open", "muted"} : Happens(room, u, now)
    \/ MonitorTakes
    \/ \E end \in Endings : TakeRoomSignal(end) \/ OnResume(end) \/ GetMeetmeInfo(end)
    \/ TakeMuteSignal
    \/ \E room \in Rooms : OnRoomBtnClicked(room)
    \/ ShowMembers

MeetSpec == MeetInit /\ [][MeetNext]_meetVars

-----------------------------------------------------------------------------
(* Properties.                                                             *)

\* Once the events are handled, the members on show are those of the room on show, with
\* who is muted, and an event that comes between the question and the buttons makes for
\* another reload (MeetMeWidget.cpp:18-50, 129-167): unless the last question for them was
\* not answered by its own reply.  Whether a member is shown as muted is left open for one
\* who was muted, or not any more, while there was no button to tell (line 38).
MembersFollow ==
    meetEvents = <<>> /\ Range(meetPosted) \subseteq {Gone} /\ reload = "idle"
        /\ mCurrentRoom # "none" /\ ~membersLost =>
            /\ DOMAIN mMemberBtns = In(mCurrentRoom)
            /\ \A u \in In(mCurrentRoom) \ muteLost :
                   mMemberBtns[u] = Members(mCurrentRoom)[u]
=============================================================================
