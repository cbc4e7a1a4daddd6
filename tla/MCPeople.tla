------------------------------ MODULE MCPeople ------------------------------
(* Who leaves groups and meetings behind, for TLC: a small group chat and  *)
(* a small meeting, looked at one after the other.                         *)
EXTENDS Groups, Meetings, TLC

CONSTANTS u1, u2, u3, r1, r2, s1, s2

(* Operations on the meeting that are looked at together.                  *)
MixesOfMeetings ==
  {{}, {"create", "update", "respond", "cancel"}, {"create", "update", "propose"},
   {"create", "depart", "update"}, {"create", "depart", "respond"},
   {"create", "depart", "propose"}}

(* People, requests and times are alike.                                   *)
Symmetry ==
  Permutations({u1, u2, u3}) \cup Permutations({r1, r2}) \cup Permutations({s1, s2})

PeopleInit ==
  /\ GroupsInit
  /\ MeetingsInit

PeopleNext ==
  \/ kinds = {} /\ GroupsNext /\ UNCHANGED meetingVars
  \/ MeetingsNext /\ UNCHANGED groupVars

PeopleSpec == PeopleInit /\ [][PeopleNext]_<<groupVars, meetingVars>>

(* Documents have their types.                                             *)
PeopleTypeOK == GroupsTypeOK /\ MeetingsTypeOK

=============================================================================
