------------------------------ MODULE Meetings ------------------------------
(***************************************************************************)
(* A meeting, its answers and the suggestions for another time             *)
(* (meetings.service.ts), with what the departure of a person does to it   *)
(* (departure.service.ts).                                                 *)
(*                                                                         *)
(* A request reads the meeting and then updates it: the organizer's edit   *)
(* and a hand-over write back the whole list of attendees that was read,   *)
(* an answer writes one entry of the list. A date of a series is a meeting *)
(* of its own here, edited or answered one after the other.                *)
(***************************************************************************)
EXTENDS Integers, Sequences, FiniteSets

CONSTANTS
  Invitees,         \* the people of the organization
  Slots,            \* times a meeting can have
  MeetingRequests,  \* requests in flight at once
  MeetingMixes      \* the sets of operations looked at together

VARIABLES
  kinds,     \* the operations of this behaviour
  working,   \* of each person: "here"; "leaving" until the clean-up after the
             \* departure is through, then "away"
  meeting,   \* the document
  answered,  \* the time each person's answer was given for (history)
  mtreq,     \* what each request is doing
  passed     \* a request wrote over what it had not seen, or for somebody
             \* who had left meanwhile (history)

meetingVars == <<kinds, working, meeting, answered, mtreq, passed>>

(* "tentative" is one more answer like these.                              *)
Answers == {"accepted", "declined"}
Responses == {"pending"} \cup Answers
NoTime == "none"
NoOne == "none"

(* attendees: "no" for whoever is not invited. proposals: of each person,  *)
(* in their order.                                                         *)
MeetingDocs == [st : {"none", "live", "cancelled"},
                organizer : Invitees \cup {NoOne}, slot : Slots \cup {NoTime},
                attendees : [Invitees -> Responses \cup {"no"}],
                proposals : [Invitees -> Seq(Slots)]]

Available == [st |-> "idle"]
Is(r, st) == mtreq[r].st = st
Turn(r, q) == mtreq' = [mtreq EXCEPT ![r] = q] /\ UNCHANGED kinds
Takes(r, op, q) == op \in kinds /\ mtreq[r] = Available /\ Turn(r, q)

Here == {u \in Invitees : working[u] = "here"}
Attendees(d) == {u \in Invitees : d.attendees[u] # "no"}

(* requireVisible, for somebody of the organization.                       *)
RequireVisible(u) ==
  /\ u \in Here
  /\ meeting.st # "none"
  /\ u \in Attendees(meeting)

(* What a request remembers of the document.                               *)
ReadOf(d) == [attendees |-> d.attendees, slot |-> d.slot]

IsOrganizer(u) == meeting.organizer = u
Open == meeting.st = "live"

(* Nothing but the request's own bookkeeping.                              *)
OnlyReads == UNCHANGED <<working, meeting, answered, passed>>

(* The meeting becomes d; those whose answer it renews.                    *)
Stores(d, renewed) ==
  /\ meeting' = d
  /\ answered' = [u \in Invitees |-> IF d.attendees[u] \notin Answers THEN NoTime
                                    ELSE IF u \in renewed THEN d.slot ELSE answered[u]]
  /\ UNCHANGED working

Crossed(c) == passed' = (passed \/ c)

NoProposals == [u \in Invitees |-> <<>>]

WithoutProposals(d, u) == [d EXCEPT !.proposals[u] = <<>>]

-----------------------------------------------------------------------------
(* createMeeting: requireOrgMembers, then the document.                    *)
CheckNewMeeting(r, u, others) ==
  /\ meeting.st = "none"
  /\ u \in Here
  /\ others \subseteq Here \ {u}
  /\ Takes(r, "create", [st |-> "create", who |-> u, whom |-> others])
  /\ OnlyReads

CreateMeeting(r, slot) ==
  LET q == mtreq[r]
  IN  /\ Is(r, "create")
      /\ meeting.st = "none"
      /\ Stores([st |-> "live", organizer |-> q.who, slot |-> slot,
                 attendees |-> [u \in Invitees |-> IF u = q.who THEN "accepted"
                                                   ELSE IF u \in q.whom THEN "pending"
                                                   ELSE "no"],
                 proposals |-> NoProposals], {q.who})
      /\ Turn(r, Available)
      /\ Crossed(~({q.who} \cup q.whom \subseteq Here))

(* updateMeeting: a time, and who shall attend; acceptProposal comes here  *)
(* with the suggested time and the list as it is.                          *)
FindToUpdate(r, u, slot, wanted, from) ==
  LET added == (wanted \cup {u}) \ Attendees(meeting)
  IN  /\ RequireVisible(u)
      /\ IsOrganizer(u)
      /\ Open
      /\ added \subseteq Here
      /\ Takes(r, "update", [st |-> "update", who |-> u, slot |-> slot, from |-> from,
                   added |-> added,
                   removed |-> Attendees(meeting) \ (wanted \cup {u}),
                   seen |-> ReadOf(meeting)])
      /\ OnlyReads

(* Mutant of Edited: the answers stay although the time is another one.    *)
Edited_KeepAnswers(q) ==
  [u \in Invitees |-> IF u \in q.removed THEN "no"
                      ELSE IF u \in q.added THEN "pending" ELSE q.seen.attendees[u]]

(* Mutant of Edited: everyone is asked again whatever changed.             *)
Edited_AskAlways(q) ==
  [u \in Invitees |-> IF u \in q.removed THEN "no"
                      ELSE IF u \in q.added \/ (q.seen.attendees[u] # "no" /\ u # q.who)
                      THEN "pending" ELSE q.seen.attendees[u]]

(* The list that is written: as it was read, without those removed, with   *)
(* those added; a new time asks everyone but the organizer again.          *)
Edited(q) ==
  [u \in Invitees |-> IF u \in q.removed THEN "no"
                      ELSE IF u \in q.added THEN "pending"
                      ELSE IF q.seen.attendees[u] = "no" \/ u = q.who
                              \/ q.slot = q.seen.slot
                           THEN q.seen.attendees[u]
                      ELSE "pending"]

UpdateMeeting(r) ==
  LET q     == mtreq[r]
      moves == q.slot # q.seen.slot
  IN  /\ Is(r, "update")
      /\ Stores([meeting EXCEPT !.attendees = Edited(q),
                                !.slot = IF moves THEN q.slot ELSE @,
                                !.proposals = IF moves THEN NoProposals ELSE @],
                IF moves THEN {q.who} ELSE {})
      /\ Turn(r, IF q.from = q.who THEN Available ELSE [st |-> "settle", whom |-> q.from])
      /\ Crossed(\/ meeting.attendees # q.seen.attendees
                 \/ meeting.slot # q.seen.slot
                 \/ meeting.organizer # q.who
                 \/ ~(q.added \subseteq Here))

CancelMeeting(u) ==
  /\ "cancel" \in kinds
  /\ RequireVisible(u)
  /\ IsOrganizer(u)
  /\ Open
  /\ Stores([meeting EXCEPT !.st = "cancelled"], {})
  /\ UNCHANGED <<kinds, mtreq, passed>>

(* respondToMeeting                                                        *)
FindToRespond(r, u, answer) ==
  /\ RequireVisible(u)
  /\ ~IsOrganizer(u)
  /\ Open
  /\ Takes(r, "respond", [st |-> "respond", who |-> u, answer |-> answer, slot |-> meeting.slot])
  /\ OnlyReads

RespondToMeeting(r) ==
  LET q == mtreq[r]
  IN  /\ Is(r, "respond")
      /\ IF q.who \in Attendees(meeting)
         THEN /\ meeting' = [meeting EXCEPT !.attendees[q.who] = q.answer]
              /\ answered' = [answered EXCEPT ![q.who] = q.slot]
         ELSE UNCHANGED <<meeting, answered>>
      /\ Turn(r, Available)
      /\ UNCHANGED working
      /\ Crossed(meeting.slot # q.slot)

-----------------------------------------------------------------------------
(* proposeTime: the person's earlier suggestion goes, the new one comes.   *)
FindToPropose(r, u, slot) ==
  /\ RequireVisible(u)
  /\ ~IsOrganizer(u)
  /\ Open
  /\ slot # meeting.slot
  /\ Takes(r, "propose", [st |-> "pull", who |-> u, slot |-> slot])
  /\ OnlyReads

(* Mutant of PullProposal: nothing is pulled.                              *)
PullProposal_None(r) ==
  /\ Is(r, "pull")
  /\ Turn(r, [mtreq[r] EXCEPT !.st = "push"])
  /\ OnlyReads

PullProposal(r) ==
  /\ Is(r, "pull")
  /\ Stores(WithoutProposals(meeting, mtreq[r].who), {})
  /\ Turn(r, [mtreq[r] EXCEPT !.st = "push"])
  /\ UNCHANGED passed

(* Mutant of PushProposal: a suggestion without its time.                  *)
PushProposal_NoSlot(r) ==
  LET q == mtreq[r]
  IN  /\ Is(r, "push")
      /\ Stores([meeting EXCEPT !.proposals[q.who] = Append(@, NoTime)], {})
      /\ Turn(r, Available)
      /\ Crossed(\E o \in MeetingRequests \ {r} : Is(o, "push") /\ mtreq[o].who = q.who)

PushProposal(r) ==
  LET q == mtreq[r]
  IN  /\ Is(r, "push")
      /\ Stores([meeting EXCEPT !.proposals[q.who] = Append(@, q.slot)], {})
      /\ Turn(r, Available)
      /\ Crossed(\E o \in MeetingRequests \ {r} : Is(o, "push") /\ mtreq[o].who = q.who)

(* acceptProposal: the first suggestion of that person.                    *)
AcceptProposal(r, u, v) ==
  /\ RequireVisible(u)
  /\ IsOrganizer(u)
  /\ meeting.proposals[v] # <<>>
  /\ FindToUpdate(r, u, Head(meeting.proposals[v]), Attendees(meeting), v)

SettleProposal(r) ==
  /\ Is(r, "settle")
  /\ Stores(WithoutProposals(meeting, mtreq[r].whom), {})
  /\ Turn(r, Available)
  /\ UNCHANGED passed

DismissProposal(u, v) ==
  /\ "propose" \in kinds
  /\ RequireVisible(u)
  /\ IsOrganizer(u) \/ v = u
  /\ Stores(WithoutProposals(meeting, v), {})
  /\ UNCHANGED <<kinds, mtreq, passed>>

-----------------------------------------------------------------------------
(* removeMember: whoever takes over must be a member (validateMeetingChoice) *)
(* when this is looked at; heir = u stands for cancelling.                 *)
ChooseHeir(r, u, heir) ==
  /\ u \in Here
  /\ Here # {u}
  /\ heir \in Here
  /\ Takes(r, "depart", [st |-> "depart", whom |-> u, heir |-> heir])
  /\ OnlyReads

Depart(r) ==
  LET u == mtreq[r].whom
  IN  /\ Is(r, "depart")
      /\ u \in Here
      /\ Here # {u}
      /\ working' = [working EXCEPT ![u] = "leaving"]
      /\ Turn(r, [mtreq[r] EXCEPT !.st = "uninvite"])
      /\ UNCHANGED <<meeting, answered, passed>>

(* Mutant of Uninvite: suggestions only.                                   *)
Uninvite_Stays(r) ==
  /\ Is(r, "uninvite")
  /\ Stores(WithoutProposals(meeting, mtreq[r].whom), {})
  /\ Turn(r, [mtreq[r] EXCEPT !.st = "organized"])
  /\ UNCHANGED passed

(* Meetings the person was only invited to.                                *)
Uninvite(r) ==
  LET u == mtreq[r].whom
  IN  /\ Is(r, "uninvite")
      /\ IF Open /\ ~IsOrganizer(u)
         THEN Stores([WithoutProposals(meeting, u) EXCEPT !.attendees[u] = "no"], {})
         ELSE UNCHANGED <<working, meeting, answered>>
      /\ Turn(r, [mtreq[r] EXCEPT !.st = "organized"])
      /\ UNCHANGED passed

FindOrganized(r) ==
  LET q == mtreq[r]
  IN  /\ Is(r, "organized")
      /\ Turn(r, IF Open /\ IsOrganizer(q.whom)
                 THEN [st |-> IF q.heir = q.whom THEN "cancel" ELSE "handover",
                       whom |-> q.whom, heir |-> q.heir, seen |-> ReadOf(meeting)]
                 ELSE [st |-> "tidied", whom |-> q.whom])
      /\ OnlyReads

(* Mutant of HandOver: the heir is not put on the list.                    *)
HandOver_NotInvited(r) ==
  LET q == mtreq[r]
  IN  /\ Is(r, "handover")
      /\ Stores([meeting EXCEPT !.organizer = q.heir,
                                !.attendees = [q.seen.attendees EXCEPT ![q.whom] = "no"],
                                !.proposals = NoProposals], {})
      /\ Turn(r, [st |-> "tidied", whom |-> q.whom])
      /\ Crossed(meeting.attendees # q.seen.attendees \/ q.heir \notin Here)

(* "either handed to someone or cancelled, so nothing is left with no      *)
(* owner"                                                                  *)
HandOver(r) ==
  LET q    == mtreq[r]
      list == [q.seen.attendees EXCEPT ![q.whom] = "no"]
      new  == q.heir \notin Attendees(q.seen)
  IN  /\ Is(r, "handover")
      /\ Stores([meeting EXCEPT !.organizer = q.heir,
                                !.attendees = IF new THEN [list EXCEPT ![q.heir] = "accepted"]
                                              ELSE list,
                                !.proposals = NoProposals],
                IF new THEN {q.heir} ELSE {})
      /\ Turn(r, [st |-> "tidied", whom |-> q.whom])
      /\ Crossed(meeting.attendees # q.seen.attendees \/ q.heir \notin Here)

CancelOrganized(r) ==
  /\ Is(r, "cancel")
  /\ Stores([meeting EXCEPT !.st = "cancelled"], {})
  /\ Turn(r, [st |-> "tidied", whom |-> mtreq[r].whom])
  /\ UNCHANGED passed

MeetingsTidied(r) ==
  LET u == mtreq[r].whom
  IN  /\ Is(r, "tidied")
      /\ working' = [working EXCEPT ![u] = "away"]
      /\ Turn(r, Available)
      /\ UNCHANGED <<meeting, answered, passed>>

(* A refusal, a failed call or the end of the server: what was done stays. *)
MeetingRequestEnds(r) ==
  /\ mtreq[r] # Available
  /\ Turn(r, Available)
  /\ OnlyReads

-----------------------------------------------------------------------------
MeetingsInit ==
  /\ kinds \in MeetingMixes
  /\ working = [u \in Invitees |-> "here"]
  /\ meeting = [st |-> "none", organizer |-> NoOne, slot |-> NoTime,
                attendees |-> [v \in Invitees |-> "no"], proposals |-> NoProposals]
  /\ answered = [u \in Invitees |-> NoTime]
  /\ mtreq = [r \in MeetingRequests |-> Available]
  /\ passed = FALSE

Attending(r, u) ==
  \/ \E others \in SUBSET Invitees : CheckNewMeeting(r, u, others)
  \/ \E answer \in Answers : FindToRespond(r, u, answer)
  \/ \E slot \in Slots : FindToPropose(r, u, slot)
  \/ \E slot \in Slots, wanted \in SUBSET Invitees : FindToUpdate(r, u, slot, wanted, u)
  \/ \E v \in Invitees : AcceptProposal(r, u, v)
  \/ \E heir \in Invitees : ChooseHeir(r, u, heir)

MeetingStep ==
  \/ \E r \in MeetingRequests :
       \/ \E u \in Invitees : Attending(r, u)
       \/ \E slot \in Slots : CreateMeeting(r, slot)
       \/ UpdateMeeting(r)
       \/ RespondToMeeting(r)
       \/ PullProposal(r)
       \/ PushProposal(r)
       \/ SettleProposal(r)
       \/ Depart(r)
       \/ Uninvite(r)
       \/ FindOrganized(r)
       \/ HandOver(r)
       \/ CancelOrganized(r)
       \/ MeetingsTidied(r)
       \/ MeetingRequestEnds(r)
  \/ \E u \in Invitees :
       \/ CancelMeeting(u)
       \/ \E v \in Invitees : DismissProposal(u, v)

(* Once a request has written over another nothing is claimed, and nothing *)
(* more is looked at.                                                      *)
MeetingsNext == ~passed /\ MeetingStep

MeetingsSpec == MeetingsInit /\ [][MeetingsNext]_meetingVars

-----------------------------------------------------------------------------
(* The document has its type, answers have a time.                         *)
MeetingsTypeOK ==
  /\ meeting \in MeetingDocs
  /\ answered \in [Invitees -> Slots \cup {NoTime}]
  /\ working \in [Invitees -> {"here", "leaving", "away"}]

(* The organizer can see the meeting, through edits and hand-overs.        *)
OrganizerAttends ==
  ~passed /\ meeting.st # "none" => meeting.organizer \in Attendees(meeting)

(* "A new time means everyone has to answer again": an answer on record    *)
(* was given for the time the meeting has (updateMeeting, acceptProposal). *)
AnswersForThisTime ==
  ~passed /\ Open =>
    \A u \in Invitees :
      meeting.attendees[u] \in Answers => answered[u] = meeting.slot

(* An answer stays what it was until that person answers again or leaves,  *)
(* or the organizer moves the meeting or takes the person off the list.    *)
AnswerKept ==
  ~passed' => \A u \in Invitees :
    /\ meeting.attendees[u] \in Answers
    /\ meeting'.attendees[u] # meeting.attendees[u]
    => \E r \in MeetingRequests :
         \/ Is(r, "respond") /\ mtreq[r].who = u
         \/ mtreq[r].st \in {"uninvite", "handover"} /\ mtreq[r].whom = u
         \/ Is(r, "update") /\ (u \in mtreq[r].removed \/ meeting'.slot # meeting.slot)

AnswerStays == [][AnswerKept]_meetingVars

(* "so nothing is left with no owner": once the clean-up is through no     *)
(* meeting to come is organized by the person who left, nor is that person *)
(* expected at one.                                                        *)
NothingWithoutOwner ==
  ~passed /\ Open =>
    \A u \in Invitees : working[u] = "away" =>
      meeting.organizer # u /\ u \notin Attendees(meeting)

(* A person has one suggestion at a time, unless two requests of that      *)
(* person overlap.                                                         *)
OneProposalEach ==
  ~passed => \A u \in Invitees : Len(meeting.proposals[u]) <= 1

(* A meeting has an organizer who attends, answers that belong to its time,*)
(* one suggestion from each person, and nothing of whoever has left.       *)
MeetingsInOrder ==
  /\ OrganizerAttends
  /\ AnswersForThisTime
  /\ NothingWithoutOwner
  /\ OneProposalEach

=============================================================================
