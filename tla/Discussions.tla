----------------------------- MODULE Discussions -----------------------------
(***************************************************************************)
(* Conversations on a task, in a project or across all projects            *)
(* (taskActivity.service.ts, audience.ts): who may post and reply, who is  *)
(* told, who is asked, which reply is the answer and who is reminded.      *)
(*                                                                         *)
(* A request reads the place, the thread, the memberships and the mutes,   *)
(* and then writes the message together with its notifications in one      *)
(* transaction. The reads of a request are one step here; whatever happens *)
(* between them and the transaction is not looked at again.                *)
(***************************************************************************)
EXTENDS Integers, Sequences, FiniteSets

CONSTANTS
  Speakers,            \* the people of the organization
  DiscussionRequests,  \* requests in flight at once
  Scenes               \* the scenes a behaviour may have, see scene

ASSUME DiscussionsAssumption ==
  Scenes \subseteq [place : STRING, beside : STRING, leads : SUBSET Speakers,
                    creator : Speakers \cup {"nobody"}, muted : SUBSET Speakers,
                    gone : BOOLEAN]

VARIABLES
  scene,   \* where and among whom: the place, what happens beside the
           \* posting, the admins and managers, who created the place, and
           \* who muted it
  here,    \* the people who have a membership
  work,    \* assigneeIds: of the task, or of open tasks in the projects
  former,  \* people with finished tasks only
  posts,   \* the messages, each with the notifications written with it
  hours,   \* how often the hour between two reminders has passed
  dreq     \* what each request is doing

discussionVars == <<scene, here, work, former, posts, hours, dreq>>

Silent == [at |-> "silent"]

Erased == [kind |-> "erased", by |-> {}, to |-> {}, asked |-> {}, shared |-> {},
           all |-> TRUE, root |-> 0, re |-> 0, told |-> {}, chatter |-> {},
           answer |-> 0, nudge |-> "no", nudges |-> 0]

PostIds == 1..Len(posts)
Live(p) == posts[p].kind # "erased"
Lead(u) == u \in scene.leads

(* assertTaskVisible: a task assigned to an admin or manager is hidden     *)
(* from members who are not assigned.                                      *)
CanSee(u) ==
  \/ scene.place # "task"
  \/ Lead(u)
  \/ u \in work
  \/ work \cap scene.leads \cap here = {}

(* creatorIfInvolved.                                                      *)
Creators == {u \in {scene.creator} \cap here : CanSee(u)}

(* The place is there, and the caller may open it.                         *)
InPlace(u) == u \in here /\ ~scene.gone /\ CanSee(u)

Replies(p) == {q \in PostIds : posts[q].root = p}

(* Mutant of RootOf: a reply to a reply starts a thread of its own.        *)
RootOf_Itself(p) == p

RootOf(p) == IF posts[p].root = 0 THEN p ELSE posts[p].root

(* A message for the people mentioned in it only.                          *)
IsDirected(p) == ~posts[p].all /\ posts[p].to # {}

ThreadParticipants(p, replies) ==
  posts[p].by \cup posts[p].to \cup posts[p].asked \cup posts[p].shared
    \cup UNION {posts[q].by \cup posts[q].to : q \in replies}

MentionedHere(u) == \E p \in PostIds : u \in posts[p].to

(* withoutOthersDirectedThreads, for all three lists of messages.          *)
Feed(u) ==
  {p \in PostIds :
     /\ Live(p)
     /\ IsDirected(RootOf(p)) =>
          u \in ThreadParticipants(RootOf(p), Replies(RootOf(p)))}

(* listTaskActivities, listProjectActivities and                           *)
(* listWorkspaceProjectActivities, in a place that may be opened.          *)
ListActivities(u) == {p \in Feed(u) : InPlace(u)}

-----------------------------------------------------------------------------
(* Who is told.                                                            *)

(* getMentionRecipients: nobody, one person who can see the place, its     *)
(* assignees, or for admins and managers all members who can see it.       *)
MentionRecipients(u) ==
  {{}, work} \cup {{v} : v \in {w \in here : CanSee(w)}}
    \cup {{v \in here : ~Lead(v) /\ CanSee(v)} : l \in {u} \cap scene.leads}

To(who) == [who |-> who, general |-> FALSE]
Chatter(who) == [who |-> who, general |-> TRUE]

(* Mutant of Reaches: a mute silences everything.                          *)
Reaches_Unmuted(group, v) == v \in (group.who \cap here) \ scene.muted

(* A group reaches its people who have a membership, and general chatter   *)
(* spares those who muted the place.                                       *)
Reaches(group, v) ==
  v \in group.who \cap here /\ (group.general => v \notin scene.muted)

(* resolveRecipients: everyone gets the message of the first group that    *)
(* reaches them, and the author none.                                      *)
Recipients(groups, author, general) ==
  {v \in Speakers \ author :
     \E i \in DOMAIN groups :
       /\ Reaches(groups[i], v)
       /\ groups[i].general = general
       /\ \A j \in 1..(i - 1) : ~Reaches(groups[j], v)}

(* recordActivity, up to its transaction.                                  *)
Prepare(r, post, groups) ==
  /\ dreq[r] = Silent
  /\ dreq' = [dreq EXCEPT ![r] =
       [at |-> "record",
        post |-> [post EXCEPT !.told = Recipients(groups, post.by, FALSE),
                              !.chatter = Recipients(groups, post.by, TRUE)]]]
  /\ UNCHANGED <<scene, here, work, former, posts, hours>>

-----------------------------------------------------------------------------
(* Who may post. The work that counts is the task's, any in the project,   *)
(* or what is open in the projects.                                        *)
MayPost(u) ==
  /\ InPlace(u)
  /\ \/ Lead(u)
     \/ u \in work
     \/ scene.place = "project" /\ u \in former
     \/ MentionedHere(u)

(* planNewMessage: an update request asks the assignees and whoever is     *)
(* mentioned, any other message tells them; sent to nobody in particular   *)
(* it reaches only those mentioned.                                        *)
Asked(kind, all, mentions) ==
  IF kind # "request" THEN {} ELSE IF all THEN work \cup mentions ELSE mentions

PlanNewMessage(kind, all, mentions) ==
  CASE kind = "request" -> <<To(Asked(kind, all, mentions))>>
    [] kind = "question" /\ all -> <<To(mentions), Chatter(work \cup Creators)>>
    [] OTHER -> <<To(mentions)>>

(* createTaskActivity, createProjectActivity and, for a thread shared by   *)
(* all projects, createWorkspaceProjectActivity. An update is treated as a *)
(* question that nobody answers.                                           *)
CreateActivity(r, u, kind, all, mentions) ==
  LET groups == PlanNewMessage(kind, all, mentions)
      asked  == Asked(kind, all, mentions)
  IN  /\ MayPost(u)
      /\ kind = "request" => Lead(u) /\ asked \ {u} # {}
      /\ Prepare(r, [Erased EXCEPT
           !.kind = kind, !.by = {u}, !.to = mentions \ {u}, !.asked = asked \ {u},
           !.all = all,
           !.shared = IF scene.place # "shared" THEN {}
                      ELSE asked \cup UNION {groups[i].who : i \in DOMAIN groups}],
           groups)

(* Mutant of MayReply: a thread between some people is open to all.        *)
MayReply_Anyone(u, p) == MayPost(u)

(* Who may reply in the thread of p.                                       *)
MayReply(u, p) ==
  \/ u \in ThreadParticipants(p, Replies(p))
  \/ /\ ~IsDirected(p)
     /\ \/ Lead(u)
        \/ u \in work
        \/ scene.place # "task" /\ u \in former
        \/ MentionedHere(u)

(* Everyone else in the thread, unless it is an update request, whose      *)
(* answers are each their own.                                             *)
Others(p) ==
  IF posts[p].kind = "request" THEN {} ELSE ThreadParticipants(p, Replies(p))

(* createReply to the message t (loadThread, threadPlace).                 *)
CreateReply(r, u, t, mentions) ==
  LET p == RootOf(t)
  IN  /\ Live(t) /\ Live(p)
      /\ InPlace(u)
      /\ MayReply(u, p)
      /\ Prepare(r, [Erased EXCEPT
           !.kind = "reply", !.by = {u}, !.to = mentions \ {u}, !.root = p, !.re = t],
           <<To(posts[t].by), To(posts[p].by), To(mentions), Chatter(Others(p))>>)

(* The transaction of recordActivity: the message and its notifications.   *)
RecordActivity(r) ==
  /\ dreq[r].at = "record"
  /\ posts' = Append(posts, dreq[r].post)
  /\ dreq' = [dreq EXCEPT ![r] = Silent]
  /\ UNCHANGED <<scene, here, work, former, hours>>

-----------------------------------------------------------------------------
(* markAnswer: the asker picks a reply, or 0 for none; the question is     *)
(* saved by its id.                                                        *)
FindQuestion(r, u, p, a) ==
  /\ dreq[r] = Silent
  /\ InPlace(u)
  /\ posts[p].kind = "question" /\ posts[p].by = {u}
  /\ a # 0 => posts[a].root = p
  /\ dreq' = [dreq EXCEPT ![r] = [at |-> "answer", post |-> p, reply |-> a]]
  /\ UNCHANGED <<scene, here, work, former, posts, hours>>

MarkAnswer(r) ==
  LET q == dreq[r]
  IN  /\ q.at = "answer"
      /\ Live(q.post)
      /\ posts' = [posts EXCEPT ![q.post].answer = q.reply]
      /\ dreq' = [dreq EXCEPT ![r] = Silent]
      /\ UNCHANGED <<scene, here, work, former, hours>>

(* remindWaiting: who of the people asked has not replied and is still     *)
(* here; then the claim of the hour; then the notifications.               *)
FindWaiting(r, u, p) ==
  LET waiting == posts[p].asked \ UNION {posts[q].by : q \in Replies(p)}
  IN  /\ dreq[r] = Silent
      /\ InPlace(u)
      /\ posts[p].kind = "request" /\ posts[p].by = {u}
      /\ waiting \cap here # {}
      /\ dreq' = [dreq EXCEPT ![r] = [at |-> "claim", post |-> p]]
      /\ UNCHANGED <<scene, here, work, former, posts, hours>>

(* Mutant of ClaimReminder: the hour is not looked at.                     *)
ClaimReminder_Always(r) ==
  LET p == dreq[r].post
  IN  /\ dreq[r].at = "claim"
      /\ Live(p)
      /\ posts' = [posts EXCEPT ![p].nudge = "recent"]
      /\ dreq' = [dreq EXCEPT ![r].at = "notify"]
      /\ UNCHANGED <<scene, here, work, former, hours>>

ClaimReminder(r) ==
  LET p == dreq[r].post
  IN  /\ dreq[r].at = "claim"
      /\ Live(p)
      /\ posts[p].nudge # "recent"
      /\ posts' = [posts EXCEPT ![p].nudge = "recent"]
      /\ dreq' = [dreq EXCEPT ![r].at = "notify"]
      /\ UNCHANGED <<scene, here, work, former, hours>>

RemindWaiting(r) ==
  LET p == dreq[r].post
  IN  /\ dreq[r].at = "notify"
      /\ posts' = [posts EXCEPT ![p].nudges = IF Live(p) THEN @ + 1 ELSE @]
      /\ dreq' = [dreq EXCEPT ![r] = Silent]
      /\ UNCHANGED <<scene, here, work, former, hours>>

(* A refusal, a failed call or the end of the server.                      *)
DiscussionRequestEnds(r) ==
  /\ dreq[r] # Silent
  /\ dreq' = [dreq EXCEPT ![r] = Silent]
  /\ UNCHANGED <<scene, here, work, former, posts, hours>>

-----------------------------------------------------------------------------
(* What happens meanwhile.                                                 *)

(* REMIND_COOLDOWN_MS (bound: it passes once).                             *)
HourPasses ==
  /\ hours = 0
  /\ hours' = 1
  /\ posts' = [p \in PostIds |->
       [posts[p] EXCEPT !.nudge = IF @ = "recent" THEN "past" ELSE @]]
  /\ UNCHANGED <<scene, here, work, former, dreq>>

(* removeMember takes the membership, the assignments and what the person  *)
(* was told.                                                               *)
LoseMember(u) ==
  /\ u \in here
  /\ here' = here \ {u}
  /\ work' = work \ {u}
  /\ former' = former \ {u}
  /\ posts' = [p \in PostIds |->
       [posts[p] EXCEPT !.told = @ \ {u}, !.chatter = @ \ {u}]]
  /\ UNCHANGED <<scene, hours, dreq>>

(* updateTask: somebody is assigned, or no more.                           *)
Reassign(u) ==
  /\ u \in here
  /\ work' = IF u \in work THEN work \ {u} ELSE work \cup {u}
  /\ former' = former \ {u}
  /\ UNCHANGED <<scene, here, posts, hours, dreq>>

(* The last open task of somebody in the project is done.                  *)
FinishWork(u) ==
  /\ scene.place # "task"
  /\ u \in work
  /\ work' = work \ {u}
  /\ former' = former \cup {u}
  /\ UNCHANGED <<scene, here, posts, hours, dreq>>

(* destroyTask, destroyProject: the messages and their notifications go    *)
(* with the place.                                                         *)
DestroyPlace ==
  /\ ~scene.gone
  /\ scene' = [scene EXCEPT !.gone = TRUE]
  /\ posts' = [p \in PostIds |-> Erased]
  /\ UNCHANGED <<here, work, former, hours, dreq>>

-----------------------------------------------------------------------------
DiscussionsInit ==
  /\ scene \in Scenes
  /\ here = Speakers
  /\ work \in SUBSET Speakers
  /\ former = {}
  /\ posts = <<>>
  /\ hours = 0
  /\ dreq = [r \in DiscussionRequests |-> Silent]

(* Bound: the messages posted and being posted. A longer thread, one whose *)
(* readers change and a request with reminders are looked at one message   *)
(* after the other.                                                        *)
Posting == {r \in DiscussionRequests : dreq[r].at = "record"}

Room ==
  /\ scene.beside \in {"longer", "assign", "remind"} => Posting = {}
  /\ Len(posts) + Cardinality(Posting) < IF scene.beside = "longer" THEN 3 ELSE 2

(* Bound: what is posted beside what happens.                              *)
Kinds ==
  CASE scene.beside = "answer" -> {"question"}
    [] scene.beside = "remind" -> {"request"}
    [] OTHER -> {"question", "request"}

(* Bound: a third message mentions nobody.                                 *)
Speak(r, u) ==
  \/ \E kind \in Kinds, all \in BOOLEAN, m \in MentionRecipients(u) :
       CreateActivity(r, u, kind, all, m)
  \/ \E t \in PostIds, m \in MentionRecipients(u) :
       (Len(posts) = 2 => m = {}) /\ CreateReply(r, u, t, m)

DiscussionsNext ==
  \/ \E r \in DiscussionRequests :
       \/ Room /\ \E u \in here : Speak(r, u)
       \/ RecordActivity(r)
       \/ /\ scene.beside = "answer"
          /\ \E u \in here, p \in PostIds, a \in 0..Len(posts) : FindQuestion(r, u, p, a)
       \/ MarkAnswer(r)
       \/ scene.beside = "remind" /\ \E u \in here, p \in PostIds : FindWaiting(r, u, p)
       \/ ClaimReminder(r)
       \/ RemindWaiting(r)
       \/ DiscussionRequestEnds(r)
  \/ scene.beside = "remind" /\ HourPasses
  \/ scene.beside = "leave" /\ \E u \in Speakers : LoseMember(u)
  \/ scene.beside = "assign" /\ \E u \in Speakers : Reassign(u) \/ FinishWork(u)
  \/ scene.beside = "destroy" /\ DestroyPlace

DiscussionsSpec == DiscussionsInit /\ [][DiscussionsNext]_discussionVars

-----------------------------------------------------------------------------
(* Messages have their types, and threads stay one level deep.             *)
DiscussionsTypeOK ==
  /\ here \cup work \cup former \subseteq Speakers
  /\ \A p \in PostIds :
       /\ posts[p].by \cup posts[p].to \cup posts[p].asked \cup posts[p].shared
            \cup posts[p].told \cup posts[p].chatter \subseteq Speakers
       /\ posts[p].kind \in {"question", "request", "reply", "erased"}
       /\ posts[p].root < p
       /\ posts[p].root # 0 => posts[posts[p].root].root = 0

(* Whoever a message is addressed to and who is still here was told of it  *)
(* as such, muted or not: mentioned, asked, answered, or the one who       *)
(* started the thread.                                                     *)
Addressed(p) ==
  posts[p].to \cup posts[p].asked
    \cup UNION {posts[q].by : q \in {posts[p].root, posts[p].re} \ {0}}

AddressedTold ==
  \A p \in PostIds : (Addressed(p) \cap here) \ posts[p].by \subseteq posts[p].told

(* Mutes are kept, nobody is told twice, and nobody hears of the answer of *)
(* somebody else to an update request ("the people asked aren't told about *)
(* each other's").                                                         *)
OthersSpared ==
  \A p \in PostIds :
    /\ posts[p].chatter \cap scene.muted = {}
    /\ posts[p].told \cap (posts[p].chatter \cup posts[p].by) = {}
    /\ posts[p].root # 0 /\ posts[RootOf(p)].kind = "request" =>
         posts[p].told \cup posts[p].chatter \subseteq Addressed(p)

(* A thread between some people stays between them: a reply comes from     *)
(* somebody who took part before, and whoever is told of a message and can *)
(* open the place finds the message in its list.                           *)
StaysBetween ==
  \A p \in PostIds :
    /\ posts[p].root # 0 /\ IsDirected(RootOf(p)) =>
         posts[p].by \subseteq
           ThreadParticipants(RootOf(p), Replies(RootOf(p)) \cap 1..(p - 1))
    /\ Live(p) => \A u \in posts[p].told \cup posts[p].chatter :
         InPlace(u) => p \in ListActivities(u)

(* The answer of a question is a reply to it, and reminders are an hour    *)
(* apart.                                                                  *)
AnswersAndReminders ==
  \A p \in PostIds :
    /\ posts[p].answer # 0 => posts[posts[p].answer].root = p
    /\ posts[p].nudges <= 1 + hours

(* What a conversation promises the people in it.                          *)
DiscussionsInOrder ==
  AddressedTold /\ OthersSpared /\ StaysBetween /\ AnswersAndReminders

=============================================================================
