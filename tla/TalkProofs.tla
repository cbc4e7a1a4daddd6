----------------------------- MODULE TalkProofs -----------------------------
(***************************************************************************)
(* What people say to each other, proved for any number of members,        *)
(* messages, files, speakers, posts and requests: first the messages of a  *)
(* chat, then the discussions, then both beside each other.                *)
(***************************************************************************)
EXTENDS MCTalk, WellFoundedInduction, TLAPS

-----------------------------------------------------------------------------
(* What a request on the messages can be at.                               *)
Uploads == Files \cup {NoFile}
ConvDocs == [at : 0..MaxMessages, last : Previews, deleted : BOOLEAN]

SendDocs == [st : {"send"}, who : Members, file : Uploads]
InsertDocs == [st : {"insert"}, who : Members, file : Uploads, id : Ids]
PersonDocs == [st : {"announce", "push", "join", "pull", "prune"}, who : Members, id : Ids]
EditDocs == [st : {"edit", "edited", "preview"}, id : Ids]
DeleteDocs == [st : {"delete", "deleted"}, id : Ids, file : Uploads]
UnlinkDocs == [st : {"unlink", "purged"}, files : SUBSET Files]
RefreshDocs == [st : {"refresh"}]
DateDocs == [st : {"read", "clear"}, who : Members, date : 0..MaxMessages]
RewriteDocs == [st : {"rewrite"}, last : Previews, seen : ConvDocs, deleted : BOOLEAN]

MessageWork ==
  {Free} \cup SendDocs \cup InsertDocs \cup PersonDocs \cup EditDocs \cup DeleteDocs
    \cup UnlinkDocs \cup RefreshDocs \cup DateDocs \cup RewriteDocs

(* A message has one entry for an emoji.                                   *)
EntryDocs == {<<>>} \cup {<<who>> : who \in SUBSET Members}

MsgDocs ==
  [st : {"none", "live", "deleted", "purged"}, sender : Members \cup {Nobody},
   text : Texts, file : Uploads, reactions : EntryDocs, hiddenBy : SUBSET Members]
MarkDocs == [cleared : 0..MaxMessages, read : 0..MaxMessages]

MessagesTyped ==
  /\ clock \in 0..MaxMessages
  /\ msg \in [Ids -> MsgDocs]
  /\ conv \in ConvDocs
  /\ mine \in [Members -> MarkDocs]
  /\ stored \subseteq Files
  /\ mreq \in [MessageRequests -> MessageWork]
  /\ stirred \in BOOLEAN /\ reread \subseteq Members /\ again \subseteq Files

-----------------------------------------------------------------------------
(* A number is given out once, and its message is inserted once.           *)
Held(r) == mreq[r].st \in {"insert", "announce"}

Numbered ==
  /\ \A m \in Ids : m > clock => msg[m].st = "none"
  /\ \A r \in MessageRequests : Held(r) => mreq[r].id <= clock
  /\ \A r \in MessageRequests : On(r, "insert") => msg[mreq[r].id].st = "none"
  /\ \A r \in MessageRequests : On(r, "announce") => msg[mreq[r].id].st # "none"
  /\ \A r, s \in MessageRequests :
       Held(r) /\ Held(s) /\ mreq[r].id = mreq[s].id => r = s
  /\ conv.at <= clock
  /\ \A u \in Members : mine[u].cleared <= clock
  /\ \A r \in MessageRequests : On(r, "clear") => mreq[r].date <= clock

(* No file, or one that was sent again after it was destroyed or while it  *)
(* was on its way: nothing is said of these.                               *)
Loose == again \cup {NoFile}

(* Other files that are sent are there and nobody else's; files that are         *)
(* destroyed are no message's, and those of a message that is being        *)
(* deleted no other message's.                                             *)
Sends(r) == mreq[r].st \in {"send", "insert"} /\ mreq[r].file \notin Loose

Unlinks(r) == mreq[r].st \in {"deleted", "unlink", "purged"}

FilesApart ==
  /\ \A r \in MessageRequests : Sends(r) =>
       /\ mreq[r].file \in stored
       /\ \A m \in Ids : msg[m].file # mreq[r].file
       /\ \A s \in MessageRequests : s # r => mreq[r].file \notin FilesOf(mreq[s])
  /\ \A r \in MessageRequests : On(r, "delete") =>
       \A m \in Ids :
         msg[m].file = mreq[r].file /\ msg[m].file \notin Loose => m = mreq[r].id
  /\ \A r \in MessageRequests : Unlinks(r) =>
       \A m \in Ids : msg[m].file \notin FilesOf(mreq[r]) \ Loose
  /\ \A m, n \in Ids : msg[m].file = msg[n].file /\ msg[m].file \notin Loose => m = n
  /\ \A m \in Ids : msg[m].file \in stored \cup Loose

(* Nobody has read less than they cleared, but those whose lastReadAt was  *)
(* written from before.                                                    *)
ReadPastCleared == \A u \in Members \ reread : mine[u].cleared <= mine[u].read

(* What the requests that write a preview know.                            *)
WritersKnow ==
  \A r \in MessageRequests :
    /\ mreq[r].st \in {"edit", "edited", "preview", "delete"} =>
         msg[mreq[r].id].st # "none"
    /\ mreq[r].st \in {"edited", "preview"} /\ msg[mreq[r].id].st = "live" =>
         msg[mreq[r].id].text = "edited"
    /\ mreq[r].st = "deleted" => msg[mreq[r].id].st \in {"deleted", "purged"}
    /\ mreq[r].st = "rewrite" /\ mreq[r].deleted =>
         /\ mreq[r].last.of \in Ids
         /\ msg[mreq[r].last.of].st \in {"deleted", "purged"}

(* Every number up to the clock was announced or is on its way; what was   *)
(* purged with all before it is followed by what comes late only.          *)
OnItsWay(m) == \E r \in MessageRequests : Held(r) /\ mreq[r].id = m

AllAnnounced ==
  /\ \A m \in Ids : m <= clock /\ m > conv.at => OnItsWay(m)
  /\ \A m \in Ids : m <= clock /\ msg[m].st = "none" => OnItsWay(m)
  /\ conv.at # 0 /\ msg[conv.at].st = "purged" =>
       \A m \in Inserted : m < conv.at => OnItsWay(m)

(* When nothing is on its way and no purge is under way, the preview is    *)
(* that of the last message, but for what an edit or a deletion still has  *)
(* to write.                                                               *)
Purges(r) == mreq[r].st \in {"purged", "refresh", "rewrite"}

Writes(r, sts) == mreq[r].st \in sts /\ mreq[r].id = conv.at

PreviewKept ==
  (\A r \in MessageRequests : ~Held(r) /\ ~Purges(r)) /\ conv.at # 0 =>
    /\ msg[conv.at].st = "purged" => conv.last = NoPreview
    /\ conv.at \in Inserted => conv.last.of = conv.at
    /\ msg[conv.at].st = "deleted" =>
         \/ conv.deleted \/ conv.last.text = ""
         \/ \E r \in MessageRequests : Writes(r, {"deleted"})
    /\ msg[conv.at].st = "live" =>
         /\ ~conv.deleted
         /\ \/ conv.last.text = msg[conv.at].text
            \/ /\ msg[conv.at].text = "edited"
               /\ \E r \in MessageRequests : Writes(r, {"edited", "preview"})

MessagesInv ==
  /\ MessagesTyped
  /\ DeletedStaysEmpty
  /\ Numbered
  /\ WritersKnow
  /\ FilesApart
  /\ ReadPastCleared
  /\ ~stirred => AllAnnounced /\ PreviewKept

-----------------------------------------------------------------------------
(* A message of a discussion, and what a request on discussions can be at. *)
People == SUBSET Speakers

PostDocs ==
  [kind : {"question", "request", "reply", "erased"},
   by : People, to : People, asked : People, shared : People, all : BOOLEAN,
   root : Nat, re : Nat, told : People, chatter : People,
   answer : Nat, nudge : {"no", "recent", "past"}, nudges : Nat]

RecordDocs == [at : {"record"}, post : PostDocs]
AnswerDocs == [at : {"answer"}, post : Nat, reply : Nat]
NudgeDocs == [at : {"claim", "notify"}, post : Nat]

DiscussionWork == {Silent} \cup RecordDocs \cup AnswerDocs \cup NudgeDocs

SceneDocs ==
  [place : STRING, beside : STRING, leads : People, creator : Speakers \cup {"nobody"},
   muted : People, gone : BOOLEAN]

DiscussionsTyped ==
  /\ scene \in SceneDocs
  /\ here \in People /\ work \in People /\ former \in People
  /\ posts \in Seq(PostDocs)
  /\ hours \in {0, 1}
  /\ dreq \in [DiscussionRequests -> DiscussionWork]

(* A message x, written after the first n: where it stands, who is told of *)
(* it, and whom it comes from in a thread between some people.             *)
AddressedOf(x) ==
  x.to \cup x.asked \cup UNION {posts[q].by : q \in {x.root, x.re} \ {0}}

Audience(x) == x.told \cup x.chatter

InThread(x, n) ==
  /\ x.root \in 0..n /\ x.re \in 0..n
  /\ x.root # 0 => posts[x.root].root = 0

Tells(x) ==
  /\ (AddressedOf(x) \cap here) \ x.by \subseteq x.told
  /\ x.chatter \cap scene.muted = {}
  /\ x.told \cap (x.chatter \cup x.by) = {}
  /\ x.root # 0 /\ posts[x.root].kind = "request" => Audience(x) \subseteq AddressedOf(x)

TakesPart(p) == ThreadParticipants(p, Replies(p))
TookPart(p, n) == ThreadParticipants(p, Replies(p) \cap 1..n)

Between(x, n) ==
  /\ x.root # 0 /\ IsDirected(x.root) =>
       /\ x.by \subseteq TookPart(x.root, n)
       /\ Audience(x) \subseteq TakesPart(x.root) \cup x.by \cup x.to
  /\ x.root = 0 /\ ~x.all => Audience(x) \subseteq x.by \cup x.to \cup x.asked \cup x.shared

Fits(x, n) == InThread(x, n) /\ Tells(x) /\ Between(x, n)

Unmarked(x) == x.answer = 0 /\ x.nudge = "no" /\ x.nudges = 0

PostsFit ==
  /\ \A p \in PostIds : \A x \in {posts[p]} : Fits(x, p - 1)
  /\ \A r \in DiscussionRequests : dreq[r].at = "record" =>
       /\ \A x \in {dreq[r].post}, n \in {Len(posts)} : Fits(x, n)
       /\ Unmarked(dreq[r].post)

(* An answer is a reply to its question, saved or about to be.             *)
AnswersFit ==
  /\ \A p \in PostIds : posts[p].answer # 0 =>
       posts[p].answer \in PostIds /\ posts[posts[p].answer].root = p
  /\ \A r \in DiscussionRequests : dreq[r].at = "answer" =>
       /\ dreq[r].post \in PostIds
       /\ posts[dreq[r].post].kind # "erased" /\ dreq[r].reply # 0 =>
            dreq[r].reply \in PostIds /\ posts[dreq[r].reply].root = dreq[r].post

(* Every reminder sent or about to be sent has claimed its hour.           *)
Claims(p) ==
  CASE posts[p].nudge = "no" -> 0
    [] posts[p].nudge = "past" -> 1
    [] posts[p].nudge = "recent" -> 1 + hours

Notifies(r, p) == dreq[r].at = "notify" /\ dreq[r].post = p

RemindersClaimed(p) ==
  /\ posts[p].nudges <= Claims(p)
  /\ hours = 0 => posts[p].nudge # "past"
  /\ \A r \in DiscussionRequests : Notifies(r, p) => posts[p].nudges + 1 <= Claims(p)
  /\ \A r, s \in DiscussionRequests :
       r # s /\ Notifies(r, p) /\ Notifies(s, p) => posts[p].nudges + 2 <= Claims(p)
  /\ \A r, s, t \in DiscussionRequests :
       r # s /\ s # t /\ r # t => ~(Notifies(r, p) /\ Notifies(s, p) /\ Notifies(t, p))

RemindersFit ==
  /\ \A p \in PostIds : IF Live(p) THEN RemindersClaimed(p) ELSE posts[p].nudges = 0
  /\ \A r \in DiscussionRequests :
       dreq[r].at \in {"claim", "notify"} => dreq[r].post \in PostIds

DiscussionsInv == DiscussionsTyped /\ PostsFit /\ AnswersFit /\ RemindersFit

-----------------------------------------------------------------------------
(* What a request is at tells what it holds.                               *)
LEMMA WorkOf ==
  ASSUME MessagesTyped, NEW r \in MessageRequests
  PROVE  /\ mreq[r].st = "idle" <=> mreq[r] = Free
         /\ mreq[r].st = "send" => mreq[r] \in SendDocs
         /\ mreq[r].st = "insert" => mreq[r] \in InsertDocs
         /\ mreq[r].st \in {"announce", "push", "join", "pull", "prune"} =>
              mreq[r] \in PersonDocs
         /\ mreq[r].st \in {"edit", "edited", "preview"} => mreq[r] \in EditDocs
         /\ mreq[r].st \in {"delete", "deleted"} => mreq[r] \in DeleteDocs
         /\ mreq[r].st \in {"unlink", "purged"} => mreq[r] \in UnlinkDocs
         /\ mreq[r].st = "refresh" => mreq[r] \in RefreshDocs
         /\ mreq[r].st \in {"read", "clear"} => mreq[r] \in DateDocs
         /\ mreq[r].st = "rewrite" => mreq[r] \in RewriteDocs
<1>1. mreq[r] \in MessageWork
  BY DEF MessagesTyped
<1> QED
  BY <1>1 DEF MessageWork, Free, SendDocs, InsertDocs, PersonDocs, EditDocs, DeleteDocs,
              UnlinkDocs, RefreshDocs, DateDocs, RewriteDocs

(* A step of a request changes what that request is at, and no other.      *)
LEMMA Stepped ==
  ASSUME MessagesTyped, NEW r \in MessageRequests, NEW q, Step(r, q)
  PROVE  /\ mreq'[r] = q
         /\ \A s \in MessageRequests : s # r => mreq'[s] = mreq[s]
BY DEF MessagesTyped, Step

LEMMA StepTyped ==
  ASSUME MessagesTyped, NEW r \in MessageRequests, NEW q \in MessageWork, Step(r, q)
  PROVE  mreq' \in [MessageRequests -> MessageWork]
BY DEF MessagesTyped, Step

(* The newest of some messages is one of them, and none is newer.          *)
LEMMA NewestIs ==
  ASSUME NEW S \in SUBSET Ids
  PROVE  /\ S = {} => Newest(S) = 0
         /\ S # {} => Newest(S) \in S /\ \A n \in S : n <= Newest(S)
         /\ Newest(S) \in 0..MaxMessages
<1>1. ASSUME S # {} PROVE \E m \in S : \A n \in S : n <= m
  <2> DEFINE T == {k \in 0..MaxMessages : MaxMessages - k \in S}
  <2>1. T \subseteq Nat /\ T # {}
    <3>1. PICK n \in S : TRUE BY <1>1
    <3>2. n \in 1..MaxMessages BY <3>1 DEF Ids
    <3>3. MaxMessages - n \in 0..MaxMessages /\ MaxMessages - (MaxMessages - n) = n
      BY <3>2, MessagesAssumption
    <3>4. MaxMessages - n \in T BY <3>3, <3>1
    <3> QED BY <3>4, MessagesAssumption
  <2>2. PICK k \in T : \A y \in T : ~ (<<y, k>> \in OpToRel(<, Nat))
    <3> HIDE DEF T
    <3> QED BY <2>1, WFMin, NatLessThanWellFounded
  <2>3. \A y \in T : ~ (y < k)
    BY <2>1, <2>2 DEF OpToRel
  <2>4. \A n \in S : n <= MaxMessages - k
    <3> TAKE n \in S
    <3>1. n \in 1..MaxMessages BY DEF Ids
    <3>2. MaxMessages - n \in 0..MaxMessages /\ MaxMessages - (MaxMessages - n) = n
      BY <3>1, MessagesAssumption
    <3>3. MaxMessages - n \in T BY <3>2
    <3>4. k \in 0..MaxMessages /\ ~ (MaxMessages - n < k) BY <2>3, <3>3
    <3> QED BY <3>4, <3>1, MessagesAssumption
  <2> QED BY <2>4
<1>2. CASE S = {} BY <1>2, MessagesAssumption DEF Newest
<1>3. CASE S # {}
  <2>1. Newest(S) = CHOOSE m \in S : \A n \in S : n <= m BY <1>3 DEF Newest
  <2>2. Newest(S) \in S /\ \A n \in S : n <= Newest(S) BY <1>1, <1>3, <2>1
  <2>3. Newest(S) \in 1..MaxMessages BY <2>2 DEF Ids
  <2>4. Newest(S) \in 0..MaxMessages BY <2>3, MessagesAssumption
  <2> QED BY <2>2, <2>4, <1>3
<1> QED BY <1>2, <1>3

LEMMA InsertedIds ==
  /\ Inserted \subseteq Ids
  /\ \A u : Visible(u) \subseteq Ids
BY DEF Inserted, Visible

-----------------------------------------------------------------------------
(* What becomes of the documents of a chat, action by action.              *)
LEMMA WritingTyped ==
  ASSUME MessagesTyped, NEW r \in MessageRequests, Writing(r)
  PROVE  MessagesTyped'
<1> USE DEF Starts, Step
<1>0. mreq \in [MessageRequests -> MessageWork] /\ clock \in 0..MaxMessages
  BY DEF MessagesTyped
<1>1. ASSUME NEW u \in Members, NEW f \in Attachable, CheckSend(r, u, f) PROVE MessagesTyped'
  <2>1. f \in Uploads BY DEF Attachable, Uploads
  <2>2. [st |-> "send", who |-> u, file |-> f] \in MessageWork BY <2>1 DEF SendDocs, MessageWork
  <2>3. mreq' \in [MessageRequests -> MessageWork] BY <1>0, <1>1, <2>2 DEF CheckSend
  <2>4. again' \subseteq Files
    BY <1>1, <2>1 DEF CheckSend, Resent, MessagesTyped, Uploads
  <2> QED BY <1>1, <2>3, <2>4 DEF CheckSend, MessagesTyped
<1>2. CASE StampMessage(r)
  <2>1. clock' \in Ids BY <1>0, <1>2, MessagesAssumption DEF StampMessage, Ids
  <2>2. mreq[r] \in SendDocs BY <1>2, WorkOf DEF StampMessage, On
  <2>3. [st |-> "insert", who |-> mreq[r].who, file |-> mreq[r].file, id |-> clock'] \in MessageWork
    BY <2>1, <2>2 DEF SendDocs, InsertDocs, MessageWork
  <2>4. mreq' \in [MessageRequests -> MessageWork] BY <1>0, <1>2, <2>3 DEF StampMessage
  <2>5. clock' \in 0..MaxMessages BY <2>1, MessagesAssumption DEF Ids
  <2> QED BY <1>2, <2>4, <2>5 DEF StampMessage, MessagesTyped
<1>3. CASE InsertMessage(r)
  <2>1. mreq[r] \in InsertDocs BY <1>3, WorkOf DEF InsertMessage, On
  <2>2. [st |-> "live", sender |-> mreq[r].who, text |-> "sent", file |-> mreq[r].file,
         reactions |-> <<>>, hiddenBy |-> {}] \in MsgDocs
    BY <2>1 DEF InsertDocs, MsgDocs, Texts, EntryDocs
  <2>3. msg' \in [Ids -> MsgDocs]
    BY <1>3, <2>2 DEF InsertMessage, MessagesTyped
  <2>4. [st |-> "announce", who |-> mreq[r].who, id |-> mreq[r].id] \in MessageWork
    BY <2>1 DEF InsertDocs, PersonDocs, MessageWork
  <2>5. mreq' \in [MessageRequests -> MessageWork] BY <1>0, <1>3, <2>4 DEF InsertMessage
  <2> QED BY <1>3, <2>3, <2>5 DEF InsertMessage, MessagesTyped
<1>4. CASE AnnounceMessage(r)
  <2>1. mreq[r] \in PersonDocs BY <1>4, WorkOf DEF AnnounceMessage, On
  <2>2. mreq[r].id \in 0..MaxMessages BY <2>1, MessagesAssumption DEF PersonDocs, Ids
  <2>3. conv' \in ConvDocs
    BY <1>4, <2>1, <2>2 DEF AnnounceMessage, ConvDocs, Previews, PersonDocs, Texts
  <2>4. mine' \in [Members -> MarkDocs] /\ reread' \subseteq Members
    BY <1>4, <2>1, <2>2 DEF AnnounceMessage, RereadBy, MessagesTyped, MarkDocs, PersonDocs
  <2>5. mreq' \in [MessageRequests -> MessageWork] BY <1>0, <1>4 DEF AnnounceMessage, MessageWork
  <2>6. stirred' \in BOOLEAN BY <1>4 DEF AnnounceMessage, MessagesTyped
  <2> QED BY <1>4, <2>3, <2>4, <2>5, <2>6 DEF AnnounceMessage, MessagesTyped
<1>5. ASSUME NEW m \in Ids, FindToEdit(r, m) PROVE MessagesTyped'
  <2>1. [st |-> "edit", id |-> m] \in MessageWork BY DEF EditDocs, MessageWork
  <2>2. mreq' \in [MessageRequests -> MessageWork] BY <1>0, <1>5, <2>1 DEF FindToEdit
  <2> QED BY <1>5, <2>2 DEF FindToEdit, MessagesTyped
<1>6. CASE EditText(r)
  <2>1. mreq[r] \in EditDocs BY <1>6, WorkOf DEF EditText, On
  <2>2. msg' \in [Ids -> MsgDocs]
    <3> DEFINE old == msg[mreq[r].id]
               new == [old EXCEPT !.text = IF old.st = "live" THEN "edited" ELSE @]
    <3>1. old \in MsgDocs BY <2>1 DEF EditDocs, MessagesTyped
    <3>2. new \in MsgDocs BY <3>1 DEF MsgDocs, Texts
    <3>3. msg' = [msg EXCEPT ![mreq[r].id] = new] BY <1>6 DEF EditText
    <3> HIDE DEF new
    <3> QED BY <3>2, <3>3 DEF MessagesTyped
  <2>3. [st |-> "edited", id |-> mreq[r].id] \in MessageWork
    BY <2>1 DEF EditDocs, MessageWork
  <2>4. mreq' \in [MessageRequests -> MessageWork] BY <1>0, <1>6, <2>3 DEF EditText
  <2> QED BY <1>6, <2>2, <2>4 DEF EditText, MessagesTyped
<1>7. CASE FindLatestEdited(r)
  <2>1. mreq[r] \in EditDocs BY <1>7, WorkOf DEF FindLatestEdited, On
  <2>2. [st |-> "preview", id |-> mreq[r].id] \in MessageWork /\ Free \in MessageWork
    BY <2>1 DEF EditDocs, MessageWork
  <2>3. mreq' \in [MessageRequests -> MessageWork] BY <1>0, <1>7, <2>2 DEF FindLatestEdited
  <2> QED BY <1>7, <2>3 DEF FindLatestEdited, MessagesTyped
<1>8. CASE EditPreview(r)
  <2>1. conv' \in ConvDocs
    BY <1>8 DEF EditPreview, MessagesTyped, ConvDocs, Previews, Texts
  <2>2. mreq' \in [MessageRequests -> MessageWork] BY <1>0, <1>8 DEF EditPreview, MessageWork
  <2>3. stirred' \in BOOLEAN BY <1>8 DEF EditPreview, MessagesTyped
  <2> QED BY <1>8, <2>1, <2>2, <2>3 DEF EditPreview, MessagesTyped
<1>9. ASSUME NEW m \in Ids, FindToDelete(r, m) PROVE MessagesTyped'
  <2>1. msg[m].file \in Uploads BY DEF MessagesTyped, MsgDocs
  <2>2. [st |-> "delete", id |-> m, file |-> msg[m].file] \in MessageWork
    BY <2>1 DEF DeleteDocs, MessageWork
  <2>3. mreq' \in [MessageRequests -> MessageWork] BY <1>0, <1>9, <2>2 DEF FindToDelete
  <2> QED BY <1>9, <2>3 DEF FindToDelete, MessagesTyped
<1>10. CASE DeleteMessage(r)
  <2>1. mreq[r] \in DeleteDocs BY <1>10, WorkOf DEF DeleteMessage, On
  <2>2. msg[mreq[r].id] \in MsgDocs BY <2>1 DEF DeleteDocs, MessagesTyped
  <2> DEFINE bare == [msg[mreq[r].id] EXCEPT !.st = "deleted", !.text = "", !.file = NoFile,
                                             !.reactions = <<>>]
  <2>3. bare \in MsgDocs BY <2>2 DEF MsgDocs, Texts, Uploads, EntryDocs
  <2>4. msg' \in [Ids -> MsgDocs] BY <1>10, <2>3 DEF DeleteMessage, MessagesTyped
  <2>5. [mreq[r] EXCEPT !.st = "deleted"] \in DeleteDocs BY <2>1 DEF DeleteDocs
  <2>6. mreq' \in [MessageRequests -> MessageWork]
    BY <1>0, <1>10, <2>5 DEF DeleteMessage, MessageWork
  <2> QED BY <1>10, <2>4, <2>6 DEF DeleteMessage, MessagesTyped
<1>11. CASE DeletePreview(r)
  <2>1. mreq[r] \in DeleteDocs BY <1>11, WorkOf DEF DeletePreview, On
  <2>2. conv' \in ConvDocs
    BY <1>11 DEF DeletePreview, MessagesTyped, ConvDocs, Previews, Texts
  <2>3. [st |-> "unlink", files |-> {mreq[r].file} \ {NoFile}] \in MessageWork
    BY <2>1 DEF DeleteDocs, UnlinkDocs, MessageWork, Uploads
  <2>4. mreq' \in [MessageRequests -> MessageWork] BY <1>0, <1>11, <2>3 DEF DeletePreview
  <2> QED BY <1>11, <2>2, <2>4 DEF DeletePreview, MessagesTyped
<1>12. CASE DestroyUploads(r)
  <2>1. mreq' \in [MessageRequests -> MessageWork] BY <1>0, <1>12 DEF DestroyUploads, MessageWork
  <2> QED BY <1>12, <2>1 DEF DestroyUploads, MessagesTyped
<1> QED
  BY <1>1, <1>2, <1>3, <1>4, <1>5, <1>6, <1>7, <1>8, <1>9, <1>10, <1>11, <1>12 DEF Writing

(* What the reactions of a message can become.                             *)
LEMMA EntriesTyped ==
  ASSUME NEW entries \in EntryDocs, NEW u \in Members
  PROVE  /\ <<{u}>> \in EntryDocs /\ <<>> \in EntryDocs
         /\ entries # <<>> =>
              /\ [entries EXCEPT ![1] = @ \cup {u}] \in EntryDocs
              /\ [entries EXCEPT ![1] = @ \ {u}] \in EntryDocs
         /\ Peopled(entries) \in EntryDocs
<1>1. CASE entries = <<>> BY <1>1 DEF EntryDocs, Peopled
<1>2. ASSUME NEW who \in SUBSET Members, entries = <<who>>
      PROVE  /\ [entries EXCEPT ![1] = @ \cup {u}] \in EntryDocs
             /\ [entries EXCEPT ![1] = @ \ {u}] \in EntryDocs
             /\ Peopled(entries) \in EntryDocs
  <2>1. /\ [<<who>> EXCEPT ![1] = @ \cup {u}] = <<who \cup {u}>>
        /\ [<<who>> EXCEPT ![1] = @ \ {u}] = <<who \ {u}>>
        /\ Tail(<<who>>) = <<>>
    OBVIOUS
  <2>2. /\ <<who \cup {u}>> \in EntryDocs /\ <<who \ {u}>> \in EntryDocs
        /\ <<>> \in EntryDocs /\ <<who>> \in EntryDocs
    BY DEF EntryDocs
  <2> QED BY <1>2, <2>1, <2>2 DEF Peopled
<1>3. <<{u}>> \in EntryDocs /\ <<>> \in EntryDocs BY DEF EntryDocs
<1>4. entries = <<>> \/ \E who \in SUBSET Members : entries = <<who>> BY DEF EntryDocs
<1> QED BY <1>1, <1>2, <1>3, <1>4

LEMMA ReactTyped ==
  ASSUME MessagesTyped, NEW r \in MessageRequests, NEW m \in Ids,
         NEW entries \in EntryDocs, NEW q \in MessageWork, React(r, m, entries, q)
  PROVE  MessagesTyped'
<1>1. mreq' \in [MessageRequests -> MessageWork] BY StepTyped DEF React
<1>2. [msg[m] EXCEPT !.reactions = entries] \in MsgDocs
  BY DEF MessagesTyped, MsgDocs
<1>3. msg' \in [Ids -> MsgDocs]
  BY <1>2 DEF React, MessagesTyped
<1> QED BY <1>1, <1>3 DEF React, MessagesTyped

LEMMA ReactingTyped ==
  ASSUME MessagesTyped, NEW r \in MessageRequests, Reacting(r)
  PROVE  MessagesTyped'
<1>1. ASSUME NEW u \in Members, NEW m \in Ids, FindToReact(r, u, m) PROVE MessagesTyped'
  <2>1. \E st \in {"push", "pull", "join"} : Step(r, [st |-> st, who |-> u, id |-> m])
    BY <1>1 DEF FindToReact, Starts
  <2>2. PICK st \in {"push", "pull", "join"} : Step(r, [st |-> st, who |-> u, id |-> m])
    BY <2>1
  <2>3. [st |-> st, who |-> u, id |-> m] \in MessageWork BY DEF PersonDocs, MessageWork
  <2>4. mreq' \in [MessageRequests -> MessageWork] BY <2>2, <2>3, StepTyped
  <2> QED BY <1>1, <2>4 DEF FindToReact, MessagesTyped
<1> DEFINE q == mreq[r]
           m == q.id
           entries == msg[m].reactions
<1>2. ASSUME q.st \in {"push", "join", "pull", "prune"}
      PROVE  /\ q \in PersonDocs /\ m \in Ids /\ q.who \in Members /\ entries \in EntryDocs
             /\ Free \in MessageWork
             /\ [q EXCEPT !.st = "join"] \in MessageWork
             /\ [q EXCEPT !.st = "prune"] \in MessageWork
  <2>1. q \in PersonDocs BY <1>2, WorkOf
  <2>2. m \in Ids /\ q.who \in Members BY <2>1 DEF PersonDocs
  <2>3. entries \in EntryDocs BY <2>2 DEF MessagesTyped, MsgDocs
  <2>4. [q EXCEPT !.st = "join"] \in PersonDocs /\ [q EXCEPT !.st = "prune"] \in PersonDocs
    BY <2>1 DEF PersonDocs
  <2> QED BY <2>1, <2>2, <2>3, <2>4 DEF MessageWork
<1> HIDE DEF q
<1>3. CASE PushReaction(r)
  <2>0. q.st = "push" BY <1>3 DEF PushReaction, On, q
  <2>1. \/ React(r, m, <<{q.who}>>, Free)
        \/ React(r, m, entries, [q EXCEPT !.st = "join"])
    BY <1>3 DEF PushReaction, q
  <2> HIDE DEF m, entries
  <2> QED BY <2>0, <2>1, <1>2, EntriesTyped, ReactTyped
<1>4. CASE JoinReaction(r)
  <2>0. q.st = "join" BY <1>4 DEF JoinReaction, On, q
  <2>1. React(r, m, IF entries = <<>> THEN entries ELSE [entries EXCEPT ![1] = @ \cup {q.who}],
              Free)
    BY <1>4 DEF JoinReaction, q
  <2> HIDE DEF m, entries
  <2> QED BY <2>0, <2>1, <1>2, EntriesTyped, ReactTyped
<1>5. CASE PullReaction(r)
  <2>0. q.st = "pull" BY <1>5 DEF PullReaction, On, q
  <2>1. React(r, m, IF entries = <<>> THEN entries ELSE [entries EXCEPT ![1] = @ \ {q.who}],
              [q EXCEPT !.st = "prune"])
    BY <1>5 DEF PullReaction, q
  <2> HIDE DEF m, entries
  <2> QED BY <2>0, <2>1, <1>2, EntriesTyped, ReactTyped
<1>6. CASE PruneReactions(r)
  <2>0. q.st = "prune" BY <1>6 DEF PruneReactions, On, q
  <2>1. React(r, m, Peopled(entries), Free)
    BY <1>6 DEF PruneReactions, q
  <2>2. Peopled(entries) \in EntryDocs
    BY <2>0, <1>2, EntriesTyped
  <2> HIDE DEF m, entries
  <2> QED BY <2>0, <2>1, <2>2, <1>2, ReactTyped
<1> QED BY <1>1, <1>3, <1>4, <1>5, <1>6 DEF Reacting

LEMMA PurgingTyped ==
  ASSUME MessagesTyped, NEW r \in MessageRequests, Purging(r)
  PROVE  MessagesTyped'
<1>0. Free \in MessageWork /\ [st |-> "refresh"] \in MessageWork
  BY DEF MessageWork, RefreshDocs
<1>1. ASSUME NEW k \in Ids, PurgeMessages(r, k) PROVE MessagesTyped'
  <2> DEFINE old == {m \in Inserted : m <= k}
             files == {msg[m].file : m \in old} \ {NoFile}
             gone(m) == [msg[m] EXCEPT !.st = "purged", !.text = "", !.file = NoFile,
                                       !.reactions = <<>>, !.hiddenBy = {}]
  <2>1. \A m \in Ids : msg[m] \in MsgDocs BY DEF MessagesTyped
  <2>2. \A m \in Ids : gone(m) \in MsgDocs
    BY <2>1 DEF MsgDocs, Texts, Uploads, EntryDocs
  <2>3. \A m \in old : msg[m].file \in Uploads
    BY <2>1, InsertedIds DEF MsgDocs
  <2>4. files \subseteq Files BY <2>3 DEF Uploads
  <2>5. [st |-> "purged", files |-> files] \in MessageWork
    BY <2>4 DEF UnlinkDocs, MessageWork
  <2>6. Step(r, [st |-> "purged", files |-> files]) BY <1>1 DEF PurgeMessages, Starts
  <2>7. mreq' \in [MessageRequests -> MessageWork] BY <2>5, <2>6, StepTyped
  <2>8. msg' = [m \in Ids |-> IF m \in old THEN gone(m) ELSE msg[m]]
    BY <1>1 DEF PurgeMessages
  <2> HIDE DEF gone, old
  <2>9. msg' \in [Ids -> MsgDocs] BY <2>1, <2>2, <2>8
  <2> QED BY <1>1, <2>7, <2>9 DEF PurgeMessages, MessagesTyped
<1>2. CASE PurgeUploads(r)
  <2>1. mreq' \in [MessageRequests -> MessageWork] BY <1>0, <1>2, StepTyped DEF PurgeUploads
  <2> QED BY <1>2, <2>1 DEF PurgeUploads, MessagesTyped
<1>3. CASE FindLatest(r)
  <2> DEFINE m == Newest(Inserted)
  <2>1. m \in 0..MaxMessages BY NewestIs, InsertedIds
  <2>2. PreviewOf(m) \in Previews
    <3>1. CASE m = 0 BY <3>1 DEF PreviewOf, NoPreview, Previews, Texts
    <3>2. CASE m # 0
      <4>1. m \in Ids BY <3>2, <2>1, MessagesAssumption DEF Ids
      <4>2. msg[m].text \in Texts BY <4>1 DEF MessagesTyped, MsgDocs
      <4> QED BY <3>2, <4>1, <4>2 DEF PreviewOf, Previews
    <3> QED BY <3>1, <3>2
  <2>3. [st |-> "rewrite", last |-> PreviewOf(m), seen |-> conv,
         deleted |-> m # 0 /\ msg[m].st = "deleted"] \in MessageWork
    BY <2>2 DEF MessagesTyped, RewriteDocs, MessageWork
  <2>4. Step(r, [st |-> "rewrite", last |-> PreviewOf(m), seen |-> conv,
                 deleted |-> m # 0 /\ msg[m].st = "deleted"])
    BY <1>3 DEF FindLatest
  <2>5. mreq' \in [MessageRequests -> MessageWork] BY <2>3, <2>4, StepTyped
  <2> QED BY <1>3, <2>5 DEF FindLatest, MessagesTyped
<1>4. CASE RefreshPreview(r)
  <2>1. mreq[r] \in RewriteDocs BY <1>4, WorkOf DEF RefreshPreview, On
  <2>2. mreq[r].last \in Previews /\ mreq[r].deleted \in BOOLEAN BY <2>1 DEF RewriteDocs
  <2>3. conv' \in ConvDocs
    BY <1>4, <2>2 DEF RefreshPreview, MessagesTyped, ConvDocs
  <2>4. mreq' \in [MessageRequests -> MessageWork] BY <1>0, <1>4, StepTyped DEF RefreshPreview
  <2>5. stirred' \in BOOLEAN BY <1>4 DEF RefreshPreview, MessagesTyped
  <2> QED BY <1>4, <2>3, <2>4, <2>5 DEF RefreshPreview, MessagesTyped
<1> QED BY <1>1, <1>2, <1>3, <1>4 DEF Purging

LEMMA EndingTyped ==
  ASSUME MessagesTyped, NEW r \in MessageRequests, MessageRequestEnds(r)
  PROVE  MessagesTyped'
<1>1. mreq' \in [MessageRequests -> MessageWork] BY StepTyped DEF MessageRequestEnds, MessageWork
<1>2. stirred' \in BOOLEAN BY DEF MessageRequestEnds, MessagesTyped
<1> QED BY <1>1, <1>2 DEF MessageRequestEnds, MessagesTyped

(* A date is written as lastReadAt: nobody else has read less than they    *)
(* cleared.                                                                *)
LEMMA ReadsUpTo ==
  ASSUME MessagesTyped, NEW u \in Members, NEW date \in 0..MaxMessages,
         mine' = [mine EXCEPT ![u].read = date], reread' = RereadBy(u, date)
  PROVE  /\ mine' \in [Members -> MarkDocs] /\ reread' \subseteq Members
         /\ \A v \in Members : mine'[v].cleared = mine[v].cleared
         /\ ReadPastCleared => ReadPastCleared'
<1> DEFINE marks == [mine[u] EXCEPT !.read = date]
<1>1. mine \in [Members -> MarkDocs] /\ mine[u] \in MarkDocs /\ reread \subseteq Members
  BY DEF MessagesTyped
<1>2. marks \in MarkDocs /\ marks.cleared = mine[u].cleared /\ marks.read = date
  BY <1>1 DEF MarkDocs
<1>3. mine' = [mine EXCEPT ![u] = marks]
  OBVIOUS
<1> HIDE DEF marks
<1>4. mine'[u] = marks /\ \A v \in Members : v # u => mine'[v] = mine[v]
  BY <1>1, <1>3
<1>5. mine' \in [Members -> MarkDocs] /\ \A v \in Members : mine'[v].cleared = mine[v].cleared
  BY <1>1, <1>2, <1>3, <1>4
<1>6. reread' \subseteq Members /\ reread \subseteq reread'
  BY <1>1 DEF RereadBy
<1>7. u \notin reread' => mine'[u].cleared <= mine'[u].read
  <2>1. mine[u].cleared \in Int /\ date \in Int
    BY <1>1 DEF MarkDocs
  <2> QED BY <1>2, <1>4, <2>1 DEF RereadBy
<1>8. ReadPastCleared => ReadPastCleared'
  BY <1>4, <1>6, <1>7 DEF ReadPastCleared
<1> QED BY <1>5, <1>6, <1>8

(* A mark is dated when its request begins, for what is cleared with now.  *)
LEMMA MarkBegins ==
  ASSUME MessagesTyped, NEW r \in MessageRequests, NEW u \in Members,
         \/ MarkConversationRead(r, u) \/ MarkConversationUnread(r, u)
         \/ ClearConversationForMe(r, u)
  PROVE  /\ UNCHANGED <<clock, msg, conv, mine, stored, stirred, reread, again>>
         /\ mreq[r].st = "idle"
         /\ \E st \in {"read", "clear"}, date \in 0..MaxMessages :
              /\ Step(r, [st |-> st, who |-> u, date |-> date])
              /\ st = "clear" => date = clock
<1>0. clock \in 0..MaxMessages
  BY DEF MessagesTyped
<1>1. CASE MarkConversationRead(r, u)
  BY <1>0, <1>1 DEF MarkConversationRead, Marks, Starts, Free
<1>2. CASE ClearConversationForMe(r, u)
  BY <1>0, <1>2 DEF ClearConversationForMe, Marks, Starts, Free
<1>3. CASE MarkConversationUnread(r, u)
  <2> DEFINE theirs == {m \in Visible(u) : msg[m].sender # u /\ msg[m].st = "live"}
             date == Newest(theirs) - 1
  <2>1. theirs # {} /\ Marks(r, "mark", "read", u, date)
    BY <1>3 DEF MarkConversationUnread
  <2>2. Newest(theirs) \in theirs /\ theirs \subseteq Ids
    BY <2>1, InsertedIds, NewestIs
  <2>3. date \in 0..MaxMessages
    BY <2>2, MessagesAssumption DEF Ids
  <2> HIDE DEF theirs, date
  <2> QED BY <2>1, <2>3 DEF Marks, Starts, Free
<1> QED BY <1>1, <1>2, <1>3

LEMMA MarkingDoes ==
  ASSUME MessagesTyped, NEW r \in MessageRequests, Marking(r)
  PROVE  /\ MessagesTyped'
         /\ UNCHANGED <<clock, msg, conv, stored, stirred, again>>
         /\ mreq[r].st \in {"idle", "read", "clear"} /\ mreq'[r].st \in {"idle", "read", "clear"}
         /\ \A s \in MessageRequests : s # r => mreq'[s] = mreq[s]
         /\ mreq'[r].st = "clear" => mreq'[r].date = clock
         /\ ReadPastCleared => ReadPastCleared'
         /\ \A u \in Members :
              \/ mine'[u].cleared = mine[u].cleared
              \/ mreq[r].st = "clear" /\ mine'[u].cleared = mreq[r].date
<1>0. Free \in MessageWork /\ Free.st = "idle"
  BY DEF MessageWork, Free
<1>1. ASSUME NEW u \in Members,
             \/ MarkConversationRead(r, u) \/ MarkConversationUnread(r, u)
             \/ ClearConversationForMe(r, u)
      PROVE  /\ MessagesTyped'
             /\ UNCHANGED <<clock, msg, conv, mine, stored, stirred, reread, again>>
             /\ mreq[r].st = "idle" /\ mreq'[r].st \in {"read", "clear"}
             /\ \A s \in MessageRequests : s # r => mreq'[s] = mreq[s]
             /\ mreq'[r].st = "clear" => mreq'[r].date = clock
  <2>1. UNCHANGED <<clock, msg, conv, mine, stored, stirred, reread, again>> /\ mreq[r].st = "idle"
    BY <1>1, MarkBegins
  <2>2. PICK st \in {"read", "clear"}, date \in 0..MaxMessages :
          /\ Step(r, [st |-> st, who |-> u, date |-> date])
          /\ st = "clear" => date = clock
    BY <1>1, MarkBegins
  <2> DEFINE q == [st |-> st, who |-> u, date |-> date]
  <2>3. q \in MessageWork /\ q.st = st /\ q.date = date
    BY DEF DateDocs, MessageWork
  <2> HIDE DEF q
  <2>4. mreq' \in [MessageRequests -> MessageWork] /\ mreq'[r] = q
        /\ \A s \in MessageRequests : s # r => mreq'[s] = mreq[s]
    BY <2>2, <2>3, Stepped, StepTyped DEF q
  <2>5. MessagesTyped'
    BY <2>1, <2>4 DEF MessagesTyped
  <2> QED BY <2>1, <2>2, <2>3, <2>4, <2>5
<1>2. CASE WriteReadUpTo(r)
  <2> DEFINE u == mreq[r].who
             date == mreq[r].date
  <2>1. /\ mreq[r].st = "read" /\ Step(r, Free)
        /\ mine' = [mine EXCEPT ![u].read = date] /\ reread' = RereadBy(u, date)
        /\ UNCHANGED <<clock, msg, conv, stored, stirred, again>>
    BY <1>2 DEF WriteReadUpTo, On
  <2>2. u \in Members /\ date \in 0..MaxMessages
    BY <2>1, WorkOf DEF DateDocs
  <2> HIDE DEF u, date
  <2>3. /\ mine' \in [Members -> MarkDocs] /\ reread' \subseteq Members
        /\ \A v \in Members : mine'[v].cleared = mine[v].cleared
        /\ ReadPastCleared => ReadPastCleared'
    BY <2>1, <2>2, ReadsUpTo
  <2>4. mreq' \in [MessageRequests -> MessageWork] /\ mreq'[r].st = "idle"
        /\ \A s \in MessageRequests : s # r => mreq'[s] = mreq[s]
    BY <1>0, <2>1, Stepped, StepTyped
  <2>5. MessagesTyped'
    BY <2>1, <2>3, <2>4 DEF MessagesTyped
  <2> QED BY <2>1, <2>3, <2>4, <2>5
<1>3. CASE WriteCleared(r)
  <2> DEFINE u == mreq[r].who
             date == mreq[r].date
             marks == [cleared |-> date, read |-> date]
  <2>1. /\ mreq[r].st = "clear" /\ Step(r, Free) /\ mine' = [mine EXCEPT ![u] = marks]
        /\ UNCHANGED <<clock, msg, conv, stored, stirred, reread, again>>
    BY <1>3 DEF WriteCleared, On
  <2>2. u \in Members /\ date \in 0..MaxMessages
    BY <2>1, WorkOf DEF DateDocs
  <2>3. marks \in MarkDocs /\ marks.cleared = date /\ marks.cleared <= marks.read
    BY <2>2 DEF MarkDocs
  <2> HIDE DEF marks, u
  <2>4. /\ mine' \in [Members -> MarkDocs]
        /\ \A v \in Members : mine'[v] = mine[v] \/ mine'[v] = marks
    BY <2>1, <2>2, <2>3 DEF MessagesTyped
  <2>5. mreq' \in [MessageRequests -> MessageWork] /\ mreq'[r].st = "idle"
        /\ \A s \in MessageRequests : s # r => mreq'[s] = mreq[s]
    BY <1>0, <2>1, Stepped, StepTyped
  <2>6. MessagesTyped'
    BY <2>1, <2>4, <2>5 DEF MessagesTyped
  <2>7. ReadPastCleared => ReadPastCleared'
    BY <2>1, <2>3, <2>4 DEF ReadPastCleared
  <2> QED BY <2>1, <2>3, <2>4, <2>5, <2>6, <2>7
<1>4. CASE \E u \in Members : \/ MarkConversationRead(r, u) \/ MarkConversationUnread(r, u)
                              \/ ClearConversationForMe(r, u)
  <2>1. /\ MessagesTyped'
        /\ UNCHANGED <<clock, msg, conv, mine, stored, stirred, reread, again>>
        /\ mreq[r].st = "idle" /\ mreq'[r].st \in {"read", "clear"}
        /\ \A s \in MessageRequests : s # r => mreq'[s] = mreq[s]
        /\ mreq'[r].st = "clear" => mreq'[r].date = clock
    BY <1>1, <1>4
  <2> QED BY <2>1 DEF ReadPastCleared
<1> QED BY <1>2, <1>3, <1>4 DEF Marking

LEMMA HidingTyped ==
  ASSUME MessagesTyped, NEW u \in Members, NEW m \in Ids, HideMessage(u, m)
  PROVE  MessagesTyped'
<1> DEFINE doc == [msg[m] EXCEPT !.hiddenBy = @ \cup {u}]
<1>1. msg[m] \in MsgDocs BY DEF MessagesTyped
<1>2. doc \in MsgDocs BY <1>1 DEF MsgDocs
<1>3. msg' = [msg EXCEPT ![m] = doc] BY DEF HideMessage
<1> HIDE DEF doc
<1>4. msg' \in [Ids -> MsgDocs] BY <1>2, <1>3 DEF MessagesTyped
<1> QED BY <1>4 DEF HideMessage, MessagesTyped

-----------------------------------------------------------------------------
(* What becomes of a message: it is inserted once and never comes back,    *)
(* and what is gone has no content.                                        *)
Empty(doc) == doc.st # "live" => doc.text = "" /\ doc.file = NoFile

GoesOn(old, new) ==
  /\ old.st # "none" => new.st # "none"
  /\ old.st = "none" => new.st \in {"none", "live"}
  /\ old.st \in {"deleted", "purged"} => new.st \in {"deleted", "purged"}
  /\ old.st = "purged" => new.st = "purged"
  /\ old.st = "live" /\ old.text = "edited" /\ new.st = "live" => new.text = "edited"
  /\ old.st # "none" => new.file \in {old.file, NoFile}
  /\ Empty(new)

LEMMA SameGoesOn ==
  ASSUME DeletedStaysEmpty
  PROVE  \A m \in Ids : GoesOn(msg[m], msg[m])
BY DEF DeletedStaysEmpty, GoesOn, Empty

LEMMA OneGoesOn ==
  ASSUME MessagesTyped, DeletedStaysEmpty, NEW m \in Ids, NEW doc,
         msg' = [msg EXCEPT ![m] = doc], GoesOn(msg[m], doc)
  PROVE  \A n \in Ids : GoesOn(msg[n], msg'[n])
<1>1. msg'[m] = doc /\ \A n \in Ids : n # m => msg'[n] = msg[n]
  BY DEF MessagesTyped
<1> QED BY <1>1, SameGoesOn

LEMMA InsertDoes ==
  ASSUME MessagesTyped, NEW r \in MessageRequests, InsertMessage(r)
  PROVE  /\ mreq[r].id \in Ids /\ mreq[r].file \in Uploads
         /\ msg'[mreq[r].id].st = "live" /\ msg'[mreq[r].id].file = mreq[r].file
         /\ msg'[mreq[r].id].text = "sent"
         /\ \A n \in Ids : n # mreq[r].id => msg'[n] = msg[n]
<1>1. mreq[r] \in InsertDocs BY WorkOf DEF InsertMessage, On
<1> QED BY <1>1 DEF InsertMessage, MessagesTyped, InsertDocs

LEMMA EditDoes ==
  ASSUME MessagesTyped, NEW r \in MessageRequests, EditText(r)
  PROVE  /\ mreq[r].id \in Ids
         /\ \A n \in Ids : n # mreq[r].id => msg'[n] = msg[n]
         /\ msg'[mreq[r].id].st = msg[mreq[r].id].st
         /\ msg'[mreq[r].id].file = msg[mreq[r].id].file
         /\ msg[mreq[r].id].st = "live" => msg'[mreq[r].id].text = "edited"
         /\ msg[mreq[r].id].st # "live" => msg'[mreq[r].id].text = msg[mreq[r].id].text
<1>1. mreq[r] \in EditDocs BY WorkOf DEF EditText, On
<1>2. mreq[r].id \in Ids BY <1>1 DEF EditDocs
<1> DEFINE old == msg[mreq[r].id]
           new == [old EXCEPT !.text = IF old.st = "live" THEN "edited" ELSE @]
<1>3. old \in MsgDocs BY <1>2 DEF MessagesTyped
<1>4. /\ new.st = old.st /\ new.file = old.file
      /\ new.text = IF old.st = "live" THEN "edited" ELSE old.text
  BY <1>3 DEF MsgDocs
<1>5. msg' = [msg EXCEPT ![mreq[r].id] = new] BY DEF EditText
<1> HIDE DEF new
<1>6. msg'[mreq[r].id] = new /\ \A n \in Ids : n # mreq[r].id => msg'[n] = msg[n]
  BY <1>2, <1>5 DEF MessagesTyped
<1> QED BY <1>2, <1>4, <1>6

LEMMA DeleteDoes ==
  ASSUME MessagesTyped, NEW r \in MessageRequests, DeleteMessage(r)
  PROVE  /\ mreq[r].id \in Ids /\ mreq[r].file \in Uploads
         /\ \A n \in Ids : n # mreq[r].id => msg'[n] = msg[n]
         /\ msg[mreq[r].id].st = "live" =>
              /\ msg'[mreq[r].id].st = "deleted" /\ msg'[mreq[r].id].text = ""
              /\ msg'[mreq[r].id].file = NoFile
         /\ msg[mreq[r].id].st # "live" => msg'[mreq[r].id] = msg[mreq[r].id]
         /\ mreq'[r].st = "deleted" /\ mreq'[r].id = mreq[r].id /\ mreq'[r].file = mreq[r].file
<1>1. mreq[r] \in DeleteDocs BY WorkOf DEF DeleteMessage, On
<1>2. mreq[r].id \in Ids /\ mreq[r].file \in Uploads BY <1>1 DEF DeleteDocs
<1> DEFINE old == msg[mreq[r].id]
           new == [old EXCEPT !.st = "deleted", !.text = "", !.file = NoFile,
                              !.reactions = <<>>]
           then == [mreq[r] EXCEPT !.st = "deleted"]
<1>3. old \in MsgDocs BY <1>2 DEF MessagesTyped
<1>4. new.st = "deleted" /\ new.text = "" /\ new.file = NoFile BY <1>3 DEF MsgDocs
<1>5. msg' = [msg EXCEPT ![mreq[r].id] = IF old.st = "live" THEN new ELSE old]
  BY DEF DeleteMessage
<1> HIDE DEF new
<1>6. /\ msg'[mreq[r].id] = IF old.st = "live" THEN new ELSE old
      /\ \A n \in Ids : n # mreq[r].id => msg'[n] = msg[n]
  BY <1>2, <1>5 DEF MessagesTyped
<1>7. then.st = "deleted" /\ then.id = mreq[r].id /\ then.file = mreq[r].file
  BY <1>1 DEF DeleteDocs
<1>8. mreq'[r] = then BY Stepped DEF DeleteMessage
<1> HIDE DEF then
<1> QED BY <1>2, <1>4, <1>6, <1>7, <1>8

LEMMA ReactDoes ==
  ASSUME MessagesTyped, NEW r \in MessageRequests, NEW m \in Ids,
         NEW entries, NEW q, React(r, m, entries, q)
  PROVE  \A n \in Ids : /\ msg'[n].st = msg[n].st /\ msg'[n].text = msg[n].text
                        /\ msg'[n].file = msg[n].file /\ msg'[n].hiddenBy = msg[n].hiddenBy
<1> DEFINE new == [msg[m] EXCEPT !.reactions = entries]
<1>1. msg[m] \in MsgDocs BY DEF MessagesTyped
<1>2. /\ new.st = msg[m].st /\ new.text = msg[m].text /\ new.file = msg[m].file
      /\ new.hiddenBy = msg[m].hiddenBy
  BY <1>1 DEF MsgDocs
<1>3. msg' = [msg EXCEPT ![m] = new] BY DEF React
<1> HIDE DEF new
<1>4. msg'[m] = new /\ \A n \in Ids : n # m => msg'[n] = msg[n]
  BY <1>3 DEF MessagesTyped
<1> QED BY <1>2, <1>4

(* Reactions change neither the messages' states nor anything else that    *)
(* the other invariants look at.                                           *)
LEMMA ReactingDoes ==
  ASSUME MessagesTyped, NEW r \in MessageRequests, Reacting(r)
  PROVE  /\ \A n \in Ids : /\ msg'[n].st = msg[n].st /\ msg'[n].text = msg[n].text
                           /\ msg'[n].file = msg[n].file /\ msg'[n].hiddenBy = msg[n].hiddenBy
         /\ UNCHANGED <<clock, conv, mine, stored, stirred, reread, again>>
         /\ mreq'[r].st \in {"idle", "push", "join", "pull", "prune"}
         /\ mreq[r].st \in {"idle", "push", "join", "pull", "prune"}
         /\ \A s \in MessageRequests : s # r => mreq'[s] = mreq[s]
<1>1. ASSUME NEW u \in Members, NEW m \in Ids, FindToReact(r, u, m)
      PROVE  /\ msg' = msg
             /\ UNCHANGED <<clock, conv, mine, stored, stirred, reread, again>>
             /\ mreq'[r].st \in {"idle", "push", "join", "pull", "prune"}
             /\ mreq[r].st \in {"idle", "push", "join", "pull", "prune"}
             /\ \A s \in MessageRequests : s # r => mreq'[s] = mreq[s]
  <2>1. \E st \in {"push", "pull", "join"} : Step(r, [st |-> st, who |-> u, id |-> m])
    BY <1>1 DEF FindToReact, Starts
  <2>2. PICK st \in {"push", "pull", "join"} : Step(r, [st |-> st, who |-> u, id |-> m])
    BY <2>1
  <2>3. mreq'[r] = [st |-> st, who |-> u, id |-> m]
        /\ \A s \in MessageRequests : s # r => mreq'[s] = mreq[s]
    BY <2>2, Stepped
  <2>4. mreq[r].st = "idle" BY <1>1 DEF FindToReact, Starts, Free
  <2> QED BY <1>1, <2>3, <2>4 DEF FindToReact
<1>2. ASSUME NEW entries, NEW q, React(r, mreq[r].id, entries, q),
             mreq[r].st \in {"push", "join", "pull", "prune"},
             q = Free \/ \E st \in {"join", "prune"} : q = [mreq[r] EXCEPT !.st = st]
      PROVE  /\ \A n \in Ids : /\ msg'[n].st = msg[n].st /\ msg'[n].text = msg[n].text
                               /\ msg'[n].file = msg[n].file
                               /\ msg'[n].hiddenBy = msg[n].hiddenBy
             /\ UNCHANGED <<clock, conv, mine, stored, stirred, reread, again>>
             /\ mreq'[r].st \in {"idle", "push", "join", "pull", "prune"}
             /\ \A s \in MessageRequests : s # r => mreq'[s] = mreq[s]
  <2>1. mreq[r] \in PersonDocs BY <1>2, WorkOf
  <2>2. mreq[r].id \in Ids BY <2>1 DEF PersonDocs
  <2>3. q.st \in {"idle", "join", "prune"} BY <1>2, <2>1 DEF PersonDocs, Free
  <2>4. mreq'[r] = q /\ \A s \in MessageRequests : s # r => mreq'[s] = mreq[s]
    BY <1>2, Stepped DEF React
  <2>5. UNCHANGED <<clock, conv, mine, stored, stirred, reread, again>> BY <1>2 DEF React
  <2> QED BY <1>2, <2>2, <2>3, <2>4, <2>5, ReactDoes
<1>3. \/ PushReaction(r) \/ JoinReaction(r) \/ PullReaction(r) \/ PruneReactions(r)
      \/ \E u \in Members, m \in Ids : FindToReact(r, u, m)
  BY DEF Reacting
<1>4. CASE PushReaction(r)
  <2>1. mreq[r].st = "push" BY <1>4 DEF PushReaction, On
  <2> DEFINE then == [mreq[r] EXCEPT !.st = "join"]
  <2>2. \/ React(r, mreq[r].id, <<{mreq[r].who}>>, Free)
        \/ React(r, mreq[r].id, msg[mreq[r].id].reactions, then)
    BY <1>4 DEF PushReaction
  <2> QED BY <2>1, <2>2, <1>2
<1>5. CASE JoinReaction(r)
  <2>1. mreq[r].st = "join" BY <1>5 DEF JoinReaction, On
  <2>2. \E entries : React(r, mreq[r].id, entries, Free)
    BY <1>5 DEF JoinReaction
  <2> QED BY <2>1, <2>2, <1>2
<1>6. CASE PullReaction(r)
  <2>1. mreq[r].st = "pull" BY <1>6 DEF PullReaction, On
  <2> DEFINE then == [mreq[r] EXCEPT !.st = "prune"]
  <2>2. \E entries : React(r, mreq[r].id, entries, then)
    BY <1>6 DEF PullReaction
  <2> QED BY <2>1, <2>2, <1>2
<1>7. CASE PruneReactions(r)
  <2>1. mreq[r].st = "prune" BY <1>7 DEF PruneReactions, On
  <2>2. React(r, mreq[r].id, Peopled(msg[mreq[r].id].reactions), Free)
    BY <1>7 DEF PruneReactions
  <2> QED BY <2>1, <2>2, <1>2
<1> QED BY <1>1, <1>3, <1>4, <1>5, <1>6, <1>7

LEMMA PurgeDoes ==
  ASSUME MessagesTyped, NEW r \in MessageRequests, NEW k \in Ids, PurgeMessages(r, k)
  PROVE  /\ \A m \in Ids :
              IF m \in Inserted /\ m <= k
              THEN msg'[m].st = "purged" /\ msg'[m].text = "" /\ msg'[m].file = NoFile
              ELSE msg'[m] = msg[m]
         /\ mreq[r].st = "idle" /\ mreq'[r].st = "purged"
         /\ \A f \in mreq'[r].files :
              f # NoFile /\ \E m \in Inserted : m <= k /\ f = msg[m].file
         /\ \A s \in MessageRequests : s # r => mreq'[s] = mreq[s]
         /\ UNCHANGED <<clock, conv, mine, stored, stirred, reread, again>>
<1> DEFINE old == {m \in Inserted : m <= k}
           files == {msg[m].file : m \in old} \ {NoFile}
           gone(m) == [msg[m] EXCEPT !.st = "purged", !.text = "", !.file = NoFile,
                                     !.reactions = <<>>, !.hiddenBy = {}]
<1>1. \A m \in Ids : msg[m] \in MsgDocs BY DEF MessagesTyped
<1>2. \A m \in Ids : gone(m).st = "purged" /\ gone(m).text = "" /\ gone(m).file = NoFile
  BY <1>1 DEF MsgDocs
<1>3. msg' = [m \in Ids |-> IF m \in old THEN gone(m) ELSE msg[m]]
  BY DEF PurgeMessages
<1>4. mreq[r] = Free /\ Step(r, [st |-> "purged", files |-> files])
  BY DEF PurgeMessages, Starts
<1>5. /\ mreq'[r] = [st |-> "purged", files |-> files]
      /\ \A s \in MessageRequests : s # r => mreq'[s] = mreq[s]
  BY <1>4, Stepped
<1>6. \A f \in files : f # NoFile /\ \E m \in Inserted : m <= k /\ f = msg[m].file
  OBVIOUS
<1>7. UNCHANGED <<clock, conv, mine, stored, stirred, reread, again>> BY DEF PurgeMessages
<1> HIDE DEF gone, files
<1>8. \A m \in Ids : IF m \in Inserted /\ m <= k
                     THEN msg'[m].st = "purged" /\ msg'[m].text = "" /\ msg'[m].file = NoFile
                     ELSE msg'[m] = msg[m]
  BY <1>2, <1>3
<1>9. mreq[r].st = "idle" /\ mreq'[r].st = "purged" /\ mreq'[r].files = files
  BY <1>4, <1>5 DEF Free
<1>10. \A f \in mreq'[r].files :
         f # NoFile /\ \E m \in Inserted : m <= k /\ f = msg[m].file
  BY <1>6, <1>9
<1> QED BY <1>5, <1>7, <1>8, <1>9, <1>10

LEMMA HideDoes ==
  ASSUME MessagesTyped, NEW u \in Members, NEW m \in Ids, HideMessage(u, m)
  PROVE  /\ \A n \in Ids : /\ msg'[n].st = msg[n].st /\ msg'[n].text = msg[n].text
                           /\ msg'[n].file = msg[n].file
         /\ UNCHANGED <<clock, conv, mine, stored, mreq, stirred, reread, again>>
<1> DEFINE new == [msg[m] EXCEPT !.hiddenBy = @ \cup {u}]
<1>1. msg[m] \in MsgDocs BY DEF MessagesTyped
<1>2. new.st = msg[m].st /\ new.text = msg[m].text /\ new.file = msg[m].file
  BY <1>1 DEF MsgDocs
<1>3. msg' = [msg EXCEPT ![m] = new] BY DEF HideMessage
<1> HIDE DEF new
<1>4. msg'[m] = new /\ \A n \in Ids : n # m => msg'[n] = msg[n]
  BY <1>3 DEF MessagesTyped
<1> QED BY <1>2, <1>4 DEF HideMessage

(* The steps of a request that write no message.                           *)
LEMMA WritesNoMessage ==
  ASSUME NEW r \in MessageRequests,
         \/ \E u \in Members, f \in Attachable : CheckSend(r, u, f)
         \/ StampMessage(r) \/ AnnounceMessage(r)
         \/ \E m \in Ids : FindToEdit(r, m)
         \/ FindLatestEdited(r) \/ EditPreview(r)
         \/ \E m \in Ids : FindToDelete(r, m)
         \/ DeletePreview(r) \/ DestroyUploads(r)
         \/ PurgeUploads(r) \/ FindLatest(r) \/ RefreshPreview(r)
         \/ MessageRequestEnds(r)
  PROVE  msg' = msg
BY DEF CheckSend, StampMessage, AnnounceMessage, FindToEdit, FindLatestEdited, EditPreview,
       FindToDelete, DeletePreview, DestroyUploads, PurgeUploads, FindLatest, RefreshPreview,
       MessageRequestEnds

MessageStep(r) ==
  Writing(r) \/ Reacting(r) \/ Purging(r) \/ Marking(r) \/ MessageRequestEnds(r)

LEMMA DocsGoOn ==
  ASSUME MessagesTyped, DeletedStaysEmpty, Numbered, NEW r \in MessageRequests, MessageStep(r)
  PROVE  \A m \in Ids : GoesOn(msg[m], msg'[m])
<1>0. \A m \in Ids : Empty(msg[m]) BY DEF DeletedStaysEmpty, Empty
<1>1. CASE msg' = msg BY <1>1, SameGoesOn
<1>2. CASE InsertMessage(r)
  <2>1. mreq[r].id \in Ids /\ msg[mreq[r].id].st = "none"
    BY <1>2, InsertDoes DEF Numbered, InsertMessage
  <2>2. GoesOn(msg[mreq[r].id], msg'[mreq[r].id]) BY <1>2, <2>1, InsertDoes DEF GoesOn, Empty
  <2> QED BY <1>2, <2>2, InsertDoes, SameGoesOn
<1>3. CASE EditText(r)
  <2>1. GoesOn(msg[mreq[r].id], msg'[mreq[r].id])
    BY <1>3, <1>0, EditDoes, ZenonT(60) DEF GoesOn, Empty
  <2> QED BY <1>3, <2>1, EditDoes, SameGoesOn
<1>4. CASE DeleteMessage(r)
  <2>1. CASE msg[mreq[r].id].st = "live"
    <3>1. GoesOn(msg[mreq[r].id], msg'[mreq[r].id])
      BY <1>4, <2>1, DeleteDoes DEF GoesOn, Empty
    <3> QED BY <1>4, <3>1, DeleteDoes, SameGoesOn
  <2>2. CASE msg[mreq[r].id].st # "live"
    BY <1>4, <2>2, DeleteDoes, SameGoesOn, ZenonT(60)
  <2> QED BY <2>1, <2>2
<1>5. CASE Reacting(r)
  BY <1>0, <1>5, ReactingDoes, ZenonT(60) DEF GoesOn, Empty
<1>6. ASSUME NEW k \in Ids, PurgeMessages(r, k) PROVE \A m \in Ids : GoesOn(msg[m], msg'[m])
  <2> TAKE m \in Ids
  <2>1. CASE m \in Inserted /\ m <= k
    <3>1. msg'[m].st = "purged" /\ msg'[m].text = "" /\ msg'[m].file = NoFile
      BY <1>6, <2>1, PurgeDoes
    <3>2. msg[m].st \in {"live", "deleted"} BY <2>1 DEF Inserted
    <3> QED BY <3>1, <3>2 DEF GoesOn, Empty
  <2>2. CASE ~(m \in Inserted /\ m <= k)
    <3>1. msg'[m] = msg[m] BY <1>6, <2>2, PurgeDoes, ZenonT(60)
    <3> QED BY <3>1, SameGoesOn
  <2> QED BY <2>1, <2>2
<1>7. CASE Marking(r) BY <1>1, <1>7, MarkingDoes
<1> QED
  BY <1>1, <1>2, <1>3, <1>4, <1>5, <1>6, <1>7, WritesNoMessage DEF MessageStep, Writing, Purging

LEMMA GoesOnEmpty ==
  ASSUME \A m \in Ids : GoesOn(msg[m], msg'[m])
  PROVE  DeletedStaysEmpty'
BY DEF GoesOn, Empty, DeletedStaysEmpty

-----------------------------------------------------------------------------
(* What a request is at before and after a step of it.                     *)
LEMMA StepsTo ==
  ASSUME MessagesTyped, NEW r \in MessageRequests
  PROVE  /\ \A u, f : CheckSend(r, u, f) =>
              /\ mreq[r].st = "idle" /\ mreq'[r].st = "send" /\ mreq'[r].file = f
         /\ StampMessage(r) =>
              /\ mreq[r].st = "send" /\ mreq'[r].st = "insert"
              /\ mreq'[r].file = mreq[r].file /\ mreq'[r].id = clock'
         /\ InsertMessage(r) =>
              /\ mreq[r].st = "insert" /\ mreq'[r].st = "announce" /\ mreq'[r].id = mreq[r].id
         /\ AnnounceMessage(r) => mreq[r].st = "announce" /\ mreq'[r].st = "idle"
         /\ \A m : FindToEdit(r, m) =>
              mreq[r].st = "idle" /\ mreq'[r].st = "edit" /\ mreq'[r].id = m
         /\ EditText(r) =>
              mreq[r].st = "edit" /\ mreq'[r].st = "edited" /\ mreq'[r].id = mreq[r].id
         /\ FindLatestEdited(r) =>
              /\ mreq[r].st = "edited"
              /\ \/ conv.at = mreq[r].id /\ mreq'[r].st = "preview" /\ mreq'[r].id = mreq[r].id
                 \/ conv.at # mreq[r].id /\ mreq'[r].st = "idle"
         /\ EditPreview(r) => mreq[r].st = "preview" /\ mreq'[r].st = "idle"
         /\ \A m : FindToDelete(r, m) =>
              /\ mreq[r].st = "idle" /\ mreq'[r].st = "delete" /\ mreq'[r].id = m
              /\ mreq'[r].file = msg[m].file
         /\ DeleteMessage(r) => mreq[r].st = "delete"
         /\ DeletePreview(r) =>
              /\ mreq[r].st = "deleted" /\ mreq'[r].st = "unlink"
              /\ mreq'[r].files = {mreq[r].file} \ {NoFile}
         /\ DestroyUploads(r) => mreq[r].st = "unlink" /\ mreq'[r].st = "idle"
         /\ PurgeUploads(r) => mreq[r].st = "purged" /\ mreq'[r].st = "refresh"
         /\ FindLatest(r) =>
              /\ mreq[r].st = "refresh" /\ mreq'[r].st = "rewrite"
              /\ mreq'[r].last = PreviewOf(Newest(Inserted))
              /\ mreq'[r].deleted =
                   (Newest(Inserted) # 0 /\ msg[Newest(Inserted)].st = "deleted")
         /\ RefreshPreview(r) => mreq[r].st = "rewrite" /\ mreq'[r].st = "idle"
         /\ MessageRequestEnds(r) => mreq'[r].st = "idle"
<1> USE DEF Starts, On, Free
<1>1. \A u, f : CheckSend(r, u, f) =>
           /\ mreq[r].st = "idle" /\ mreq'[r].st = "send" /\ mreq'[r].file = f
  BY Stepped DEF CheckSend
<1>2. StampMessage(r) =>
           /\ mreq[r].st = "send" /\ mreq'[r].st = "insert"
           /\ mreq'[r].file = mreq[r].file /\ mreq'[r].id = clock'
  BY Stepped DEF StampMessage
<1>3. InsertMessage(r) =>
           /\ mreq[r].st = "insert" /\ mreq'[r].st = "announce" /\ mreq'[r].id = mreq[r].id
  BY Stepped DEF InsertMessage
<1>4. AnnounceMessage(r) => mreq[r].st = "announce" /\ mreq'[r].st = "idle"
  BY Stepped DEF AnnounceMessage
<1>5. \A m : FindToEdit(r, m) =>
           mreq[r].st = "idle" /\ mreq'[r].st = "edit" /\ mreq'[r].id = m
  BY Stepped DEF FindToEdit
<1>6. EditText(r) =>
           mreq[r].st = "edit" /\ mreq'[r].st = "edited" /\ mreq'[r].id = mreq[r].id
  BY Stepped DEF EditText
<1>7. FindLatestEdited(r) =>
           /\ mreq[r].st = "edited"
           /\ \/ conv.at = mreq[r].id /\ mreq'[r].st = "preview" /\ mreq'[r].id = mreq[r].id
              \/ conv.at # mreq[r].id /\ mreq'[r].st = "idle"
  BY Stepped DEF FindLatestEdited
<1>8. EditPreview(r) => mreq[r].st = "preview" /\ mreq'[r].st = "idle"
  BY Stepped DEF EditPreview
<1>9. \A m : FindToDelete(r, m) =>
           /\ mreq[r].st = "idle" /\ mreq'[r].st = "delete" /\ mreq'[r].id = m
           /\ mreq'[r].file = msg[m].file
  BY Stepped DEF FindToDelete
<1>10. DeleteMessage(r) => mreq[r].st = "delete"
  BY Stepped DEF DeleteMessage
<1>11. DeletePreview(r) =>
           /\ mreq[r].st = "deleted" /\ mreq'[r].st = "unlink"
           /\ mreq'[r].files = {mreq[r].file} \ {NoFile}
  BY Stepped DEF DeletePreview
<1>12. DestroyUploads(r) => mreq[r].st = "unlink" /\ mreq'[r].st = "idle"
  BY Stepped DEF DestroyUploads
<1>13. PurgeUploads(r) => mreq[r].st = "purged" /\ mreq'[r].st = "refresh"
  BY Stepped DEF PurgeUploads
<1>14. FindLatest(r) =>
           /\ mreq[r].st = "refresh" /\ mreq'[r].st = "rewrite"
           /\ mreq'[r].last = PreviewOf(Newest(Inserted))
           /\ mreq'[r].deleted =
                (Newest(Inserted) # 0 /\ msg[Newest(Inserted)].st = "deleted")
  BY Stepped DEF FindLatest
<1>15. RefreshPreview(r) => mreq[r].st = "rewrite" /\ mreq'[r].st = "idle"
  BY Stepped DEF RefreshPreview
<1>16. MessageRequestEnds(r) => mreq'[r].st = "idle"
  BY Stepped DEF MessageRequestEnds
<1> QED BY <1>1, <1>2, <1>3, <1>4, <1>5, <1>6, <1>7, <1>8, <1>9, <1>10, <1>11, <1>12, <1>13, <1>14, <1>15, <1>16

LEMMA OthersWait ==
  ASSUME MessagesTyped, NEW r \in MessageRequests, MessageStep(r)
  PROVE  \A s \in MessageRequests : s # r => mreq'[s] = mreq[s]
<1>1. ASSUME NEW q, Step(r, q) PROVE \A s \in MessageRequests : s # r => mreq'[s] = mreq[s]
  BY <1>1, Stepped, SMTT(60)
<1>2. CASE Writing(r)
  BY <1>1, <1>2 DEF Writing, CheckSend, StampMessage, InsertMessage, AnnounceMessage, FindToEdit,
     EditText, FindLatestEdited, EditPreview, FindToDelete, DeleteMessage, DeletePreview,
     DestroyUploads, Starts
<1>3. CASE Purging(r)
  BY <1>1, <1>3 DEF Purging, PurgeMessages, PurgeUploads, FindLatest, RefreshPreview, Starts
<1>4. CASE MessageRequestEnds(r)
  BY <1>1, <1>4 DEF MessageRequestEnds
<1> QED BY <1>2, <1>3, <1>4, ReactingDoes, MarkingDoes DEF MessageStep

(* Only a message that is stamped is held anew, and only one that is       *)
(* inserted is held otherwise than before.                                 *)
LEMMA HeldBefore ==
  ASSUME MessagesTyped, NEW r \in MessageRequests, MessageStep(r),
         ~StampMessage(r), ~InsertMessage(r)
  PROVE  ~Held(r)'
<1>1. CASE Reacting(r)
  <2>1. mreq'[r].st \notin {"insert", "announce"} BY <1>1, ReactingDoes
  <2> QED BY <2>1 DEF Held
<1>2. ASSUME NEW k \in Ids, PurgeMessages(r, k) PROVE ~Held(r)'
  BY <1>2, PurgeDoes DEF Held
<1>3. CASE DeleteMessage(r) BY <1>3, DeleteDoes DEF Held
<1>4. CASE EditText(r) BY <1>4, StepsTo DEF Held
<1>5. CASE FindLatestEdited(r) BY <1>5, StepsTo DEF Held
<1>6. CASE Marking(r)
  <2>1. mreq'[r].st \notin {"insert", "announce"} BY <1>6, MarkingDoes
  <2> QED BY <2>1 DEF Held
<1> QED
  BY <1>1, <1>2, <1>3, <1>4, <1>5, <1>6, StepsTo DEF MessageStep, Writing, Purging, Held

(* What is about to be cleared has a date already.                         *)
LEMMA ClearsDated ==
  ASSUME MessagesTyped, Numbered, NEW r \in MessageRequests, MessageStep(r)
  PROVE  \A s \in MessageRequests : On(s, "clear")' => mreq'[s].date <= clock
<1>1. \A s \in MessageRequests : s # r => mreq'[s] = mreq[s]
  BY OthersWait
<1>2. clock <= clock
  BY DEF MessagesTyped
<1>3. CASE Marking(r)
  <2>1. mreq'[r].st = "clear" => mreq'[r].date = clock
    BY <1>3, MarkingDoes
  <2> QED BY <1>1, <1>2, <2>1 DEF Numbered, On
<1>4. ASSUME mreq'[r].st # "clear"
      PROVE  \A s \in MessageRequests : On(s, "clear")' => mreq'[s].date <= clock
  BY <1>1, <1>4 DEF Numbered, On
<1>5. ASSUME NEW k \in Ids, PurgeMessages(r, k) PROVE mreq'[r].st # "clear"
  BY <1>5, PurgeDoes
<1>6. CASE Reacting(r) BY <1>4, <1>6, ReactingDoes
<1>7. CASE DeleteMessage(r) BY <1>4, <1>7, DeleteDoes
<1>8. CASE FindLatestEdited(r) BY <1>4, <1>8, StepsTo
<1> QED
  BY <1>3, <1>4, <1>5, <1>6, <1>7, <1>8, StepsTo DEF MessageStep, Writing, Purging

LEMMA NumberedKept ==
  ASSUME MessagesTyped, Numbered,
         clock' = clock, conv'.at <= clock,
         \A s \in MessageRequests : On(s, "clear")' => mreq'[s].date <= clock,
         \A u \in Members : mine'[u].cleared <= clock,
         \A m \in Ids : (msg'[m].st = "none") <=> (msg[m].st = "none"),
         \A s \in MessageRequests : Held(s)' => mreq'[s] = mreq[s]
  PROVE  Numbered'
<1>1. \A s \in MessageRequests : Held(s)' => Held(s) /\ mreq'[s] = mreq[s] BY DEF Held
<1>2. \A s \in MessageRequests : On(s, "insert")' => Held(s)' /\ On(s, "insert") /\ mreq'[s] = mreq[s]
  BY DEF On, Held
<1>3. \A s \in MessageRequests : On(s, "announce")' => Held(s)' /\ On(s, "announce") /\ mreq'[s] = mreq[s]
  BY DEF On, Held
<1>4. \A s \in MessageRequests : Held(s) => mreq[s].id \in Ids
  BY WorkOf DEF Held, InsertDocs, PersonDocs
<1>5. \A m \in Ids : m > clock' => msg'[m].st = "none" BY DEF Numbered
<1>6. \A s \in MessageRequests : Held(s)' => mreq'[s].id <= clock' BY <1>1 DEF Numbered
<1>7. \A s \in MessageRequests : On(s, "insert")' => msg'[mreq'[s].id].st = "none"
  BY <1>1, <1>2, <1>4 DEF Numbered
<1>8. \A s \in MessageRequests : On(s, "announce")' => msg'[mreq'[s].id].st # "none"
  BY <1>1, <1>3, <1>4 DEF Numbered
<1>9. \A s, x \in MessageRequests :
        Held(s)' /\ Held(x)' /\ mreq'[s].id = mreq'[x].id => s = x
  BY <1>1 DEF Numbered
<1> QED BY <1>5, <1>6, <1>7, <1>8, <1>9 DEF Numbered

LEMMA NumberedStep ==
  ASSUME MessagesTyped, DeletedStaysEmpty, Numbered, NEW r \in MessageRequests, MessageStep(r)
  PROVE  Numbered'
<1>0. /\ \A s \in MessageRequests : s # r => mreq'[s] = mreq[s]
      /\ \A m \in Ids : GoesOn(msg[m], msg'[m])
      /\ \A s \in MessageRequests : On(s, "clear")' => mreq'[s].date <= clock
  BY OthersWait, DocsGoOn, ClearsDated
<1>1. CASE StampMessage(r)
  <2>1. /\ mreq'[r].st = "insert" /\ mreq'[r].id = clock + 1 /\ clock' = clock + 1
        /\ clock < MaxMessages
        /\ UNCHANGED <<msg, conv, mine>>
    BY <1>1, StepsTo DEF StampMessage
  <2>2. clock \in 0..MaxMessages /\ clock + 1 \in Ids /\ conv.at \in 0..MaxMessages
        /\ \A u \in Members : mine[u].cleared \in 0..MaxMessages
    BY <2>1, MessagesAssumption DEF MessagesTyped, Ids, ConvDocs, MarkDocs
  <2>3. \A s \in MessageRequests : Held(s) => mreq[s].id \in 0..MaxMessages
    BY WorkOf, MessagesAssumption DEF Held, InsertDocs, PersonDocs, Ids
  <2>4. \A m \in Ids : m \in Int BY DEF Ids
  <2>5. \A m \in Ids : m > clock' => msg'[m].st = "none" BY <2>1, <2>2, <2>4 DEF Numbered
  <2>6. \A s \in MessageRequests :
          \/ s = r /\ Held(s)' /\ mreq'[s].id = clock + 1
          \/ s # r /\ (Held(s)' => Held(s)) /\ mreq'[s] = mreq[s]
    BY <1>0, <2>1 DEF Held
  <2>7. \A s \in MessageRequests : Held(s)' => mreq'[s].id <= clock'
    BY <2>1, <2>2, <2>3, <2>6 DEF Numbered
  <2>8. \A s, x \in MessageRequests :
          Held(s)' /\ Held(x)' /\ mreq'[s].id = mreq'[x].id => s = x
    BY <2>1, <2>2, <2>3, <2>6 DEF Numbered
  <2>9. \A s \in MessageRequests : On(s, "insert")' => msg'[mreq'[s].id].st = "none"
    BY <1>0, <2>1, <2>2 DEF Numbered, On
  <2>10. \A s \in MessageRequests : On(s, "announce")' => msg'[mreq'[s].id].st # "none"
    BY <1>0, <2>1 DEF Numbered, On
  <2>11. conv'.at <= clock' /\ \A u \in Members : mine'[u].cleared <= clock'
    BY <2>1, <2>2 DEF Numbered
  <2>12. \A s \in MessageRequests : On(s, "clear")' => mreq'[s].date <= clock'
    <3>1. \A s \in MessageRequests : On(s, "clear")' =>
            s # r /\ mreq'[s] = mreq[s] /\ mreq[s].date \in 0..MaxMessages
      BY <1>0, <2>1, WorkOf DEF On, DateDocs
    <3> QED BY <1>0, <2>1, <2>2, <3>1
  <2> QED BY <2>5, <2>7, <2>8, <2>9, <2>10, <2>11, <2>12 DEF Numbered
<1>2. CASE InsertMessage(r)
  <2>1. /\ mreq[r].st = "insert" /\ mreq'[r].st = "announce" /\ mreq'[r].id = mreq[r].id
        /\ UNCHANGED <<clock, conv, mine>>
    BY <1>2, StepsTo DEF InsertMessage
  <2>2. /\ mreq[r].id \in Ids /\ msg'[mreq[r].id].st = "live"
        /\ \A n \in Ids : n # mreq[r].id => msg'[n] = msg[n]
    BY <1>2, InsertDoes
  <2>3. \A s \in MessageRequests :
          (Held(s)' => Held(s)) /\ (Held(s) => mreq'[s].id = mreq[s].id)
    BY <1>0, <2>1 DEF Held
  <2>4. Held(r) /\ mreq[r].id <= clock BY <2>1 DEF Held, Numbered
  <2>5. \A s \in MessageRequests : s # r /\ Held(s) => mreq[s].id # mreq[r].id
    BY <2>4 DEF Numbered
  <2>6. \A m \in Ids : m > clock' => msg'[m].st = "none"
    <3> TAKE m \in Ids
    <3>1. HAVE m > clock'
    <3>2. m # mreq[r].id
      <4>1. clock \in Int /\ m \in Int BY DEF MessagesTyped, Ids
      <4> QED BY <3>1, <2>1, <2>4, <4>1
    <3> QED BY <3>1, <3>2, <2>1, <2>2 DEF Numbered
  <2>7. \A s \in MessageRequests : Held(s)' => mreq'[s].id <= clock'
    BY <2>1, <2>3 DEF Numbered
  <2>8. \A s, x \in MessageRequests :
          Held(s)' /\ Held(x)' /\ mreq'[s].id = mreq'[x].id => s = x
    BY <2>3 DEF Numbered
  <2>9. \A s \in MessageRequests : Held(s) => mreq[s].id \in Ids
    BY WorkOf DEF Held, InsertDocs, PersonDocs
  <2>10. \A s \in MessageRequests : On(s, "insert")' => msg'[mreq'[s].id].st = "none"
    BY <1>0, <2>1, <2>2, <2>5, <2>9 DEF Numbered, On, Held
  <2>11. \A s \in MessageRequests : On(s, "announce")' => msg'[mreq'[s].id].st # "none"
    BY <1>0, <2>1, <2>2, <2>5, <2>9 DEF Numbered, On, Held
  <2>12. conv'.at <= clock' /\ \A u \in Members : mine'[u].cleared <= clock'
    BY <2>1 DEF Numbered
  <2> QED BY <1>0, <2>1, <2>6, <2>7, <2>8, <2>10, <2>11, <2>12 DEF Numbered
<1>3. CASE ~StampMessage(r) /\ ~InsertMessage(r)
  <2>1. \A s \in MessageRequests : Held(s)' => mreq'[s] = mreq[s]
    <3>1. ~Held(r)' BY <1>3, HeldBefore
    <3> QED BY <1>0, <3>1
  <2>2. clock' = clock /\ \A m \in Ids : (msg'[m].st = "none") <=> (msg[m].st = "none")
    <3>1. CASE msg' = msg /\ clock' = clock BY <3>1
    <3>2. CASE EditText(r)
      <4>1. clock' = clock BY <3>2 DEF EditText
      <4> QED BY <3>2, <4>1, EditDoes
    <3>3. CASE DeleteMessage(r)
      <4>1. clock' = clock BY <3>3 DEF DeleteMessage
      <4> QED BY <3>3, <4>1, DeleteDoes
    <3>4. CASE Reacting(r) \/ Marking(r) BY <3>4, ReactingDoes, MarkingDoes
    <3>5. ASSUME NEW k \in Ids, PurgeMessages(r, k)
          PROVE  clock' = clock /\ \A m \in Ids : (msg'[m].st = "none") <=> (msg[m].st = "none")
      BY <3>5, PurgeDoes, ZenonT(60) DEF Inserted
    <3>6. clock' = clock \/ Reacting(r) \/ Marking(r) \/ StampMessage(r)
      BY ZenonT(60) DEF MessageStep, Writing, Purging, CheckSend, InsertMessage, AnnounceMessage, FindToEdit,
         EditText, FindLatestEdited, EditPreview, FindToDelete, DeleteMessage, DeletePreview,
         DestroyUploads, PurgeMessages, PurgeUploads, FindLatest, RefreshPreview,
         MessageRequestEnds
    <3> QED
      BY <1>3, <3>1, <3>2, <3>3, <3>4, <3>5, <3>6, WritesNoMessage DEF MessageStep, Writing, Purging
  <2>3. conv'.at <= clock /\ \A u \in Members : mine'[u].cleared <= clock
    <3>1. CASE AnnounceMessage(r)
      <4>1. Held(r) /\ conv'.at = mreq[r].id
        BY <3>1, StepsTo DEF Held, AnnounceMessage
      <4>2. \A u \in Members : mine'[u].cleared = mine[u].cleared
        <5>1. mreq[r].who \in Members /\ mreq[r].id \in 0..MaxMessages
          BY <3>1, StepsTo, WorkOf, MessagesAssumption DEF PersonDocs, Ids
        <5> QED BY <3>1, <5>1, ReadsUpTo DEF AnnounceMessage
      <4> QED BY <4>1, <4>2, SMTT(60) DEF Numbered
    <3>2. CASE conv'.at = conv.at /\ mine' = mine BY <3>2 DEF Numbered
    <3>3. CASE EditPreview(r)
      <4>1. conv'.at = conv.at BY <3>3 DEF EditPreview, MessagesTyped, ConvDocs
      <4> QED BY <3>3, <4>1, <3>2 DEF EditPreview
    <3>4. CASE DeletePreview(r)
      <4>1. conv'.at = conv.at BY <3>4 DEF DeletePreview, MessagesTyped, ConvDocs
      <4> QED BY <3>4, <4>1, <3>2 DEF DeletePreview
    <3>5. CASE RefreshPreview(r)
      <4>1. conv'.at = conv.at BY <3>5 DEF RefreshPreview, MessagesTyped, ConvDocs
      <4> QED BY <3>5, <4>1, <3>2 DEF RefreshPreview
    <3>6. CASE Reacting(r) BY <3>2, <3>6, ReactingDoes
    <3>7. CASE Marking(r)
      <4>1. conv' = conv /\ \A u \in Members :
              \/ mine'[u].cleared = mine[u].cleared
              \/ mreq[r].st = "clear" /\ mine'[u].cleared = mreq[r].date
        BY <3>7, MarkingDoes
      <4> QED BY <4>1 DEF Numbered, On
    <3> QED
      BY <3>1, <3>2, <3>3, <3>4, <3>5, <3>6, <3>7
      DEF MessageStep, Writing, Purging, CheckSend, StampMessage, InsertMessage, FindToEdit,
         EditText, FindLatestEdited, FindToDelete, DeleteMessage, DestroyUploads, PurgeMessages,
         PurgeUploads, FindLatest, MessageRequestEnds
  <2> QED BY <1>0, <2>1, <2>2, <2>3, NumberedKept
<1> QED BY <1>1, <1>2, <1>3

-----------------------------------------------------------------------------
(* What the writers of previews know stays so.                             *)
LEMMA WritersStep ==
  ASSUME MessagesTyped, DeletedStaysEmpty, Numbered, WritersKnow,
         NEW r \in MessageRequests, MessageStep(r)
  PROVE  WritersKnow'
<1> DEFINE Known(s) ==
      /\ mreq[s].st \in {"edit", "edited", "preview", "delete"} =>
           msg[mreq[s].id].st # "none"
      /\ mreq[s].st \in {"edited", "preview"} /\ msg[mreq[s].id].st = "live" =>
           msg[mreq[s].id].text = "edited"
      /\ mreq[s].st = "deleted" => msg[mreq[s].id].st \in {"deleted", "purged"}
      /\ mreq[s].st = "rewrite" /\ mreq[s].deleted =>
           /\ mreq[s].last.of \in Ids
           /\ msg[mreq[s].last.of].st \in {"deleted", "purged"}
<1>0. /\ \A s \in MessageRequests : s # r => mreq'[s] = mreq[s]
      /\ \A m \in Ids : GoesOn(msg[m], msg'[m])
  BY OthersWait, DocsGoOn
<1>1. \A s \in MessageRequests : Known(s) BY DEF WritersKnow
<1>2. \A s \in MessageRequests :
        mreq[s].st \in {"edit", "edited", "preview", "delete", "deleted"} => mreq[s].id \in Ids
  BY WorkOf DEF EditDocs, DeleteDocs
<1>3. ASSUME NEW s \in MessageRequests, mreq'[s] = mreq[s] PROVE Known(s)'
  <2>1. Known(s) BY <1>1
  <2>2. \A m \in Ids : msg[m].st \in {"none", "live", "deleted", "purged"}
    BY DEF MessagesTyped, MsgDocs
  <2>3. mreq'[s].st \in {"edit", "edited", "preview", "delete"} =>
          msg'[mreq'[s].id].st # "none"
    BY <1>0, <1>2, <1>3, <2>1 DEF GoesOn
  <2>4. mreq'[s].st \in {"edited", "preview"} /\ msg'[mreq'[s].id].st = "live" =>
          msg'[mreq'[s].id].text = "edited"
    BY <1>0, <1>2, <1>3, <2>1, <2>2 DEF GoesOn
  <2>5. mreq'[s].st = "deleted" => msg'[mreq'[s].id].st \in {"deleted", "purged"}
    BY <1>0, <1>2, <1>3, <2>1 DEF GoesOn
  <2>6. mreq'[s].st = "rewrite" /\ mreq'[s].deleted =>
          /\ mreq'[s].last.of \in Ids
          /\ msg'[mreq'[s].last.of].st \in {"deleted", "purged"}
    BY <1>0, <1>3, <2>1 DEF GoesOn
  <2> QED BY <2>3, <2>4, <2>5, <2>6
<1>4. ASSUME mreq'[r].st \notin {"edit", "edited", "preview", "delete", "deleted", "rewrite"}
      PROVE  Known(r)'
  BY <1>4
<1>5. Known(r)'
  <2>1. ASSUME NEW m \in Ids, FindToEdit(r, m) PROVE Known(r)'
    <3>1. mreq'[r].st = "edit" /\ mreq'[r].id = m BY <2>1, StepsTo
    <3>2. msg'[m].st = "live" BY <2>1 DEF FindToEdit
    <3> QED BY <3>1, <3>2
  <2>2. CASE EditText(r)
    <3>1. mreq[r].st = "edit" /\ mreq'[r].st = "edited" /\ mreq'[r].id = mreq[r].id
      BY <2>2, StepsTo
    <3>2. Known(r) BY <1>1
    <3>3. mreq[r].id \in Ids BY <1>2, <3>1
    <3>4. msg'[mreq[r].id].st = msg[mreq[r].id].st
          /\ (msg[mreq[r].id].st = "live" => msg'[mreq[r].id].text = "edited")
      BY <2>2, EditDoes
    <3> QED BY <3>1, <3>2, <3>3, <3>4
  <2>3. CASE FindLatestEdited(r)
    <3>1. mreq[r].st = "edited"
          /\ (mreq'[r].st = "idle" \/ (mreq'[r].st = "preview" /\ mreq'[r].id = mreq[r].id))
      BY <2>3, StepsTo
    <3>2. Known(r) BY <1>1
    <3>3. msg' = msg BY <2>3 DEF FindLatestEdited
    <3> QED BY <3>1, <3>2, <3>3
  <2>4. ASSUME NEW m \in Ids, FindToDelete(r, m) PROVE Known(r)'
    <3>1. mreq'[r].st = "delete" /\ mreq'[r].id = m BY <2>4, StepsTo
    <3>2. msg'[m].st = "live" BY <2>4 DEF FindToDelete
    <3> QED BY <3>1, <3>2
  <2>5. CASE DeleteMessage(r)
    <3>1. mreq[r].st = "delete" BY <2>5, StepsTo
    <3>2. Known(r) BY <1>1
    <3>3. /\ mreq[r].id \in Ids /\ mreq'[r].st = "deleted" /\ mreq'[r].id = mreq[r].id
          /\ msg[mreq[r].id].st = "live" => msg'[mreq[r].id].st = "deleted"
          /\ msg[mreq[r].id].st # "live" => msg'[mreq[r].id] = msg[mreq[r].id]
      BY <2>5, DeleteDoes
    <3>4. msg[mreq[r].id].st \in {"live", "deleted", "purged"}
      BY <3>1, <3>2, <3>3 DEF MessagesTyped, MsgDocs
    <3> QED BY <3>3, <3>4
  <2>6. CASE FindLatest(r)
    <3> DEFINE m == Newest(Inserted)
    <3>1. /\ mreq'[r].st = "rewrite" /\ mreq'[r].last = PreviewOf(m)
          /\ mreq'[r].deleted => m # 0 /\ msg[m].st = "deleted"
      BY <2>6, StepsTo
    <3>2. msg' = msg BY <2>6 DEF FindLatest
    <3>3. m \in 0..MaxMessages BY NewestIs, InsertedIds
    <3>4. m # 0 => m \in Ids /\ PreviewOf(m).of = m
      BY <3>3, MessagesAssumption DEF Ids, PreviewOf
    <3> HIDE DEF m
    <3> QED BY <3>1, <3>2, <3>4
  <2>7. CASE Reacting(r)
    <3>1. mreq'[r].st \in {"idle", "push", "join", "pull", "prune"} BY <2>7, ReactingDoes
    <3> QED BY <3>1, <1>4
  <2>8. ASSUME NEW k \in Ids, PurgeMessages(r, k) PROVE Known(r)'
    BY <2>8, <1>4, PurgeDoes
  <2>9. \/ \E u \in Members, f \in Attachable : CheckSend(r, u, f)
        \/ StampMessage(r) \/ InsertMessage(r) \/ AnnounceMessage(r) \/ EditPreview(r)
        \/ DeletePreview(r) \/ DestroyUploads(r) \/ PurgeUploads(r) \/ RefreshPreview(r)
        \/ MessageRequestEnds(r)
        => mreq'[r].st \notin {"edit", "edited", "preview", "delete", "deleted", "rewrite"}
    BY StepsTo
  <2>10. CASE Marking(r)
    <3>1. mreq'[r].st \in {"idle", "read", "clear"} BY <2>10, MarkingDoes
    <3> QED BY <3>1, <1>4
  <2> HIDE DEF Known
  <2> QED
    BY <2>1, <2>2, <2>3, <2>4, <2>5, <2>6, <2>7, <2>8, <2>9, <2>10, <1>4 DEF MessageStep, Writing, Purging
<1>6. \A s \in MessageRequests : Known(s)' BY <1>0, <1>3, <1>5
<1> QED BY <1>6 DEF WritersKnow

-----------------------------------------------------------------------------
(* Files stay apart.                                                       *)

LEMMA FilesAsBefore ==
  ASSUME FilesApart, again' = again,
         \A m \in Ids : msg'[m].file \in {msg[m].file, NoFile},
         \A f \in stored : f \in stored' \/
           \E x \in MessageRequests : Unlinks(x) /\ f \in FilesOf(mreq[x]),
         \A s \in MessageRequests : \A f \in FilesOf(mreq'[s]) :
           f \in FilesOf(mreq[s]) \/ \E m \in Ids : msg[m].file = f,
         \A s \in MessageRequests : Sends(s)' => Sends(s) /\ mreq'[s].file = mreq[s].file,
         \A s \in MessageRequests : On(s, "delete")' =>
           \A m \in Ids : msg'[m].file = mreq'[s].file /\ msg'[m].file \notin Loose => m = mreq'[s].id,
         \A s \in MessageRequests : Unlinks(s)' =>
           \A m \in Ids : msg'[m].file \notin FilesOf(mreq'[s]) \ Loose
  PROVE  FilesApart'
<1>1. Loose' = Loose /\ NoFile \in Loose
  BY DEF Loose
<1>2. ASSUME NEW s \in MessageRequests, Sends(s)'
      PROVE  /\ mreq'[s].file \in stored'
             /\ \A m \in Ids : msg'[m].file # mreq'[s].file
             /\ \A x \in MessageRequests : x # s => mreq'[s].file \notin FilesOf(mreq'[x])
  <2> DEFINE f == mreq[s].file
  <2>1. /\ Sends(s) /\ mreq'[s].file = f /\ f \in stored /\ f \notin Loose
        /\ \A m \in Ids : msg[m].file # f
        /\ \A x \in MessageRequests : x # s => f \notin FilesOf(mreq[x])
    BY <1>2 DEF FilesApart, Sends
  <2>2. \A x \in MessageRequests : Unlinks(x) => x # s BY <2>1 DEF Unlinks, Sends
  <2> HIDE DEF f
  <2>3. f \in stored' BY <2>1, <2>2
  <2>4. \A m \in Ids : msg'[m].file # f BY <1>1, <2>1
  <2>5. \A x \in MessageRequests : x # s => f \notin FilesOf(mreq'[x])
    BY <2>1
  <2> QED BY <2>1, <2>3, <2>4, <2>5
<1>3. \A m, n \in Ids : msg'[m].file = msg'[n].file /\ msg'[m].file \notin Loose => m = n
  BY <1>1 DEF FilesApart
<1>4. ASSUME NEW m \in Ids PROVE msg'[m].file \in stored' \cup Loose'
  <2>1. CASE msg'[m].file \in Loose BY <1>1, <2>1
  <2>2. CASE msg'[m].file \notin Loose
    <3>1. msg'[m].file = msg[m].file BY <1>1, <2>2
    <3>2. msg[m].file \in stored BY <2>2, <3>1 DEF FilesApart
    <3>3. \A x \in MessageRequests : Unlinks(x) => msg[m].file \notin FilesOf(mreq[x])
      BY <2>2, <3>1 DEF FilesApart
    <3> QED BY <3>1, <3>2, <3>3
  <2> QED BY <2>1, <2>2
<1> QED BY <1>1, <1>2, <1>3, <1>4 DEF FilesApart

(* Files of a request, by what it is at.                                   *)
LEMMA FilesOfThose ==
  ASSUME NEW q
  PROVE  /\ q.st \in {"send", "insert", "delete", "deleted"} => FilesOf(q) = {q.file} \ {NoFile}
         /\ q.st \in {"unlink", "purged"} => FilesOf(q) = q.files
         /\ q.st \notin {"send", "insert", "delete", "deleted", "unlink", "purged"} =>
              FilesOf(q) = {}
BY DEF FilesOf

LEMMA SendFiles ==
  ASSUME MessagesTyped, DeletedStaysEmpty, Numbered, FilesApart,
         NEW r \in MessageRequests, NEW u \in Members, NEW f \in Attachable, CheckSend(r, u, f)
  PROVE  FilesApart'
<1>1. \A s \in MessageRequests : s # r => mreq'[s] = mreq[s]
  BY Stepped DEF CheckSend, Starts
<1>2. /\ f \notin Loose' =>
           /\ f # NoFile /\ f \in stored /\ \A m \in Ids : msg[m].file # f
           /\ \A q \in MessageRequests : f \notin FilesOf(mreq[q])
      /\ UNCHANGED <<msg, stored>>
      /\ \A g : g \notin Loose' => g \notin Loose
  BY DEF CheckSend, Taken, Resent, Loose
<1>3. mreq[r].st = "idle" /\ mreq'[r].st = "send" /\ mreq'[r].file = f BY StepsTo
<1>4. FilesOf(mreq'[r]) = {f} \ {NoFile} BY <1>3, FilesOfThose
<1>5. \A s \in MessageRequests : Sends(s) => mreq[s].file \in FilesOf(mreq[s])
  BY FilesOfThose DEF Sends, Loose
<1>6. ASSUME NEW s \in MessageRequests, Sends(s)'
      PROVE  /\ mreq'[s].file \in stored'
             /\ \A m \in Ids : msg'[m].file # mreq'[s].file
             /\ \A x \in MessageRequests : x # s => mreq'[s].file \notin FilesOf(mreq'[x])
  <2>1. CASE s = r
    <3>1. f \notin Loose' BY <1>3, <1>6, <2>1 DEF Sends
    <3> QED BY <1>1, <1>2, <1>3, <2>1, <3>1
  <2>2. CASE s # r
    <3>1. Sends(s) /\ mreq'[s] = mreq[s] /\ mreq[s].file \notin Loose'
      BY <1>1, <1>2, <1>6, <2>2 DEF Sends
    <3>2. /\ mreq[s].file \in stored /\ \A m \in Ids : msg[m].file # mreq[s].file
          /\ \A x \in MessageRequests : x # s => mreq[s].file \notin FilesOf(mreq[x])
      BY <3>1 DEF FilesApart
    <3>3. mreq[s].file \notin FilesOf(mreq'[r]) BY <1>2, <1>4, <1>5, <3>1
    <3>4. \A x \in MessageRequests : x # s => mreq[s].file \notin FilesOf(mreq'[x])
      BY <1>1, <3>2, <3>3
    <3> QED BY <1>2, <3>1, <3>2, <3>4
  <2> QED BY <2>1, <2>2
<1>7. \A s \in MessageRequests : On(s, "delete")' => s # r /\ On(s, "delete")
  BY <1>1, <1>3 DEF On
<1>8. \A s \in MessageRequests : Unlinks(s)' => s # r /\ Unlinks(s)
  BY <1>1, <1>3 DEF Unlinks
<1>9. \A s \in MessageRequests : On(s, "delete")' =>
        \A m \in Ids : msg'[m].file = mreq'[s].file /\ msg'[m].file \notin Loose' => m = mreq'[s].id
  BY <1>1, <1>2, <1>7 DEF FilesApart
<1>10. \A s \in MessageRequests : Unlinks(s)' =>
         \A m \in Ids : msg'[m].file \notin FilesOf(mreq'[s]) \ Loose'
  BY <1>1, <1>2, <1>8 DEF FilesApart
<1>11. /\ \A m, n \in Ids : msg'[m].file = msg'[n].file /\ msg'[m].file \notin Loose' => m = n
       /\ \A m \in Ids : msg'[m].file \in stored' \cup Loose'
  BY <1>2 DEF FilesApart
<1> QED BY <1>6, <1>9, <1>10, <1>11 DEF FilesApart

LEMMA InsertFiles ==
  ASSUME MessagesTyped, DeletedStaysEmpty, Numbered, FilesApart,
         NEW r \in MessageRequests, InsertMessage(r)
  PROVE  FilesApart'
<1> DEFINE m0 == mreq[r].id
           f == mreq[r].file
<1>0. \A s \in MessageRequests : s # r => mreq'[s] = mreq[s]
  BY Stepped DEF InsertMessage
<1>1. /\ mreq[r].st = "insert" /\ mreq'[r].st = "announce" /\ UNCHANGED stored
      /\ Loose' = Loose /\ NoFile \in Loose
  BY StepsTo DEF InsertMessage, Loose
<1>2. /\ m0 \in Ids /\ msg'[m0].file = f /\ \A n \in Ids : n # m0 => msg'[n] = msg[n]
  BY InsertDoes
<1>3. msg[m0].file = NoFile
  BY <1>1, <1>2 DEF Numbered, On, DeletedStaysEmpty
<1>4. f \notin Loose =>
        /\ f \in stored /\ \A m \in Ids : msg[m].file # f
        /\ \A s \in MessageRequests : s # r => f \notin FilesOf(mreq[s])
  BY <1>1 DEF FilesApart, Sends
<1> HIDE DEF f, m0
<1>6. \A s \in MessageRequests :
        Sends(s)' \/ On(s, "delete")' \/ Unlinks(s)' => s # r /\ mreq'[s] = mreq[s]
  BY <1>0, <1>1 DEF Sends, On, Unlinks
<1>7. \A s \in MessageRequests : mreq[s].st = "delete" => FilesOf(mreq[s]) = {mreq[s].file} \ {NoFile}
  BY FilesOfThose
<1>8. \A s \in MessageRequests : Sends(s) => mreq[s].file \in FilesOf(mreq[s])
  BY FilesOfThose DEF Sends, Loose
<1>9. ASSUME NEW s \in MessageRequests, Sends(s)'
      PROVE  /\ mreq'[s].file \in stored'
             /\ \A m \in Ids : msg'[m].file # mreq'[s].file
             /\ \A x \in MessageRequests : x # s => mreq'[s].file \notin FilesOf(mreq'[x])
  <2>1. s # r /\ mreq'[s] = mreq[s] /\ Sends(s) BY <1>1, <1>6, <1>9 DEF Sends
  <2>2. /\ mreq[s].file \in stored /\ \A m \in Ids : msg[m].file # mreq[s].file
        /\ \A x \in MessageRequests : x # s => mreq[s].file \notin FilesOf(mreq[x])
    BY <2>1 DEF FilesApart
  <2>3. mreq[s].file # f
    <3>1. CASE f \in Loose BY <3>1, <2>1 DEF Sends
    <3>2. CASE f \notin Loose BY <3>2, <1>4, <1>8, <2>1
    <3> QED BY <3>1, <3>2
  <2>4. FilesOf(mreq'[r]) = {} BY <1>1, FilesOfThose
  <2>5. \A m \in Ids : msg'[m].file # mreq[s].file BY <1>2, <2>2, <2>3
  <2>6. \A x \in MessageRequests : x # s => mreq[s].file \notin FilesOf(mreq'[x])
    BY <1>0, <2>2, <2>4
  <2> QED BY <1>1, <2>1, <2>2, <2>5, <2>6
<1>10. ASSUME NEW s \in MessageRequests, On(s, "delete")', NEW m \in Ids,
              msg'[m].file = mreq'[s].file, msg'[m].file \notin Loose'
       PROVE  m = mreq'[s].id
  <2>1. s # r /\ mreq'[s] = mreq[s] /\ mreq[s].st = "delete" BY <1>6, <1>10 DEF On
  <2>3. m # m0 BY <1>1, <1>2, <1>4, <1>7, <1>10, <2>1
  <2>4. msg'[m] = msg[m] BY <1>2, <2>3
  <2> QED BY <1>1, <1>10, <2>1, <2>4 DEF FilesApart, On
<1>11. ASSUME NEW s \in MessageRequests, Unlinks(s)', NEW m \in Ids
       PROVE  msg'[m].file \notin FilesOf(mreq'[s]) \ Loose'
  <2>1. s # r /\ mreq'[s] = mreq[s] /\ Unlinks(s) BY <1>6, <1>11 DEF Unlinks
  <2>2. CASE m = m0 BY <1>1, <1>2, <1>4, <2>1, <2>2
  <2>3. CASE m # m0 BY <1>1, <1>2, <2>1, <2>3 DEF FilesApart
  <2> QED BY <2>2, <2>3
<1>12. ASSUME NEW m \in Ids, NEW n \in Ids, msg'[m].file = msg'[n].file, msg'[m].file \notin Loose'
       PROVE  m = n
  <2>3. CASE m = m0 \/ n = m0 BY <1>1, <1>2, <1>3, <1>4, <1>12, <2>3
  <2>4. CASE m # m0 /\ n # m0 BY <1>1, <1>2, <1>12, <2>4 DEF FilesApart
  <2> QED BY <2>3, <2>4
<1>13. \A m \in Ids : msg'[m].file \in stored' \cup Loose'
  BY <1>1, <1>2, <1>4 DEF FilesApart
<1> QED BY <1>9, <1>10, <1>11, <1>12, <1>13 DEF FilesApart

(* A request that has no files after its step disturbs none.               *)
LEMMA IdleFiles ==
  ASSUME FilesApart, again' = again, NEW r \in MessageRequests,
         \A s \in MessageRequests : s # r => mreq'[s] = mreq[s],
         \A m \in Ids : msg'[m].file = msg[m].file,
         \A f \in stored : f \in stored' \/
           \E x \in MessageRequests : Unlinks(x) /\ f \in FilesOf(mreq[x]),
         mreq'[r].st \notin {"send", "insert", "delete", "deleted", "unlink", "purged"}
  PROVE  FilesApart'
<1>1. FilesOf(mreq'[r]) = {} BY FilesOfThose
<1>2. \A s \in MessageRequests :
        Sends(s)' \/ On(s, "delete")' \/ Unlinks(s)' => s # r /\ mreq'[s] = mreq[s]
  BY DEF Sends, On, Unlinks
<1>3. \A m \in Ids : msg'[m].file \in {msg[m].file, NoFile} OBVIOUS
<1>4. \A s \in MessageRequests : \A f \in FilesOf(mreq'[s]) :
           f \in FilesOf(mreq[s]) \/ \E m \in Ids : msg[m].file = f
  BY <1>1
<1>5. \A s \in MessageRequests : Sends(s)' => Sends(s) /\ mreq'[s].file = mreq[s].file
  BY <1>2 DEF Sends, Loose
<1>6. \A s \in MessageRequests : On(s, "delete")' =>
           \A m \in Ids : msg'[m].file = mreq'[s].file /\ msg'[m].file \notin Loose => m = mreq'[s].id
  BY <1>2 DEF On, FilesApart
<1>7. \A s \in MessageRequests : Unlinks(s)' =>
           \A m \in Ids : msg'[m].file \notin FilesOf(mreq'[s]) \ Loose
  <2> TAKE s \in MessageRequests
  <2>1. HAVE Unlinks(s)'
  <2>2. mreq'[s] = mreq[s] /\ Unlinks(s) BY <1>2, <2>1 DEF Unlinks
  <2> QED BY <2>2 DEF FilesApart
<1> QED BY <1>3, <1>4, <1>5, <1>6, <1>7, FilesAsBefore

LEMMA DeletingFiles ==
  ASSUME MessagesTyped, DeletedStaysEmpty, Numbered, FilesApart, NEW r \in MessageRequests,
         \/ StampMessage(r) \/ DeleteMessage(r) \/ DeletePreview(r)
         \/ \E m \in Ids : FindToDelete(r, m)
         \/ \E k \in Ids : PurgeMessages(r, k)
  PROVE  FilesApart'
<1>0. \A s \in MessageRequests : s # r => mreq'[s] = mreq[s]
  BY OthersWait DEF MessageStep, Writing, Purging
<1>1. ASSUME NEW s \in MessageRequests, s # r
      PROVE  /\ FilesOf(mreq'[s]) = FilesOf(mreq[s])
             /\ again' = again /\ Sends(s)' => Sends(s) /\ mreq'[s].file = mreq[s].file
             /\ On(s, "delete")' => On(s, "delete") /\ mreq'[s] = mreq[s]
             /\ Unlinks(s)' => Unlinks(s)
  BY <1>0, <1>1 DEF Sends, On, Unlinks, Loose
<1>2. ASSUME stored' = stored, again' = again,
             \A m \in Ids : msg'[m].file \in {msg[m].file, NoFile},
             \A f \in FilesOf(mreq'[r]) :
               f \in FilesOf(mreq[r]) \/ \E m \in Ids : msg[m].file = f,
             Sends(r)' => Sends(r) /\ mreq'[r].file = mreq[r].file,
             On(r, "delete")' =>
               \A m \in Ids : msg'[m].file = mreq'[r].file /\ msg'[m].file \notin Loose
                              => m = mreq'[r].id,
             Unlinks(r)' => \A m \in Ids : msg'[m].file \notin FilesOf(mreq'[r]) \ Loose
      PROVE  FilesApart'
  <2>1. \A s \in MessageRequests : \A f \in FilesOf(mreq'[s]) :
             f \in FilesOf(mreq[s]) \/ \E m \in Ids : msg[m].file = f
    BY <1>1, <1>2
  <2>2. \A s \in MessageRequests : Sends(s)' => Sends(s) /\ mreq'[s].file = mreq[s].file
    BY <1>1, <1>2
  <2>3. \A s \in MessageRequests : On(s, "delete")' =>
             \A m \in Ids : msg'[m].file = mreq'[s].file /\ msg'[m].file \notin Loose => m = mreq'[s].id
    <3> TAKE s \in MessageRequests
    <3>1. CASE s = r BY <1>2, <3>1
    <3>2. CASE s # r
      <4>1. On(s, "delete")' => On(s, "delete") /\ mreq'[s] = mreq[s] BY <1>1, <3>2
      <4> QED BY <1>2, <4>1 DEF FilesApart, Loose
    <3> QED BY <3>1, <3>2
  <2>4. \A s \in MessageRequests : Unlinks(s)' =>
             \A m \in Ids : msg'[m].file \notin FilesOf(mreq'[s]) \ Loose
    <3> TAKE s \in MessageRequests
    <3>1. CASE s = r BY <1>2, <3>1
    <3>2. CASE s # r
      <4>1. (Unlinks(s)' => Unlinks(s)) /\ FilesOf(mreq'[s]) = FilesOf(mreq[s]) BY <1>1, <3>2
      <4> QED BY <1>2, <4>1 DEF FilesApart, Loose
    <3> QED BY <3>1, <3>2
  <2> QED BY <1>2, <2>1, <2>2, <2>3, <2>4, FilesAsBefore
<1>3. CASE StampMessage(r)
  <2>1. /\ mreq[r].st = "send" /\ mreq'[r].st = "insert" /\ mreq'[r].file = mreq[r].file
        /\ UNCHANGED <<msg, stored, again>>
    BY <1>3, StepsTo DEF StampMessage
  <2>2. FilesOf(mreq'[r]) = FilesOf(mreq[r]) BY <2>1, FilesOfThose
  <2>3. ~On(r, "delete")' /\ ~Unlinks(r)' /\ (Sends(r)' => Sends(r))
    BY <2>1 DEF On, Unlinks, Sends, Loose
  <2> QED BY <1>2, <2>1, <2>2, <2>3
<1>4. CASE DeleteMessage(r)
  <2> DEFINE m0 == mreq[r].id
             f == mreq[r].file
  <2>1. /\ mreq[r].st = "delete" /\ mreq'[r].st = "deleted" /\ mreq'[r].file = f
        /\ UNCHANGED <<stored, again>> /\ m0 \in Ids
        /\ \A n \in Ids : n # m0 => msg'[n] = msg[n]
        /\ msg[m0].st = "live" => msg'[m0].file = NoFile
        /\ msg[m0].st # "live" => msg'[m0] = msg[m0]
    BY <1>4, StepsTo, DeleteDoes DEF DeleteMessage
  <2>2. FilesOf(mreq'[r]) = FilesOf(mreq[r]) /\ FilesOf(mreq'[r]) = {f} \ {NoFile}
    BY <2>1, FilesOfThose
  <2>3. msg'[m0].file = NoFile BY <2>1 DEF DeletedStaysEmpty
  <2>4. ~On(r, "delete")' /\ ~Sends(r)' BY <2>1 DEF On, Sends
  <2>5. \A m \in Ids : m # m0 => msg[m].file # f \/ f \in Loose
    BY <2>1 DEF FilesApart, On
  <2> HIDE DEF m0, f
  <2>6. \A m \in Ids : msg'[m].file \notin FilesOf(mreq'[r]) \ Loose
    BY <2>1, <2>2, <2>3, <2>5 DEF Loose
  <2>7. \A m \in Ids : msg'[m].file \in {msg[m].file, NoFile} BY <2>1, <2>3
  <2> QED BY <1>2, <2>1, <2>2, <2>4, <2>6, <2>7, SMTT(60)
<1>5. CASE DeletePreview(r)
  <2>1. /\ mreq[r].st = "deleted" /\ mreq'[r].st = "unlink"
        /\ mreq'[r].files = {mreq[r].file} \ {NoFile}
        /\ UNCHANGED <<msg, stored, again>>
    BY <1>5, StepsTo DEF DeletePreview
  <2>2. FilesOf(mreq'[r]) = FilesOf(mreq[r]) BY <2>1, FilesOfThose
  <2>3. ~On(r, "delete")' /\ ~Sends(r)' /\ Unlinks(r) BY <2>1 DEF On, Sends, Unlinks
  <2>4. \A m \in Ids : msg'[m].file \notin FilesOf(mreq'[r]) \ Loose
    BY <2>1, <2>2, <2>3 DEF FilesApart
  <2> QED BY <1>2, <2>1, <2>2, <2>3, <2>4
<1>6. ASSUME NEW m0 \in Ids, FindToDelete(r, m0) PROVE FilesApart'
  <2>1. /\ mreq[r].st = "idle" /\ mreq'[r].st = "delete" /\ mreq'[r].id = m0
        /\ mreq'[r].file = msg[m0].file /\ UNCHANGED <<msg, stored, again>>
    BY <1>6, StepsTo DEF FindToDelete
  <2>2. FilesOf(mreq'[r]) = {msg[m0].file} \ {NoFile} BY <2>1, FilesOfThose
  <2>3. ~Unlinks(r)' /\ ~Sends(r)' BY <2>1 DEF Sends, Unlinks
  <2>4. \A m \in Ids : msg'[m].file = mreq'[r].file /\ msg'[m].file \notin Loose => m = mreq'[r].id
    BY <2>1 DEF FilesApart
  <2>5. \A f \in FilesOf(mreq'[r]) : \E m \in Ids : msg[m].file = f BY <2>2
  <2> QED BY <1>2, <2>1, <2>3, <2>4, <2>5
<1>7. ASSUME NEW k \in Ids, PurgeMessages(r, k) PROVE FilesApart'
  <2>1. /\ mreq'[r].st = "purged" /\ stored' = stored /\ again' = again
        /\ \A f \in mreq'[r].files :
             f # NoFile /\ \E m \in Inserted : m <= k /\ f = msg[m].file
        /\ \A m \in Ids : (m \in Inserted /\ m <= k /\ msg'[m].file = NoFile)
                          \/ msg'[m] = msg[m]
        /\ \A m \in Inserted : m <= k => msg'[m].file = NoFile
    BY <1>7, PurgeDoes, InsertedIds, ZenonT(60)
  <2>2. FilesOf(mreq'[r]) = mreq'[r].files BY <2>1, FilesOfThose
  <2>3. ~On(r, "delete")' /\ ~Sends(r)' BY <2>1 DEF Sends, On
  <2>4. \A m \in Ids : msg'[m].file \in {msg[m].file, NoFile} BY <2>1
  <2>5. \A f \in FilesOf(mreq'[r]) : \E m \in Ids : msg[m].file = f
    BY <2>1, <2>2, InsertedIds
  <2>6. ASSUME NEW n \in Ids, msg'[n].file \in FilesOf(mreq'[r]) \ Loose PROVE FALSE
    <3>1. PICK m \in Inserted : m <= k /\ msg'[n].file = msg[m].file BY <2>1, <2>2, <2>6
    <3>2. msg'[n].file = msg[n].file BY <2>1, <2>6 DEF Loose
    <3>3. n = m BY <2>6, <3>1, <3>2, InsertedIds DEF FilesApart
    <3> QED BY <2>1, <2>6, <3>1, <3>3 DEF Loose
  <2> QED BY <1>2, <2>1, <2>3, <2>4, <2>5, <2>6
<1> QED BY <1>3, <1>4, <1>5, <1>6, <1>7

LEMMA FilesStep ==
  ASSUME MessagesTyped, DeletedStaysEmpty, Numbered, FilesApart,
         NEW r \in MessageRequests, MessageStep(r)
  PROVE  FilesApart'
<1>1. \A s \in MessageRequests : s # r => mreq'[s] = mreq[s]
  BY OthersWait
<1>2. CASE \E u \in Members, f \in Attachable : CheckSend(r, u, f)
  BY <1>2, SendFiles
<1>3. CASE InsertMessage(r) BY <1>3, InsertFiles
<1>4. CASE \/ StampMessage(r) \/ DeleteMessage(r) \/ DeletePreview(r)
           \/ \E m \in Ids : FindToDelete(r, m)
           \/ \E k \in Ids : PurgeMessages(r, k)
  BY <1>4, DeletingFiles
<1>5. ASSUME again' = again,
             \A m \in Ids : msg'[m].file = msg[m].file,
             stored' = stored \/ (Unlinks(r) /\ stored' = stored \ FilesOf(mreq[r])),
             mreq'[r].st \notin {"send", "insert", "delete", "deleted", "unlink", "purged"}
      PROVE  FilesApart'
  <2>1. \A f \in stored : f \in stored' \/
           \E x \in MessageRequests : Unlinks(x) /\ f \in FilesOf(mreq[x])
    BY <1>5
  <2> QED BY <1>1, <1>5, <2>1, IdleFiles
<1>6. CASE DestroyUploads(r) \/ PurgeUploads(r)
  <2>1. /\ mreq[r].st \in {"unlink", "purged"} /\ stored' = stored \ mreq[r].files
        /\ mreq'[r].st \in {"idle", "refresh"} /\ msg' = msg /\ again' = again
    BY <1>6, StepsTo DEF DestroyUploads, PurgeUploads
  <2>2. FilesOf(mreq[r]) = mreq[r].files /\ Unlinks(r) BY <2>1, FilesOfThose DEF Unlinks
  <2> QED BY <1>5, <2>1, <2>2
<1>7. CASE \/ AnnounceMessage(r) \/ EditPreview(r)
           \/ \E m \in Ids : FindToEdit(r, m)
           \/ FindLatestEdited(r) \/ FindLatest(r) \/ RefreshPreview(r)
           \/ MessageRequestEnds(r)
  <2>1. msg' = msg /\ stored' = stored /\ again' = again
    BY <1>7 DEF AnnounceMessage, EditPreview, FindToEdit, FindLatestEdited, FindLatest,
                RefreshPreview, MessageRequestEnds
  <2>2. mreq'[r].st \notin {"send", "insert", "delete", "deleted", "unlink", "purged"}
    BY <1>7, StepsTo
  <2> QED BY <1>5, <2>1, <2>2
<1>8. CASE EditText(r)
  <2>1. mreq'[r].st = "edited" /\ stored' = stored /\ again' = again BY <1>8, StepsTo DEF EditText
  <2>2. \A m \in Ids : msg'[m].file = msg[m].file BY <1>8, EditDoes
  <2> QED BY <1>5, <2>1, <2>2
<1>9. CASE Reacting(r)
  <2>1. /\ \A m \in Ids : msg'[m].file = msg[m].file
        /\ mreq'[r].st \in {"idle", "push", "join", "pull", "prune"}
        /\ stored' = stored /\ again' = again
    BY <1>9, ReactingDoes
  <2> QED BY <1>5, <2>1
<1>10. CASE Marking(r)
  <2>1. /\ msg' = msg /\ stored' = stored /\ again' = again
        /\ mreq'[r].st \in {"idle", "read", "clear"}
    BY <1>10, MarkingDoes
  <2> QED BY <1>5, <2>1
<1> QED
  BY <1>2, <1>3, <1>4, <1>6, <1>7, <1>8, <1>9, <1>10 DEF MessageStep, Writing, Purging

-----------------------------------------------------------------------------
(* A preview that was stirred stays so; until then a request                *)
(* that holds a number inserts its message and announces it.               *)
LEMMA StirredStays ==
  ASSUME MessagesTyped, NEW r \in MessageRequests, MessageStep(r), ~stirred'
  PROVE  /\ ~stirred
         /\ Held(r) => InsertMessage(r) \/ AnnounceMessage(r)
<1>1. ~stirred
  BY ReactingDoes, MarkingDoes
  DEF MessageStep, Writing, Purging, CheckSend, StampMessage, InsertMessage, AnnounceMessage,
      FindToEdit, EditText, FindLatestEdited, EditPreview, FindToDelete, DeleteMessage,
      DeletePreview, DestroyUploads, PurgeMessages, PurgeUploads, FindLatest, RefreshPreview,
      MessageRequestEnds
<1>2. ASSUME Held(r) PROVE InsertMessage(r) \/ AnnounceMessage(r)
  <2>1. mreq[r].st \in {"insert", "announce"} BY <1>2 DEF Held
  <2>2. CASE MessageRequestEnds(r) BY <2>1, <2>2 DEF MessageRequestEnds
  <2>3. CASE Writing(r) BY <2>1, <2>3, StepsTo DEF Writing
  <2>4. CASE Reacting(r) BY <2>1, <2>4, ReactingDoes
  <2>5. CASE Purging(r) BY <2>1, <2>5, StepsTo, PurgeDoes DEF Purging
  <2>6. CASE Marking(r) BY <2>1, <2>6, MarkingDoes
  <2> QED BY <2>2, <2>3, <2>4, <2>5, <2>6 DEF MessageStep
<1> QED BY <1>1, <1>2, SMTT(60)

LEMMA OnItsWayStill ==
  ASSUME MessagesTyped, NEW r \in MessageRequests, MessageStep(r), ~stirred',
         NEW m \in Ids, OnItsWay(m)
  PROVE  OnItsWay(m)' \/ (AnnounceMessage(r) /\ m = mreq[r].id)
<1>1. PICK s \in MessageRequests : Held(s) /\ mreq[s].id = m BY DEF OnItsWay
<1>2. CASE s # r
  <2>1. mreq'[s] = mreq[s] BY <1>2, OthersWait
  <2> QED BY <1>1, <2>1 DEF OnItsWay, Held
<1>3. CASE s = r
  <2>1. InsertMessage(r) \/ AnnounceMessage(r) BY <1>1, <1>3, StirredStays
  <2>2. CASE InsertMessage(r)
    <3>1. mreq'[r].st = "announce" /\ mreq'[r].id = mreq[r].id BY <2>2, StepsTo, SMTT(60)
    <3> QED BY <1>1, <1>3, <3>1 DEF OnItsWay, Held
  <2> QED BY <1>1, <1>3, <2>1, <2>2
<1> QED BY <1>2, <1>3

(* Nobody has read less than they cleared, but for lastReadAt that was     *)
(* written from before.                                                    *)
LEMMA ReadStep ==
  ASSUME MessagesTyped, ReadPastCleared, NEW r \in MessageRequests, MessageStep(r)
  PROVE  ReadPastCleared'
<1>1. CASE AnnounceMessage(r)
  <2>1. mreq[r] \in PersonDocs BY <1>1, StepsTo, WorkOf
  <2>2. mreq[r].who \in Members /\ mreq[r].id \in 0..MaxMessages
    BY <2>1, MessagesAssumption DEF PersonDocs, Ids
  <2> QED BY <1>1, <2>2, ReadsUpTo DEF AnnounceMessage
<1>2. CASE Marking(r) BY <1>2, MarkingDoes
<1>3. CASE mine' = mine /\ reread' = reread BY <1>3 DEF ReadPastCleared
<1>4. CASE Reacting(r) BY <1>3, <1>4, ReactingDoes
<1> QED
  BY <1>1, <1>2, <1>3, <1>4
  DEF MessageStep, Writing, Purging, CheckSend, StampMessage, InsertMessage,
      FindToEdit, EditText, FindLatestEdited, EditPreview, FindToDelete, DeleteMessage,
      DeletePreview, DestroyUploads, PurgeMessages, PurgeUploads, FindLatest, RefreshPreview,
      MessageRequestEnds

(* The steps that neither stamp, insert, announce nor purge a message: its *)
(* state stays in the collection or out of it, and so does the date of the *)
(* conversation.                                                           *)
LEMMA StatesStay ==
  ASSUME MessagesTyped, NEW r \in MessageRequests, MessageStep(r),
         ~StampMessage(r), ~InsertMessage(r), ~AnnounceMessage(r),
         \A k \in Ids : ~PurgeMessages(r, k)
  PROVE  /\ clock' = clock /\ conv'.at = conv.at
         /\ \A m \in Ids : /\ msg'[m].st = "none" <=> msg[m].st = "none"
                           /\ msg'[m].st = "purged" <=> msg[m].st = "purged"
<1>1. CASE EditText(r)
  <2>1. clock' = clock /\ conv' = conv BY <1>1 DEF EditText
  <2> QED BY <1>1, <2>1, EditDoes
<1>2. CASE DeleteMessage(r)
  <2>1. clock' = clock /\ conv' = conv BY <1>2 DEF DeleteMessage
  <2> QED BY <1>2, <2>1, DeleteDoes
<1>3. CASE Reacting(r) \/ Marking(r) BY <1>3, ReactingDoes, MarkingDoes
<1>4. CASE EditPreview(r) BY <1>4 DEF EditPreview, MessagesTyped, ConvDocs
<1>5. CASE DeletePreview(r) BY <1>5 DEF DeletePreview, MessagesTyped, ConvDocs
<1>6. CASE RefreshPreview(r) BY <1>6 DEF RefreshPreview, MessagesTyped, ConvDocs
<1>7. CASE UNCHANGED <<clock, conv, msg>> BY <1>7
<1> QED
  BY <1>1, <1>2, <1>3, <1>4, <1>5, <1>6, <1>7
  DEF MessageStep, Writing, Purging, CheckSend, FindToEdit, FindLatestEdited, FindToDelete,
      DestroyUploads, PurgeUploads, FindLatest, MessageRequestEnds

LEMMA AnnouncedStep ==
  ASSUME MessagesTyped, Numbered, AllAnnounced, NEW r \in MessageRequests, MessageStep(r),
         ~stirred'
  PROVE  AllAnnounced'
<1>0. /\ clock \in 0..MaxMessages /\ conv.at \in 0..MaxMessages
      /\ \A m \in Ids : m \in Int
      /\ \A m \in Ids : msg[m].st \in {"none", "live", "deleted", "purged"}
  BY DEF MessagesTyped, ConvDocs, Ids, MsgDocs
<1>1. ASSUME NEW m \in Ids, OnItsWay(m), ~AnnounceMessage(r) PROVE OnItsWay(m)'
  BY <1>1, OnItsWayStill
<1>2. CASE StampMessage(r)
  <2>1. /\ mreq'[r].st = "insert" /\ mreq'[r].id = clock' /\ clock' = clock + 1
        /\ UNCHANGED <<msg, conv>>
    BY <1>2, StepsTo DEF StampMessage
  <2>2. ~AnnounceMessage(r) BY <1>2, StepsTo
  <2>3. \A m \in Ids : m = clock' => OnItsWay(m)' BY <2>1 DEF OnItsWay, Held
  <2>4. \A m \in Ids : m <= clock' => m <= clock \/ m = clock' BY <1>0, <2>1
  <2>5. \A m : m \in Inserted' => m \in Inserted /\ m \in Ids BY <2>1 DEF Inserted
  <2>6. \A m \in Ids : m <= clock' /\ m > conv'.at => OnItsWay(m)'
    BY <1>1, <2>1, <2>2, <2>3, <2>4 DEF AllAnnounced
  <2>7. \A m \in Ids : m <= clock' /\ msg'[m].st = "none" => OnItsWay(m)'
    BY <1>1, <2>1, <2>2, <2>3, <2>4 DEF AllAnnounced
  <2>8. ASSUME conv'.at # 0, msg'[conv'.at].st = "purged", NEW m \in Inserted', m < conv'.at
        PROVE  OnItsWay(m)'
    <3>1. m \in Inserted /\ m \in Ids BY <2>5, <2>8
    <3>2. OnItsWay(m) BY <2>1, <2>8, <3>1 DEF AllAnnounced
    <3> QED BY <1>1, <2>2, <3>1, <3>2
  <2> QED BY <2>6, <2>7, <2>8 DEF AllAnnounced
<1>3. CASE InsertMessage(r)
  <2>1. /\ mreq'[r].st = "announce" /\ mreq'[r].id = mreq[r].id
        /\ UNCHANGED <<clock, conv>>
    BY <1>3, StepsTo DEF InsertMessage
  <2>2. ~AnnounceMessage(r) BY <1>3, StepsTo
  <2>3. /\ mreq[r].id \in Ids /\ msg'[mreq[r].id].st = "live"
        /\ \A n \in Ids : n # mreq[r].id => msg'[n] = msg[n]
    BY <1>3, InsertDoes
  <2>4. \A m \in Ids : m = mreq[r].id => OnItsWay(m)' BY <2>1 DEF OnItsWay, Held
  <2>5. \A m \in Ids : /\ m # mreq[r].id /\ m \in Inserted' => m \in Inserted
                       /\ msg'[m].st = "none" => msg[m].st = "none"
                       /\ msg'[m].st = "purged" => msg[m].st = "purged"
    BY <2>3 DEF Inserted
  <2>6. \A m \in Ids : m <= clock' /\ m > conv'.at => OnItsWay(m)'
    BY <1>1, <2>1, <2>2 DEF AllAnnounced
  <2>7. \A m \in Ids : m <= clock' /\ msg'[m].st = "none" => OnItsWay(m)'
    BY <1>1, <2>1, <2>2, <2>5 DEF AllAnnounced
  <2>8. ASSUME conv'.at # 0, msg'[conv'.at].st = "purged", NEW m \in Inserted', m < conv'.at
        PROVE  OnItsWay(m)'
    <3>1. conv.at \in Ids /\ m \in Ids
      BY <1>0, <2>1, <2>8, MessagesAssumption DEF Ids, Inserted
    <3>2. msg[conv.at].st = "purged" BY <2>1, <2>5, <2>8, <3>1
    <3>3. CASE m = mreq[r].id BY <2>4, <3>1, <3>3
    <3>4. CASE m # mreq[r].id
      <4>1. m \in Inserted BY <2>5, <2>8, <3>1, <3>4
      <4>2. OnItsWay(m) BY <2>1, <2>8, <3>2, <4>1 DEF AllAnnounced
      <4> QED BY <1>1, <2>2, <3>1, <4>2
    <3> QED BY <3>3, <3>4
  <2> QED BY <2>6, <2>7, <2>8 DEF AllAnnounced
<1>4. CASE AnnounceMessage(r)
  <2>1. /\ mreq[r].st = "announce" /\ conv'.at = mreq[r].id
        /\ UNCHANGED <<clock, msg>>
        /\ ~(conv.at > mreq[r].id) /\ msg[mreq[r].id].st = "live"
    BY <1>4, StepsTo DEF AnnounceMessage
  <2>2. mreq[r].id \in Ids BY <2>1, WorkOf DEF PersonDocs
  <2>3. \A m \in Ids : m > mreq[r].id => m > conv.at BY <1>0, <2>1, <2>2
  <2>4. \A m \in Ids : OnItsWay(m) /\ m # mreq[r].id => OnItsWay(m)'
    BY OnItsWayStill
  <2>5. \A m \in Ids : m > mreq[r].id => m # mreq[r].id BY <1>0, <2>2
  <2>6. \A m \in Ids : m <= clock' /\ m > conv'.at => OnItsWay(m)'
    BY <2>1, <2>3, <2>4, <2>5 DEF AllAnnounced
  <2>7. ASSUME NEW m \in Ids, m <= clock', msg'[m].st = "none"
        PROVE  OnItsWay(m)'
    <3>1. m <= clock /\ msg[m].st = "none" BY <2>1, <2>7
    <3>2. OnItsWay(m) /\ m # mreq[r].id BY <2>1, <3>1 DEF AllAnnounced
    <3> QED BY <2>4, <3>2
  <2>8. msg'[conv'.at].st # "purged" BY <2>1
  <2> QED BY <2>6, <2>7, <2>8, SMTT(60) DEF AllAnnounced
<1>5. ASSUME NEW k \in Ids, PurgeMessages(r, k) PROVE AllAnnounced'
  <2>1. /\ UNCHANGED <<clock, conv>> /\ mreq[r].st = "idle"
        /\ \A m \in Ids :
             IF m \in Inserted /\ m <= k THEN msg'[m].st = "purged" ELSE msg'[m] = msg[m]
    BY <1>5, PurgeDoes
  <2>2. ~AnnounceMessage(r) BY <2>1, StepsTo
  <2>3. \A m \in Ids : msg'[m].st = "none" => msg[m].st = "none"
    BY <2>1
  <2>4. \A m \in Ids : m \in Inserted' => m \in Inserted /\ ~(m <= k)
    BY <2>1 DEF Inserted
  <2>5. \A m \in Ids : m <= clock' /\ m > conv'.at => OnItsWay(m)'
    BY <1>1, <2>1, <2>2 DEF AllAnnounced
  <2>6. \A m \in Ids : m <= clock' /\ msg'[m].st = "none" => OnItsWay(m)'
    BY <1>1, <2>1, <2>2, <2>3 DEF AllAnnounced
  <2>7. ASSUME conv'.at # 0, msg'[conv'.at].st = "purged", NEW m \in Inserted', m < conv'.at
        PROVE  OnItsWay(m)'
    <3>1. conv.at \in Ids /\ m \in Ids
      BY <1>0, <2>1, <2>7, MessagesAssumption DEF Ids, Inserted
    <3>2. m \in Inserted /\ ~(m <= k) BY <2>4, <2>7, <3>1
    <3>3. ~(conv.at <= k) BY <1>0, <2>1, <2>7, <3>1, <3>2
    <3>4. msg[conv.at].st = "purged" BY <2>1, <2>7, <3>1, <3>3
    <3>5. OnItsWay(m) BY <2>1, <2>7, <3>2, <3>4 DEF AllAnnounced
    <3> QED BY <1>1, <2>2, <3>1, <3>5
  <2> QED BY <2>5, <2>6, <2>7 DEF AllAnnounced
<1>6. CASE /\ ~StampMessage(r) /\ ~InsertMessage(r) /\ ~AnnounceMessage(r)
           /\ \A k \in Ids : ~PurgeMessages(r, k)
  <2>1. /\ clock' = clock /\ conv'.at = conv.at
        /\ \A m \in Ids : /\ msg'[m].st = "none" <=> msg[m].st = "none"
                          /\ msg'[m].st = "purged" <=> msg[m].st = "purged"
    BY <1>6, StatesStay
  <2>2. ~AnnounceMessage(r) BY <1>6
  <2>3. \A m \in Ids : m \in Inserted' => m \in Inserted
    BY <1>0, <2>1 DEF Inserted
  <2>4. \A m \in Ids : m <= clock' /\ m > conv'.at => OnItsWay(m)'
    BY <1>1, <2>1, <2>2 DEF AllAnnounced
  <2>5. \A m \in Ids : m <= clock' /\ msg'[m].st = "none" => OnItsWay(m)'
    BY <1>1, <2>1, <2>2 DEF AllAnnounced
  <2>6. ASSUME conv'.at # 0, msg'[conv'.at].st = "purged", NEW m \in Inserted', m < conv'.at
        PROVE  OnItsWay(m)'
    <3>1. conv.at \in Ids /\ m \in Ids
      BY <1>0, <2>1, <2>6, MessagesAssumption DEF Ids, Inserted
    <3>2. m \in Inserted /\ msg[conv.at].st = "purged" BY <2>1, <2>3, <2>6, <3>1
    <3>3. OnItsWay(m) BY <2>1, <2>6, <3>2 DEF AllAnnounced
    <3> QED BY <1>1, <2>2, <3>1, <3>3
  <2> QED BY <2>4, <2>5, <2>6 DEF AllAnnounced
<1> QED BY <1>2, <1>3, <1>4, <1>5, <1>6

-----------------------------------------------------------------------------
(* A step that leaves the last message and the preview as they are, by a   *)
(* request that held no number, purged nothing and stays the writer it was.*)
LEMMA PreviewSame ==
  ASSUME PreviewKept, NEW r \in MessageRequests,
         \A s \in MessageRequests : s # r => mreq'[s] = mreq[s],
         ~Held(r), ~Purges(r),
         conv' = conv,
         conv.at # 0 => /\ msg'[conv.at].st = msg[conv.at].st
                        /\ msg'[conv.at].text = msg[conv.at].text,
         mreq[r].st = "deleted" /\ mreq[r].id = conv.at =>
           mreq'[r].st = "deleted" /\ mreq'[r].id = conv.at,
         mreq[r].st \in {"edited", "preview"} /\ mreq[r].id = conv.at =>
           mreq'[r].st \in {"edited", "preview"} /\ mreq'[r].id = conv.at
  PROVE  PreviewKept'
<1>1. SUFFICES ASSUME \A s \in MessageRequests : ~Held(s)' /\ ~Purges(s)', conv'.at # 0
               PROVE  PreviewKept'
  BY DEF PreviewKept
<1>2. \A s \in MessageRequests : ~Held(s) /\ ~Purges(s)
  <2> TAKE s \in MessageRequests
  <2>1. CASE s = r BY <2>1
  <2>2. CASE s # r
    <3>1. mreq'[s] = mreq[s] BY <2>2
    <3> QED BY <1>1, <3>1 DEF Held, Purges
  <2> QED BY <2>1, <2>2
<1>3. \A s \in MessageRequests : Writes(s, {"deleted"}) => Writes(s, {"deleted"})'
  <2> TAKE s \in MessageRequests
  <2>1. CASE s = r BY <2>1 DEF Writes
  <2>2. CASE s # r
    <3>1. mreq'[s] = mreq[s] BY <2>2
    <3> QED BY <3>1 DEF Writes
  <2> QED BY <2>1, <2>2
<1>4. \A s \in MessageRequests :
        Writes(s, {"edited", "preview"}) => Writes(s, {"edited", "preview"})'
  <2> TAKE s \in MessageRequests
  <2>1. CASE s = r BY <2>1 DEF Writes
  <2>2. CASE s # r
    <3>1. mreq'[s] = mreq[s] BY <2>2
    <3> QED BY <3>1 DEF Writes
  <2> QED BY <2>1, <2>2
<1>5. /\ conv.at # 0
      /\ msg'[conv.at].st = msg[conv.at].st /\ msg'[conv.at].text = msg[conv.at].text
  BY <1>1
<1>6. conv.at \in Inserted' => conv.at \in Inserted
  BY <1>5 DEF Inserted
<1>7. /\ msg[conv.at].st = "purged" => conv.last = NoPreview
      /\ conv.at \in Inserted => conv.last.of = conv.at
      /\ msg[conv.at].st = "deleted" =>
           \/ conv.deleted \/ conv.last.text = ""
           \/ \E s \in MessageRequests : Writes(s, {"deleted"})
      /\ msg[conv.at].st = "live" =>
           /\ ~conv.deleted
           /\ \/ conv.last.text = msg[conv.at].text
              \/ /\ msg[conv.at].text = "edited"
                 /\ \E s \in MessageRequests : Writes(s, {"edited", "preview"})
  BY <1>2, <1>5 DEF PreviewKept
<1>8. msg'[conv'.at].st = "purged" => conv'.last = NoPreview BY <1>5, <1>7
<1>9. conv'.at \in Inserted' => conv'.last.of = conv'.at BY <1>6, <1>7
<1>10. msg'[conv'.at].st = "deleted" =>
         \/ conv'.deleted \/ conv'.last.text = ""
         \/ \E s \in MessageRequests : Writes(s, {"deleted"})'
  BY <1>3, <1>5, <1>7
<1>11. msg'[conv'.at].st = "live" =>
         /\ ~conv'.deleted
         /\ \/ conv'.last.text = msg'[conv'.at].text
            \/ /\ msg'[conv'.at].text = "edited"
               /\ \E s \in MessageRequests : Writes(s, {"edited", "preview"})'
  BY <1>4, <1>5, <1>7
<1> QED BY <1>8, <1>9, <1>10, <1>11 DEF PreviewKept

(* What was read off when nobody was writing a message, as it was found.   *)
LEMMA RefreshKeeps ==
  ASSUME MessagesTyped, DeletedStaysEmpty, Numbered, WritersKnow, AllAnnounced,
         NEW r \in MessageRequests, RefreshPreview(r), ~stirred',
         \A s \in MessageRequests : s # r => mreq'[s] = mreq[s]
  PROVE  PreviewKept'
<1>0. /\ mreq[r].st = "rewrite" /\ msg' = msg
      /\ conv'.at = conv.at /\ conv'.last = mreq[r].last /\ conv'.deleted = mreq[r].deleted
      /\ mreq[r].last = PreviewOf(Newest(Inserted))
  BY StepsTo DEF RefreshPreview, MessagesTyped, ConvDocs
<1>1. SUFFICES ASSUME \A s \in MessageRequests : ~Held(s)' /\ ~Purges(s)', conv'.at # 0
               PROVE  PreviewKept'
  BY DEF PreviewKept
<1>2. \A s \in MessageRequests : ~Held(s)
  <2> TAKE s \in MessageRequests
  <2>1. CASE s = r BY <1>0, <2>1 DEF Held
  <2>2. CASE s # r
    <3>1. mreq'[s] = mreq[s] BY <2>2
    <3> QED BY <1>1, <3>1 DEF Held
  <2> QED BY <2>1, <2>2
<1>3. \A m \in Ids : ~OnItsWay(m) BY <1>2 DEF OnItsWay
<1>4. /\ clock \in 0..MaxMessages /\ conv.at \in 1..MaxMessages
      /\ \A m \in Ids : m \in Int
  BY <1>0, <1>1, MessagesAssumption DEF MessagesTyped, ConvDocs, Ids
<1>5. conv.at \in Ids /\ conv.at <= clock BY <1>4 DEF Ids, Numbered
<1>6. \A m \in Inserted : m \in Ids /\ m <= conv.at
  <2> TAKE m \in Inserted
  <2>1. m \in Ids /\ msg[m].st # "none" BY DEF Inserted
  <2>2. m <= clock BY <1>4, <2>1 DEF Numbered
  <2>3. ~(m > conv.at) BY <1>3, <2>1, <2>2 DEF AllAnnounced
  <2> QED BY <1>4, <2>1, <2>3
<1>7. msg[conv.at].st # "none" BY <1>3, <1>5 DEF AllAnnounced
<1>8. CASE conv.at \in Inserted
  <2>1. Newest(Inserted) \in Inserted /\ conv.at <= Newest(Inserted)
    BY <1>8, NewestIs, InsertedIds
  <2>2. Newest(Inserted) = conv.at BY <1>4, <1>6, <2>1
  <2>3. conv'.last = [of |-> conv.at, text |-> msg[conv.at].text]
    BY <1>0, <1>1, <2>2 DEF PreviewOf
  <2>4. msg[conv.at].st \in {"live", "deleted"} BY <1>8 DEF Inserted
  <2>5. conv'.last.of = conv.at /\ conv'.last.text = msg[conv.at].text BY <2>3
  <2>6. msg[conv.at].st = "deleted" => msg[conv.at].text = ""
    BY <1>5 DEF DeletedStaysEmpty
  <2>7. msg[conv.at].st = "live" => ~conv'.deleted
    BY <1>0, <2>5 DEF WritersKnow
  <2> QED BY <1>0, <2>4, <2>5, <2>6, <2>7 DEF PreviewKept
<1>9. CASE conv.at \notin Inserted
  <2>1. msg[conv.at].st = "purged"
    BY <1>5, <1>7, <1>9 DEF MessagesTyped, MsgDocs, Inserted
  <2>2. \A m \in Inserted : m < conv.at BY <1>4, <1>6, <1>9
  <2>3. Inserted = {} BY <1>1, <1>0, <1>3, <1>6, <2>1, <2>2 DEF AllAnnounced
  <2>4. conv'.last = NoPreview BY <1>0, <2>3 DEF Newest, PreviewOf
  <2>5. conv'.at \notin Inserted' BY <1>0, <1>9 DEF Inserted
  <2> QED BY <1>0, <2>1, <2>4, <2>5 DEF PreviewKept
<1> QED BY <1>8, <1>9

LEMMA PreviewStep ==
  ASSUME MessagesTyped, DeletedStaysEmpty, Numbered, WritersKnow, AllAnnounced, PreviewKept,
         NEW r \in MessageRequests, MessageStep(r), ~stirred'
  PROVE  PreviewKept'
<1>0. /\ \A s \in MessageRequests : s # r => mreq'[s] = mreq[s]
      /\ conv.at \in 0..MaxMessages
      /\ conv.at # 0 => conv.at \in Ids
  BY OthersWait, MessagesAssumption DEF MessagesTyped, ConvDocs, Ids
<1>1. 0 \notin Ids BY DEF Ids
<1>2. ASSUME Held(r)' \/ Purges(r)' PROVE PreviewKept'
  BY <1>2 DEF PreviewKept
<1>3. ASSUME mreq[r].st \notin {"insert", "announce", "purged", "refresh", "rewrite",
                                "deleted", "edited", "preview"},
             conv' = conv,
             \A m \in Ids : msg'[m].st = msg[m].st /\ msg'[m].text = msg[m].text
      PROVE  PreviewKept'
  <2>1. ~Held(r) /\ ~Purges(r) BY <1>3 DEF Held, Purges
  <2> QED BY <1>0, <1>3, <2>1, PreviewSame
<1>4. CASE \/ \E u \in Members, f \in Attachable : CheckSend(r, u, f)
           \/ \E m \in Ids : FindToEdit(r, m)
           \/ \E m \in Ids : FindToDelete(r, m)
           \/ DestroyUploads(r)
  <2>1. UNCHANGED <<msg, conv>> BY <1>4 DEF CheckSend, FindToEdit, FindToDelete, DestroyUploads
  <2>2. mreq[r].st \in {"idle", "unlink"} BY <1>4, StepsTo
  <2> QED BY <1>3, <2>1, <2>2
<1>5. CASE StampMessage(r) \/ InsertMessage(r)
  BY <1>2, <1>5, StepsTo DEF Held
<1>6. CASE AnnounceMessage(r)
  <2>1. /\ mreq[r].st = "announce" /\ msg' = msg
        /\ conv' = [at |-> mreq[r].id, last |-> [of |-> mreq[r].id, text |-> "sent"],
                    deleted |-> FALSE]
        /\ msg[mreq[r].id].st = "live" /\ msg[mreq[r].id].text = "sent"
    BY <1>6, StepsTo DEF AnnounceMessage
  <2> QED BY <2>1, ZenonT(60) DEF PreviewKept
<1>7. CASE EditText(r)
  <2>1. /\ mreq[r].st = "edit" /\ mreq'[r].st = "edited" /\ mreq'[r].id = mreq[r].id
        /\ conv' = conv
    BY <1>7, StepsTo DEF EditText
  <2>2. /\ mreq[r].id \in Ids
        /\ \A n \in Ids : n # mreq[r].id => msg'[n] = msg[n]
        /\ msg'[mreq[r].id].st = msg[mreq[r].id].st
        /\ msg[mreq[r].id].st = "live" => msg'[mreq[r].id].text = "edited"
        /\ msg[mreq[r].id].st # "live" => msg'[mreq[r].id].text = msg[mreq[r].id].text
    BY <1>7, EditDoes
  <2>3. ~Held(r) /\ ~Purges(r) BY <2>1 DEF Held, Purges
  <2>4. CASE conv.at = mreq[r].id /\ msg[conv.at].st = "live"
    <3>1. SUFFICES ASSUME \A s \in MessageRequests : ~Held(s)' /\ ~Purges(s)'
                   PROVE  PreviewKept'
      BY DEF PreviewKept
    <3>2. \A s \in MessageRequests : ~Held(s) /\ ~Purges(s)
      <4> TAKE s \in MessageRequests
      <4>1. CASE s = r BY <2>3, <4>1
      <4>2. CASE s # r
        <5>1. mreq'[s] = mreq[s] BY <1>0, <4>2
        <5> QED BY <3>1, <5>1 DEF Held, Purges
      <4> QED BY <4>1, <4>2
    <3>3. conv.at \in Inserted /\ conv.at # 0
      BY <2>2, <2>4, <1>1 DEF Inserted
    <3>4. conv.last.of = conv.at /\ ~conv.deleted
      BY <2>4, <3>2, <3>3 DEF PreviewKept
    <3>5. msg'[conv'.at].st = "live" /\ msg'[conv'.at].text = "edited"
      BY <2>1, <2>2, <2>4
    <3>6. Writes(r, {"edited", "preview"})' BY <2>1, <2>4 DEF Writes
    <3> QED BY <2>1, <3>4, <3>5, <3>6 DEF PreviewKept
  <2>5. CASE ~(conv.at = mreq[r].id /\ msg[conv.at].st = "live")
    <3>1. conv.at # 0 => /\ msg'[conv.at].st = msg[conv.at].st
                         /\ msg'[conv.at].text = msg[conv.at].text
      BY <1>0, <2>2, <2>5
    <3> QED BY <1>0, <2>1, <2>3, <3>1, PreviewSame
  <2> QED BY <2>4, <2>5
<1>8. CASE FindLatestEdited(r)
  <2>1. /\ mreq[r].st = "edited" /\ UNCHANGED <<msg, conv>>
        /\ \/ conv.at = mreq[r].id /\ mreq'[r].st = "preview" /\ mreq'[r].id = mreq[r].id
           \/ conv.at # mreq[r].id /\ mreq'[r].st = "idle"
    BY <1>8, StepsTo DEF FindLatestEdited
  <2>2. ~Held(r) /\ ~Purges(r) BY <2>1 DEF Held, Purges
  <2>3. mreq[r].st # "deleted" BY <2>1
  <2>4. mreq[r].id = conv.at => mreq'[r].st \in {"edited", "preview"} /\ mreq'[r].id = conv.at
    BY <2>1
  <2> QED BY <1>0, <2>1, <2>2, <2>3, <2>4, PreviewSame
<1>9. CASE EditPreview(r)
  <2>1. /\ mreq[r].st = "preview" /\ mreq'[r].st = "idle" /\ msg' = msg
        /\ conv.at = mreq[r].id /\ msg[conv.at].st = "live"
        /\ conv' = [conv EXCEPT !.last.text = "edited"]
    BY <1>9, StepsTo DEF EditPreview
  <2>2. conv'.at = conv.at /\ conv'.deleted = conv.deleted
        /\ conv'.last.of = conv.last.of /\ conv'.last.text = "edited"
    BY <2>1 DEF MessagesTyped, ConvDocs, Previews
  <2>3. msg[conv.at].text = "edited" BY <2>1 DEF WritersKnow
  <2>4. SUFFICES ASSUME \A s \in MessageRequests : ~Held(s)' /\ ~Purges(s)', conv'.at # 0
                 PROVE  PreviewKept'
    BY DEF PreviewKept
  <2>5. \A s \in MessageRequests : ~Held(s) /\ ~Purges(s)
    <3> TAKE s \in MessageRequests
    <3>1. CASE s = r BY <2>1, <3>1 DEF Held, Purges
    <3>2. CASE s # r
      <4>1. mreq'[s] = mreq[s] BY <1>0, <3>2
      <4> QED BY <2>4, <4>1 DEF Held, Purges
    <3> QED BY <3>1, <3>2
  <2>6. conv.at \in Inserted BY <1>0, <2>1, <2>2, <2>4 DEF Inserted
  <2>7. conv.last.of = conv.at /\ ~conv.deleted
    BY <2>1, <2>2, <2>4, <2>5, <2>6, SMTT(60) DEF PreviewKept
  <2> QED BY <2>1, <2>2, <2>3, <2>7 DEF PreviewKept
<1>10. CASE DeleteMessage(r)
  <2>1. /\ mreq[r].st = "delete" /\ mreq[r].id \in Ids /\ conv' = conv
        /\ \A n \in Ids : n # mreq[r].id => msg'[n] = msg[n]
        /\ msg[mreq[r].id].st = "live" =>
             msg'[mreq[r].id].st = "deleted" /\ msg'[mreq[r].id].text = ""
        /\ msg[mreq[r].id].st # "live" => msg'[mreq[r].id] = msg[mreq[r].id]
        /\ mreq'[r].st = "deleted" /\ mreq'[r].id = mreq[r].id
    BY <1>10, StepsTo, DeleteDoes DEF DeleteMessage
  <2>2. ~Held(r) /\ ~Purges(r) BY <2>1 DEF Held, Purges
  <2>3. CASE conv.at = mreq[r].id /\ msg[conv.at].st = "live"
    <3>1. SUFFICES ASSUME \A s \in MessageRequests : ~Held(s)' /\ ~Purges(s)'
                   PROVE  PreviewKept'
      BY DEF PreviewKept
    <3>2. \A s \in MessageRequests : ~Held(s) /\ ~Purges(s)
      <4> TAKE s \in MessageRequests
      <4>1. CASE s = r BY <2>2, <4>1
      <4>2. CASE s # r
        <5>1. mreq'[s] = mreq[s] BY <1>0, <4>2
        <5> QED BY <3>1, <5>1 DEF Held, Purges
      <4> QED BY <4>1, <4>2
    <3>3. conv.at \in Inserted /\ conv.at # 0
      BY <2>1, <2>3, <1>1 DEF Inserted
    <3>4. conv.last.of = conv.at BY <3>2, <3>3 DEF PreviewKept
    <3>5. msg'[conv'.at].st = "deleted" BY <2>1, <2>3
    <3>6. Writes(r, {"deleted"})' BY <2>1, <2>3 DEF Writes
    <3> QED BY <2>1, <3>4, <3>5, <3>6 DEF PreviewKept
  <2>4. CASE ~(conv.at = mreq[r].id /\ msg[conv.at].st = "live")
    <3>1. conv.at # 0 => msg'[conv.at] = msg[conv.at] BY <1>0, <2>1, <2>4
    <3> QED BY <1>0, <2>1, <2>2, <3>1, PreviewSame
  <2> QED BY <2>3, <2>4
<1>11. CASE DeletePreview(r)
  <2>1. /\ mreq[r].st = "deleted" /\ mreq'[r].st = "unlink" /\ msg' = msg
        /\ conv' = IF conv.at = mreq[r].id
                   THEN [conv EXCEPT !.deleted = TRUE, !.last.text = ""] ELSE conv
    BY <1>11, StepsTo DEF DeletePreview
  <2>2. ~Held(r) /\ ~Purges(r) BY <2>1 DEF Held, Purges
  <2>3. CASE conv.at # mreq[r].id
    BY <1>0, <2>1, <2>2, <2>3, PreviewSame
  <2>4. CASE conv.at = mreq[r].id
    <3>1. conv'.at = conv.at /\ conv'.deleted /\ conv'.last = [conv.last EXCEPT !.text = ""]
          /\ conv'.last.of = conv.last.of
      BY <2>1, <2>4 DEF MessagesTyped, ConvDocs, Previews
    <3>2. msg[conv.at].st \in {"deleted", "purged"} BY <2>1, <2>4 DEF WritersKnow
    <3>3. SUFFICES ASSUME \A s \in MessageRequests : ~Held(s)' /\ ~Purges(s)', conv'.at # 0
                   PROVE  PreviewKept'
      BY DEF PreviewKept
    <3>4. \A s \in MessageRequests : ~Held(s) /\ ~Purges(s)
      <4> TAKE s \in MessageRequests
      <4>1. CASE s = r BY <2>2, <4>1
      <4>2. CASE s # r
        <5>1. mreq'[s] = mreq[s] BY <1>0, <4>2
        <5> QED BY <3>3, <5>1 DEF Held, Purges
      <4> QED BY <4>1, <4>2
    <3>5. /\ msg[conv.at].st = "purged" => conv.last = NoPreview
          /\ conv.at \in Inserted => conv.last.of = conv.at
      BY <3>1, <3>3, <3>4 DEF PreviewKept
    <3>6. conv'.at \in Inserted' => conv'.last.of = conv'.at
      BY <2>1, <3>1, <3>5 DEF Inserted
    <3>7. msg'[conv'.at].st = "purged" => conv'.last = NoPreview
      <4>1. \A p \in Previews : p = [of |-> p.of, text |-> p.text] BY DEF Previews
      <4>2. conv.last \in Previews BY DEF MessagesTyped, ConvDocs
      <4>3. NoPreview.of = 0 BY DEF NoPreview
      <4>4. conv'.last \in Previews /\ conv'.last.text = ""
        BY <3>1, <4>2 DEF Previews, Texts
      <4>5. conv.last = NoPreview => conv'.last = NoPreview
        BY <3>1, <4>1, <4>3, <4>4 DEF NoPreview
      <4> QED BY <2>1, <3>1, <3>5, <4>5
    <3> QED BY <2>1, <3>1, <3>2, <3>6, <3>7 DEF PreviewKept
  <2> QED BY <2>3, <2>4
<1>12. CASE Reacting(r)
  <2>1. /\ \A n \in Ids : msg'[n].st = msg[n].st /\ msg'[n].text = msg[n].text
        /\ conv' = conv /\ mreq[r].st \in {"idle", "push", "join", "pull", "prune"}
    BY <1>12, ReactingDoes
  <2> QED BY <1>3, <2>1
<1>13. CASE Marking(r)
  <2>1. msg' = msg /\ conv' = conv /\ mreq[r].st \in {"idle", "read", "clear"}
    BY <1>13, MarkingDoes
  <2> QED BY <1>3, <2>1
<1>14. CASE \/ \E k \in Ids : PurgeMessages(r, k)
            \/ PurgeUploads(r) \/ FindLatest(r)
  <2>1. Purges(r)' BY <1>14, PurgeDoes, StepsTo DEF Purges
  <2> QED BY <1>2, <2>1
<1>15. CASE RefreshPreview(r) BY <1>0, <1>15, RefreshKeeps
<1>16. CASE MessageRequestEnds(r)
  <2>1. /\ mreq[r].st \in {"send", "edit", "delete", "push", "join", "pull", "prune", "unlink",
                       "read", "clear"}
        /\ UNCHANGED <<msg, conv>>
    BY <1>16 DEF MessageRequestEnds
  <2> QED BY <1>3, <2>1
<1> QED
  BY <1>4, <1>5, <1>6, <1>7, <1>8, <1>9, <1>10, <1>11, <1>12, <1>14, <1>15, <1>16, <1>13
  DEF MessageStep, Writing, Purging

-----------------------------------------------------------------------------
(* A step of a member that leaves what the requests look at as it is.      *)
LEMMA AsBefore ==
  ASSUME MessagesInv, MessagesTyped',
         UNCHANGED <<clock, conv, stored, mreq, stirred, reread, again>>,
         \A m \in Ids : /\ msg'[m].st = msg[m].st /\ msg'[m].text = msg[m].text
                        /\ msg'[m].file = msg[m].file,
         \A u \in Members : mine'[u].cleared <= clock,
         ReadPastCleared => ReadPastCleared'
  PROVE  MessagesInv'
<1>0. /\ MessagesTyped /\ DeletedStaysEmpty /\ Numbered /\ WritersKnow
      /\ FilesApart /\ ReadPastCleared
      /\ ~stirred => AllAnnounced /\ PreviewKept
  BY DEF MessagesInv
<1>1. DeletedStaysEmpty' BY <1>0 DEF DeletedStaysEmpty
<1>2. Numbered'
  <2>1. \A s \in MessageRequests : Held(s)' => mreq'[s] = mreq[s] OBVIOUS
  <2>2. conv'.at <= clock /\ \A s \in MessageRequests : On(s, "clear")' => mreq'[s].date <= clock
    BY <1>0 DEF Numbered, On
  <2> QED BY <1>0, <2>1, <2>2, NumberedKept
<1>3. \A s \in MessageRequests :
        mreq[s].st \in {"edit", "edited", "preview", "delete", "deleted"} => mreq[s].id \in Ids
  BY <1>0, WorkOf DEF EditDocs, DeleteDocs
<1>4. WritersKnow' BY <1>0, <1>3 DEF WritersKnow
<1>5. FilesApart'
  <2>1. \A s \in MessageRequests : \A f \in FilesOf(mreq'[s]) :
             f \in FilesOf(mreq[s]) \/ \E m \in Ids : msg[m].file = f
    OBVIOUS
  <2>2. \A s \in MessageRequests : Sends(s)' => Sends(s) /\ mreq'[s].file = mreq[s].file
    BY DEF Sends, Loose
  <2>3. \A s \in MessageRequests : On(s, "delete")' =>
             \A m \in Ids : msg'[m].file = mreq'[s].file /\ msg'[m].file \notin Loose => m = mreq'[s].id
    BY <1>0 DEF On, FilesApart
  <2>4. \A s \in MessageRequests : Unlinks(s)' =>
             \A m \in Ids : msg'[m].file \notin FilesOf(mreq'[s]) \ Loose
    <3> TAKE s \in MessageRequests
    <3>1. HAVE Unlinks(s)'
    <3>2. mreq'[s] = mreq[s] /\ Unlinks(s) BY <3>1 DEF Unlinks
    <3> QED BY <1>0, <3>2 DEF FilesApart
  <2>5. \A m \in Ids : msg'[m].file \in {msg[m].file, NoFile} OBVIOUS
  <2> QED BY <1>0, <2>1, <2>2, <2>3, <2>4, <2>5, FilesAsBefore
<1>6. /\ \A m : OnItsWay(m)' <=> OnItsWay(m)
      /\ \A m : m \in Inserted' <=> m \in Inserted
      /\ \A s : (Held(s)' <=> Held(s)) /\ (Purges(s)' <=> Purges(s))
      /\ \A s, sts : Writes(s, sts)' <=> Writes(s, sts)
  BY DEF OnItsWay, Inserted, Held, Purges, Writes
<1>7. conv.at # 0 => conv.at \in Ids
  BY <1>0, MessagesAssumption DEF MessagesTyped, ConvDocs, Ids
<1>8. AllAnnounced => AllAnnounced' BY <1>6, <1>7 DEF AllAnnounced
<1>9. PreviewKept => PreviewKept' BY <1>6, <1>7 DEF PreviewKept
<1> QED BY <1>0, <1>1, <1>2, <1>4, <1>5, <1>8, <1>9 DEF MessagesInv

LEMMA RequestKeeps ==
  ASSUME MessagesInv, NEW r \in MessageRequests, MessageStep(r)
  PROVE  MessagesInv'
<1>0. /\ MessagesTyped /\ DeletedStaysEmpty /\ Numbered /\ WritersKnow
      /\ FilesApart /\ ReadPastCleared
      /\ ~stirred => AllAnnounced /\ PreviewKept
  BY DEF MessagesInv
<1>1. MessagesTyped'
  BY <1>0, WritingTyped, ReactingTyped, PurgingTyped, MarkingDoes, EndingTyped DEF MessageStep
<1>2. DeletedStaysEmpty' BY <1>0, DocsGoOn, GoesOnEmpty
<1>3. Numbered' BY <1>0, NumberedStep
<1>4. WritersKnow' BY <1>0, WritersStep
<1>5. FilesApart' BY <1>0, FilesStep
<1>6. ReadPastCleared' BY <1>0, ReadStep
<1>7. ASSUME ~stirred' PROVE AllAnnounced' /\ PreviewKept'
  <2>1. ~stirred BY <1>0, <1>7, StirredStays
  <2>2. AllAnnounced' BY <1>0, <1>7, <2>1, AnnouncedStep
  <2>3. PreviewKept' BY <1>0, <1>7, <2>1, PreviewStep
  <2> QED BY <2>2, <2>3
<1> QED BY <1>1, <1>2, <1>3, <1>4, <1>5, <1>6, <1>7 DEF MessagesInv

LEMMA MessagesBegin == MessagesInit => MessagesInv
<1> SUFFICES ASSUME MessagesInit PROVE MessagesInv
  OBVIOUS
<1>1. /\ clock = 0 /\ stored = Files /\ stirred = FALSE /\ reread = {} /\ again = {}
      /\ \A m \in Ids : /\ msg[m].st = "none" /\ msg[m].text = "" /\ msg[m].file = NoFile
      /\ conv.at = 0
      /\ \A u \in Members : mine[u].cleared = 0 /\ mine[u].read = 0
      /\ \A r \in MessageRequests : mreq[r] = Free /\ mreq[r].st = "idle"
  BY DEF MessagesInit, Free
<1>2. MessagesTyped
  <2>1. [st |-> "none", sender |-> Nobody, text |-> "", file |-> NoFile,
         reactions |-> <<>>, hiddenBy |-> {}] \in MsgDocs
    BY DEF MsgDocs, Texts, Uploads, EntryDocs
  <2>2. msg \in [Ids -> MsgDocs] BY <2>1 DEF MessagesInit
  <2>3. [cleared |-> 0, read |-> 0] \in MarkDocs BY MessagesAssumption DEF MarkDocs
  <2>4. mine \in [Members -> MarkDocs] BY <2>3 DEF MessagesInit
  <2>0. 0 \in 0..MaxMessages BY MessagesAssumption
  <2>9. NoPreview \in Previews BY DEF NoPreview, Previews, Texts
  <2>5. conv \in ConvDocs
    BY <2>0, <2>9 DEF MessagesInit, ConvDocs
  <2>6. mreq \in [MessageRequests -> MessageWork] BY DEF MessagesInit, MessageWork
  <2>7. /\ stored \subseteq Files /\ stirred \in BOOLEAN
        /\ reread \subseteq Members /\ again \subseteq Files
    BY <1>1
  <2>8. clock \in 0..MaxMessages BY <1>1, <2>0
  <2> QED BY <2>2, <2>4, <2>5, <2>6, <2>7, <2>8 DEF MessagesTyped
<1>3. DeletedStaysEmpty BY <1>1 DEF DeletedStaysEmpty
<1>4. Numbered
  <2>0. 0 <= 0 OBVIOUS
  <2>1. conv.at <= clock /\ \A u \in Members : mine[u].cleared <= clock BY <1>1, <2>0
  <2>2. \A r \in MessageRequests : ~Held(r) /\ ~On(r, "insert") /\ ~On(r, "announce")
                                     /\ ~On(r, "clear")
    BY <1>1 DEF Held, On
  <2> QED BY <1>1, <2>1, <2>2 DEF Numbered
<1>5. WritersKnow BY <1>1 DEF WritersKnow
<1>6. FilesApart BY <1>1 DEF FilesApart, Sends, Unlinks, On, Loose
<1>7. ReadPastCleared
  <2>1. 0 <= 0 OBVIOUS
  <2> QED BY <1>1, <2>1 DEF ReadPastCleared
<1>8. AllAnnounced
  <2>0. \A m \in Ids : ~(m <= 0) BY DEF Ids
  <2>1. \A m \in Ids : ~(m <= clock) BY <1>1, <2>0
  <2> QED BY <1>1, <2>1 DEF AllAnnounced
<1>9. PreviewKept BY <1>1 DEF PreviewKept
<1> QED BY <1>2, <1>3, <1>4, <1>5, <1>6, <1>7, <1>8, <1>9 DEF MessagesInv

LEMMA MessagesStep ==
  MessagesInv /\ [MessagesNext]_messageVars => MessagesInv'
<1> SUFFICES ASSUME MessagesInv, [MessagesNext]_messageVars PROVE MessagesInv'
  OBVIOUS
<1>0. MessagesTyped /\ Numbered BY DEF MessagesInv
<1>1. ASSUME NEW r \in MessageRequests, MessageStep(r) PROVE MessagesInv'
  BY <1>1, RequestKeeps
<1>2. ASSUME NEW u \in Members, NEW m \in Ids, HideMessage(u, m) PROVE MessagesInv'
  <2>1. MessagesTyped' BY <1>0, <1>2, HidingTyped
  <2>2. /\ \A n \in Ids : /\ msg'[n].st = msg[n].st /\ msg'[n].text = msg[n].text
                          /\ msg'[n].file = msg[n].file
        /\ UNCHANGED <<clock, conv, mine, stored, mreq, stirred, reread, again>>
    BY <1>0, <1>2, HideDoes
  <2>3. \A v \in Members : mine'[v].cleared <= clock BY <1>0, <2>2 DEF Numbered
  <2>4. ReadPastCleared => ReadPastCleared' BY <2>2 DEF ReadPastCleared
  <2> QED BY <2>1, <2>2, <2>3, <2>4, AsBefore
<1>3. CASE UNCHANGED messageVars
  <2>1. UNCHANGED <<clock, msg, conv, mine, stored, mreq, stirred, reread, again>>
    BY <1>3 DEF messageVars
  <2>2. MessagesTyped' BY <1>0, <2>1 DEF MessagesTyped
  <2>3. \A v \in Members : mine'[v].cleared <= clock BY <1>0, <2>1 DEF Numbered
  <2>4. ReadPastCleared => ReadPastCleared' BY <2>1 DEF ReadPastCleared
  <2> QED BY <2>1, <2>2, <2>3, <2>4, AsBefore
<1> QED BY <1>1, <1>2, <1>3 DEF MessagesNext, MessageStep

-----------------------------------------------------------------------------
(* What the messages keep, from what is kept at every step.                *)
LEMMA DocsAreTyped ==
  ASSUME MessagesTyped
  PROVE  MessagesTypeOK /\ OneEntryPerEmoji
<1>1. EntryDocs \subseteq Reactions
  <2>1. <<>> \in [1..0 -> SUBSET Members] OBVIOUS
  <2>2. \A who \in SUBSET Members : <<who>> \in [1..1 -> SUBSET Members] OBVIOUS
  <2>3. 0 \in 0..2 /\ 1 \in 0..2 OBVIOUS
  <2> QED BY <2>1, <2>2, <2>3, ZenonT(60) DEF EntryDocs, Reactions
<1>2. MsgDocs \subseteq MessageDocs BY <1>1 DEF MsgDocs, MessageDocs, Uploads
<1>3. MessagesTypeOK BY <1>2 DEF MessagesTypeOK, MessagesTyped, ConvDocs, MarkDocs
<1>4. \A e \in EntryDocs : Len(e) <= 1
  <2>1. Len(<<>>) = 0 /\ \A who : Len(<<who>>) = 1 OBVIOUS
  <2>2. 0 <= 1 /\ 1 <= 1 OBVIOUS
  <2> QED BY <2>1, <2>2 DEF EntryDocs
<1>5. \A m \in Ids : msg[m].reactions \in EntryDocs BY DEF MessagesTyped, MsgDocs
<1> QED BY <1>3, <1>4, <1>5 DEF OneEntryPerEmoji

(* At rest the preview a member is listed is the newest message that       *)
(* member can see.                                                         *)
LEMMA ListedIsNewest ==
  ASSUME MessagesInv, ~stirred, \A r \in MessageRequests : mreq[r] = Free, NEW u \in Members
  PROVE  ListedPreview(u) = PreviewOf(Newest(Visible(u)))
<1>0. /\ MessagesTyped /\ DeletedStaysEmpty /\ Numbered /\ AllAnnounced /\ PreviewKept
  BY DEF MessagesInv
<1>1. \A r \in MessageRequests : ~Held(r) /\ ~Purges(r) /\ \A sts : "idle" \notin sts => ~Writes(r, sts)
  BY DEF Free, Held, Purges, Writes
<1>2. \A m \in Ids : ~OnItsWay(m) BY <1>1 DEF OnItsWay
<1>3. /\ clock \in 0..MaxMessages /\ conv.at \in 0..MaxMessages
      /\ mine[u].cleared \in 0..MaxMessages
      /\ \A m \in Ids : m \in Int /\ m > 0
      /\ conv.at <= clock
  BY <1>0 DEF MessagesTyped, ConvDocs, MarkDocs, Ids, Numbered
<1>4. \A m \in Inserted : m \in Ids /\ m <= conv.at
  <2> TAKE m \in Inserted
  <2>1. m \in Ids /\ msg[m].st # "none" BY DEF Inserted
  <2>2. m <= clock BY <1>0, <1>3, <2>1 DEF Numbered
  <2>3. ~(m > conv.at) BY <1>0, <1>2, <2>1, <2>2 DEF AllAnnounced
  <2> QED BY <1>3, <2>1, <2>3
<1>5. Visible(u) = {} => PreviewOf(Newest(Visible(u))) = NoPreview
  BY DEF Newest, PreviewOf
<1>6. CASE conv.at <= mine[u].cleared
  <2>1. \A m \in Inserted : ~(m > mine[u].cleared) BY <1>3, <1>4, <1>6
  <2>2. Visible(u) = {} BY <2>1 DEF Visible
  <2>3. ListedPreview(u) = NoPreview BY <1>6 DEF ListedPreview
  <2> QED BY <1>5, <2>2, <2>3
<1>7. CASE ~(conv.at <= mine[u].cleared) /\ conv.at \in Inserted /\ u \in msg[conv.at].hiddenBy
  BY <1>7 DEF ListedPreview
<1>8. CASE ~(conv.at <= mine[u].cleared) /\ ~(conv.at \in Inserted /\ u \in msg[conv.at].hiddenBy)
  <2>1. conv.at # 0 /\ conv.at > mine[u].cleared /\ conv.at \in Ids
    BY <1>3, <1>8, MessagesAssumption DEF Ids
  <2>2. ListedPreview(u) = IF conv.deleted THEN [conv.last EXCEPT !.text = ""] ELSE conv.last
    BY <1>8 DEF ListedPreview
  <2>3. \A p \in Previews : p = [of |-> p.of, text |-> p.text] BY DEF Previews
  <2>4. /\ ListedPreview(u) \in Previews
        /\ ListedPreview(u).of = conv.last.of
        /\ ListedPreview(u).text = IF conv.deleted THEN "" ELSE conv.last.text
    <3>1. conv.last \in Previews BY <1>0 DEF MessagesTyped, ConvDocs
    <3>2. /\ [conv.last EXCEPT !.text = ""] \in Previews
          /\ [conv.last EXCEPT !.text = ""].of = conv.last.of
          /\ [conv.last EXCEPT !.text = ""].text = ""
      BY <3>1 DEF Previews, Texts
    <3> QED BY <2>2, <3>1, <3>2
  <2>5. CASE conv.at \in Inserted
    <3>1. conv.at \in Visible(u) BY <1>8, <2>1, <2>5 DEF Visible
    <3>2. Newest(Visible(u)) \in Visible(u) /\ conv.at <= Newest(Visible(u))
      BY <3>1, NewestIs, InsertedIds
    <3>3. Newest(Visible(u)) \in Inserted BY <3>2 DEF Visible
    <3>4. Newest(Visible(u)) = conv.at BY <1>3, <1>4, <3>2, <3>3
    <3>5. PreviewOf(Newest(Visible(u))) = [of |-> conv.at, text |-> msg[conv.at].text]
      BY <2>1, <3>4 DEF PreviewOf
    <3>6. conv.last.of = conv.at BY <1>0, <1>1, <2>1, <2>5 DEF PreviewKept
    <3>7. CASE msg[conv.at].st = "live"
      <4>1. ~conv.deleted /\ conv.last.text = msg[conv.at].text
        BY <1>0, <1>1, <2>1, <3>7 DEF PreviewKept
      <4> QED BY <2>3, <2>4, <3>5, <3>6, <4>1
    <3>8. CASE msg[conv.at].st = "deleted"
      <4>1. conv.deleted \/ conv.last.text = ""
        BY <1>0, <1>1, <2>1, <3>8 DEF PreviewKept
      <4>2. msg[conv.at].text = "" BY <1>0, <2>1, <3>8 DEF DeletedStaysEmpty
      <4>3. ListedPreview(u).text = "" BY <2>4, <4>1
      <4> QED BY <2>3, <2>4, <3>5, <3>6, <4>2, <4>3
    <3> QED BY <2>5, <3>7, <3>8 DEF Inserted
  <2>6. CASE conv.at \notin Inserted
    <3>1. msg[conv.at].st # "none" BY <1>0, <1>2, <1>3, <2>1 DEF AllAnnounced
    <3>2. msg[conv.at].st = "purged"
      BY <1>0, <2>1, <2>6, <3>1 DEF MessagesTyped, MsgDocs, Inserted
    <3>3. \A m \in Inserted : m < conv.at BY <1>3, <1>4, <2>6
    <3>4. Inserted = {} BY <1>0, <1>2, <1>4, <2>1, <3>2, <3>3 DEF AllAnnounced
    <3>5. Visible(u) = {} BY <3>4 DEF Visible
    <3>6. conv.last = NoPreview BY <1>0, <1>1, <2>1, <3>2 DEF PreviewKept
    <3>7. NoPreview.of = 0 BY DEF NoPreview
    <3>8. NoPreview.text = "" BY DEF NoPreview
    <3>9. ListedPreview(u).of = 0 /\ ListedPreview(u).text = ""
      BY <2>4, <3>6, <3>7, <3>8
    <3>10. ListedPreview(u) = NoPreview BY <2>3, <2>4, <3>9 DEF NoPreview
    <3> QED BY <1>5, <3>5, <3>10
  <2> QED BY <2>5, <2>6
<1> QED BY <1>6, <1>7, <1>8

LEMMA MessagesKeep ==
  ASSUME MessagesInv
  PROVE  MessagesTypeOK /\ OneEntryPerEmoji /\ MessagesInOrder
<1>0. /\ MessagesTyped /\ DeletedStaysEmpty
      /\ FilesApart /\ ReadPastCleared
  BY DEF MessagesInv
<1>1. MessagesTypeOK /\ OneEntryPerEmoji BY <1>0, DocsAreTyped
<1>2. PreviewRight BY ListedIsNewest DEF PreviewRight
<1>3. UnreadIsVisible
  <2>1. SUFFICES ASSUME NEW u \in Members \ reread, NEW m \in CountUnread(u)
                 PROVE  m \in Visible(u)
    BY DEF UnreadIsVisible
  <2>2. m \in Inserted /\ u \notin msg[m].hiddenBy /\ m > mine[u].read
    BY <2>1 DEF CountUnread
  <2>3. mine[u].cleared <= mine[u].read BY <1>0, <2>1 DEF ReadPastCleared
  <2>4. /\ mine[u].cleared \in Int /\ mine[u].read \in Int /\ m \in Int
    BY <1>0, <2>2, InsertedIds DEF MessagesTyped, MarkDocs, Ids
  <2>5. m > mine[u].cleared BY <2>2, <2>3, <2>4
  <2> QED BY <2>2, <2>5 DEF Visible
<1>4. FilesKept BY <1>0 DEF FilesKept, FilesApart, Loose
<1> QED BY <1>0, <1>1, <1>2, <1>3, <1>4 DEF MessagesInOrder, ListRight

(* Messages, previews, marks and files have their types, however many      *)
(* members, messages, files and requests there are (messageRepository,     *)
(* conversationRepository).                                                *)
THEOREM MessagesTypeCorrect == MessagesSpec => [](MessagesTypeOK /\ OneEntryPerEmoji)
<1>1. MessagesInv => MessagesTypeOK /\ OneEntryPerEmoji BY MessagesKeep
<1> QED BY <1>1, MessagesBegin, MessagesStep, PTL DEF MessagesSpec

(* The chat list is true for every member until a preview was stirred,     *)
(* nothing cleared is counted unread but by members whose mark was written *)
(* after a clear it was dated before, what was deleted stays empty, and    *)
(* what was not keeps its file, but for files sent again after they were   *)
(* destroyed or while they were on their way: in whatever order requests   *)
(* send, edit, delete, hide, mark, clear, react and purge (chat.service.ts, *)
(* chatRetention.service.ts).                                              *)
THEOREM MessagesKeptInOrder == MessagesSpec => []MessagesInOrder
<1>1. MessagesInv => MessagesInOrder BY MessagesKeep
<1> QED BY <1>1, MessagesBegin, MessagesStep, PTL DEF MessagesSpec

-----------------------------------------------------------------------------
(* The discussions. What a request is at tells what it holds.              *)
LEMMA WorkAt ==
  ASSUME DiscussionsTyped, NEW r \in DiscussionRequests
  PROVE  /\ dreq[r].at = "silent" <=> dreq[r] = Silent
         /\ dreq[r].at = "record" => dreq[r] \in RecordDocs
         /\ dreq[r].at = "answer" => dreq[r] \in AnswerDocs
         /\ dreq[r].at \in {"claim", "notify"} => dreq[r] \in NudgeDocs
<1>1. dreq[r] \in DiscussionWork BY DEF DiscussionsTyped
<1> QED BY <1>1 DEF DiscussionWork, Silent, RecordDocs, AnswerDocs, NudgeDocs

LEMMA PostsTyped ==
  ASSUME DiscussionsTyped
  PROVE  /\ Len(posts) \in Nat
         /\ \A p \in PostIds : p \in Nat \ {0} /\ posts[p] \in PostDocs
BY DEF DiscussionsTyped, PostIds

(* Nothing was said: a message that was destroyed.                         *)
LEMMA ErasedIs ==
  /\ Erased \in PostDocs
  /\ Erased.kind = "erased" /\ Erased.all = TRUE /\ Erased.root = 0 /\ Erased.re = 0
  /\ Erased.by = {} /\ Erased.to = {} /\ Erased.asked = {} /\ Erased.shared = {}
  /\ Erased.told = {} /\ Erased.chatter = {}
  /\ Erased.answer = 0 /\ Erased.nudge = "no" /\ Erased.nudges = 0
BY DEF Erased, PostDocs, People

-----------------------------------------------------------------------------
(* Who is told when groups that are addressed come first and general       *)
(* chatter last: everyone addressed who is here, as such; of the others    *)
(* those who did not mute the place; the author not at all.                *)
Told(groups, author, addressed, others) ==
  /\ (addressed \cap here) \ author \subseteq Recipients(groups, author, FALSE)
  /\ Recipients(groups, author, FALSE) \subseteq addressed \ author
  /\ Recipients(groups, author, TRUE) \subseteq others \ (author \cup scene.muted)
  /\ Recipients(groups, author, FALSE) \cap Recipients(groups, author, TRUE) = {}
  /\ Recipients(groups, author, FALSE) \in People /\ Recipients(groups, author, TRUE) \in People

LEMMA TellsOne ==
  ASSUME DiscussionsTyped, NEW a, NEW author
  PROVE  Told(<<To(a)>>, author, a, {})
BY DEF Told, Recipients, Reaches, To, DiscussionsTyped, People

LEMMA TellsTwo ==
  ASSUME DiscussionsTyped, NEW a, NEW b, NEW author
  PROVE  Told(<<To(a), Chatter(b)>>, author, a, b)
BY DEF Told, Recipients, Reaches, To, Chatter, DiscussionsTyped, People

LEMMA TellsFour ==
  ASSUME DiscussionsTyped, NEW a, NEW b, NEW c, NEW d, NEW author
  PROVE  Told(<<To(a), To(b), To(c), Chatter(d)>>, author, a \cup b \cup c, d)
<1> DEFINE g == <<To(a), To(b), To(c), Chatter(d)>>
<1>1. DOMAIN g = {1, 2, 3, 4} OBVIOUS
<1>2. g[1] = To(a) /\ g[2] = To(b) /\ g[3] = To(c) /\ g[4] = Chatter(d) OBVIOUS
<1> HIDE DEF g
<1>3. /\ \A i \in {1, 2, 3} : g[i].general = FALSE
      /\ g[4].general = TRUE
      /\ \A v : Reaches(g[1], v) <=> v \in a \cap here
      /\ \A v : Reaches(g[2], v) <=> v \in b \cap here
      /\ \A v : Reaches(g[3], v) <=> v \in c \cap here
      /\ \A v : Reaches(g[4], v) <=> v \in (d \cap here) \ scene.muted
  BY <1>2 DEF Reaches, To, Chatter
<1>4. 1..(1-1) = {} /\ 1..(2-1) = {1} /\ 1..(3-1) = {1, 2} /\ 1..(4-1) = {1, 2, 3}
  OBVIOUS
<1>5. \A v \in Speakers \ author :
        /\ v \in Recipients(g, author, FALSE) <=> v \in (a \cup b \cup c) \cap here
        /\ v \in Recipients(g, author, TRUE) <=>
             v \in (d \cap here) \ (scene.muted \cup ((a \cup b \cup c) \cap here))
  BY <1>1, <1>3, <1>4 DEF Recipients
<1>6. \A general : Recipients(g, author, general) \subseteq Speakers \ author
  BY DEF Recipients
<1>7. here \subseteq Speakers BY DEF DiscussionsTyped, People
<1>8. Told(g, author, a \cup b \cup c, d) BY <1>5, <1>6, <1>7 DEF Told, People
<1> QED BY <1>8 DEF g

-----------------------------------------------------------------------------
(* Messages are never taken out of a thread.                               *)
ThreadsStay ==
  /\ Len(posts) \in Nat /\ Len(posts') \in Nat /\ Len(posts) <= Len(posts')
  /\ \A p \in PostIds :
       /\ posts'[p].kind = posts[p].kind /\ posts'[p].by = posts[p].by
       /\ posts'[p].to = posts[p].to /\ posts'[p].asked = posts[p].asked
       /\ posts'[p].shared = posts[p].shared /\ posts'[p].all = posts[p].all
       /\ posts'[p].root = posts[p].root

LEMMA ThreadKept ==
  ASSUME ThreadsStay, NEW p \in PostIds
  PROVE  /\ p \in PostIds'
         /\ IsDirected(p)' <=> IsDirected(p)
         /\ \A n \in 0..Len(posts) : TookPart(p, n) \subseteq TookPart(p, n)'
         /\ TakesPart(p) \subseteq TakesPart(p)'
<1>1. PostIds \subseteq PostIds' BY DEF ThreadsStay, PostIds
<1>2. IsDirected(p)' <=> IsDirected(p) BY DEF ThreadsStay, IsDirected
<1>3. \A q \in PostIds : q \in Replies(p) => q \in Replies(p)'
  BY <1>1 DEF ThreadsStay, Replies
<1>4. ASSUME NEW n \in 0..Len(posts) PROVE TookPart(p, n) \subseteq TookPart(p, n)'
  <2>1. \A q \in Replies(p) \cap 1..n : q \in PostIds /\ q \in Replies(p)' \cap 1..n
    BY <1>3 DEF Replies
  <2> QED BY <2>1 DEF TookPart, ThreadParticipants, ThreadsStay
<1>5. TakesPart(p) \subseteq TakesPart(p)'
  <2>1. \A q \in Replies(p) : q \in PostIds /\ q \in Replies(p)' BY <1>3 DEF Replies
  <2> QED BY <2>1 DEF TakesPart, ThreadParticipants, ThreadsStay
<1> QED BY <1>1, <1>2, <1>4, <1>5

(* What becomes of a message when people leave or write more: it is still  *)
(* told to those who are here.                                             *)
Keeps(x, y) ==
  /\ y.by = x.by /\ y.to = x.to /\ y.asked = x.asked /\ y.shared = x.shared
  /\ y.all = x.all /\ y.root = x.root /\ y.re = x.re
  /\ y.told \subseteq x.told /\ y.chatter \subseteq x.chatter

LEMMA FitsStill ==
  ASSUME ThreadsStay, here' \subseteq here, scene'.muted = scene.muted,
         NEW x, NEW y, NEW n \in 0..Len(posts), Fits(x, n), Keeps(x, y),
         x.told \cap here' \subseteq y.told
  PROVE  \A m \in n..Len(posts') : Fits(y, m)'
<1> TAKE m \in n..Len(posts')
<1>0. /\ n \in Nat /\ m \in Nat /\ n <= m /\ PostIds = 1..Len(posts) /\ Len(posts) \in Nat
      /\ y.root = x.root /\ y.re = x.re
      /\ x.root \in 0..n /\ x.re \in 0..n
  BY DEF ThreadsStay, PostIds, Fits, InThread, Keeps
<1>1. (x.root # 0 => x.root \in PostIds) /\ (x.re # 0 => x.re \in PostIds)
  BY <1>0
<1>2. InThread(y, m)'
  BY <1>0, <1>1 DEF ThreadsStay, Fits, InThread
<1>3. AddressedOf(y)' = AddressedOf(x)
  BY <1>0, <1>1, SMTT(60) DEF ThreadsStay, AddressedOf, Keeps
<1>4. Tells(y)'
  <2>1. (AddressedOf(y)' \cap here') \ y.by \subseteq y.told
    BY <1>3 DEF Fits, Tells, Keeps
  <2>2. y.chatter \cap scene'.muted = {} /\ y.told \cap (y.chatter \cup y.by) = {}
    BY DEF Fits, Tells, Keeps
  <2>3. y.root # 0 /\ posts'[y.root].kind = "request" => Audience(y) \subseteq AddressedOf(y)'
    BY <1>0, <1>1, <1>3 DEF ThreadsStay, Fits, Tells, Keeps, Audience
  <2> QED BY <2>1, <2>2, <2>3 DEF Tells, Audience
<1>5. Between(y, m)'
  <2>1. ASSUME y.root # 0, IsDirected(y.root)'
        PROVE  /\ y.by \subseteq TookPart(y.root, m)'
               /\ Audience(y) \subseteq TakesPart(y.root)' \cup y.by \cup y.to
    <3>1. x.root \in PostIds /\ IsDirected(x.root)
      BY <1>0, <1>1, <2>1, ThreadKept
    <3>2. /\ x.by \subseteq TookPart(x.root, n)
          /\ Audience(x) \subseteq TakesPart(x.root) \cup x.by \cup x.to
      BY <1>0, <2>1, <3>1 DEF Fits, Between
    <3>3. /\ TookPart(x.root, n) \subseteq TookPart(x.root, n)'
          /\ TakesPart(x.root) \subseteq TakesPart(x.root)'
      BY <3>1, ThreadKept
    <3>5. TookPart(x.root, n)' \subseteq TookPart(x.root, m)'
      <4>1. 1..n \subseteq 1..m BY <1>0
      <4> QED BY <4>1 DEF TookPart, ThreadParticipants
    <3>4. Audience(y) \subseteq Audience(x) /\ y.by = x.by /\ y.to = x.to
      BY DEF Keeps, Audience
    <3> QED BY <1>0, <3>2, <3>3, <3>4, <3>5
  <2>2. y.root = 0 /\ ~y.all => Audience(y) \subseteq y.by \cup y.to \cup y.asked \cup y.shared
    BY DEF Fits, Between, Keeps, Audience
  <2> QED BY <2>1, <2>2 DEF Between, Audience
<1> QED BY <1>2, <1>4, <1>5 DEF Fits

(* What fits goes on to fit, whatever is written, said or left behind but  *)
(* for the place being destroyed.                                          *)
LEMMA PostsGoOn ==
  ASSUME DiscussionsTyped, PostsFit, ThreadsStay,
         here' \subseteq here, scene'.muted = scene.muted,
         \A p \in PostIds : Keeps(posts[p], posts'[p])
                            /\ posts[p].told \cap here' \subseteq posts'[p].told,
         \A p \in PostIds' \ PostIds :
           /\ p = Len(posts) + 1
           /\ \E r \in DiscussionRequests :
                dreq[r].at = "record" /\ posts'[p] = dreq[r].post,
         \A r \in DiscussionRequests : dreq'[r].at = "record" =>
           /\ \A x \in {dreq'[r].post}, n \in {Len(posts)} : Fits(x, n)
           /\ Unmarked(dreq'[r].post)
  PROVE  PostsFit'
<1>0. /\ PostIds = 1..Len(posts) /\ PostIds' = 1..Len(posts')
      /\ Len(posts) \in Nat /\ Len(posts') \in Nat /\ Len(posts) <= Len(posts')
  BY DEF ThreadsStay, PostIds
<1>1. ASSUME NEW p \in PostIds', NEW y \in {posts'[p]} PROVE Fits(y, p - 1)'
  <2>1. CASE p \in PostIds
    <3>1. PICK x : x = posts[p] OBVIOUS
    <3>2. PICK n : n = p - 1 OBVIOUS
    <3>3. n \in 0..Len(posts) /\ n \in n..Len(posts') BY <1>0, <2>1, <3>2
    <3>4. Fits(x, p - 1) BY <2>1, <3>1 DEF PostsFit
    <3>5. Fits(x, n) BY <3>2, <3>4
    <3>6. Keeps(x, y) /\ x.told \cap here' \subseteq y.told BY <1>1, <2>1, <3>1
    <3>7. \A m \in n..Len(posts') : Fits(y, m)' BY <3>3, <3>5, <3>6, FitsStill
    <3> QED BY <3>2, <3>3, <3>7
  <2>2. CASE p \notin PostIds
    <3>1. PICK r \in DiscussionRequests : dreq[r].at = "record" /\ posts'[p] = dreq[r].post
      BY <2>2
    <3>2. PICK n : n = Len(posts) OBVIOUS
    <3>3. p - 1 = n /\ n \in 0..Len(posts) /\ n \in n..Len(posts') BY <1>0, <2>2, <3>2
    <3>4. Fits(y, n) BY <1>1, <3>1, <3>2 DEF PostsFit
    <3>5. Keeps(y, y) /\ y.told \cap here' \subseteq y.told BY DEF Keeps
    <3>6. \A m \in n..Len(posts') : Fits(y, m)' BY <3>3, <3>4, <3>5, FitsStill
    <3> QED BY <3>3, <3>6
  <2> QED BY <2>1, <2>2
<1>2. ASSUME NEW r \in DiscussionRequests, dreq'[r].at = "record",
             NEW x \in {dreq'[r].post}, NEW m \in {Len(posts')}
      PROVE  Fits(x, m)'
  <2>1. PICK n : n = Len(posts) OBVIOUS
  <2>2. Fits(x, n) BY <1>2, <2>1
  <2>3. Keeps(x, x) /\ x.told \cap here' \subseteq x.told BY DEF Keeps
  <2>4. n \in 0..Len(posts) /\ m \in n..Len(posts') BY <1>0, <2>1
  <2>5. \A k \in n..Len(posts') : Fits(x, k)' BY <2>2, <2>3, <2>4, FitsStill
  <2> QED BY <2>4, <2>5
<1> QED BY <1>1, <1>2 DEF PostsFit

-----------------------------------------------------------------------------
(* A message that is about to be written fits.                             *)
Spoken(r) ==
  /\ dreq'[r] \in RecordDocs
  /\ \A s \in DiscussionRequests : s # r => dreq'[s] = dreq[s]
  /\ UNCHANGED <<scene, here, work, former, posts, hours>>
  /\ \A x \in {dreq'[r].post}, n \in {Len(posts)} : Fits(x, n)
  /\ Unmarked(dreq'[r].post)

LEMMA Preparing ==
  ASSUME DiscussionsTyped, NEW r \in DiscussionRequests, NEW post, NEW groups,
         Prepare(r, post, groups),
         NEW x \in PostDocs,
         x = [post EXCEPT !.told = Recipients(groups, post.by, FALSE),
                          !.chatter = Recipients(groups, post.by, TRUE)],
         Unmarked(x), Fits(x, Len(posts))
  PROVE  Spoken(r)
<1>1. dreq' = [dreq EXCEPT ![r] = [at |-> "record", post |-> x]] BY DEF Prepare
<1>2. [at |-> "record", post |-> x] \in RecordDocs BY DEF RecordDocs
<1>3. dreq'[r] = [at |-> "record", post |-> x] BY <1>1 DEF DiscussionsTyped
<1>4. dreq'[r].post = x BY <1>3
<1>5. \A s \in DiscussionRequests : s # r => dreq'[s] = dreq[s]
  BY <1>1 DEF DiscussionsTyped
<1>6. UNCHANGED <<scene, here, work, former, posts, hours>> BY DEF Prepare
<1>7. \A y \in {dreq'[r].post}, n \in {Len(posts)} : Fits(y, n) BY <1>4
<1> QED BY <1>2, <1>3, <1>4, <1>5, <1>6, <1>7 DEF Spoken

LEMMA MentionedAre ==
  ASSUME DiscussionsTyped, NEW u \in here, NEW mentions \in MentionRecipients(u)
  PROVE  mentions \in People
BY DEF MentionRecipients, DiscussionsTyped, People

(* Whom a new message tells: those mentioned and those asked, and, if it   *)
(* is for all, whom it may concern.                                        *)
Planned(u, mentions, all, groups, asked) ==
  /\ asked \in People
  /\ UNION {groups[i].who : i \in DOMAIN groups} \in People
  /\ \E others \in People :
       /\ all \/ others = {}
       /\ Told(groups, {u}, mentions \cup asked, others)

LEMMA PlanTells ==
  ASSUME DiscussionsTyped, NEW u \in here, NEW mentions \in People,
         NEW kind \in {"question", "request"}, NEW all \in BOOLEAN
  PROVE  Planned(u, mentions, all, PlanNewMessage(kind, all, mentions),
                 Asked(kind, all, mentions))
<1> DEFINE groups == PlanNewMessage(kind, all, mentions)
           asked == Asked(kind, all, mentions)
<1>g. groups = PlanNewMessage(kind, all, mentions) OBVIOUS
<1>a. asked = Asked(kind, all, mentions) OBVIOUS
<1> SUFFICES Planned(u, mentions, all, groups, asked) OBVIOUS
<1> HIDE DEF groups, asked
<1>1. /\ work \in People /\ Creators \in People /\ mentions \cup asked \in People
      /\ asked \in People
  BY <1>a DEF DiscussionsTyped, People, Creators, Asked
<1>2. CASE kind = "request"
  <2>1. groups = <<To(asked)>> BY <1>2, <1>g, <1>a DEF PlanNewMessage
  <2>2. mentions \cup asked = asked BY <1>2, <1>a DEF Asked
  <2>3. UNION {groups[i].who : i \in DOMAIN groups} = asked BY <2>1 DEF To
  <2>4. Told(groups, {u}, mentions \cup asked, {}) BY <2>1, <2>2, TellsOne
  <2> QED BY <1>1, <2>3, <2>4 DEF People, Planned
<1>3. CASE kind = "question" /\ all
  <2> DEFINE others == work \cup Creators
  <2>1. groups = <<To(mentions), Chatter(others)>> BY <1>3, <1>g DEF PlanNewMessage
  <2>2. mentions \cup asked = mentions BY <1>3, <1>a DEF Asked
  <2>3. others \in People BY <1>1 DEF People
  <2> HIDE DEF others
  <2>4. \A i \in DOMAIN groups : groups[i].who = mentions \/ groups[i].who = others
    BY <2>1 DEF To, Chatter
  <2>5. UNION {groups[i].who : i \in DOMAIN groups} \in People
    BY <2>3, <2>4 DEF People
  <2>6. Told(groups, {u}, mentions \cup asked, others) BY <2>1, <2>2, TellsTwo
  <2> QED BY <1>1, <1>3, <2>3, <2>5, <2>6 DEF Planned
<1>4. CASE kind = "question" /\ ~all
  <2>1. groups = <<To(mentions)>> BY <1>4, <1>g DEF PlanNewMessage
  <2>2. mentions \cup asked = mentions BY <1>4, <1>a DEF Asked
  <2>3. UNION {groups[i].who : i \in DOMAIN groups} = mentions BY <2>1 DEF To
  <2>4. Told(groups, {u}, mentions \cup asked, {}) BY <2>1, <2>2, TellsOne
  <2> QED BY <1>1, <2>3, <2>4 DEF People, Planned
<1> QED BY <1>2, <1>3, <1>4

LEMMA ActivityFits ==
  ASSUME DiscussionsTyped, NEW r \in DiscussionRequests, NEW u \in here,
         NEW kind \in {"question", "request"}, NEW all \in BOOLEAN,
         NEW mentions \in MentionRecipients(u), CreateActivity(r, u, kind, all, mentions)
  PROVE  Spoken(r)
<1>0. mentions \in People /\ {u} \in People /\ Len(posts) \in Nat
  BY MentionedAre, PostsTyped DEF DiscussionsTyped, People
<1> DEFINE groups == PlanNewMessage(kind, all, mentions)
           asked == Asked(kind, all, mentions)
           shared == IF scene.place # "shared" THEN {}
                     ELSE asked \cup UNION {groups[i].who : i \in DOMAIN groups}
           post == [Erased EXCEPT !.kind = kind, !.by = {u}, !.to = mentions \ {u},
                                  !.asked = asked \ {u}, !.all = all, !.shared = shared]
           told == Recipients(groups, {u}, FALSE)
           chatter == Recipients(groups, {u}, TRUE)
           x == [post EXCEPT !.told = told, !.chatter = chatter]
<1>1. Prepare(r, post, groups) BY DEF CreateActivity
<1> HIDE DEF groups, asked
<1>2. /\ asked \in People
      /\ UNION {groups[i].who : i \in DOMAIN groups} \in People
      /\ \E others \in People :
           /\ all \/ others = {}
           /\ Told(groups, {u}, mentions \cup asked, others)
  <2>1. Planned(u, mentions, all, groups, asked) BY <1>0, PlanTells DEF groups, asked
  <2> QED BY <2>1 DEF Planned
<1>3. PICK others \in People :
        (all \/ others = {}) /\ Told(groups, {u}, mentions \cup asked, others)
  BY <1>2
<1>4. /\ told \in People /\ chatter \in People /\ shared \in People
      /\ mentions \ {u} \in People /\ asked \ {u} \in People
  BY <1>0, <1>2, <1>3 DEF Told, People
<1> HIDE DEF shared, told, chatter
<1>5. /\ post \in PostDocs
      /\ post.by = {u} /\ post.to = mentions \ {u} /\ post.asked = asked \ {u}
      /\ post.all = all /\ post.shared = shared /\ post.root = 0 /\ post.re = 0
      /\ Unmarked(post)
  BY <1>0, <1>4, ErasedIs DEF PostDocs, Unmarked
<1> HIDE DEF post
<1>6. /\ x \in PostDocs
      /\ x.by = {u} /\ x.to = mentions \ {u} /\ x.asked = asked \ {u}
      /\ x.all = all /\ x.shared = shared /\ x.root = 0 /\ x.re = 0
      /\ x.told = told /\ x.chatter = chatter
      /\ Unmarked(x)
  BY <1>4, <1>5 DEF PostDocs, Unmarked
<1>7. x = [post EXCEPT !.told = Recipients(groups, post.by, FALSE),
                       !.chatter = Recipients(groups, post.by, TRUE)]
  BY <1>5 DEF told, chatter
<1> HIDE DEF x
<1>8. PICK y : y = x OBVIOUS
<1>9. /\ y.by = {u} /\ y.to = mentions \ {u} /\ y.asked = asked \ {u} /\ y.all = all
      /\ y.root = 0 /\ y.re = 0 /\ y.told = told /\ y.chatter = chatter
  BY <1>6, <1>8
<1>10. /\ ((mentions \cup asked) \cap here) \ {u} \subseteq told
       /\ told \subseteq (mentions \cup asked) \ {u}
       /\ chatter \subseteq others \ ({u} \cup scene.muted)
       /\ told \cap chatter = {}
  BY <1>3 DEF Told, told, chatter
<1>11. AddressedOf(y) = (mentions \cup asked) \ {u}
  BY <1>9 DEF AddressedOf
<1>12. Tells(y)
  <2>1. (AddressedOf(y) \cap here) \ y.by \subseteq y.told BY <1>9, <1>10, <1>11
  <2>2. y.chatter \cap scene.muted = {} BY <1>9, <1>10
  <2>3. y.told \cap (y.chatter \cup y.by) = {} BY <1>9, <1>10
  <2> QED BY <1>9, <2>1, <2>2, <2>3 DEF Tells
<1>13. Between(y, Len(posts))
  <2>1. ~all => Audience(y) \subseteq y.by \cup y.to \cup y.asked \cup y.shared
    BY <1>3, <1>9, <1>10 DEF Audience
  <2> QED BY <1>9, <2>1 DEF Between
<1>14. InThread(y, Len(posts)) BY <1>0, <1>9 DEF InThread
<1>15. Fits(x, Len(posts)) BY <1>8, <1>12, <1>13, <1>14 DEF Fits
<1> QED BY <1>1, <1>6, <1>7, <1>15, Preparing

(* A reply stands in the thread of the first message, tells whoever wrote  *)
(* that one and the one replied to, and comes from somebody in the thread. *)
LEMMA ReplyStands ==
  ASSUME DiscussionsTyped, PostsFit, NEW t \in PostIds
  PROVE  /\ RootOf(t) \in PostIds
         /\ posts[RootOf(t)].root = 0
         /\ posts[t].by \subseteq TakesPart(RootOf(t))
         /\ posts[RootOf(t)].by \subseteq TakesPart(RootOf(t))
         /\ TakesPart(RootOf(t)) = TookPart(RootOf(t), Len(posts))
<1>0. t \in Nat \ {0} /\ posts[t] \in PostDocs /\ PostIds = 1..Len(posts) /\ Len(posts) \in Nat
  BY PostsTyped DEF PostIds
<1>1. PICK x : x = posts[t] OBVIOUS
<1>2. Fits(x, t - 1) BY <1>1 DEF PostsFit
<1>3. x.root \in 0..(t - 1) /\ (x.root # 0 => posts[x.root].root = 0)
  BY <1>2 DEF Fits, InThread
<1>4. /\ RootOf(t) \in PostIds /\ posts[RootOf(t)].root = 0
      /\ t = RootOf(t) \/ t \in Replies(RootOf(t))
  BY <1>0, <1>1, <1>3 DEF RootOf, Replies
<1>5. PICK p : p = RootOf(t) OBVIOUS
<1>6. Replies(p) = Replies(p) \cap 1..Len(posts) BY <1>0 DEF Replies
<1>7. posts[p].by \subseteq TakesPart(p) /\ posts[t].by \subseteq TakesPart(p)
  BY <1>4, <1>5 DEF TakesPart, ThreadParticipants
<1>8. TakesPart(p) = TookPart(p, Len(posts)) BY <1>6 DEF TakesPart, TookPart
<1> QED BY <1>4, <1>5, <1>7, <1>8

LEMMA ReplyFits ==
  ASSUME DiscussionsTyped, PostsFit, NEW r \in DiscussionRequests, NEW u \in here,
         NEW t \in PostIds, NEW mentions \in MentionRecipients(u),
         CreateReply(r, u, t, mentions)
  PROVE  Spoken(r)
<1>0. /\ mentions \in People /\ {u} \in People /\ Len(posts) \in Nat
      /\ PostIds = 1..Len(posts)
  BY MentionedAre, PostsTyped DEF DiscussionsTyped, People, PostIds
<1> DEFINE p == RootOf(t)
           groups == <<To(posts[t].by), To(posts[p].by), To(mentions), Chatter(Others(p))>>
           post == [Erased EXCEPT !.kind = "reply", !.by = {u}, !.to = mentions \ {u},
                                  !.root = p, !.re = t]
           told == Recipients(groups, {u}, FALSE)
           chatter == Recipients(groups, {u}, TRUE)
           x == [post EXCEPT !.told = told, !.chatter = chatter]
           addressed == posts[t].by \cup posts[p].by \cup mentions
<1>1. Prepare(r, post, groups) /\ MayReply(u, p) BY DEF CreateReply
<1>2. /\ p \in PostIds /\ posts[p].root = 0
      /\ posts[t].by \subseteq TakesPart(p) /\ posts[p].by \subseteq TakesPart(p)
      /\ TakesPart(p) = TookPart(p, Len(posts))
  BY ReplyStands
<1>3. Told(groups, {u}, addressed, Others(p)) BY TellsFour
<1> HIDE DEF p, groups
<1>4. told \in People /\ chatter \in People /\ mentions \ {u} \in People
  BY <1>0, <1>3 DEF Told, People
<1> HIDE DEF told, chatter
<1>d. p \in Nat /\ t \in Nat BY <1>0, <1>2
<1>5. /\ post \in PostDocs
      /\ post.by = {u} /\ post.to = mentions \ {u} /\ post.asked = {}
      /\ post.root = p /\ post.re = t
      /\ Unmarked(post)
  BY <1>0, <1>d, <1>4, ErasedIs DEF PostDocs, Unmarked
<1> HIDE DEF post
<1>6. /\ x \in PostDocs
      /\ x.by = {u} /\ x.to = mentions \ {u} /\ x.asked = {}
      /\ x.root = p /\ x.re = t /\ x.told = told /\ x.chatter = chatter
      /\ Unmarked(x)
  BY <1>4, <1>5 DEF PostDocs, Unmarked
<1>7. x = [post EXCEPT !.told = Recipients(groups, post.by, FALSE),
                       !.chatter = Recipients(groups, post.by, TRUE)]
  BY <1>5 DEF told, chatter
<1> HIDE DEF x
<1>8. PICK y : y = x OBVIOUS
<1>9. /\ y.by = {u} /\ y.to = mentions \ {u} /\ y.asked = {}
      /\ y.root = p /\ y.re = t /\ y.told = told /\ y.chatter = chatter
  BY <1>6, <1>8
<1>10. /\ (addressed \cap here) \ {u} \subseteq told
       /\ told \subseteq addressed \ {u}
       /\ chatter \subseteq Others(p) \ ({u} \cup scene.muted)
       /\ told \cap chatter = {}
  BY <1>3 DEF Told, told, chatter
<1>11. AddressedOf(y) = (mentions \ {u}) \cup posts[t].by \cup posts[p].by
  <2>1. p # 0 /\ t # 0 BY <1>0, <1>2
  <2>2. {y.root, y.re} \ {0} = {p, t} BY <1>9, <2>1
  <2>3. UNION {posts[q].by : q \in {p, t}} = posts[p].by \cup posts[t].by OBVIOUS
  <2> QED BY <1>9, <2>2, <2>3 DEF AddressedOf
<1>12. Tells(y)
  <2>1. (AddressedOf(y) \cap here) \ y.by \subseteq y.told BY <1>9, <1>10, <1>11
  <2>2. y.chatter \cap scene.muted = {} BY <1>9, <1>10
  <2>3. y.told \cap (y.chatter \cup y.by) = {} BY <1>9, <1>10
  <2>4. posts[p].kind = "request" => Audience(y) \subseteq AddressedOf(y)
    <3>1. posts[p].kind = "request" => Others(p) = {} BY DEF Others
    <3> QED BY <3>1, <1>9, <1>10, <1>11 DEF Audience
  <2> QED BY <1>9, <2>1, <2>2, <2>3, <2>4 DEF Tells
<1>13. Between(y, Len(posts))
  <2>1. ASSUME IsDirected(p)
        PROVE  /\ y.by \subseteq TookPart(p, Len(posts))
               /\ Audience(y) \subseteq TakesPart(p) \cup y.by \cup y.to
    <3>1. u \in TakesPart(p) BY <1>1, <2>1 DEF MayReply, TakesPart
    <3>2. Others(p) \subseteq TakesPart(p) BY DEF Others, TakesPart
    <3>3. y.by \subseteq TookPart(p, Len(posts)) BY <1>2, <1>9, <3>1
    <3>4. addressed \subseteq TakesPart(p) \cup mentions BY <1>2
    <3>5. Audience(y) \subseteq addressed \cup Others(p) BY <1>9, <1>10 DEF Audience
    <3>6. mentions \subseteq y.by \cup y.to BY <1>9
    <3> HIDE DEF addressed
    <3> QED BY <3>2, <3>3, <3>4, <3>5, <3>6
  <2>2. y.root # 0 BY <1>0, <1>2, <1>9
  <2> QED BY <1>9, <2>1, <2>2 DEF Between
<1>14. InThread(y, Len(posts)) BY <1>0, <1>2, <1>9 DEF InThread
<1>15. Fits(x, Len(posts)) BY <1>8, <1>12, <1>13, <1>14 DEF Fits
<1> QED BY <1>1, <1>6, <1>7, <1>15, Preparing

-----------------------------------------------------------------------------
(* Reminders stay claimed while nobody claims, sends or waits an hour.     *)
LEMMA ClaimsStay ==
  ASSUME NEW p, RemindersClaimed(p), hours' = hours,
         posts'[p].nudges = posts[p].nudges, posts'[p].nudge = posts[p].nudge,
         \A r \in DiscussionRequests : Notifies(r, p)' => Notifies(r, p)
  PROVE  RemindersClaimed(p)'
<1>1. Claims(p)' = Claims(p) BY DEF Claims
<1> QED BY <1>1 DEF RemindersClaimed

(* A request that only goes on to something else, while the messages stay. *)
Turns(r) ==
  \/ dreq'[r] = dreq[r]
  \/ dreq'[r] = Silent
  \/ dreq'[r] \in RecordDocs /\ Unmarked(dreq'[r].post)
       /\ \A x \in {dreq'[r].post}, n \in {Len(posts)} : Fits(x, n)
  \/ /\ dreq'[r] \in AnswerDocs
     /\ dreq'[r].post \in PostIds
     /\ dreq'[r].reply # 0 =>
          dreq'[r].reply \in PostIds /\ posts[dreq'[r].reply].root = dreq'[r].post
  \/ dreq'[r] \in NudgeDocs /\ dreq'[r].at = "claim" /\ dreq'[r].post \in PostIds

LEMMA OnlyRequests ==
  ASSUME DiscussionsInv, UNCHANGED <<scene, here, posts, hours>>,
         work' \in People, former' \in People, dreq' \in [DiscussionRequests -> DiscussionWork],
         \A r \in DiscussionRequests : Turns(r)
  PROVE  DiscussionsInv'
<1> USE DEF DiscussionsInv
<1>1. DiscussionsTyped' BY DEF DiscussionsTyped
<1>2. PostsFit'
  <2>1. ThreadsStay BY PostsTyped DEF ThreadsStay
  <2>2. \A p \in PostIds : Keeps(posts[p], posts'[p])
                           /\ posts[p].told \cap here' \subseteq posts'[p].told
    BY DEF Keeps
  <2>3. PostIds' \ PostIds = {} BY DEF PostIds
  <2>4. \A r \in DiscussionRequests : dreq'[r].at = "record" =>
          /\ \A x \in {dreq'[r].post}, n \in {Len(posts)} : Fits(x, n)
          /\ Unmarked(dreq'[r].post)
    BY DEF Turns, Silent, AnswerDocs, NudgeDocs, PostsFit
  <2> QED BY <2>1, <2>2, <2>3, <2>4, PostsGoOn
<1>3. AnswersFit'
  <2>1. \A r \in DiscussionRequests : dreq'[r].at = "answer" =>
          /\ dreq'[r].post \in PostIds
          /\ posts[dreq'[r].post].kind # "erased" /\ dreq'[r].reply # 0 =>
               dreq'[r].reply \in PostIds /\ posts[dreq'[r].reply].root = dreq'[r].post
    BY DEF Turns, Silent, RecordDocs, NudgeDocs, AnswersFit
  <2> QED BY <2>1 DEF AnswersFit, PostIds, Live
<1>4. RemindersFit'
  <2>1. \A r \in DiscussionRequests, p \in PostIds : Notifies(r, p)' => Notifies(r, p)
    BY DEF Turns, Silent, RecordDocs, AnswerDocs, Notifies
  <2>2. \A r \in DiscussionRequests :
          dreq'[r].at \in {"claim", "notify"} => dreq'[r].post \in PostIds
    BY DEF Turns, Silent, RecordDocs, AnswerDocs, RemindersFit
  <2>3. ASSUME NEW p \in PostIds
        PROVE  IF Live(p)' THEN RemindersClaimed(p)' ELSE posts'[p].nudges = 0
    BY <2>1, ClaimsStay DEF RemindersFit, Live
  <2>4. PostIds' = PostIds BY DEF PostIds
  <2> QED BY <2>2, <2>3, <2>4 DEF RemindersFit
<1> QED BY <1>1, <1>2, <1>3, <1>4

LEMMA SpokenKeeps ==
  ASSUME DiscussionsInv, NEW r \in DiscussionRequests, Spoken(r),
         dreq' = [dreq EXCEPT ![r] = dreq'[r]]
  PROVE  DiscussionsInv'
<1>1. dreq' \in [DiscussionRequests -> DiscussionWork]
  <2>1. dreq'[r] \in DiscussionWork BY DEF Spoken, DiscussionWork
  <2> QED BY <2>1 DEF DiscussionsInv, DiscussionsTyped
<1>2. \A s \in DiscussionRequests : Turns(s) BY DEF Spoken, Turns
<1>3. work' \in People /\ former' \in People BY DEF Spoken, DiscussionsInv, DiscussionsTyped
<1> QED BY <1>1, <1>2, <1>3, OnlyRequests DEF Spoken

(* Posting and replying, looking for the question or for those who have    *)
(* not answered, giving up, and what becomes of the work.                  *)
LEMMA SpeakKeeps ==
  ASSUME DiscussionsInv, NEW r \in DiscussionRequests, NEW u \in here, Speak(r, u)
  PROVE  DiscussionsInv'
<1> USE DEF DiscussionsInv
<1>1. CASE \E kind \in Kinds, all \in BOOLEAN, m \in MentionRecipients(u) :
             CreateActivity(r, u, kind, all, m)
  <2>1. Kinds \subseteq {"question", "request"} BY DEF Kinds
  <2>2. PICK kind \in {"question", "request"}, all \in BOOLEAN, m \in MentionRecipients(u) :
          CreateActivity(r, u, kind, all, m)
    BY <1>1, <2>1
  <2>3. Spoken(r) BY <2>2, ActivityFits
  <2>4. \E d : dreq' = [dreq EXCEPT ![r] = d] BY <2>2 DEF CreateActivity, Prepare
  <2>5. dreq' = [dreq EXCEPT ![r] = dreq'[r]] BY <2>4 DEF DiscussionsTyped
  <2> QED BY <2>3, <2>5, SpokenKeeps
<1>2. CASE \E t \in PostIds, m \in MentionRecipients(u) : CreateReply(r, u, t, m)
  <2>2. PICK t \in PostIds, m \in MentionRecipients(u) : CreateReply(r, u, t, m)
    BY <1>2
  <2>3. Spoken(r) BY <2>2, ReplyFits
  <2>4. \E d : dreq' = [dreq EXCEPT ![r] = d] BY <2>2 DEF CreateReply, Prepare
  <2>5. dreq' = [dreq EXCEPT ![r] = dreq'[r]] BY <2>4 DEF DiscussionsTyped
  <2> QED BY <2>3, <2>5, SpokenKeeps
<1> QED BY <1>1, <1>2 DEF Speak

LEMMA FindKeeps ==
  ASSUME DiscussionsInv, NEW r \in DiscussionRequests,
         \/ \E u \in here, p \in PostIds, a \in 0..Len(posts) : FindQuestion(r, u, p, a)
         \/ \E u \in here, p \in PostIds : FindWaiting(r, u, p)
         \/ DiscussionRequestEnds(r)
  PROVE  DiscussionsInv'
<1> USE DEF DiscussionsInv
<1>0. dreq \in [DiscussionRequests -> DiscussionWork] /\ PostIds \subseteq Nat /\ Len(posts) \in Nat
  BY PostsTyped DEF DiscussionsTyped
<1>1. ASSUME NEW d \in DiscussionWork, dreq' = [dreq EXCEPT ![r] = d],
             UNCHANGED <<scene, here, work, former, posts, hours>>,
             Turns(r)
      PROVE  DiscussionsInv'
  <2>1. dreq' \in [DiscussionRequests -> DiscussionWork] BY <1>0, <1>1
  <2>2. \A s \in DiscussionRequests : s # r => dreq'[s] = dreq[s] BY <1>0, <1>1
  <2>3. \A s \in DiscussionRequests : Turns(s) BY <1>1, <2>2 DEF Turns
  <2>4. work' \in People /\ former' \in People BY <1>1 DEF DiscussionsTyped
  <2> HIDE DEF DiscussionsInv
  <2> QED BY <1>1, <2>1, <2>3, <2>4, OnlyRequests
<1>2. CASE \E u \in here, p \in PostIds, a \in 0..Len(posts) : FindQuestion(r, u, p, a)
  <2>1. PICK u \in here, p \in PostIds, a \in 0..Len(posts) : FindQuestion(r, u, p, a)
    BY <1>2
  <2> DEFINE d == [at |-> "answer", post |-> p, reply |-> a]
  <2>2. d \in AnswerDocs /\ d.post = p /\ d.reply = a BY <1>0 DEF AnswerDocs
  <2>3. dreq' = [dreq EXCEPT ![r] = d] BY <2>1 DEF FindQuestion
  <2> HIDE DEF d
  <2>4. dreq'[r] = d BY <1>0, <2>3
  <2>5. a # 0 => a \in PostIds /\ posts[a].root = p BY <1>0, <2>1 DEF FindQuestion, PostIds
  <2>6. Turns(r) BY <2>2, <2>4, <2>5 DEF Turns
  <2>7. d \in DiscussionWork BY <2>2 DEF DiscussionWork
  <2> QED BY <1>1, <2>1, <2>3, <2>6, <2>7 DEF FindQuestion
<1>3. CASE \E u \in here, p \in PostIds : FindWaiting(r, u, p)
  <2>1. PICK u \in here, p \in PostIds : FindWaiting(r, u, p) BY <1>3
  <2> DEFINE d == [at |-> "claim", post |-> p]
  <2>2. d \in NudgeDocs /\ d.at = "claim" /\ d.post = p BY <1>0 DEF NudgeDocs
  <2>3. dreq' = [dreq EXCEPT ![r] = d] BY <2>1 DEF FindWaiting
  <2> HIDE DEF d
  <2>4. dreq'[r] = d BY <1>0, <2>3
  <2>6. Turns(r) BY <2>2, <2>4 DEF Turns
  <2>7. d \in DiscussionWork BY <2>2 DEF DiscussionWork
  <2> QED BY <1>1, <2>1, <2>3, <2>6, <2>7 DEF FindWaiting
<1>4. CASE DiscussionRequestEnds(r)
  <2>1. dreq'[r] = Silent BY <1>0, <1>4 DEF DiscussionRequestEnds
  <2>2. Turns(r) BY <2>1 DEF Turns
  <2>3. Silent \in DiscussionWork BY DEF DiscussionWork
  <2> QED BY <1>1, <1>4, <2>2, <2>3 DEF DiscussionRequestEnds
<1> QED BY <1>2, <1>3, <1>4

LEMMA WorkKeeps ==
  ASSUME DiscussionsInv,
         \/ \E u \in Speakers : Reassign(u) \/ FinishWork(u)
         \/ UNCHANGED discussionVars
  PROVE  DiscussionsInv'
<1>1. work' \in People /\ former' \in People
  BY DEF Reassign, FinishWork, discussionVars, DiscussionsInv, DiscussionsTyped, People
<1>2. UNCHANGED <<scene, here, posts, hours, dreq>>
  BY DEF Reassign, FinishWork, discussionVars
<1>3. \A r \in DiscussionRequests : Turns(r) BY <1>2 DEF Turns
<1>4. dreq' \in [DiscussionRequests -> DiscussionWork]
  BY <1>2 DEF DiscussionsInv, DiscussionsTyped
<1> QED BY <1>1, <1>2, <1>3, <1>4, OnlyRequests

-----------------------------------------------------------------------------
(* A request that is done.                                                 *)
LEMMA FallsSilent ==
  ASSUME DiscussionsTyped, NEW r \in DiscussionRequests, dreq' = [dreq EXCEPT ![r] = Silent]
  PROVE  /\ dreq' \in [DiscussionRequests -> DiscussionWork]
         /\ dreq'[r].at = "silent"
         /\ \A s \in DiscussionRequests : s # r => dreq'[s] = dreq[s]
<1>1. Silent \in DiscussionWork BY DEF DiscussionWork
<1> QED BY <1>1 DEF DiscussionsTyped, Silent

(* The message and its notifications are written.                          *)
LEMMA RecordKeeps ==
  ASSUME DiscussionsInv, NEW r \in DiscussionRequests, RecordActivity(r)
  PROVE  DiscussionsInv'
<1> USE DEF DiscussionsInv
<1> DEFINE x == dreq[r].post
<1>0. /\ dreq[r].at = "record" /\ dreq[r] \in RecordDocs /\ x \in PostDocs
      /\ Len(posts) \in Nat /\ PostIds = 1..Len(posts) /\ posts \in Seq(PostDocs)
      /\ UNCHANGED <<scene, here, work, former, hours>>
  BY WorkAt, PostsTyped DEF RecordActivity, RecordDocs, PostIds, DiscussionsTyped
<1>1. posts' = Append(posts, x) BY DEF RecordActivity
<1> HIDE DEF x
<1>2. /\ posts' \in Seq(PostDocs) /\ Len(posts') = Len(posts) + 1
      /\ \A p \in PostIds : posts'[p] = posts[p]
      /\ posts'[Len(posts) + 1] = x
      /\ PostIds' = PostIds \cup {Len(posts) + 1}
  BY <1>0, <1>1 DEF PostIds
<1>3. /\ dreq' \in [DiscussionRequests -> DiscussionWork]
      /\ dreq'[r].at = "silent"
      /\ \A s \in DiscussionRequests : s # r => dreq'[s] = dreq[s]
  BY FallsSilent DEF RecordActivity
<1>4. DiscussionsTyped' BY <1>0, <1>2, <1>3 DEF DiscussionsTyped
<1>5. PostsFit'
  <2>1. ThreadsStay BY <1>0, <1>2 DEF ThreadsStay
  <2>2. \A p \in PostIds : Keeps(posts[p], posts'[p])
                           /\ posts[p].told \cap here' \subseteq posts'[p].told
    BY <1>2 DEF Keeps
  <2>3. \A p \in PostIds' \ PostIds :
          /\ p = Len(posts) + 1
          /\ \E s \in DiscussionRequests :
               dreq[s].at = "record" /\ posts'[p] = dreq[s].post
    BY <1>0, <1>2 DEF x
  <2>4. \A s \in DiscussionRequests : dreq'[s].at = "record" =>
          /\ \A y \in {dreq'[s].post}, n \in {Len(posts)} : Fits(y, n)
          /\ Unmarked(dreq'[s].post)
    BY <1>3 DEF PostsFit
  <2>5. here' \subseteq here /\ scene'.muted = scene.muted BY <1>0
  <2> QED BY <2>1, <2>2, <2>3, <2>4, <2>5, PostsGoOn
<1>6. x.answer = 0 /\ x.nudge = "no" /\ x.nudges = 0
  BY <1>0 DEF PostsFit, Unmarked, x
<1>7. AnswersFit'
  <2>1. ASSUME NEW p \in PostIds', posts'[p].answer # 0
        PROVE  posts'[p].answer \in PostIds' /\ posts'[posts'[p].answer].root = p
    <3>1. p \in PostIds /\ posts'[p] = posts[p] BY <1>2, <1>6, <2>1
    <3>2. posts[p].answer \in PostIds /\ posts[posts[p].answer].root = p
      BY <2>1, <3>1 DEF AnswersFit
    <3> QED BY <1>2, <3>1, <3>2
  <2>2. ASSUME NEW s \in DiscussionRequests, dreq'[s].at = "answer"
        PROVE  /\ dreq'[s].post \in PostIds'
               /\ posts'[dreq'[s].post].kind # "erased" /\ dreq'[s].reply # 0 =>
                    dreq'[s].reply \in PostIds' /\ posts'[dreq'[s].reply].root = dreq'[s].post
    <3>1. dreq'[s] = dreq[s] BY <1>3, <2>2
    <3>2. PICK p : p = dreq[s].post OBVIOUS
    <3>3. /\ p \in PostIds
          /\ posts[p].kind # "erased" /\ dreq[s].reply # 0 =>
                    dreq[s].reply \in PostIds /\ posts[dreq[s].reply].root = p
      BY <2>2, <3>1, <3>2 DEF AnswersFit
    <3> QED BY <1>2, <3>1, <3>2, <3>3
  <2> QED BY <2>1, <2>2 DEF AnswersFit
<1>8. RemindersFit'
  <2>0. ASSUME NEW s \in DiscussionRequests, dreq'[s].at \in {"claim", "notify"}
        PROVE  dreq'[s] = dreq[s] /\ dreq[s].post \in PostIds
    BY <1>3, <2>0 DEF RemindersFit
  <2>1. ASSUME NEW p \in PostIds
        PROVE  IF Live(p)' THEN RemindersClaimed(p)' ELSE posts'[p].nudges = 0
    <3>1. posts'[p] = posts[p] /\ hours' = hours BY <1>0, <1>2
    <3>2. \A s \in DiscussionRequests : Notifies(s, p)' => Notifies(s, p)
      BY <2>0 DEF Notifies
    <3> QED BY <3>1, <3>2, ClaimsStay DEF RemindersFit, Live
  <2>2. ASSUME NEW p, p = Len(posts) + 1
        PROVE  IF Live(p)' THEN RemindersClaimed(p)' ELSE posts'[p].nudges = 0
    <3>1. posts'[p] = x BY <1>2, <2>2
    <3>2. \A s \in DiscussionRequests : ~Notifies(s, p)'
      BY <1>0, <2>0, <2>2 DEF Notifies
    <3>3. Claims(p)' = 0 BY <1>6, <3>1 DEF Claims
    <3> QED BY <1>6, <3>1, <3>2, <3>3 DEF RemindersClaimed
  <2> QED BY <1>2, <2>0, <2>1, <2>2 DEF RemindersFit
<1> QED BY <1>4, <1>5, <1>7, <1>8

-----------------------------------------------------------------------------
(* What is saved in one message: the answer, the hour or the reminder.     *)
Saves(r, p) ==
  /\ p \in PostIds
  /\ posts' \in Seq(PostDocs) /\ Len(posts') = Len(posts)
  /\ \A q \in PostIds :
       /\ Keeps(posts[q], posts'[q]) /\ Keeps(posts'[q], posts[q])
       /\ posts'[q].kind = posts[q].kind
       /\ q # p => posts'[q] = posts[q]
  /\ dreq' \in [DiscussionRequests -> DiscussionWork]
  /\ \A s \in DiscussionRequests : s # r => dreq'[s] = dreq[s]
  /\ dreq'[r].at \in {"silent", "notify"}
  /\ UNCHANGED <<scene, here, work, former, hours>>

LEMMA SavesKeep ==
  ASSUME DiscussionsInv, NEW r \in DiscussionRequests, NEW p, Saves(r, p)
  PROVE  DiscussionsTyped' /\ PostsFit' /\ PostIds' = PostIds
<1> USE DEF DiscussionsInv
<1>0. PostIds' = PostIds /\ Len(posts) \in Nat BY PostsTyped DEF Saves, PostIds
<1>1. DiscussionsTyped' BY DEF Saves, DiscussionsTyped
<1>2. PostsFit'
  <2>1. ThreadsStay BY <1>0 DEF Saves, ThreadsStay, Keeps
  <2>2. \A q \in PostIds : Keeps(posts[q], posts'[q])
                           /\ posts[q].told \cap here' \subseteq posts'[q].told
    BY DEF Saves, Keeps
  <2>3. PostIds' \ PostIds = {} BY <1>0
  <2>4. \A s \in DiscussionRequests : dreq'[s].at = "record" =>
          /\ \A y \in {dreq'[s].post}, n \in {Len(posts)} : Fits(y, n)
          /\ Unmarked(dreq'[s].post)
    BY DEF Saves, PostsFit
  <2>5. here' \subseteq here /\ scene'.muted = scene.muted BY DEF Saves
  <2> QED BY <2>1, <2>2, <2>3, <2>4, <2>5, PostsGoOn
<1> QED BY <1>0, <1>1, <1>2

(* Who only saves a reminder or its hour leaves the answers alone.         *)
LEMMA AnswersStay ==
  ASSUME DiscussionsInv, NEW r \in DiscussionRequests, NEW p, Saves(r, p),
         posts'[p].answer = posts[p].answer
  PROVE  AnswersFit'
<1> USE DEF DiscussionsInv
<1>0. PostIds' = PostIds BY SavesKeep
<1>1. \A q \in PostIds : /\ posts'[q].answer = posts[q].answer
                         /\ posts'[q].root = posts[q].root
                         /\ posts'[q].kind = posts[q].kind
  BY DEF Saves, Keeps
<1>2. \A s \in DiscussionRequests : dreq'[s].at = "answer" => dreq'[s] = dreq[s]
  BY DEF Saves
<1>3. ASSUME NEW q \in PostIds, posts'[q].answer # 0
      PROVE  posts'[q].answer \in PostIds /\ posts'[posts'[q].answer].root = q
  BY <1>1, <1>3 DEF AnswersFit
<1>4. ASSUME NEW s \in DiscussionRequests, dreq'[s].at = "answer"
      PROVE  /\ dreq'[s].post \in PostIds
             /\ posts'[dreq'[s].post].kind # "erased" /\ dreq'[s].reply # 0 =>
                  dreq'[s].reply \in PostIds /\ posts'[dreq'[s].reply].root = dreq'[s].post
  <2>1. dreq'[s] = dreq[s] BY <1>2, <1>4
  <2>2. PICK q : q = dreq[s].post OBVIOUS
  <2>3. /\ q \in PostIds
        /\ posts[q].kind # "erased" /\ dreq[s].reply # 0 =>
             dreq[s].reply \in PostIds /\ posts[dreq[s].reply].root = q
    BY <1>4, <2>1, <2>2 DEF AnswersFit
  <2> QED BY <1>1, <2>1, <2>2, <2>3
<1> QED BY <1>0, <1>3, <1>4 DEF AnswersFit

LEMMA AnswerKeeps ==
  ASSUME DiscussionsInv, NEW r \in DiscussionRequests, MarkAnswer(r)
  PROVE  DiscussionsInv'
<1> USE DEF DiscussionsInv
<1>0. dreq[r].at = "answer" /\ dreq[r] \in AnswerDocs /\ Live(dreq[r].post)
  BY WorkAt DEF MarkAnswer
<1>1. PICK p, a : p = dreq[r].post /\ a = dreq[r].reply OBVIOUS
<1>2. p \in PostIds /\ a \in Nat /\ Live(p) /\ (a # 0 => a \in PostIds /\ posts[a].root = p)
  BY <1>0, <1>1 DEF AnswersFit, AnswerDocs, Live
<1>3. posts' = [posts EXCEPT ![p].answer = a] BY <1>1 DEF MarkAnswer
<1>4. /\ posts \in Seq(PostDocs) /\ posts[p] \in PostDocs /\ PostIds = 1..Len(posts)
      /\ Len(posts) \in Nat
  BY <1>2, PostsTyped DEF DiscussionsTyped, PostIds
<1> DEFINE y == [posts[p] EXCEPT !.answer = a]
<1>5. /\ y \in PostDocs /\ Keeps(posts[p], y) /\ Keeps(y, posts[p]) /\ y.kind = posts[p].kind
      /\ y.answer = a /\ y.nudge = posts[p].nudge /\ y.nudges = posts[p].nudges
  BY <1>2, <1>4 DEF PostDocs, Keeps
<1>6. posts' = [posts EXCEPT ![p] = y] BY <1>3
<1> HIDE DEF y
<1>7. /\ dreq' \in [DiscussionRequests -> DiscussionWork]
      /\ dreq'[r].at = "silent"
      /\ \A s \in DiscussionRequests : s # r => dreq'[s] = dreq[s]
  BY FallsSilent DEF MarkAnswer
<1>8. /\ posts' \in Seq(PostDocs) /\ Len(posts') = Len(posts) /\ posts'[p] = y
      /\ \A q \in PostIds : q # p => posts'[q] = posts[q]
  BY <1>2, <1>4, <1>5, <1>6
<1>9. \A q : Keeps(posts[q], posts[q]) BY DEF Keeps
<1>10. UNCHANGED <<scene, here, work, former, hours>> BY DEF MarkAnswer
<1>11. Saves(r, p) BY <1>2, <1>5, <1>7, <1>8, <1>9, <1>10 DEF Saves
<1>12. DiscussionsTyped' /\ PostsFit' /\ PostIds' = PostIds BY <1>11, SavesKeep
<1>13. \A q \in PostIds : posts'[q].root = posts[q].root /\ posts'[q].kind = posts[q].kind
  BY <1>11 DEF Saves, Keeps
<1>14. AnswersFit'
  <2>1. ASSUME NEW q \in PostIds, posts'[q].answer # 0
        PROVE  posts'[q].answer \in PostIds /\ posts'[posts'[q].answer].root = q
    <3>1. CASE q = p BY <1>2, <1>5, <1>8, <1>13, <2>1, <3>1
    <3>2. CASE q # p
      <4>1. posts'[q].answer = posts[q].answer BY <1>8, <3>2
      <4> QED BY <1>13, <2>1, <4>1 DEF AnswersFit
    <3> QED BY <3>1, <3>2
  <2>2. ASSUME NEW s \in DiscussionRequests, dreq'[s].at = "answer"
        PROVE  /\ dreq'[s].post \in PostIds
               /\ posts'[dreq'[s].post].kind # "erased" /\ dreq'[s].reply # 0 =>
                    dreq'[s].reply \in PostIds /\ posts'[dreq'[s].reply].root = dreq'[s].post
    <3>1. dreq'[s] = dreq[s] BY <1>7, <2>2
    <3>2. PICK q : q = dreq[s].post OBVIOUS
    <3>3. /\ q \in PostIds
          /\ posts[q].kind # "erased" /\ dreq[s].reply # 0 =>
               dreq[s].reply \in PostIds /\ posts[dreq[s].reply].root = q
      BY <2>2, <3>1, <3>2 DEF AnswersFit
    <3> QED BY <1>13, <3>1, <3>2, <3>3
  <2> QED BY <1>12, <2>1, <2>2 DEF AnswersFit
<1>15. RemindersFit'
  <2>1. ASSUME NEW q \in PostIds
        PROVE  IF Live(q)' THEN RemindersClaimed(q)' ELSE posts'[q].nudges = 0
    <3>1. posts'[q].nudges = posts[q].nudges /\ posts'[q].nudge = posts[q].nudge
      BY <1>5, <1>8
    <3>2. \A s \in DiscussionRequests : Notifies(s, q)' => Notifies(s, q)
      BY <1>7 DEF Notifies
    <3> QED BY <1>10, <1>13, <3>1, <3>2, ClaimsStay DEF RemindersFit, Live
  <2>2. \A s \in DiscussionRequests :
          dreq'[s].at \in {"claim", "notify"} => dreq'[s].post \in PostIds
    BY <1>7 DEF RemindersFit
  <2> QED BY <1>12, <2>1, <2>2 DEF RemindersFit
<1> QED BY <1>12, <1>14, <1>15

-----------------------------------------------------------------------------
(* A reminder's hour is claimed by one request, which has not told anybody *)
(* yet.                                                                    *)
LEMMA ClaimKeeps ==
  ASSUME DiscussionsInv, NEW r \in DiscussionRequests, ClaimReminder(r)
  PROVE  DiscussionsInv'
<1> USE DEF DiscussionsInv
<1>0. dreq[r].at = "claim" /\ dreq[r] \in NudgeDocs BY WorkAt DEF ClaimReminder
<1>1. PICK p : p = dreq[r].post OBVIOUS
<1>2. /\ p \in PostIds /\ Live(p) /\ posts[p].nudge # "recent" /\ RemindersClaimed(p)
      /\ UNCHANGED <<scene, here, work, former, hours>>
  BY <1>0, <1>1 DEF RemindersFit, ClaimReminder
<1>3. posts' = [posts EXCEPT ![p].nudge = "recent"] BY <1>1 DEF ClaimReminder
<1>4. /\ posts \in Seq(PostDocs) /\ posts[p] \in PostDocs /\ PostIds = 1..Len(posts)
      /\ Len(posts) \in Nat /\ hours \in {0, 1}
  BY <1>2, PostsTyped DEF DiscussionsTyped, PostIds
<1> DEFINE y == [posts[p] EXCEPT !.nudge = "recent"]
<1>5. /\ y \in PostDocs /\ Keeps(posts[p], y) /\ Keeps(y, posts[p]) /\ y.kind = posts[p].kind
      /\ y.answer = posts[p].answer /\ y.nudge = "recent" /\ y.nudges = posts[p].nudges
  BY <1>2, <1>4 DEF PostDocs, Keeps
<1>6. posts' = [posts EXCEPT ![p] = y] BY <1>3
<1> HIDE DEF y
<1> DEFINE d == [dreq[r] EXCEPT !.at = "notify"]
<1>d. /\ d \in NudgeDocs /\ d.at = "notify" /\ d.post = p
  BY <1>0, <1>1 DEF NudgeDocs
<1>e. dreq' = [dreq EXCEPT ![r] = d] BY DEF ClaimReminder
<1> HIDE DEF d
<1>7. /\ dreq' \in [DiscussionRequests -> DiscussionWork]
      /\ dreq'[r] = d
      /\ \A s \in DiscussionRequests : s # r => dreq'[s] = dreq[s]
  BY <1>d, <1>e DEF DiscussionsTyped, DiscussionWork
<1>8. /\ posts' \in Seq(PostDocs) /\ Len(posts') = Len(posts) /\ posts'[p] = y
      /\ \A q \in PostIds : q # p => posts'[q] = posts[q]
  BY <1>2, <1>4, <1>5, <1>6
<1>9. \A q : Keeps(posts[q], posts[q]) BY DEF Keeps
<1>11. Saves(r, p) BY <1>2, <1>d, <1>5, <1>7, <1>8, <1>9 DEF Saves
<1>12. DiscussionsTyped' /\ PostsFit' /\ PostIds' = PostIds BY <1>11, SavesKeep
<1>13. AnswersFit' BY <1>5, <1>8, <1>11, AnswersStay
<1>14. ASSUME NEW q \in PostIds, q # p
       PROVE  IF Live(q)' THEN RemindersClaimed(q)' ELSE posts'[q].nudges = 0
  <2>1. posts'[q] = posts[q] BY <1>8, <1>14
  <2>2. \A s \in DiscussionRequests : Notifies(s, q)' => Notifies(s, q)
    BY <1>d, <1>7, <1>14 DEF Notifies
  <2> QED BY <1>2, <2>1, <2>2, ClaimsStay DEF RemindersFit, Live
<1>15. RemindersClaimed(p)'
  <2>1. /\ posts[p].nudges \in Nat /\ posts[p].nudge \in {"no", "past"}
        /\ posts'[p].nudges = posts[p].nudges /\ posts'[p].nudge = "recent"
    BY <1>2, <1>4, <1>5, <1>8 DEF PostDocs
  <2>2. /\ Claims(p) \in {0, 1} /\ Claims(p)' \in Nat /\ Claims(p)' >= Claims(p) + 1
    BY <1>2, <1>4, <2>1 DEF Claims, RemindersClaimed
  <2>3. \A s \in DiscussionRequests : Notifies(s, p)' <=> s = r \/ Notifies(s, p)
    BY <1>0, <1>d, <1>7 DEF Notifies
  <2>4. posts'[p].nudges <= Claims(p)' BY <1>2, <2>1, <2>2 DEF RemindersClaimed
  <2>5. \A s \in DiscussionRequests : Notifies(s, p)' => posts'[p].nudges + 1 <= Claims(p)'
    BY <1>2, <2>1, <2>2, <2>3 DEF RemindersClaimed
  <2>6. ~Notifies(r, p) BY <1>0 DEF Notifies
  <2>7. ASSUME NEW s \in DiscussionRequests, NEW t \in DiscussionRequests,
               s # t, Notifies(s, p)', Notifies(t, p)'
        PROVE  posts'[p].nudges + 2 <= Claims(p)'
    <3>1. CASE s = r \/ t = r
      <4>1. posts[p].nudges + 1 <= Claims(p)
        BY <1>2, <2>3, <2>7, <3>1 DEF RemindersClaimed
      <4> QED BY <2>1, <2>2, <4>1
    <3>2. CASE s # r /\ t # r
      <4>1. posts[p].nudges + 2 <= Claims(p)
        BY <1>2, <2>3, <2>7, <3>2 DEF RemindersClaimed
      <4> QED BY <2>1, <2>2, <4>1
    <3> QED BY <3>1, <3>2
  <2>8. \A s, t \in DiscussionRequests : s # t => ~(Notifies(s, p) /\ Notifies(t, p))
    BY <1>2, <2>1, <2>2 DEF RemindersClaimed
  <2>9. \A s, t, v \in DiscussionRequests :
          s # t /\ t # v /\ s # v => ~(Notifies(s, p)' /\ Notifies(t, p)' /\ Notifies(v, p)')
    BY <2>3, <2>8
  <2>10. hours' = 0 => posts'[p].nudge # "past" BY <2>1
  <2> QED BY <2>4, <2>5, <2>7, <2>9, <2>10 DEF RemindersClaimed
<1>16. Live(p)' BY <1>2, <1>5, <1>8 DEF Live
<1>17. \A s \in DiscussionRequests :
         dreq'[s].at \in {"claim", "notify"} => dreq'[s].post \in PostIds
  BY <1>2, <1>d, <1>7 DEF RemindersFit
<1>18. RemindersFit' BY <1>12, <1>14, <1>15, <1>16, <1>17 DEF RemindersFit
<1> QED BY <1>12, <1>13, <1>18

LEMMA RemindKeeps ==
  ASSUME DiscussionsInv, NEW r \in DiscussionRequests, RemindWaiting(r)
  PROVE  DiscussionsInv'
<1> USE DEF DiscussionsInv
<1>0. dreq[r].at = "notify" /\ dreq[r] \in NudgeDocs BY WorkAt DEF RemindWaiting
<1>1. PICK p : p = dreq[r].post OBVIOUS
<1>2. /\ p \in PostIds /\ Notifies(r, p)
      /\ UNCHANGED <<scene, here, work, former, hours>>
  BY <1>0, <1>1 DEF RemindersFit, RemindWaiting, Notifies
<1>4. /\ posts \in Seq(PostDocs) /\ posts[p] \in PostDocs /\ PostIds = 1..Len(posts)
      /\ Len(posts) \in Nat /\ hours \in {0, 1}
  BY <1>2, PostsTyped DEF DiscussionsTyped, PostIds
<1> DEFINE n == IF Live(p) THEN posts[p].nudges + 1 ELSE posts[p].nudges
           y == [posts[p] EXCEPT !.nudges = n]
<1>3. posts' = [posts EXCEPT ![p] = y] BY <1>1 DEF RemindWaiting
<1>5. n \in Nat /\ (Live(p) => n = posts[p].nudges + 1) /\ (~Live(p) => n = posts[p].nudges)
  BY <1>4, SMTT(60) DEF PostDocs
<1> HIDE DEF n
<1>6. /\ y \in PostDocs /\ Keeps(posts[p], y) /\ Keeps(y, posts[p]) /\ y.kind = posts[p].kind
      /\ y.answer = posts[p].answer /\ y.nudge = posts[p].nudge /\ y.nudges = n
  BY <1>4, <1>5 DEF PostDocs, Keeps
<1> HIDE DEF y
<1>7. /\ dreq' \in [DiscussionRequests -> DiscussionWork]
      /\ dreq'[r].at = "silent"
      /\ \A s \in DiscussionRequests : s # r => dreq'[s] = dreq[s]
  BY FallsSilent DEF RemindWaiting
<1>8. /\ posts' \in Seq(PostDocs) /\ Len(posts') = Len(posts) /\ posts'[p] = y
      /\ \A q \in PostIds : q # p => posts'[q] = posts[q]
  BY <1>2, <1>3, <1>4, <1>6
<1>9. \A q : Keeps(posts[q], posts[q]) BY DEF Keeps
<1>11. Saves(r, p) BY <1>2, <1>6, <1>7, <1>8, <1>9 DEF Saves
<1>12. DiscussionsTyped' /\ PostsFit' /\ PostIds' = PostIds BY <1>11, SavesKeep
<1>13. AnswersFit' BY <1>6, <1>8, <1>11, AnswersStay
<1>n. \A s \in DiscussionRequests, q \in PostIds :
        Notifies(s, q)' => s # r /\ Notifies(s, q)
  BY <1>7 DEF Notifies
<1>r. \A s \in DiscussionRequests :
        dreq'[s].at \in {"claim", "notify"} => dreq'[s].post \in PostIds
  BY <1>7 DEF RemindersFit
<1>14. ASSUME NEW q \in PostIds, q # p
       PROVE  IF Live(q)' THEN RemindersClaimed(q)' ELSE posts'[q].nudges = 0
  <2>1. posts'[q] = posts[q] BY <1>8, <1>14
  <2> QED BY <1>2, <1>n, <2>1, ClaimsStay DEF RemindersFit, Live
<1>15. CASE Live(p)
  <2>1. RemindersClaimed(p) BY <1>2, <1>15 DEF RemindersFit
  <2>2. Claims(p)' = Claims(p) BY <1>2, <1>6, <1>8 DEF Claims
  <2>3. posts'[p].nudges = posts[p].nudges + 1 /\ posts[p].nudges \in Nat
    BY <1>4, <1>5, <1>6, <1>8, <1>15 DEF PostDocs
  <2>4. Claims(p) \in Nat BY <1>4 DEF Claims, PostDocs
  <2>5. posts'[p].nudges <= Claims(p)' BY <1>2, <2>1, <2>2, <2>3 DEF RemindersClaimed
  <2>6. ASSUME NEW s \in DiscussionRequests, Notifies(s, p)'
        PROVE  posts'[p].nudges + 1 <= Claims(p)'
    <3>1. s # r /\ Notifies(s, p) BY <1>2, <1>n, <2>6
    <3>2. posts[p].nudges + 2 <= Claims(p) BY <1>2, <2>1, <3>1 DEF RemindersClaimed
    <3> QED BY <2>2, <2>3, <2>4, <3>2
  <2>7. \A s, t \in DiscussionRequests : s # t => ~(Notifies(s, p)' /\ Notifies(t, p)')
    BY <1>2, <1>n, <2>1 DEF RemindersClaimed
  <2>8. hours' = 0 => posts'[p].nudge # "past"
    BY <1>2, <1>6, <1>8, <2>1 DEF RemindersClaimed
  <2>9. RemindersClaimed(p)' BY <2>5, <2>6, <2>7, <2>8 DEF RemindersClaimed
  <2>10. Live(p)' BY <1>6, <1>8, <1>15 DEF Live
  <2> QED BY <1>12, <1>13, <1>14, <1>r, <2>9, <2>10 DEF RemindersFit
<1>16. CASE ~Live(p)
  <2>1. ~Live(p)' /\ posts'[p].nudges = 0
    BY <1>2, <1>5, <1>6, <1>8, <1>16 DEF Live, RemindersFit
  <2> QED BY <1>12, <1>13, <1>14, <1>r, <2>1 DEF RemindersFit
<1> QED BY <1>15, <1>16

-----------------------------------------------------------------------------
(* The hour between two reminders passes, once.                            *)
LEMMA HourKeeps ==
  ASSUME DiscussionsInv, HourPasses
  PROVE  DiscussionsInv'
<1> USE DEF DiscussionsInv
<1>0. /\ hours = 0 /\ hours' = 1 /\ UNCHANGED <<scene, here, work, former, dreq>>
      /\ PostIds = 1..Len(posts) /\ Len(posts) \in Nat
      /\ \A p \in PostIds : posts[p] \in PostDocs
  BY PostsTyped DEF HourPasses, PostIds
<1> DEFINE n(p) == IF posts[p].nudge = "recent" THEN "past" ELSE posts[p].nudge
           y(p) == [posts[p] EXCEPT !.nudge = n(p)]
<1>1. posts' = [p \in 1..Len(posts) |-> y(p)] BY <1>0 DEF HourPasses
<1>2. ASSUME NEW p \in PostIds
      PROVE  /\ y(p) \in PostDocs /\ Keeps(posts[p], y(p)) /\ y(p).told = posts[p].told
             /\ y(p).kind = posts[p].kind /\ y(p).answer = posts[p].answer
             /\ y(p).nudge = n(p) /\ y(p).nudges = posts[p].nudges
  <2>1. posts[p] \in PostDocs /\ n(p) \in {"no", "recent", "past"} BY <1>0 DEF PostDocs
  <2> HIDE DEF n
  <2> QED BY <2>1 DEF PostDocs, Keeps
<1> HIDE DEF y
<1>3. /\ posts' \in Seq(PostDocs) /\ Len(posts') = Len(posts)
      /\ \A p \in PostIds : posts'[p] = y(p)
  BY <1>0, <1>1, <1>2
<1>4. PostIds' = PostIds BY <1>3 DEF PostIds
<1>5. DiscussionsTyped' BY <1>0, <1>3 DEF DiscussionsTyped
<1>6. PostsFit'
  <2>1. ThreadsStay BY <1>0, <1>2, <1>3 DEF ThreadsStay, Keeps
  <2>2. \A p \in PostIds : Keeps(posts[p], posts'[p])
                           /\ posts[p].told \cap here' \subseteq posts'[p].told
    BY <1>2, <1>3
  <2>3. PostIds' \ PostIds = {} BY <1>4
  <2>4. \A s \in DiscussionRequests : dreq'[s].at = "record" =>
          /\ \A x \in {dreq'[s].post}, m \in {Len(posts)} : Fits(x, m)
          /\ Unmarked(dreq'[s].post)
    BY <1>0 DEF PostsFit
  <2>5. here' \subseteq here /\ scene'.muted = scene.muted BY <1>0
  <2> QED BY <2>1, <2>2, <2>3, <2>4, <2>5, PostsGoOn
<1>7. \A p \in PostIds : /\ posts'[p].kind = posts[p].kind /\ posts'[p].answer = posts[p].answer
                         /\ posts'[p].root = posts[p].root /\ posts'[p].nudges = posts[p].nudges
                         /\ posts'[p].nudge = n(p)
  BY <1>2, <1>3 DEF Keeps
<1>8. AnswersFit' BY <1>0, <1>4, <1>7 DEF AnswersFit
<1>9. ASSUME NEW p \in PostIds
      PROVE  IF Live(p)' THEN RemindersClaimed(p)' ELSE posts'[p].nudges = 0
  <2>1. Live(p)' <=> Live(p) BY <1>7 DEF Live
  <2>2. CASE ~Live(p) BY <1>7, <2>1, <2>2 DEF RemindersFit
  <2>3. CASE Live(p)
    <3>1. RemindersClaimed(p) BY <2>3 DEF RemindersFit
    <3>2. posts[p].nudge \in {"no", "recent"}
      BY <1>0, <3>1 DEF RemindersClaimed, PostDocs
    <3>3. Claims(p)' = Claims(p) BY <1>0, <1>7, <3>2 DEF Claims
    <3>4. \A r \in DiscussionRequests : Notifies(r, p)' <=> Notifies(r, p)
      BY <1>0 DEF Notifies
    <3>5. RemindersClaimed(p)' BY <1>0, <1>7, <3>1, <3>3, <3>4 DEF RemindersClaimed
    <3> QED BY <2>1, <2>3, <3>5
  <2> QED BY <2>2, <2>3
<1>10. \A s \in DiscussionRequests :
         dreq'[s].at \in {"claim", "notify"} => dreq'[s].post \in PostIds
  BY <1>0 DEF RemindersFit
<1>11. RemindersFit' BY <1>4, <1>9, <1>10 DEF RemindersFit
<1> QED BY <1>5, <1>6, <1>8, <1>11

(* Somebody leaves: nobody else is told less.                              *)
LEMMA LeavingKeeps ==
  ASSUME DiscussionsInv, NEW u \in Speakers, LoseMember(u)
  PROVE  DiscussionsInv'
<1> USE DEF DiscussionsInv
<1>0. /\ UNCHANGED <<scene, hours, dreq>>
      /\ here' = here \ {u} /\ work' = work \ {u} /\ former' = former \ {u}
      /\ PostIds = 1..Len(posts) /\ Len(posts) \in Nat
      /\ \A p \in PostIds : posts[p] \in PostDocs
  BY PostsTyped DEF LoseMember, PostIds
<1> DEFINE told(p) == posts[p].told \ {u}
           chatter(p) == posts[p].chatter \ {u}
           y(p) == [posts[p] EXCEPT !.told = told(p), !.chatter = chatter(p)]
<1>1. posts' = [p \in 1..Len(posts) |-> y(p)] BY <1>0 DEF LoseMember
<1>2. ASSUME NEW p \in PostIds
      PROVE  /\ y(p) \in PostDocs /\ Keeps(posts[p], y(p))
             /\ posts[p].told \cap here' \subseteq y(p).told
             /\ y(p).kind = posts[p].kind /\ y(p).answer = posts[p].answer
             /\ y(p).nudge = posts[p].nudge /\ y(p).nudges = posts[p].nudges
  <2>1. /\ posts[p] \in PostDocs /\ told(p) \in People /\ chatter(p) \in People
        /\ told(p) \subseteq posts[p].told /\ chatter(p) \subseteq posts[p].chatter
        /\ posts[p].told \cap here' \subseteq told(p)
    BY <1>0 DEF PostDocs, People
  <2> HIDE DEF told, chatter
  <2> QED BY <2>1 DEF PostDocs, Keeps
<1> HIDE DEF y
<1>3. /\ posts' \in Seq(PostDocs) /\ Len(posts') = Len(posts)
      /\ \A p \in PostIds : posts'[p] = y(p)
  BY <1>0, <1>1, <1>2
<1>4. PostIds' = PostIds BY <1>3 DEF PostIds
<1>5. DiscussionsTyped' BY <1>0, <1>3 DEF DiscussionsTyped, People
<1>6. PostsFit'
  <2>1. ThreadsStay BY <1>0, <1>2, <1>3 DEF ThreadsStay, Keeps
  <2>2. \A p \in PostIds : Keeps(posts[p], posts'[p])
                           /\ posts[p].told \cap here' \subseteq posts'[p].told
    BY <1>2, <1>3
  <2>3. PostIds' \ PostIds = {} BY <1>4
  <2>4. \A s \in DiscussionRequests : dreq'[s].at = "record" =>
          /\ \A x \in {dreq'[s].post}, m \in {Len(posts)} : Fits(x, m)
          /\ Unmarked(dreq'[s].post)
    BY <1>0 DEF PostsFit
  <2>5. here' \subseteq here /\ scene'.muted = scene.muted BY <1>0
  <2> QED BY <2>1, <2>2, <2>3, <2>4, <2>5, PostsGoOn
<1>7. \A p \in PostIds : /\ posts'[p].kind = posts[p].kind /\ posts'[p].answer = posts[p].answer
                         /\ posts'[p].root = posts[p].root /\ posts'[p].nudges = posts[p].nudges
                         /\ posts'[p].nudge = posts[p].nudge
  BY <1>2, <1>3 DEF Keeps
<1>8. AnswersFit' BY <1>0, <1>4, <1>7, SMTT(60) DEF AnswersFit
<1>9. ASSUME NEW p \in PostIds
      PROVE  IF Live(p)' THEN RemindersClaimed(p)' ELSE posts'[p].nudges = 0
  <2>1. \A r \in DiscussionRequests : Notifies(r, p)' <=> Notifies(r, p)
    BY <1>0 DEF Notifies
  <2> QED BY <1>0, <1>7, <2>1, ClaimsStay DEF RemindersFit, Live
<1>10. \A s \in DiscussionRequests :
         dreq'[s].at \in {"claim", "notify"} => dreq'[s].post \in PostIds
  BY <1>0 DEF RemindersFit
<1>11. RemindersFit' BY <1>4, <1>9, <1>10 DEF RemindersFit
<1> QED BY <1>5, <1>6, <1>8, <1>11

(* The messages go with the place; those on their way find nobody's thread *)
(* but have told whom they are addressed to.                               *)
LEMMA DestroyKeeps ==
  ASSUME DiscussionsInv, DestroyPlace
  PROVE  DiscussionsInv'
<1> USE DEF DiscussionsInv
<1>0. /\ UNCHANGED <<here, work, former, hours, dreq>>
      /\ PostIds = 1..Len(posts) /\ Len(posts) \in Nat
      /\ posts' = [p \in 1..Len(posts) |-> Erased]
      /\ scene' = [scene EXCEPT !.gone = TRUE]
  BY PostsTyped DEF DestroyPlace, PostIds
<1>1. /\ posts' \in Seq(PostDocs) /\ Len(posts') = Len(posts)
      /\ \A p \in PostIds : posts'[p] = Erased
  BY <1>0, ErasedIs
<1>2. PostIds' = PostIds BY <1>1 DEF PostIds
<1>3. scene' \in SceneDocs /\ scene'.muted = scene.muted
  BY <1>0 DEF DiscussionsTyped, SceneDocs
<1>4. DiscussionsTyped' BY <1>0, <1>1, <1>3 DEF DiscussionsTyped
<1>5. ASSUME NEW x, NEW n \in 0..Len(posts), Fits(x, n)
      PROVE  Fits(x, n)'
  <2>1. /\ x.root \in 0..n /\ x.re \in 0..n
        /\ x.root # 0 => x.root \in PostIds
        /\ x.re # 0 => x.re \in PostIds
    BY <1>0, <1>5 DEF Fits, InThread
  <2>2. /\ x.root # 0 => posts'[x.root] = Erased
        /\ \A q \in {x.root, x.re} \ {0} : posts'[q] = Erased
    BY <1>1, <2>1
  <2>3. InThread(x, n)' BY <2>1, <2>2, ErasedIs DEF InThread
  <2>4. AddressedOf(x)' \subseteq AddressedOf(x) BY <2>2, ErasedIs DEF AddressedOf
  <2>5. Tells(x)'
    <3>1. (AddressedOf(x)' \cap here') \ x.by \subseteq x.told
      BY <1>0, <1>5, <2>4 DEF Fits, Tells
    <3>2. x.chatter \cap scene'.muted = {} /\ x.told \cap (x.chatter \cup x.by) = {}
      BY <1>3, <1>5 DEF Fits, Tells
    <3>3. ~(x.root # 0 /\ posts'[x.root].kind = "request") BY <2>2, ErasedIs
    <3> QED BY <3>1, <3>2, <3>3 DEF Tells
  <2>6. Between(x, n)'
    <3>1. ~(x.root # 0 /\ IsDirected(x.root)') BY <2>2, ErasedIs DEF IsDirected
    <3>2. x.root = 0 /\ ~x.all => Audience(x) \subseteq x.by \cup x.to \cup x.asked \cup x.shared
      BY <1>5 DEF Fits, Between
    <3> QED BY <3>1, <3>2 DEF Between, Audience
  <2> QED BY <2>3, <2>5, <2>6 DEF Fits
<1>6. ASSUME NEW n \in Nat, NEW x \in {Erased}
      PROVE  Fits(x, n)'
  <2>1. InThread(x, n)' BY ErasedIs DEF InThread
  <2>2. AddressedOf(x)' = {} BY ErasedIs DEF AddressedOf
  <2>3. Tells(x)' BY <2>2, ErasedIs DEF Tells
  <2>4. Between(x, n)' BY ErasedIs DEF Between
  <2> QED BY <2>1, <2>3, <2>4 DEF Fits
<1>7. PostsFit'
  <2>1. ASSUME NEW p \in PostIds', NEW x \in {posts'[p]} PROVE Fits(x, p - 1)'
    <3>1. x \in {Erased} BY <1>1, <1>2, <2>1
    <3>2. PICK n \in Nat : n = p - 1 BY <1>0, <1>2
    <3>3. Fits(x, n)' BY <1>6, <3>1
    <3> QED BY <3>2, <3>3
  <2>2. ASSUME NEW r \in DiscussionRequests, dreq'[r].at = "record",
               NEW x \in {dreq'[r].post}, NEW n \in {Len(posts')}
        PROVE  Fits(x, n)'
    <3>1. n \in 0..Len(posts) BY <1>0, <1>1
    <3>2. Fits(x, n) BY <1>0, <1>1, <2>2 DEF PostsFit
    <3> QED BY <1>5, <3>1, <3>2
  <2>3. \A r \in DiscussionRequests : dreq'[r].at = "record" => Unmarked(dreq'[r].post)
    BY <1>0 DEF PostsFit
  <2> QED BY <2>1, <2>2, <2>3 DEF PostsFit
<1>8. AnswersFit' BY <1>0, <1>1, <1>2, ErasedIs DEF AnswersFit
<1>9. RemindersFit'
  <2>1. \A p \in PostIds : ~Live(p)' /\ posts'[p].nudges = 0
    BY <1>1, ErasedIs DEF Live
  <2>2. \A r \in DiscussionRequests :
          dreq'[r].at \in {"claim", "notify"} => dreq'[r].post \in PostIds'
    BY <1>0, <1>2 DEF RemindersFit
  <2> QED BY <1>2, <2>1, <2>2 DEF RemindersFit
<1> QED BY <1>4, <1>7, <1>8, <1>9

-----------------------------------------------------------------------------
LEMMA DiscussionsBegin == DiscussionsInit => DiscussionsInv
<1> SUFFICES ASSUME DiscussionsInit PROVE DiscussionsInv OBVIOUS
<1>1. /\ posts = <<>> /\ PostIds = {} /\ hours = 0 /\ here = Speakers /\ former = {}
      /\ \A r \in DiscussionRequests : dreq[r] = Silent
  BY DEF DiscussionsInit, PostIds
<1>2. DiscussionsTyped
  <2>1. scene \in SceneDocs
    BY DiscussionsAssumption DEF DiscussionsInit, SceneDocs, People
  <2>2. here \in People /\ work \in People /\ former \in People
    BY DEF DiscussionsInit, People
  <2>3. posts \in Seq(PostDocs) /\ hours \in {0, 1} BY <1>1
  <2>4. dreq \in [DiscussionRequests -> DiscussionWork]
    BY DEF DiscussionsInit, DiscussionWork
  <2> QED BY <2>1, <2>2, <2>3, <2>4 DEF DiscussionsTyped
<1>3. \A r \in DiscussionRequests : dreq[r].at = "silent" BY <1>1 DEF Silent
<1>4. PostsFit BY <1>1, <1>3 DEF PostsFit
<1>5. AnswersFit BY <1>1, <1>3 DEF AnswersFit
<1>6. RemindersFit BY <1>1, <1>3 DEF RemindersFit
<1> QED BY <1>2, <1>4, <1>5, <1>6 DEF DiscussionsInv

LEMMA DiscussionsStep ==
  DiscussionsInv /\ [DiscussionsNext]_discussionVars => DiscussionsInv'
<1> SUFFICES ASSUME DiscussionsInv, [DiscussionsNext]_discussionVars PROVE DiscussionsInv'
  OBVIOUS
<1>1. CASE UNCHANGED discussionVars BY <1>1, WorkKeeps
<1>2. ASSUME NEW r \in DiscussionRequests, NEW u \in here, Speak(r, u) PROVE DiscussionsInv'
  BY <1>2, SpeakKeeps
<1>3. ASSUME NEW r \in DiscussionRequests, RecordActivity(r) PROVE DiscussionsInv'
  BY <1>3, RecordKeeps
<1>4. ASSUME NEW r \in DiscussionRequests, MarkAnswer(r) PROVE DiscussionsInv'
  BY <1>4, AnswerKeeps
<1>5. ASSUME NEW r \in DiscussionRequests, ClaimReminder(r) PROVE DiscussionsInv'
  BY <1>5, ClaimKeeps
<1>6. ASSUME NEW r \in DiscussionRequests, RemindWaiting(r) PROVE DiscussionsInv'
  BY <1>6, RemindKeeps
<1>7. ASSUME NEW r \in DiscussionRequests,
             \/ \E u \in here, p \in PostIds, a \in 0..Len(posts) : FindQuestion(r, u, p, a)
             \/ \E u \in here, p \in PostIds : FindWaiting(r, u, p)
             \/ DiscussionRequestEnds(r)
      PROVE  DiscussionsInv'
  BY <1>7, FindKeeps
<1>8. CASE HourPasses BY <1>8, HourKeeps
<1>9. ASSUME NEW u \in Speakers, LoseMember(u) PROVE DiscussionsInv' BY <1>9, LeavingKeeps
<1>10. ASSUME NEW u \in Speakers, Reassign(u) \/ FinishWork(u) PROVE DiscussionsInv'
  BY <1>10, WorkKeeps
<1>11. CASE DestroyPlace BY <1>11, DestroyKeeps
<1> QED
  BY <1>1, <1>2, <1>3, <1>4, <1>5, <1>6, <1>7, <1>8, <1>9, <1>10, <1>11 DEF DiscussionsNext

(* What fits is what was promised.                                         *)
LEMMA DiscussionsKeep == DiscussionsInv => DiscussionsTypeOK /\ DiscussionsInOrder
<1> SUFFICES ASSUME DiscussionsInv PROVE DiscussionsTypeOK /\ DiscussionsInOrder OBVIOUS
<1> USE DEF DiscussionsInv
<1>0. /\ PostIds = 1..Len(posts) /\ Len(posts) \in Nat
      /\ \A p \in PostIds : p \in Nat \ {0} /\ posts[p] \in PostDocs
  BY PostsTyped DEF PostIds
<1>1. ASSUME NEW p \in PostIds
      PROVE  /\ posts[p].root \in 0..(p - 1) /\ posts[p].re \in 0..(p - 1)
             /\ posts[p].root # 0 => posts[posts[p].root].root = 0
             /\ posts[p].root # 0 => posts[p].root \in PostIds
             /\ (AddressedOf(posts[p]) \cap here) \ posts[p].by \subseteq posts[p].told
             /\ posts[p].chatter \cap scene.muted = {}
             /\ posts[p].told \cap (posts[p].chatter \cup posts[p].by) = {}
             /\ posts[p].root # 0 /\ posts[posts[p].root].kind = "request" =>
                  Audience(posts[p]) \subseteq AddressedOf(posts[p])
             /\ Between(posts[p], p - 1)
  <2>1. PICK x : x = posts[p] OBVIOUS
  <2>2. InThread(x, p - 1) /\ Tells(x) /\ Between(x, p - 1)
    BY <2>1 DEF PostsFit, Fits
  <2>3. /\ x.root \in 0..(p - 1) /\ x.re \in 0..(p - 1)
        /\ x.root # 0 => posts[x.root].root = 0
    BY <2>2 DEF InThread
  <2>4. x.root # 0 => x.root \in PostIds BY <1>0, <2>3
  <2>5. /\ (AddressedOf(x) \cap here) \ x.by \subseteq x.told
        /\ x.chatter \cap scene.muted = {}
        /\ x.told \cap (x.chatter \cup x.by) = {}
        /\ x.root # 0 /\ posts[x.root].kind = "request" => Audience(x) \subseteq AddressedOf(x)
    BY <2>2 DEF Tells
  <2> QED BY <2>1, <2>2, <2>3, <2>4, <2>5
<1>2. \A p \in PostIds : Addressed(p) = AddressedOf(posts[p]) BY DEF Addressed, AddressedOf
<1>3. DiscussionsTypeOK
  <2>1. here \cup work \cup former \subseteq Speakers BY DEF DiscussionsTyped, People
  <2>2. ASSUME NEW p \in PostIds
        PROVE  /\ posts[p].by \cup posts[p].to \cup posts[p].asked \cup posts[p].shared
                    \cup posts[p].told \cup posts[p].chatter \subseteq Speakers
               /\ posts[p].kind \in {"question", "request", "reply", "erased"}
               /\ posts[p].root < p
               /\ posts[p].root # 0 => posts[posts[p].root].root = 0
    <3>1. posts[p] \in PostDocs BY <1>0
    <3>2. /\ posts[p].by \cup posts[p].to \cup posts[p].asked \cup posts[p].shared
                    \cup posts[p].told \cup posts[p].chatter \subseteq Speakers
          /\ posts[p].kind \in {"question", "request", "reply", "erased"}
      BY <3>1 DEF PostDocs, People
    <3>3. posts[p].root < p BY <1>0, <1>1
    <3> QED BY <1>1, <3>2, <3>3
  <2> QED BY <2>1, <2>2 DEF DiscussionsTypeOK
<1>4. AddressedTold BY <1>1, <1>2 DEF AddressedTold
<1>5. OthersSpared
  <2>1. ASSUME NEW p \in PostIds, posts[p].root # 0, posts[RootOf(p)].kind = "request"
        PROVE  posts[p].told \cup posts[p].chatter \subseteq Addressed(p)
    <3>1. RootOf(p) = posts[p].root BY <2>1 DEF RootOf
    <3> QED BY <1>1, <1>2, <2>1, <3>1 DEF Audience
  <2> QED BY <1>1, <2>1 DEF OthersSpared
<1>6. StaysBetween
  <2>1. ASSUME NEW p \in PostIds, posts[p].root # 0, IsDirected(RootOf(p))
        PROVE  /\ posts[p].by \subseteq
                    ThreadParticipants(RootOf(p), Replies(RootOf(p)) \cap 1..(p - 1))
               /\ Audience(posts[p]) \subseteq TakesPart(RootOf(p))
    <3>1. RootOf(p) = posts[p].root BY <2>1 DEF RootOf
    <3>2. PICK q : q = RootOf(p) OBVIOUS
    <3>3. /\ posts[p].by \subseteq TookPart(q, p - 1)
          /\ Audience(posts[p]) \subseteq TakesPart(q) \cup posts[p].by \cup posts[p].to
      BY <1>1, <2>1, <3>1, <3>2 DEF Between
    <3>4. p \in Replies(q) BY <3>1, <3>2 DEF Replies
    <3>5. posts[p].by \cup posts[p].to \subseteq TakesPart(q)
      BY <3>4 DEF TakesPart, ThreadParticipants
    <3> QED BY <3>2, <3>3, <3>5 DEF TookPart
  <2>2. ASSUME NEW p \in PostIds, posts[p].root = 0, IsDirected(RootOf(p))
        PROVE  Audience(posts[p]) \subseteq TakesPart(RootOf(p))
    <3>1. RootOf(p) = p BY <2>2 DEF RootOf
    <3>2. ~posts[p].all BY <2>2, <3>1 DEF IsDirected
    <3>3. Audience(posts[p]) \subseteq
            posts[p].by \cup posts[p].to \cup posts[p].asked \cup posts[p].shared
      BY <1>1, <2>2, <3>2 DEF Between
    <3> QED BY <3>1, <3>3 DEF TakesPart, ThreadParticipants
  <2>3. ASSUME NEW p \in PostIds, Live(p), NEW u \in posts[p].told \cup posts[p].chatter,
               InPlace(u)
        PROVE  p \in ListActivities(u)
    <3>1. u \in Audience(posts[p]) BY DEF Audience
    <3>2. IsDirected(RootOf(p)) =>
            u \in ThreadParticipants(RootOf(p), Replies(RootOf(p)))
      BY <2>1, <2>2, <3>1 DEF TakesPart
    <3> QED BY <2>3, <3>2 DEF ListActivities, Feed
  <2> QED BY <2>1, <2>3 DEF StaysBetween
<1>7. AnswersAndReminders
  <2>1. ASSUME NEW p \in PostIds PROVE posts[p].nudges <= 1 + hours
    <3>1. hours \in {0, 1} /\ posts[p] \in PostDocs BY <1>0 DEF DiscussionsTyped
    <3>2. CASE ~Live(p) BY <3>1, <3>2 DEF RemindersFit
    <3>3. CASE Live(p)
      <4>1. RemindersClaimed(p) BY <3>3 DEF RemindersFit
      <4>2. posts[p].nudge \in {"no", "recent", "past"} /\ posts[p].nudges \in Nat
        BY <3>1 DEF PostDocs
      <4>3. Claims(p) \in Nat /\ Claims(p) <= 1 + hours
        BY <3>1, <4>1, <4>2 DEF Claims
      <4> QED BY <3>1, <4>1, <4>2, <4>3 DEF RemindersClaimed
    <3> QED BY <3>2, <3>3
  <2> QED BY <2>1 DEF AnswersAndReminders, AnswersFit
<1> QED BY <1>3, <1>4, <1>5, <1>6, <1>7 DEF DiscussionsInOrder

(* The messages of a discussion have their types, and threads stay one     *)
(* level deep.                                                             *)
THEOREM DiscussionsTypeCorrect == DiscussionsSpec => []DiscussionsTypeOK
<1>1. DiscussionsInv => DiscussionsTypeOK BY DiscussionsKeep
<1> QED BY <1>1, DiscussionsBegin, DiscussionsStep, PTL DEF DiscussionsSpec

(* Whoever is addressed is told, others are spared, a thread between some  *)
(* people stays between them and is found by whoever is told of it,        *)
(* answers belong to their questions and reminders are an hour apart.      *)
THEOREM DiscussionsKeptInOrder == DiscussionsSpec => []DiscussionsInOrder
<1>1. DiscussionsInv => DiscussionsInOrder BY DiscussionsKeep
<1> QED BY <1>1, DiscussionsBegin, DiscussionsStep, PTL DEF DiscussionsSpec

-----------------------------------------------------------------------------
(* Chats and discussions beside each other.                                *)
LEMMA TalkStep ==
  MessagesInv /\ DiscussionsInv /\ [TalkNext]_<<messageVars, discussionVars>>
    => (MessagesInv /\ DiscussionsInv)'
<1>1. [TalkNext]_<<messageVars, discussionVars>>
        => [MessagesNext]_messageVars /\ [DiscussionsNext]_discussionVars
  BY DEF TalkNext
<1> QED BY <1>1, MessagesStep, DiscussionsStep

(* Documents have their types, threads stay one level deep, and a message  *)
(* has one entry for an emoji.                                             *)
THEOREM TalkTypeCorrect == TalkSpec => []TalkTypeOK
<1>1. TalkInit => MessagesInv /\ DiscussionsInv
  BY MessagesBegin, DiscussionsBegin DEF TalkInit
<1>2. MessagesInv /\ DiscussionsInv => TalkTypeOK
  BY MessagesKeep, DiscussionsKeep DEF TalkTypeOK
<1> QED BY <1>1, <1>2, TalkStep, PTL DEF TalkSpec
=============================================================================
