------------------------------ MODULE Messages ------------------------------
(***************************************************************************)
(* The messages of one conversation and the preview the chat list shows of *)
(* it (chat.service.ts, chatRetention.service.ts, chatFiles.controller.ts).*)
(*                                                                         *)
(* Messages are numbered in the order of their createdAt, which the server *)
(* sets before it inserts them; clock is the number of those set so far, so *)
(* a date is the number of the last message before it. Every database call *)
(* is a step, and a request may end after any of them.                     *)
(***************************************************************************)
EXTENDS Integers, Sequences, FiniteSets

CONSTANTS
  Members,          \* the people in the conversation
  MaxMessages,      \* bound: messages ever sent
  Files,            \* uploads, by publicId
  MessageRequests,  \* requests in flight at once
  MessageMixes      \* the sets of operations looked at together

ASSUME MessagesAssumption == MaxMessages \in Nat

VARIABLES
  mix,      \* the operations of this behaviour
  clock,    \* the messages that have a date
  msg,      \* the message documents
  conv,     \* of the conversation: lastMessageAt and lastMessage
  mine,     \* of each member: clearedAt and lastReadAt
  stored,   \* the files in storage
  mreq,     \* what each request is doing
  stirred,  \* a preview was written from what was no longer so (history)
  reread,   \* members whose lastReadAt was written from before they cleared
            \* the chat (history)
  again     \* files sent when they were destroyed, or while another request
            \* attached or destroyed them (history)

messageVars == <<mix, clock, msg, conv, mine, stored, mreq, stirred, reread, again>>

Ids == 1..MaxMessages
NoFile == "none"
Nobody == "nobody"

Texts == {"sent", "edited", ""}

(* reactions with one emoji: the entries there are, each with its people.  *)
Reactions == UNION {[1..n -> SUBSET Members] : n \in 0..2}
MessageDocs == [st : {"none", "live", "deleted", "purged"},
                sender : Members \cup {Nobody}, text : Texts,
                file : Files \cup {NoFile},
                reactions : Reactions, hiddenBy : SUBSET Members]

(* lastMessage: the message it was copied from (0 for null), its text.     *)
Previews == [of : Ids \cup {0}, text : Texts]
NoPreview == [of |-> 0, text |-> ""]

Free == [st |-> "idle"]
On(r, st) == mreq[r].st = st
Step(r, q) == mreq' = [mreq EXCEPT ![r] = q] /\ UNCHANGED mix
Starts(r, op, q) == op \in mix /\ mreq[r] = Free /\ Step(r, q)

(* In the collection.                                                      *)
Inserted == {m \in Ids : msg[m].st \in {"live", "deleted"}}

-----------------------------------------------------------------------------
(* What a member can still see: not what they deleted for themselves, and  *)
(* nothing from before they cleared the chat (listMessages, search).       *)
Visible(u) == {m \in Inserted : u \notin msg[m].hiddenBy /\ m > mine[u].cleared}

Newest(S) == IF S = {} THEN 0 ELSE CHOOSE m \in S : \A n \in S : n <= m

PreviewOf(m) == IF m = 0 THEN NoPreview ELSE [of |-> m, text |-> msg[m].text]

(* listConversations with withVisibleLastMessage: a chat cleared since its *)
(* last message is not listed; if that message is hidden for this member   *)
(* the newest visible one takes its place; a deleted one has no text.      *)
ListedPreview(u) ==
  IF conv.at <= mine[u].cleared THEN NoPreview
  ELSE IF conv.at \in Inserted /\ u \in msg[conv.at].hiddenBy
       THEN PreviewOf(Newest(Visible(u)))
  ELSE IF conv.deleted THEN [conv.last EXCEPT !.text = ""]
  ELSE conv.last

(* The member sent nothing, looked at nothing, and is told of it.          *)
CountUnread(u) ==
  {m \in Inserted : /\ msg[m].st = "live"
                    /\ msg[m].sender # u
                    /\ u \notin msg[m].hiddenBy
                    /\ m > mine[u].read}

-----------------------------------------------------------------------------
Attachable == {NoFile} \cup IF "attach" \in mix THEN Files ELSE {}

(* The files a request is about to attach or to destroy.                   *)
FilesOf(q) ==
  IF q.st \in {"send", "insert", "delete", "deleted"} THEN {q.file} \ {NoFile}
  ELSE IF q.st \in {"unlink", "purged"} THEN q.files
  ELSE {}

(* Mutant of Taken: nobody looks.                                          *)
Taken_Never(f) == FALSE

Taken(f) == f # NoFile /\ \E m \in Ids : msg[m].file = f

(* It is destroyed already, or about to be, or on its way to a message.    *)
Resent(f) ==
  f # NoFile /\ (f \notin stored \/ \E r \in MessageRequests : f \in FilesOf(mreq[r]))

(* sendMessage: whether a message has the file. Its real size is asked for, *)
(* but a file that is not there has none, and that is let pass.            *)
CheckSend(r, u, f) ==
  /\ ~Taken(f)
  /\ Starts(r, "send", [st |-> "send", who |-> u, file |-> f])
  /\ again' = IF Resent(f) THEN again \cup {f} ELSE again
  /\ UNCHANGED <<clock, msg, conv, mine, stored, stirred, reread>>

StampMessage(r) ==
  /\ On(r, "send")
  /\ clock < MaxMessages
  /\ clock' = clock + 1
  /\ Step(r, [st |-> "insert", who |-> mreq[r].who, file |-> mreq[r].file, id |-> clock'])
  /\ UNCHANGED <<msg, conv, mine, stored, stirred, reread, again>>

InsertMessage(r) ==
  LET q == mreq[r]
  IN  /\ On(r, "insert")
      /\ msg' = [msg EXCEPT ![q.id] =
                   [st |-> "live", sender |-> q.who, text |-> "sent", file |-> q.file,
                    reactions |-> <<>>, hiddenBy |-> {}]]
      /\ Step(r, [st |-> "announce", who |-> q.who, id |-> q.id])
      /\ UNCHANGED <<clock, conv, mine, stored, stirred, reread, again>>

(* lastReadAt goes to before what the member has cleared.                  *)
RereadBy(u, date) == IF date < mine[u].cleared THEN reread \cup {u} ELSE reread

AnnounceMessage(r) ==
  LET q == mreq[r]
  IN  /\ On(r, "announce")
      /\ conv' = [at |-> q.id, last |-> [of |-> q.id, text |-> "sent"], deleted |-> FALSE]
      /\ mine' = [mine EXCEPT ![q.who].read = q.id]
      /\ stirred' = (stirred \/ conv.at > q.id
                     \/ msg[q.id].st # "live" \/ msg[q.id].text # "sent")
      /\ reread' = RereadBy(q.who, q.id)
      /\ Step(r, Free)
      /\ UNCHANGED <<clock, msg, stored, again>>

(* editMessage: within its ten minutes, which may be over at any time.     *)
FindToEdit(r, m) ==
  /\ msg[m].st = "live"
  /\ Starts(r, "edit", [st |-> "edit", id |-> m])
  /\ UNCHANGED <<clock, msg, conv, mine, stored, stirred, reread, again>>

(* Mutant of EditText: the text comes back.                                *)
EditText_Always(r) ==
  LET m == mreq[r].id
  IN  /\ On(r, "edit")
      /\ msg' = [msg EXCEPT ![m].text = IF @ = "none" THEN @ ELSE "edited"]
      /\ Step(r, [st |-> "edited", id |-> m])
      /\ UNCHANGED <<clock, conv, mine, stored, stirred, reread, again>>

(* "Not if it was deleted a moment ago: the text must not come back."      *)
EditText(r) ==
  LET m == mreq[r].id
  IN  /\ On(r, "edit")
      /\ msg' = [msg EXCEPT ![m].text = IF msg[m].st = "live" THEN "edited" ELSE @]
      /\ Step(r, [st |-> "edited", id |-> m])
      /\ UNCHANGED <<clock, conv, mine, stored, stirred, reread, again>>

FindLatestEdited(r) ==
  /\ On(r, "edited")
  /\ Step(r, IF conv.at = mreq[r].id THEN [st |-> "preview", id |-> mreq[r].id] ELSE Free)
  /\ UNCHANGED <<clock, msg, conv, mine, stored, stirred, reread, again>>

EditPreview(r) ==
  LET m == mreq[r].id
  IN  /\ On(r, "preview")
      /\ conv' = [conv EXCEPT !.last.text = "edited"]
      /\ stirred' = (stirred \/ conv.at # m \/ msg[m].st # "live")
      /\ Step(r, Free)
      /\ UNCHANGED <<clock, msg, mine, stored, reread, again>>

(* deleteMessage: the document keeps its place without its content; the    *)
(* preview only if the message is still the last one; then the file.       *)
FindToDelete(r, m) ==
  /\ msg[m].st = "live"
  /\ Starts(r, "delete", [st |-> "delete", id |-> m, file |-> msg[m].file])
  /\ UNCHANGED <<clock, msg, conv, mine, stored, stirred, reread, again>>

DeleteMessage(r) ==
  LET m == mreq[r].id
  IN  /\ On(r, "delete")
      /\ msg' = [msg EXCEPT ![m] =
                   IF @.st = "live"
                   THEN [@ EXCEPT !.st = "deleted", !.text = "", !.file = NoFile,
                                  !.reactions = <<>>]
                   ELSE @]
      /\ Step(r, [mreq[r] EXCEPT !.st = "deleted"])
      /\ UNCHANGED <<clock, conv, mine, stored, stirred, reread, again>>

(* Mutant of DeletePreview: whatever message is the last one.              *)
DeletePreview_Any(r) ==
  /\ On(r, "deleted")
  /\ conv' = [conv EXCEPT !.deleted = TRUE, !.last.text = ""]
  /\ Step(r, [st |-> "unlink", files |-> {mreq[r].file} \ {NoFile}])
  /\ UNCHANGED <<clock, msg, mine, stored, stirred, reread, again>>

DeletePreview(r) ==
  /\ On(r, "deleted")
  /\ conv' = IF conv.at = mreq[r].id
             THEN [conv EXCEPT !.deleted = TRUE, !.last.text = ""] ELSE conv
  /\ Step(r, [st |-> "unlink", files |-> {mreq[r].file} \ {NoFile}])
  /\ UNCHANGED <<clock, msg, mine, stored, stirred, reread, again>>

DestroyUploads(r) ==
  /\ On(r, "unlink")
  /\ stored' = stored \ mreq[r].files
  /\ Step(r, Free)
  /\ UNCHANGED <<clock, msg, conv, mine, stirred, reread, again>>

(* "Delete for me".                                                        *)
HideMessage(u, m) ==
  /\ "hide" \in mix
  /\ m \in Inserted
  /\ msg' = [msg EXCEPT ![m].hiddenBy = @ \cup {u}]
  /\ UNCHANGED <<mix, clock, conv, mine, stored, mreq, stirred, reread, again>>

(* toggleReaction: what to do is decided by the message as it was read.    *)
FindToReact(r, u, m) ==
  LET entries == msg[m].reactions
  IN  /\ msg[m].st = "live"
      /\ Starts(r, "react", [st |-> IF entries = <<>> THEN "push"
                           ELSE IF u \in entries[1] THEN "pull" ELSE "join",
                    who |-> u, id |-> m])
      /\ UNCHANGED <<clock, msg, conv, mine, stored, stirred, reread, again>>

React(r, m, entries, q) ==
  /\ msg' = [msg EXCEPT ![m].reactions = entries]
  /\ Step(r, q)
  /\ UNCHANGED <<clock, conv, mine, stored, stirred, reread, again>>

(* Mutant of PushReaction: no guard.                                       *)
PushReaction_Always(r) ==
  /\ On(r, "push")
  /\ React(r, mreq[r].id, Append(msg[mreq[r].id].reactions, {mreq[r].who}), Free)

(* "Guarded, so two people adding the same new emoji at once can't create  *)
(* two separate entries for it": the one who comes second joins.           *)
PushReaction(r) ==
  LET q == mreq[r]
      entries == msg[q.id].reactions
  IN  /\ On(r, "push")
      /\ IF entries = <<>> THEN React(r, q.id, <<{q.who}>>, Free)
         ELSE React(r, q.id, entries, [q EXCEPT !.st = "join"])

JoinReaction(r) ==
  LET q == mreq[r]
      entries == msg[q.id].reactions
  IN  /\ On(r, "join")
      /\ React(r, q.id,
           IF entries = <<>> THEN entries ELSE [entries EXCEPT ![1] = @ \cup {q.who}], Free)

PullReaction(r) ==
  LET q == mreq[r]
      entries == msg[q.id].reactions
  IN  /\ On(r, "pull")
      /\ React(r, q.id,
           IF entries = <<>> THEN entries ELSE [entries EXCEPT ![1] = @ \ {q.who}],
           [q EXCEPT !.st = "prune"])

(* "reactions.$" is the first entry, so no other can be without people.    *)
Peopled(entries) ==
  IF entries # <<>> /\ entries[1] = {} THEN Tail(entries) ELSE entries

PruneReactions(r) ==
  LET q == mreq[r]
  IN  /\ On(r, "prune")
      /\ React(r, q.id, Peopled(msg[q.id].reactions), Free)

-----------------------------------------------------------------------------
(* The member's own marks. The date is known before it is written: now,    *)
(* for what is read and what is cleared.                                   *)
Marks(r, op, st, u, date) ==
  /\ Starts(r, op, [st |-> st, who |-> u, date |-> date])
  /\ UNCHANGED <<clock, msg, conv, mine, stored, stirred, reread, again>>

MarkConversationRead(r, u) == Marks(r, "mark", "read", u, clock)

(* Back to just before the newest message of someone else.                 *)
MarkConversationUnread(r, u) ==
  LET theirs == {m \in Visible(u) : msg[m].sender # u /\ msg[m].st = "live"}
  IN  theirs # {} /\ Marks(r, "mark", "read", u, Newest(theirs) - 1)

(* Both write lastReadAt, whatever was cleared since.                      *)
WriteReadUpTo(r) ==
  LET q == mreq[r]
  IN  /\ On(r, "read")
      /\ mine' = [mine EXCEPT ![q.who].read = q.date]
      /\ reread' = RereadBy(q.who, q.date)
      /\ Step(r, Free)
      /\ UNCHANGED <<clock, msg, conv, stored, stirred, again>>

(* "Delete conversation" for the person asking.                            *)
ClearConversationForMe(r, u) == Marks(r, "clear", "clear", u, clock)

(* Mutant of WriteCleared: lastReadAt stays.                               *)
WriteCleared_Unread(r) ==
  LET q == mreq[r]
  IN  /\ On(r, "clear")
      /\ mine' = [mine EXCEPT ![q.who].cleared = q.date]
      /\ Step(r, Free)
      /\ UNCHANGED <<clock, msg, conv, stored, stirred, reread, again>>

WriteCleared(r) ==
  LET q == mreq[r]
  IN  /\ On(r, "clear")
      /\ mine' = [mine EXCEPT ![q.who] = [cleared |-> q.date, read |-> q.date]]
      /\ Step(r, Free)
      /\ UNCHANGED <<clock, msg, conv, stored, stirred, reread, again>>

-----------------------------------------------------------------------------
(* purgeExpiredChatMessages: those up to k are over the limit.             *)
PurgeMessages(r, k) ==
  LET old == {m \in Inserted : m <= k}
  IN  /\ old # {}
      /\ Starts(r, "purge", [st |-> "purged", files |-> {msg[m].file : m \in old} \ {NoFile}])
      /\ msg' = [m \in Ids |->
                   IF m \in old
                   THEN [msg[m] EXCEPT !.st = "purged", !.text = "", !.file = NoFile,
                                       !.reactions = <<>>, !.hiddenBy = {}]
                   ELSE msg[m]]
      /\ UNCHANGED <<clock, conv, mine, stored, stirred, reread, again>>

PurgeUploads(r) ==
  /\ On(r, "purged")
  /\ stored' = stored \ mreq[r].files
  /\ Step(r, [st |-> "refresh"])
  /\ UNCHANGED <<clock, msg, conv, mine, stirred, reread, again>>

(* The preview of the newest message that is left.                         *)
FindLatest(r) ==
  LET m == Newest(Inserted)
  IN  /\ On(r, "refresh")
      /\ Step(r, [st |-> "rewrite", last |-> PreviewOf(m), seen |-> conv,
                  deleted |-> m # 0 /\ msg[m].st = "deleted"])
      /\ UNCHANGED <<clock, msg, conv, mine, stored, stirred, reread, again>>

RefreshPreview(r) ==
  LET q == mreq[r]
  IN  /\ On(r, "rewrite")
      /\ conv' = [conv EXCEPT !.last = q.last, !.deleted = q.deleted]
      /\ stirred' = (stirred \/ q.seen # conv \/ q.last # PreviewOf(Newest(Inserted)))
      /\ Step(r, Free)
      /\ UNCHANGED <<clock, msg, mine, stored, reread, again>>

(* A failed call or the end of the server: what was done stays.            *)
MessageRequestEnds(r) ==
  /\ mreq[r] # Free
  /\ Step(r, Free)
  /\ stirred' = (stirred \/ mreq[r].st \notin {"send", "edit", "delete", "push",
                                               "join", "pull", "prune", "unlink", "read", "clear"})
  /\ UNCHANGED <<clock, msg, conv, mine, stored, reread, again>>

-----------------------------------------------------------------------------
MessagesInit ==
  /\ mix \in MessageMixes
  /\ clock = 0
  /\ msg = [m \in Ids |-> [st |-> "none", sender |-> Nobody, text |-> "", file |-> NoFile,
                           reactions |-> <<>>, hiddenBy |-> {}]]
  /\ conv = [at |-> 0, last |-> NoPreview, deleted |-> FALSE]
  /\ mine = [u \in Members |-> [cleared |-> 0, read |-> 0]]
  /\ stored = Files
  /\ mreq = [r \in MessageRequests |-> Free]
  /\ stirred = FALSE
  /\ reread = {}
  /\ again = {}

Writing(r) ==
  \/ \E u \in Members, f \in Attachable : CheckSend(r, u, f)
  \/ StampMessage(r)
  \/ InsertMessage(r)
  \/ AnnounceMessage(r)
  \/ \E m \in Ids : FindToEdit(r, m)
  \/ EditText(r)
  \/ FindLatestEdited(r)
  \/ EditPreview(r)
  \/ \E m \in Ids : FindToDelete(r, m)
  \/ DeleteMessage(r)
  \/ DeletePreview(r)
  \/ DestroyUploads(r)

Reacting(r) ==
  \/ \E u \in Members, m \in Ids : FindToReact(r, u, m)
  \/ PushReaction(r)
  \/ JoinReaction(r)
  \/ PullReaction(r)
  \/ PruneReactions(r)

Purging(r) ==
  \/ \E k \in Ids : PurgeMessages(r, k)
  \/ PurgeUploads(r)
  \/ FindLatest(r)
  \/ RefreshPreview(r)

Marking(r) ==
  \/ \E u \in Members :
       \/ MarkConversationRead(r, u)
       \/ MarkConversationUnread(r, u)
       \/ ClearConversationForMe(r, u)
  \/ WriteReadUpTo(r)
  \/ WriteCleared(r)

MessagesNext ==
  \/ \E r \in MessageRequests :
       Writing(r) \/ Reacting(r) \/ Purging(r) \/ Marking(r) \/ MessageRequestEnds(r)
  \/ \E u \in Members, m \in Ids : HideMessage(u, m)

MessagesSpec == MessagesInit /\ [][MessagesNext]_messageVars

-----------------------------------------------------------------------------
(* Documents have their types; a mark is a date of this conversation.      *)
MessagesTypeOK ==
  /\ clock \in 0..MaxMessages
  /\ msg \in [Ids -> MessageDocs]
  /\ conv \in [at : 0..MaxMessages, last : Previews, deleted : BOOLEAN]
  /\ mine \in [Members -> [cleared : 0..MaxMessages, read : 0..MaxMessages]]
  /\ stored \subseteq Files

(* The text of a message that was deleted for everyone never comes back,   *)
(* not with an edit that was under way either (editMessage, deleteMessage).*)
DeletedStaysEmpty ==
  \A m \in Ids : msg[m].st # "live" => msg[m].text = "" /\ msg[m].file = NoFile

(* However many people react at once, an emoji has one entry, and nobody's *)
(* reaction is shown twice (toggleReaction).                               *)
OneEntryPerEmoji == \A m \in Ids : Len(msg[m].reactions) <= 1

(* The chat list shows each member the newest message that member can still *)
(* see, as it reads now, whoever hides, clears, marks, edits, deletes or   *)
(* purges meanwhile. At rest, and unless a request wrote the preview from  *)
(* something that had changed since it looked, or ended before it wrote.   *)
PreviewRight ==
  ~stirred /\ (\A r \in MessageRequests : mreq[r] = Free) =>
    \A u \in Members : ListedPreview(u) = PreviewOf(Newest(Visible(u)))

(* What a member is told is unread is there to be read: not hidden, not    *)
(* cleared (countUnreadFor, markConversationUnread,                        *)
(* clearConversationForMe). Unless a mark of the member, or a message, was *)
(* dated before the member cleared the chat and written after: that takes  *)
(* lastReadAt back to before clearedAt.                                    *)
UnreadIsVisible == \A u \in Members \ reread : CountUnread(u) \subseteq Visible(u)

(* A message keeps its file until it is deleted or purged (sendMessage: "A *)
(* file can only be attached once. Without this, ... deleting one message  *)
(* would remove the other's file"). Unless the file was sent again after   *)
(* it was destroyed, or while another request attached or destroyed it:    *)
(* sendMessage looks at the messages there are, not at what was or will be. *)
FilesKept ==
  \A m \in Ids : msg[m].st = "live" => msg[m].file \in stored \cup again \cup {NoFile}

(* Every message reaches everyone who has not hidden it and has cleared    *)
(* nothing since it could be seen. It does not hold.                       *)
NothingMissed ==
  [][\A m \in Ids : msg[m].st = "none" /\ msg'[m].st = "live" =>
       \A u \in Members \ {msg'[m].sender} : m > mine[u].read]_messageVars

(* What the chat list tells each member is true: the preview is the newest *)
(* message there is to see, and what counts as unread can be read.         *)
ListRight == PreviewRight /\ UnreadIsVisible

(* The list is true, what was deleted stays empty, and what was not keeps  *)
(* its file.                                                               *)
MessagesInOrder == ListRight /\ DeletedStaysEmpty /\ FilesKept

=============================================================================
