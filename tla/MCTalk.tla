------------------------------- MODULE MCTalk -------------------------------
(* What people say to each other, for TLC: the messages of a chat of two,  *)
(* and the discussion of a task or project among three, looked at one      *)
(* after the other.                                                        *)
EXTENDS Messages, Discussions, TLC

CONSTANTS r1, r2, s1, s2, s3, v1, v2

(* Operations on messages that are looked at together.                     *)
MixesOfMessages ==
  {{}, {"send", "edit", "delete", "purge"}, {"send", "purge", "hide", "clear"},
   {"send", "react", "delete"},
   {"send", "attach", "delete", "purge"}, {"send", "mark", "clear"}, {"send", "mark", "hide"}}

(* The two of a chat are alike, the two speakers who are not in charge,    *)
(* and requests. Chats and discussions do not meet.                        *)
Symmetry ==
  Permutations({r1, r2})
    \cup {(s2 :> s3) @@ (s3 :> s2) @@ (v1 :> v2) @@ (v2 :> v1)}

(* Where what is looked at: s1 is an admin or manager, one of the others   *)
(* created the place, and the same or the other one muted it.              *)
Places(what) ==
  CASE what \in {"longer", "remind"} -> {"shared"}
    [] what \in {"leave", "answer"} -> {"task"}
    [] OTHER -> {"task", "project"}

MutedByCreator(what) == what \in {"leave", "assign"}

ScenesOfDiscussions ==
  {s \in UNION {[place : Places(what), beside : {what}, leads : {{s1}},
                 creator : {s2, s3}, muted : {{s2}, {s3}}, gone : {FALSE}]
                : what \in {"longer", "leave", "assign", "answer", "remind", "destroy"}} :
     s.creator \in s.muted <=> MutedByCreator(s.beside)}

NoScene ==
  [place |-> "none", beside |-> "none", leads |-> {}, creator |-> "nobody",
   muted |-> {}, gone |-> TRUE]

ScenesAndNone == ScenesOfDiscussions \cup {NoScene}

(* Those who work when the discussion starts.                              *)
Workers ==
  CASE scene = NoScene -> {{}}
    [] scene.beside \in {"assign", "leave"} -> {{s1, s2}, {s2, s3}}
    [] OTHER -> {{s1}, {s2}, {s3}}

TalkInit ==
  /\ MessagesInit
  /\ DiscussionsInit
  /\ work \in Workers
  /\ mix = {} <=> scene # NoScene

TalkNext ==
  \/ MessagesNext /\ UNCHANGED discussionVars
  \/ scene # NoScene /\ DiscussionsNext /\ UNCHANGED messageVars

TalkSpec == TalkInit /\ [][TalkNext]_<<messageVars, discussionVars>>

(* Documents have their types, threads stay one level deep, and a message  *)
(* has one entry for an emoji.                                             *)
TalkTypeOK == MessagesTypeOK /\ DiscussionsTypeOK /\ OneEntryPerEmoji

=============================================================================
