----------------------------- MODULE MCAccounts -----------------------------
(* One account for TLC: its sessions and its links, looked at one after    *)
(* the other.                                                              *)
EXTENDS Sessions, Links, TLC

CONSTANTS b1, b2, r1, r2, a1, a2

(* What is looked at together.                                             *)
MixesOfSessions ==
  {{}} \cup {{"login", "refresh", op} : op \in {"revoke", "reset", "password", "logout", "delete"}}

MixesOfLinks == {{}, {"reset"}, {"change"}, {"signup"}}

(* Requests are alike; browsers and addresses do not meet.                 *)
Symmetry ==
  Permutations({r1, r2}) \cup {(b1 :> b2) @@ (b2 :> b1) @@ (a1 :> a2) @@ (a2 :> a1)}

AccountsInit ==
  /\ SessionsInit
  /\ LinksInit
  /\ aims = {} <=> flow # {}

AccountsNext ==
  \/ SessionsNext /\ UNCHANGED linkVars
  \/ LinksNext /\ UNCHANGED sessionVars

AccountsSpec == AccountsInit /\ [][AccountsNext]_<<sessionVars, linkVars>>

(* Documents have their types.                                             *)
AccountsTypeOK == SessionsTypeOK /\ LinksTypeOK

=============================================================================
