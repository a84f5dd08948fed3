----------------------------- MODULE OrgMembers -----------------------------
(***************************************************************************)
(* The members of an organization.  Two kinds of records say who is a      *)
(* member: the organization has a list of accounts, each account has a     *)
(* membership, with a lock and an activation, and the links that were      *)
(* mailed to its user.  Requests of managers change both, one after the    *)
(* other, through handles: they read a record, await, and write back       *)
(* either one field of what they read or all of it.                        *)
(*                                                                         *)
(* Of a link the model keeps whether one works.  Roles, and which groups   *)
(* a member is in, are not kept: a request that changes them writes back   *)
(* the rest of the membership as it read it.                               *)
(***************************************************************************)
EXTENDS Integers, FiniteSets

CONSTANTS
  Accounts,     \* the accounts
  Settled,      \* those that are members at the start
  None,         \* no account
  Requests,     \* the requests that may run at the same time
  May,          \* May[r]: the kinds of requests that r is used for
  ServerAdmin,  \* the managers administrate the server
  MaxStarts,    \* bound: the requests
  MaxStops      \* bound: the times the engine stops

Kinds == {"create", "invite", "lock", "unlock", "activate", "link", "drop",
          "roles", "group", "resend"}

ASSUME NoneAssumption    == None \notin Accounts
ASSUME SettledAssumption == Settled \subseteq Accounts
ASSUME MayAssumption     == May \in [Requests -> SUBSET Kinds]
ASSUME BoundsAssumption  == ServerAdmin \in BOOLEAN /\ MaxStarts \in Nat /\ MaxStops \in Nat

Membership == [has: BOOLEAN, active: BOOLEAN, locked: BOOLEAN, groups: BOOLEAN]
Account    == [exists: BOOLEAN, link: BOOLEAN, ms: Membership]

NoMembership == [has |-> FALSE, active |-> FALSE, locked |-> FALSE, groups |-> FALSE]
Blank        == [exists |-> FALSE, link |-> FALSE, ms |-> NoMembership]

\* The membership of a user who is invited, and of one whose account was created.
InvitedAs == [NoMembership EXCEPT !.has = TRUE]
CreatedAs == [NoMembership EXCEPT !.has = TRUE, !.locked = TRUE, !.groups = TRUE]

VARIABLES
  members,  \* the list of the organization
  acc,      \* acc[a]: the record of account a
  req,      \* req[r]: where a request is, its kind, account and handles
  past      \* what happened: creations and drops that ended, accounts left half done

vars == <<members, acc, req, past>>

Pcs  == {"idle", "check", "read", "save", "again", "account", "membership", "list",
         "link", "org"}
Idle == [pc |-> "idle", kind |-> "link", acc |-> None, copy |-> Blank, org |-> {}]

TypeOK ==
  /\ members \in SUBSET Accounts
  /\ acc \in [Accounts -> Account]
  /\ req \in [Requests -> [pc: Pcs, kind: Kinds, acc: Accounts \cup {None}, copy: Account,
                           org: SUBSET Accounts]]
  /\ past \in [created: SUBSET Accounts, dropped: SUBSET Accounts, undone: SUBSET Accounts,
               starts: 0..MaxStarts, stops: 0..MaxStops]
  /\ \A r \in Requests : req[r].pc # "idle" => req[r].acc \in Accounts

-----------------------------------------------------------------------------
At(r, k, pc)  == req[r].kind = k /\ req[r].pc = pc
Goes(r, pc)   == [req EXCEPT ![r].pc = pc]
Ended(r)      == [req EXCEPT ![r] = Idle]
Stored(r, x)  == [acc EXCEPT ![req[r].acc] = x]

\* Mutant of Begins: one request too many.
BeginsOneMore(r, k, a, pc, org) ==
  /\ req[r].pc = "idle" /\ k \in May[r] /\ past.starts <= MaxStarts
  /\ req' = [req EXCEPT ![r] = [Idle EXCEPT !.pc = pc, !.kind = k, !.acc = a, !.org = org]]
  /\ past' = [past EXCEPT !.starts = @ + 1]
  /\ UNCHANGED <<members, acc>>

\* A request about account a begins, with the list of members it read.
Begins(r, k, a, pc, org) ==
  /\ req[r].pc = "idle" /\ k \in May[r] /\ past.starts < MaxStarts
  /\ req' = [req EXCEPT ![r] = [Idle EXCEPT !.pc = pc, !.kind = k, !.acc = a, !.org = org]]
  /\ past' = [past EXCEPT !.starts = @ + 1]
  /\ UNCHANGED <<members, acc>>

\* generateFreeUuid(): no two accounts have the same identifier.
Fresh(a) == ~acc[a].exists /\ \A r \in Requests : req[r].acc # a

\* createUser() and inviteUsers(), with the organization they read.
StartNew(r, a) ==
  /\ Fresh(a)
  /\ \/ Begins(r, "create", a, "account", members)
     \/ Begins(r, "invite", a, "account", {})

\* The pages of the organization show those who have a membership.  What uses
\* the list of members refuses the others at once: NOT_A_MEMBER.
StartEdit(r, a) ==
  /\ acc[a].ms.has \/ a \in members
  /\ \/ /\ a \in members
        /\ \/ \E k \in {"lock", "unlock", "resend"} : Begins(r, k, a, "read", {})
           \/ Begins(r, "drop", a, "read", members)
     \/ Begins(r, "roles", a, "check", {})
     \/ \E k \in {"activate", "group"} : Begins(r, k, a, "read", {})

\* A user follows a link, at any time.
StartLink(r, a) == acc[a].link /\ Begins(r, "link", a, "read", {})

-----------------------------------------------------------------------------
(* Handles of an account.                                                  *)

\* getAccount(): the two share an organization in which both are active and not
\* locked, or the manager administrates the server.
Sees(x) == ServerAdmin \/ (x.ms.has /\ x.ms.active /\ ~x.ms.locked)

\* What a request asks of the account it reads.  Activation, and the change of
\* the members of a group, read it as the engine itself; a user who was invited
\* has no list of groups, which makes that change throw where nobody catches it.
Accepts(k, x) ==
  CASE k \in {"lock", "unlock", "drop", "resend"} -> Sees(x)
    [] k = "roles"    -> Sees(x) /\ x.ms.has
    [] k = "activate" -> x.exists
    [] k = "group"    -> x.ms.has /\ x.ms.groups
    [] k = "link"     -> x.link
    [] OTHER          -> FALSE

\* updateMemberRoles() reads the account, then calls updateOrgRoles().
Check(r) ==
  /\ At(r, "roles", "check")
  /\ req' = IF Accepts("roles", acc[req[r].acc]) THEN Goes(r, "read") ELSE Ended(r)
  /\ UNCHANGED <<members, acc, past>>

Read(r) ==
  LET x == acc[req[r].acc] IN
  /\ req[r].pc = "read"
  /\ req' = IF Accepts(req[r].kind, x)
            THEN [req EXCEPT ![r].pc = "save", ![r].copy = x] ELSE Ended(r)
  /\ UNCHANGED <<members, acc, past>>

-----------------------------------------------------------------------------
(* New members.                                                            *)

\* createLocalUser() saves an account without membership, createUser() of the
\* user service one that has its membership.
SaveAccount(r) ==
  /\ req[r].pc = "account"
  /\ \/ /\ req[r].kind = "create"
        /\ acc' = Stored(r, [Blank EXCEPT !.exists = TRUE])
        /\ req' = Goes(r, "membership")
     \/ /\ req[r].kind = "invite"
        /\ acc' = Stored(r, [Blank EXCEPT !.exists = TRUE, !.ms = InvitedAs])
        /\ req' = Goes(r, "link")
  /\ UNCHANGED <<members, past>>

\* addMembership().
AddMembership(r) ==
  /\ req[r].pc = "membership"
  /\ acc' = Stored(r, [acc[req[r].acc] EXCEPT !.ms = CreatedAs])
  /\ req' = Goes(r, "list")
  /\ UNCHANGED <<members, past>>

\* The handle's list of members is written.
ListMember(r) ==
  /\ req[r].pc = "list"
  /\ members' = req[r].org \cup {req[r].acc}
  /\ req' = Goes(r, "link")
  /\ UNCHANGED <<acc, past>>

\* sendActivationMail() of a new account: the handle has one link.
MailLink(r) ==
  /\ req[r].pc = "link"
  /\ acc' = Stored(r, [acc[req[r].acc] EXCEPT !.link = TRUE])
  /\ past' = IF req[r].kind = "create"
             THEN [past EXCEPT !.created = @ \cup {req[r].acc}] ELSE past
  /\ req' = Ended(r)
  /\ UNCHANGED members

-----------------------------------------------------------------------------
(* Changes of a membership.                                                *)

Activated(ms) == [ms EXCEPT !.active = TRUE, !.locked = FALSE]

\* _lockMember(): the whole account is saved.
Lock(r) ==
  LET c == req[r].copy
      b == req[r].kind = "lock"
  IN
  /\ req[r].kind \in {"lock", "unlock"} /\ req[r].pc = "save"
  /\ acc' = Stored(r, IF c.ms.has THEN [c EXCEPT !.ms.locked = b]
                      ELSE [c EXCEPT !.ms = [InvitedAs EXCEPT !.locked = b]])
  /\ req' = Ended(r)
  /\ UNCHANGED <<members, past>>

\* Mutant of Activate: every lock is taken off.
ActivateUnlocks(r) ==
  LET c == req[r].copy IN
  /\ At(r, "activate", "save")
  /\ acc' = Stored(r, IF c.ms.has THEN [c EXCEPT !.ms = Activated(@)] ELSE c)
  /\ req' = Ended(r)
  /\ UNCHANGED <<members, past>>

\* Mutant of Activate: a missing membership is taken for an inactive one.
ActivateAdds(r) ==
  LET c == req[r].copy IN
  /\ At(r, "activate", "save")
  /\ acc' = Stored(r, IF ~c.ms.active THEN [c EXCEPT !.ms = Activated(CreatedAs)] ELSE c)
  /\ req' = Ended(r)
  /\ UNCHANGED <<members, past>>

\* activateMember(): the whole account is saved.
Activate(r) ==
  LET c == req[r].copy IN
  /\ At(r, "activate", "save")
  /\ acc' = Stored(r, IF c.ms.has /\ ~c.ms.active THEN [c EXCEPT !.ms = Activated(@)] ELSE c)
  /\ req' = Ended(r)
  /\ UNCHANGED <<members, past>>

\* activateAccount() saves the account without its links ...
UseLink(r) ==
  /\ At(r, "link", "save")
  /\ acc' = Stored(r, [req[r].copy EXCEPT !.link = FALSE])
  /\ req' = Goes(r, "again")
  /\ UNCHANGED <<members, past>>

\* Mutant of ActivateByLink: the second save is left out.
ActivateNot(r) ==
  /\ At(r, "link", "again")
  /\ req' = Ended(r)
  /\ UNCHANGED <<members, acc, past>>

\* ... and then with its membership activated.
ActivateByLink(r) ==
  LET c == [req[r].copy EXCEPT !.link = FALSE] IN
  /\ At(r, "link", "again")
  /\ acc' = Stored(r, IF c.ms.has THEN [c EXCEPT !.ms = Activated(@)] ELSE c)
  /\ req' = Ended(r)
  /\ UNCHANGED <<members, past>>

\* dropMembership().
DropMembership(r) ==
  /\ At(r, "drop", "save")
  /\ acc' = Stored(r, [acc[req[r].acc] EXCEPT !.ms = NoMembership])
  /\ req' = Goes(r, "org")
  /\ UNCHANGED <<members, past>>

\* Mutant of DropMember: the list of the handle is saved.
DropStoresList(r) ==
  /\ At(r, "drop", "org")
  /\ members' = req[r].org \ {req[r].acc}
  /\ past' = [past EXCEPT !.dropped = @ \cup {req[r].acc}]
  /\ req' = Ended(r)
  /\ UNCHANGED acc

\* dropMember(): removeMember() changes 'members' of the handle, and
\* '_members' is saved, which no organization has.
DropMember(r) ==
  /\ At(r, "drop", "org")
  /\ past' = [past EXCEPT !.dropped = @ \cup {req[r].acc}]
  /\ req' = Ended(r)
  /\ UNCHANGED <<members, acc>>

\* updateOrgRoles(): the membership is written back.
Roles(r) ==
  /\ At(r, "roles", "save")
  /\ acc' = Stored(r, [acc[req[r].acc] EXCEPT !.ms = req[r].copy.ms])
  /\ req' = Ended(r)
  /\ UNCHANGED <<members, past>>

\* updateOrgGrpMembers(): the membership is written back.
Group(r) ==
  LET a == req[r].acc
      c == req[r].copy
  IN
  /\ At(r, "group", "save")
  /\ acc' = Stored(r, [acc[a] EXCEPT !.ms = c.ms])
  /\ past' = IF acc[a].ms # c.ms /\ ~c.ms.active
             THEN [past EXCEPT !.undone = @ \cup {a}] ELSE past
  /\ req' = Ended(r)
  /\ UNCHANGED members

\* sendUnlockMail(): one more link.
Resend(r) ==
  /\ At(r, "resend", "save")
  /\ acc' = Stored(r, [acc[req[r].acc] EXCEPT !.link = TRUE])
  /\ req' = Ended(r)
  /\ UNCHANGED <<members, past>>

\* The engine stops and starts again: no request goes on.
Stop ==
  /\ past.stops < MaxStops
  /\ past' = [past EXCEPT !.stops = @ + 1,
                          !.undone = @ \cup {a \in Accounts : \E r \in Requests : req[r].acc = a}]
  /\ req' = [r \in Requests |-> Idle]
  /\ UNCHANGED <<members, acc>>

-----------------------------------------------------------------------------
\* Settled members are listed, active, and used their links.
Init ==
  /\ members = Settled
  /\ acc = [a \in Accounts |->
             IF a \in Settled
             THEN [exists |-> TRUE, link |-> FALSE, ms |-> Activated(CreatedAs)] ELSE Blank]
  /\ req = [r \in Requests |-> Idle]
  /\ past = [created |-> {}, dropped |-> {}, undone |-> {}, starts |-> 0, stops |-> 0]

Begin(r)  == \E a \in Accounts : StartNew(r, a) \/ StartEdit(r, a) \/ StartLink(r, a)
Create(r) == SaveAccount(r) \/ AddMembership(r) \/ ListMember(r) \/ MailLink(r)
Edit(r)   == \/ Check(r) \/ Read(r) \/ Lock(r) \/ Activate(r) \/ UseLink(r)
             \/ ActivateByLink(r) \/ DropMembership(r) \/ DropMember(r)
             \/ Roles(r) \/ Group(r) \/ Resend(r)

Next == Stop \/ \E r \in Requests : Begin(r) \/ Create(r) \/ Edit(r)

Spec == Init /\ [][Next]_vars

-----------------------------------------------------------------------------
(* Properties.                                                             *)

\* An account whose creation has ended is in the list of the organization until
\* it is dropped, whatever other requests that read an older list write.  (The
\* list is written by creations: there must not be two at the same time.)
ListedStays == past.created \subseteq members \cup past.dropped

\* A member can become active: one who is not, and about whom no request runs,
\* has a link that works.  (Not when the engine stopped during a request about
\* this account, or when a change of groups wrote back what was not active when
\* it was read.)
Activatable ==
  \A a \in Accounts \ past.undone :
    /\ acc[a].ms.has /\ ~acc[a].ms.active
    /\ \A r \in Requests : req[r].acc # a
    => acc[a].link

\* A request writes to account a something else than what it has read there.
Late(r, a) == req[r].acc = a /\ req[r].copy.ms # acc[a].ms

\* A member that was dropped comes back only through a request that had read
\* the membership before it was dropped.
DropStands ==
  [][\A a \in past.dropped : ~acc[a].ms.has /\ acc'[a].ms.has =>
       \E r \in Requests : Late(r, a) /\ req[r].copy.ms.has]_vars

\* An active member that is locked stays so until dropped, unless a link is
\* used, or a request goes on that had read the membership before the lock.
LockStands ==
  [][\A a \in Accounts :
       acc[a].ms.active /\ acc[a].ms.locked /\ acc'[a].ms.has /\ ~acc'[a].ms.locked =>
         \E r \in Requests : Late(r, a) \/ (req[r].acc = a /\ req[r].kind = "link")]_vars

\* "to only detach it from this organization": an account that was dropped is
\* not in the list of the organization any more.
DropDetaches == past.dropped \cap members = {}

\* LockStands without its exceptions: a lock ends by an unlock or a drop.
LockHolds ==
  [][\A a \in Accounts :
       acc[a].ms.active /\ acc[a].ms.locked /\ acc'[a].ms.has => acc'[a].ms.locked]_vars

\* DropStands without its exception.
DropHolds ==
  [][\A a \in past.dropped : ~acc[a].ms.has => ~acc'[a].ms.has]_vars

\* A manager who may lock a member may unlock it.
UnlockWorks ==
  [][\A r \in Requests : At(r, "unlock", "read") /\ acc[req[r].acc].ms.locked =>
       req'[r].pc # "idle"]_vars

\* Who has a membership, and no request runs, is in the list.
MembersListed ==
  \A a \in Accounts : acc[a].ms.has /\ (\A r \in Requests : req[r].acc # a) => a \in members
=============================================================================
