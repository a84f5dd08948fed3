-------------------------- MODULE OrgMembersProofs --------------------------
(***************************************************************************)
(* Proofs about OrgMembers, for any accounts, any number of requests and   *)
(* any use of them.                                                        *)
(***************************************************************************)
EXTENDS OrgMembers, TLAPS

-----------------------------------------------------------------------------
(* Types.                                                                  *)

LEMMA MembershipType ==
  /\ NoMembership \in Membership /\ Blank \in Account
  /\ InvitedAs \in Membership /\ CreatedAs \in Membership
  /\ InvitedAs.has /\ ~InvitedAs.active /\ ~InvitedAs.locked
  /\ CreatedAs.has /\ ~CreatedAs.active /\ CreatedAs.locked
  /\ ~NoMembership.has /\ ~NoMembership.active /\ ~NoMembership.locked
BY DEF Membership, Account, NoMembership, Blank, InvitedAs, CreatedAs

LEMMA ActivatedType ==
  ASSUME NEW m \in Membership
  PROVE  /\ Activated(m) \in Membership
         /\ Activated(m).has = m.has /\ Activated(m).active /\ ~Activated(m).locked
BY DEF Membership, Activated

\* The records of a request, and of the past.
ReqType == [pc: Pcs, kind: Kinds, acc: Accounts \cup {None}, copy: Account,
            org: SUBSET Accounts]

PastType == [created: SUBSET Accounts, dropped: SUBSET Accounts, undone: SUBSET Accounts,
             starts: 0..MaxStarts, stops: 0..MaxStops]

LEMMA IdleType == Idle \in ReqType /\ Idle.pc = "idle" /\ Idle.acc = None
                  /\ Idle.copy = Blank /\ Idle.org = {} /\ Idle.kind = "link"
BY MembershipType DEF Idle, ReqType, Pcs, Kinds

\* A request ends, or goes on.
LEMMA EndedType ==
  ASSUME TypeOK, NEW r \in Requests, req' = Ended(r)
  PROVE  /\ req' \in [Requests -> ReqType]
         /\ req'[r] = Idle /\ \A q \in Requests : q # r => req'[q] = req[q]
BY IdleType DEF TypeOK, Ended, ReqType

LEMMA GoesType ==
  ASSUME TypeOK, NEW r \in Requests, NEW pc \in Pcs, req' = Goes(r, pc)
  PROVE  /\ req' \in [Requests -> ReqType]
         /\ req'[r] = [req[r] EXCEPT !.pc = pc]
         /\ req'[r].pc = pc /\ req'[r].kind = req[r].kind /\ req'[r].acc = req[r].acc
         /\ req'[r].copy = req[r].copy /\ req'[r].org = req[r].org
         /\ \A q \in Requests : q # r => req'[q] = req[q]
BY DEF TypeOK, Goes, ReqType

\* Only the account of the request is stored.
LEMMA StoredType ==
  ASSUME TypeOK, NEW r \in Requests, req[r].acc \in Accounts, NEW x \in Account,
         acc' = Stored(r, x)
  PROVE  /\ acc' \in [Accounts -> Account]
         /\ acc'[req[r].acc] = x
         /\ \A a \in Accounts : a # req[r].acc => acc'[a] = acc[a]
BY DEF TypeOK, Stored

LEMMA BeginsType ==
  ASSUME TypeOK, NEW r \in Requests, NEW k \in Kinds, NEW a \in Accounts, NEW pc \in Pcs,
         NEW org \in SUBSET Accounts, Begins(r, k, a, pc, org)
  PROVE  /\ req' \in [Requests -> ReqType]
         /\ req[r].pc = "idle"
         /\ req'[r].pc = pc /\ req'[r].kind = k /\ req'[r].acc = a
         /\ req'[r].copy = Blank /\ req'[r].org = org
         /\ \A q \in Requests : q # r => req'[q] = req[q]
         /\ members' = members /\ acc' = acc
         /\ past'.created = past.created /\ past'.dropped = past.dropped
         /\ past'.undone = past.undone /\ past'.stops = past.stops
         /\ past'.starts \in 0..MaxStarts
<1>1. past' = [past EXCEPT !.starts = @ + 1] /\ past.starts < MaxStarts
  BY DEF Begins
<1>2. /\ past'.created = past.created /\ past'.dropped = past.dropped
      /\ past'.undone = past.undone /\ past'.stops = past.stops
      /\ past'.starts \in 0..MaxStarts
  BY <1>1, BoundsAssumption DEF TypeOK
<1>3. req' = [req EXCEPT ![r] = [Idle EXCEPT !.pc = pc, !.kind = k, !.acc = a, !.org = org]]
  BY DEF Begins
<1> DEFINE new == [Idle EXCEPT !.pc = pc, !.kind = k, !.acc = a, !.org = org]
<1>4. new \in ReqType
  BY IdleType DEF ReqType
<1>5. new.pc = pc /\ new.kind = k /\ new.acc = a /\ new.copy = Blank /\ new.org = org
  BY IdleType DEF ReqType
<1>6. req \in [Requests -> ReqType]
  BY DEF TypeOK, ReqType
<1> HIDE DEF new
<1>9. /\ req' \in [Requests -> ReqType] /\ req'[r] = new
      /\ \A q \in Requests : q # r => req'[q] = req[q]
  <2>1. req' = [req EXCEPT ![r] = new]
    BY <1>3 DEF new
  <2> QED
    BY <1>4, <1>6, <2>1
<1>10. req[r].pc = "idle" /\ members' = members /\ acc' = acc
  BY DEF Begins
<1> QED
  BY <1>2, <1>5, <1>9, <1>10

-----------------------------------------------------------------------------
(* TypeOK is inductive.                                                    *)

\* What TypeOK says of the requests.
LEMMA ReqsType == TypeOK <=>
  /\ members \in SUBSET Accounts /\ acc \in [Accounts -> Account]
  /\ req \in [Requests -> ReqType]
  /\ past \in PastType
  /\ \A r \in Requests : req[r].pc # "idle" => req[r].acc \in Accounts
BY DEF TypeOK, ReqType, PastType

\* A request that has begun is about an account, and its handle is a record.
LEMMA HandleType ==
  ASSUME TypeOK, NEW r \in Requests
  PROVE  /\ req[r].pc # "idle" => req[r].acc \in Accounts
         /\ req[r].copy \in Account /\ req[r].copy.ms \in Membership
         /\ req[r].org \in SUBSET Accounts /\ req[r].kind \in Kinds
         /\ req[r].acc \in Accounts => /\ acc[req[r].acc] \in Account
                                       /\ acc[req[r].acc].ms \in Membership
BY DEF TypeOK, Account

\* What the writes store.
LEMMA WithMs ==
  ASSUME NEW x \in Account, NEW m \in Membership
  PROVE  /\ [x EXCEPT !.ms = m] \in Account
         /\ [x EXCEPT !.ms = m].ms = m /\ [x EXCEPT !.ms = m].exists = x.exists
         /\ [x EXCEPT !.ms = m].link = x.link
BY DEF Account

LEMMA WithLink ==
  ASSUME NEW x \in Account, NEW b \in BOOLEAN
  PROVE  /\ [x EXCEPT !.link = b] \in Account
         /\ [x EXCEPT !.link = b].ms = x.ms /\ [x EXCEPT !.link = b].exists = x.exists
         /\ [x EXCEPT !.link = b].link = b
BY DEF Account

LEMMA WithLock ==
  ASSUME NEW m \in Membership, NEW b \in BOOLEAN
  PROVE  /\ [m EXCEPT !.locked = b] \in Membership
         /\ [m EXCEPT !.locked = b].has = m.has /\ [m EXCEPT !.locked = b].active = m.active
         /\ [m EXCEPT !.locked = b].locked = b
BY DEF Membership

LEMMA LockOf ==
  ASSUME NEW x \in Account, NEW b \in BOOLEAN
  PROVE  [x EXCEPT !.ms.locked = b] = [x EXCEPT !.ms = [x.ms EXCEPT !.locked = b]]
BY DEF Account, Membership

LEMMA FirstWith ==
  ASSUME NEW m \in Membership
  PROVE  /\ [Blank EXCEPT !.exists = TRUE, !.ms = m] \in Account
         /\ [Blank EXCEPT !.exists = TRUE, !.ms = m].exists
<1>1. Blank \in Account
  BY MembershipType
<1> QED
  BY <1>1 DEF Account

-----------------------------------------------------------------------------
(* The strengthening of the properties.                                    *)

\* Nobody speaks of an account that is not there but the request that makes it.
UnknownInv ==
  \A a \in Accounts : ~acc[a].exists =>
    /\ ~acc[a].ms.has /\ ~acc[a].ms.active /\ ~acc[a].link
    /\ a \notin members /\ a \notin past.dropped
    /\ \A r \in Requests : /\ a \notin req[r].org
                           /\ req[r].acc = a => req[r].pc = "account"

\* Until it has its membership, an account belongs to the request that makes it.
NewInv ==
  \A r \in Requests : req[r].pc \in {"account", "membership"} =>
    LET a == req[r].acc IN
    /\ ~acc[a].ms.has /\ ~acc[a].ms.active /\ ~acc[a].link
    /\ a \notin members /\ a \notin past.dropped
    /\ req[r].pc = "account" => ~acc[a].exists
    /\ \A q \in Requests : /\ a \notin req[q].org
                           /\ q # r => req[q].acc # a

\* A manager of the organization holds what an active member looks like.
CopyOK(r) ==
  /\ req[r].pc = "idle" => req[r].acc = None /\ req[r].org = {}
  /\ req[r].pc \in {"save", "again"} => req[r].copy.exists
  /\ req[r].pc = "save" /\ req[r].kind \in {"lock", "unlock", "roles"} /\ ~ServerAdmin =>
       req[r].copy.ms.has /\ req[r].copy.ms.active /\ ~req[r].copy.ms.locked
  /\ req[r].pc = "save" /\ req[r].kind = "group" => req[r].copy.ms.has
CopyInv == \A r \in Requests : CopyOK(r)

MembersInv == TypeOK /\ UnknownInv /\ NewInv /\ CopyInv

\* What every step of a request that has begun does.
Effect(r) ==
  LET a == req[r].acc IN
  /\ a \in Accounts
  /\ acc' \in [Accounts -> Account]
  /\ \A b \in Accounts : b # a => acc'[b] = acc[b]
  /\ acc'[a] = acc[a] \/ acc'[a].exists
  /\ req[r].pc = "account" => acc'[a].exists
  /\ req' \in [Requests -> ReqType]
  /\ \A q \in Requests : q # r => req'[q] = req[q]
  /\ req'[r].acc \in {None, a} /\ req'[r].org \subseteq req[r].org
  /\ req'[r].pc # "idle" => req'[r].acc = a
  /\ req'[r].pc # "account"
  /\ req'[r].pc = "membership" =>
       /\ req[r].pc = "account" /\ members' = members /\ past' = past
       /\ ~acc'[a].ms.has /\ ~acc'[a].ms.active /\ ~acc'[a].link
  /\ CopyOK(r)'
  /\ members' = members \/ members' = req[r].org \cup {a}
  /\ past' \in PastType
  /\ past'.dropped \subseteq past.dropped \cup {a}

\* A request that ends keeps no handle.
LEMMA EndedOK ==
  ASSUME TypeOK, NEW r \in Requests, req' = Ended(r)
  PROVE  /\ req' \in [Requests -> ReqType]
         /\ \A q \in Requests : q # r => req'[q] = req[q]
         /\ req'[r].pc = "idle" /\ req'[r].acc = None /\ req'[r].org = {} /\ CopyOK(r)'
BY EndedType, IdleType DEF CopyOK

\* The steps that store an account and end the request.
LEMMA StoreEffect ==
  ASSUME TypeOK, NEW r \in Requests, req[r].pc # "idle", NEW x \in Account, x.exists,
         acc' = Stored(r, x), req' = Ended(r), members' = members,
         past' \in PastType, past'.dropped = past.dropped
  PROVE  Effect(r)
<1>1. req[r].acc \in Accounts
  BY HandleType
<1>2. /\ acc' \in [Accounts -> Account] /\ acc'[req[r].acc] = x
      /\ \A b \in Accounts : b # req[r].acc => acc'[b] = acc[b]
  BY <1>1, StoredType
<1> QED
  BY <1>1, <1>2, EndedOK DEF Effect

LEMMA CreateEffect ==
  ASSUME MembersInv, NEW r \in Requests, Create(r)
  PROVE  Effect(r)
<1> USE DEF MembersInv
<1>1. CASE SaveAccount(r)
  <2>1. req[r].acc \in Accounts /\ req[r].pc = "account"
    BY <1>1, HandleType DEF SaveAccount
  <2>2. UNCHANGED <<members, past>>
    BY <1>1 DEF SaveAccount
  <2>3. past' \in PastType
    BY <2>2 DEF TypeOK, PastType
  <2>4. CASE req[r].kind = "create"
    <3> DEFINE x == [Blank EXCEPT !.exists = TRUE]
    <3>1. x \in Account /\ x.exists /\ ~x.ms.has /\ ~x.ms.active /\ ~x.link
      BY MembershipType DEF Account, Blank, NoMembership
    <3>2. acc' = Stored(r, x) /\ req' = Goes(r, "membership")
      BY <1>1, <2>4 DEF SaveAccount
    <3> HIDE DEF x
    <3>3. /\ acc' \in [Accounts -> Account] /\ acc'[req[r].acc] = x
          /\ \A b \in Accounts : b # req[r].acc => acc'[b] = acc[b]
      BY <2>1, <3>1, <3>2, StoredType
    <3>4. /\ req' \in [Requests -> ReqType]
          /\ req'[r].pc = "membership" /\ req'[r].acc = req[r].acc /\ req'[r].org = req[r].org
          /\ \A q \in Requests : q # r => req'[q] = req[q]
      BY <3>2, GoesType DEF Pcs
    <3> QED
      BY <2>1, <2>2, <2>3, <3>1, <3>3, <3>4 DEF Effect, CopyOK
  <2>5. CASE req[r].kind = "invite"
    <3> DEFINE x == [Blank EXCEPT !.exists = TRUE, !.ms = InvitedAs]
    <3>1. x \in Account /\ x.exists
      <4>1. Blank \in Account /\ InvitedAs \in Membership
        BY MembershipType
      <4> QED
        BY <4>1, FirstWith
    <3>2. acc' = Stored(r, x) /\ req' = Goes(r, "link")
      BY <1>1, <2>5 DEF SaveAccount
    <3> HIDE DEF x
    <3>3. /\ acc' \in [Accounts -> Account] /\ acc'[req[r].acc] = x
          /\ \A b \in Accounts : b # req[r].acc => acc'[b] = acc[b]
      BY <2>1, <3>1, <3>2, StoredType
    <3>4. /\ req' \in [Requests -> ReqType]
          /\ req'[r].pc = "link" /\ req'[r].acc = req[r].acc /\ req'[r].org = req[r].org
          /\ \A q \in Requests : q # r => req'[q] = req[q]
      BY <3>2, GoesType DEF Pcs
    <3> QED
      BY <2>1, <2>2, <2>3, <3>1, <3>3, <3>4 DEF Effect, CopyOK
  <2> QED
    BY <1>1, <2>4, <2>5 DEF SaveAccount
<1>2. CASE AddMembership(r)
  <2>1. req[r].acc \in Accounts /\ req[r].pc = "membership"
    BY <1>2, HandleType DEF AddMembership
  <2>2. UNCHANGED <<members, past>>
    BY <1>2 DEF AddMembership
  <2>3. past' \in PastType
    BY <2>2 DEF TypeOK, PastType
  <2> DEFINE x == [acc[req[r].acc] EXCEPT !.ms = CreatedAs]
  <2>4. x \in Account /\ x.exists
    <3>1. acc[req[r].acc] \in Account /\ CreatedAs \in Membership
      BY <2>1, HandleType, MembershipType
    <3>2. acc[req[r].acc].exists
      BY <2>1 DEF UnknownInv
    <3> QED
      BY <3>1, <3>2, WithMs
  <2>5. acc' = Stored(r, x) /\ req' = Goes(r, "list")
    BY <1>2 DEF AddMembership
  <2> HIDE DEF x
  <2>6. /\ acc' \in [Accounts -> Account] /\ acc'[req[r].acc] = x
        /\ \A b \in Accounts : b # req[r].acc => acc'[b] = acc[b]
    BY <2>1, <2>4, <2>5, StoredType
  <2>7. /\ req' \in [Requests -> ReqType]
        /\ req'[r].pc = "list" /\ req'[r].acc = req[r].acc /\ req'[r].org = req[r].org
        /\ \A q \in Requests : q # r => req'[q] = req[q]
    BY <2>5, GoesType DEF Pcs
  <2> QED
    BY <2>1, <2>2, <2>3, <2>4, <2>6, <2>7 DEF Effect, CopyOK
<1>3. CASE ListMember(r)
  <2>1. req[r].acc \in Accounts /\ req[r].pc = "list"
    BY <1>3, HandleType DEF ListMember
  <2>2. acc' = acc /\ past' = past /\ members' = req[r].org \cup {req[r].acc}
    BY <1>3 DEF ListMember
  <2>3. req' = Goes(r, "link")
    BY <1>3 DEF ListMember
  <2>4. /\ req' \in [Requests -> ReqType]
        /\ req'[r].pc = "link" /\ req'[r].acc = req[r].acc /\ req'[r].org = req[r].org
        /\ \A q \in Requests : q # r => req'[q] = req[q]
    BY <2>3, GoesType DEF Pcs
  <2> QED
    BY <2>1, <2>2, <2>4 DEF Effect, CopyOK, TypeOK, PastType
<1>4. CASE MailLink(r)
  <2>1. req[r].acc \in Accounts /\ req[r].pc = "link"
    BY <1>4, HandleType DEF MailLink
  <2> DEFINE x == [acc[req[r].acc] EXCEPT !.link = TRUE]
  <2>2. x \in Account /\ x.exists
    <3>1. acc[req[r].acc] \in Account
      BY <2>1, HandleType
    <3>2. acc[req[r].acc].exists
      BY <2>1 DEF UnknownInv
    <3> QED
      BY <3>1, <3>2, WithLink
  <2>3. acc' = Stored(r, x) /\ req' = Ended(r) /\ members' = members
    BY <1>4 DEF MailLink
  <2> HIDE DEF x
  <2>4. /\ acc' \in [Accounts -> Account] /\ acc'[req[r].acc] = x
        /\ \A b \in Accounts : b # req[r].acc => acc'[b] = acc[b]
    BY <2>1, <2>2, <2>3, StoredType
  <2>5. /\ past' \in PastType
        /\ past'.dropped = past.dropped
    BY <1>4, <2>1 DEF MailLink, TypeOK, PastType
  <2> QED
    BY <2>1, <2>2, <2>3, <2>4, <2>5, EndedOK DEF Effect
<1> QED
  BY <1>1, <1>2, <1>3, <1>4 DEF Create

\* An account that a request is about, and does not make, is there.
LEMMA Known ==
  ASSUME MembersInv, NEW r \in Requests, req[r].pc \notin {"idle", "account"}
  PROVE  /\ req[r].acc \in Accounts /\ acc[req[r].acc] \in Account
         /\ acc[req[r].acc].ms \in Membership /\ acc[req[r].acc].exists
<1>1. /\ req[r].acc \in Accounts /\ acc[req[r].acc] \in Account
      /\ acc[req[r].acc].ms \in Membership
  BY HandleType DEF MembersInv
<1>2. acc[req[r].acc].exists
  BY <1>1 DEF MembersInv, UnknownInv
<1> QED
  BY <1>1, <1>2

\* What the edits of an account store.
LockWrites(r) ==
  LET c == req[r].copy
      b == req[r].kind = "lock"
  IN  IF c.ms.has THEN [c EXCEPT !.ms.locked = b]
      ELSE [c EXCEPT !.ms = [InvitedAs EXCEPT !.locked = b]]
ActivateWrites(r) ==
  LET c == req[r].copy
  IN  IF c.ms.has /\ ~c.ms.active THEN [c EXCEPT !.ms = Activated(@)] ELSE c
LinkWrites(r) ==
  LET c == [req[r].copy EXCEPT !.link = FALSE]
  IN  IF c.ms.has THEN [c EXCEPT !.ms = Activated(@)] ELSE c

LEMMA LockStores ==
  ASSUME MembersInv, NEW r \in Requests, Lock(r)
  PROVE  /\ LockWrites(r) \in Account /\ LockWrites(r).exists
         /\ LockWrites(r).ms.has
         /\ req[r].copy.ms.has => LockWrites(r).ms.active = req[r].copy.ms.active
<1> DEFINE c == req[r].copy
<1> DEFINE b == req[r].kind = "lock"
<1>1. c \in Account /\ c.ms \in Membership /\ b \in BOOLEAN
  BY HandleType DEF MembersInv
<1>2. c.exists
  BY DEF MembersInv, CopyInv, CopyOK, Lock
<1>3. LockWrites(r) = IF c.ms.has THEN [c EXCEPT !.ms = [c.ms EXCEPT !.locked = b]]
                      ELSE [c EXCEPT !.ms = [InvitedAs EXCEPT !.locked = b]]
  BY <1>1, LockOf DEF LockWrites
<1> HIDE DEF c, b
<1>4. [c.ms EXCEPT !.locked = b] \in Membership /\ [c.ms EXCEPT !.locked = b].has = c.ms.has
      /\ [c.ms EXCEPT !.locked = b].active = c.ms.active
  BY <1>1, WithLock
<1>5. [InvitedAs EXCEPT !.locked = b] \in Membership /\ [InvitedAs EXCEPT !.locked = b].has
  BY <1>1, WithLock, MembershipType
<1>6. CASE c.ms.has
  <2> DEFINE m == [c.ms EXCEPT !.locked = b]
  <2>1. LockWrites(r) = [c EXCEPT !.ms = m] /\ m \in Membership /\ m.has = c.ms.has
        /\ m.active = c.ms.active
    BY <1>3, <1>4, <1>6
  <2> HIDE DEF m
  <2>2. /\ [c EXCEPT !.ms = m] \in Account /\ [c EXCEPT !.ms = m].exists = c.exists
        /\ [c EXCEPT !.ms = m].ms = m
    BY <1>1, <2>1, WithMs
  <2> QED
    BY <1>2, <1>6, <2>1, <2>2 DEF c
<1>7. CASE ~c.ms.has
  <2> DEFINE m == [InvitedAs EXCEPT !.locked = b]
  <2>1. LockWrites(r) = [c EXCEPT !.ms = m] /\ m \in Membership /\ m.has
    BY <1>3, <1>5, <1>7
  <2> HIDE DEF m
  <2>2. /\ [c EXCEPT !.ms = m] \in Account /\ [c EXCEPT !.ms = m].exists = c.exists
        /\ [c EXCEPT !.ms = m].ms = m
    BY <1>1, <2>1, WithMs
  <2> QED
    BY <1>2, <1>7, <2>1, <2>2 DEF c
<1> QED
  BY <1>6, <1>7

LEMMA ActivateStores ==
  ASSUME MembersInv, NEW r \in Requests, Activate(r)
  PROVE  /\ ActivateWrites(r) \in Account /\ ActivateWrites(r).exists
         /\ ActivateWrites(r).ms.has = req[r].copy.ms.has
         /\ ActivateWrites(r).ms.has => ActivateWrites(r).ms.active
         /\ req[r].copy.ms.active => ActivateWrites(r).ms = req[r].copy.ms
<1> DEFINE c == req[r].copy
<1>1. c \in Account /\ c.ms \in Membership
  BY HandleType DEF MembersInv
<1>2. c.exists
  BY DEF MembersInv, CopyInv, CopyOK, Activate, At
<1> DEFINE m == Activated(c.ms)
<1>3. m \in Membership /\ m.has = c.ms.has /\ m.active
  BY <1>1, ActivatedType
<1>4. ActivateWrites(r) = IF c.ms.has /\ ~c.ms.active THEN [c EXCEPT !.ms = m] ELSE c
  BY DEF ActivateWrites
<1> HIDE DEF c, m
<1>5. /\ [c EXCEPT !.ms = m] \in Account /\ [c EXCEPT !.ms = m].exists = c.exists
      /\ [c EXCEPT !.ms = m].ms = m
  BY <1>1, <1>3, WithMs
<1> QED
  BY <1>1, <1>2, <1>3, <1>4, <1>5 DEF c

LEMMA LinkStores ==
  ASSUME MembersInv, NEW r \in Requests, ActivateByLink(r)
  PROVE  /\ LinkWrites(r) \in Account /\ LinkWrites(r).exists
         /\ LinkWrites(r).ms.has = req[r].copy.ms.has
         /\ LinkWrites(r).ms.has => LinkWrites(r).ms.active
<1> DEFINE c == [req[r].copy EXCEPT !.link = FALSE]
<1>1. req[r].copy \in Account /\ req[r].copy.ms \in Membership
  BY HandleType DEF MembersInv
<1>2. req[r].copy.exists
  BY DEF MembersInv, CopyInv, CopyOK, ActivateByLink, At
<1>3. c \in Account /\ c.exists /\ c.ms = req[r].copy.ms
  BY <1>1, <1>2, WithLink
<1> DEFINE m == Activated(c.ms)
<1>4. m \in Membership /\ m.has = c.ms.has /\ m.active
  BY <1>1, <1>3, ActivatedType
<1>5. LinkWrites(r) = IF c.ms.has THEN [c EXCEPT !.ms = m] ELSE c
  BY DEF LinkWrites
<1> HIDE DEF c, m
<1>6. /\ [c EXCEPT !.ms = m] \in Account /\ [c EXCEPT !.ms = m].exists = c.exists
      /\ [c EXCEPT !.ms = m].ms = m
  BY <1>3, <1>4, WithMs
<1> QED
  BY <1>3, <1>4, <1>5, <1>6

LEMMA EditEffect ==
  ASSUME MembersInv, NEW r \in Requests, Edit(r)
  PROVE  Effect(r)
<1> DEFINE a == req[r].acc
<1>1. TypeOK /\ past \in PastType
  BY DEF MembersInv, TypeOK, PastType
<1>2. req[r].copy \in Account /\ req[r].copy.ms \in Membership
  BY HandleType DEF MembersInv
<1>3. CASE Check(r) \/ Read(r)
  <2>1. req[r].pc \in {"check", "read"} /\ UNCHANGED <<members, acc, past>>
    BY <1>3 DEF Check, Read, At
  <2>2. a \in Accounts /\ acc[a] \in Account /\ acc[a].exists
    BY <2>1, Known
  <2>3. acc \in [Accounts -> Account]
    BY <1>1 DEF TypeOK
  <2>4. CASE req' = Ended(r)
    BY <1>1, <2>1, <2>2, <2>3, <2>4, EndedOK DEF Effect
  <2>5. CASE req' = Goes(r, "read")
    <3>1. /\ req' \in [Requests -> ReqType]
          /\ req'[r].pc = "read" /\ req'[r].acc = a /\ req'[r].org = req[r].org
          /\ \A q \in Requests : q # r => req'[q] = req[q]
      BY <1>1, <2>5, GoesType DEF Pcs
    <3> QED
      BY <1>1, <2>1, <2>2, <2>3, <3>1 DEF Effect, CopyOK
  <2>6. CASE /\ req' = [req EXCEPT ![r].pc = "save", ![r].copy = acc[a]]
             /\ Accepts(req[r].kind, acc[a])
    <3>1. req \in [Requests -> ReqType]
      BY <1>1, ReqsType
    <3>2. /\ req' \in [Requests -> ReqType]
          /\ req'[r].pc = "save" /\ req'[r].acc = a /\ req'[r].org = req[r].org
          /\ req'[r].kind = req[r].kind /\ req'[r].copy = acc[a]
          /\ \A q \in Requests : q # r => req'[q] = req[q]
      BY <2>2, <2>6, <3>1 DEF ReqType, Pcs
    <3>3. /\ req[r].kind \in {"lock", "unlock", "roles"} /\ ~ServerAdmin =>
               acc[a].ms.has /\ acc[a].ms.active /\ ~acc[a].ms.locked
          /\ req[r].kind = "group" => acc[a].ms.has
      BY <2>6 DEF Accepts, Sees
    <3>4. CopyOK(r)'
      BY <2>1, <2>2, <3>2, <3>3 DEF CopyOK
    <3> QED
      BY <1>1, <2>1, <2>2, <2>3, <3>2, <3>4 DEF Effect
  <2> QED
    BY <1>3, <2>4, <2>5, <2>6 DEF Check, Read
<1>4. CASE Lock(r)
  <2>1. req[r].pc # "idle" /\ acc' = Stored(r, LockWrites(r)) /\ req' = Ended(r)
        /\ members' = members /\ past' = past
    BY <1>4 DEF Lock, LockWrites
  <2> QED
    BY <1>1, <1>4, <2>1, LockStores, StoreEffect
<1>5. CASE Activate(r)
  <2>1. req[r].pc # "idle" /\ acc' = Stored(r, ActivateWrites(r)) /\ req' = Ended(r)
        /\ members' = members /\ past' = past
    BY <1>5 DEF Activate, ActivateWrites, At
  <2> QED
    BY <1>1, <1>5, <2>1, ActivateStores, StoreEffect
<1>6. CASE UseLink(r)
  <2> DEFINE x == [req[r].copy EXCEPT !.link = FALSE]
  <2>1. req[r].pc = "save" /\ acc' = Stored(r, x) /\ req' = Goes(r, "again")
        /\ members' = members /\ past' = past /\ req[r].kind = "link"
    BY <1>6 DEF UseLink, At
  <2>2. req[r].copy.exists
    BY <2>1 DEF MembersInv, CopyInv, CopyOK
  <2>3. x \in Account /\ x.exists
    BY <1>2, <2>2, WithLink
  <2> HIDE DEF x
  <2>4. a \in Accounts
    BY <2>1, Known
  <2>5. /\ acc' \in [Accounts -> Account] /\ acc'[a] = x
        /\ \A b \in Accounts : b # a => acc'[b] = acc[b]
    BY <1>1, <2>1, <2>3, <2>4, StoredType
  <2>6. /\ req' \in [Requests -> ReqType]
        /\ req'[r].pc = "again" /\ req'[r].acc = a /\ req'[r].org = req[r].org
        /\ req'[r].kind = req[r].kind /\ req'[r].copy = req[r].copy
        /\ \A q \in Requests : q # r => req'[q] = req[q]
    BY <1>1, <2>1, GoesType DEF Pcs
  <2> QED
    BY <1>1, <2>1, <2>2, <2>3, <2>4, <2>5, <2>6 DEF Effect, CopyOK
<1>7. CASE ActivateByLink(r)
  <2>1. req[r].pc # "idle" /\ acc' = Stored(r, LinkWrites(r)) /\ req' = Ended(r)
        /\ members' = members /\ past' = past
    BY <1>7 DEF ActivateByLink, LinkWrites, At
  <2> QED
    BY <1>1, <1>7, <2>1, LinkStores, StoreEffect
<1>8. CASE DropMembership(r)
  <2> DEFINE x == [acc[a] EXCEPT !.ms = NoMembership]
  <2>1. req[r].pc = "save" /\ acc' = Stored(r, x) /\ req' = Goes(r, "org")
        /\ members' = members /\ past' = past
    BY <1>8 DEF DropMembership, At
  <2>2. a \in Accounts /\ acc[a] \in Account /\ acc[a].exists
    BY <2>1, Known
  <2>3. x \in Account /\ x.exists
    BY <2>2, MembershipType, WithMs
  <2> HIDE DEF x
  <2>4. /\ acc' \in [Accounts -> Account] /\ acc'[a] = x
        /\ \A b \in Accounts : b # a => acc'[b] = acc[b]
    BY <1>1, <2>1, <2>2, <2>3, StoredType
  <2>5. /\ req' \in [Requests -> ReqType]
        /\ req'[r].pc = "org" /\ req'[r].acc = a /\ req'[r].org = req[r].org
        /\ \A q \in Requests : q # r => req'[q] = req[q]
    BY <1>1, <2>1, GoesType DEF Pcs
  <2> QED
    BY <1>1, <2>1, <2>2, <2>3, <2>4, <2>5 DEF Effect, CopyOK
<1>9. CASE DropMember(r)
  <2>1. req[r].pc = "org" /\ acc' = acc /\ req' = Ended(r) /\ members' = members
        /\ past' = [past EXCEPT !.dropped = @ \cup {a}]
    BY <1>9 DEF DropMember, At
  <2>2. a \in Accounts
    BY <2>1, Known
  <2>3. past' \in PastType /\ past'.dropped = past.dropped \cup {a}
    BY <1>1, <2>1, <2>2 DEF PastType
  <2>4. acc \in [Accounts -> Account]
    BY <1>1 DEF TypeOK
  <2> QED
    BY <1>1, <2>1, <2>2, <2>3, <2>4, EndedOK DEF Effect
<1>10. CASE Roles(r)
  <2> DEFINE x == [acc[a] EXCEPT !.ms = req[r].copy.ms]
  <2>1. req[r].pc = "save" /\ acc' = Stored(r, x) /\ req' = Ended(r)
        /\ members' = members /\ past' = past
    BY <1>10 DEF Roles, At
  <2>2. x \in Account /\ x.exists
    BY <1>2, <2>1, Known, WithMs
  <2> HIDE DEF x
  <2> QED
    BY <1>1, <2>1, <2>2, StoreEffect
<1>11. CASE Group(r)
  <2> DEFINE x == [acc[a] EXCEPT !.ms = req[r].copy.ms]
  <2>1. req[r].pc = "save" /\ acc' = Stored(r, x) /\ req' = Ended(r)
        /\ members' = members
        /\ (past' = past \/ past' = [past EXCEPT !.undone = @ \cup {a}])
    BY <1>11 DEF Group, At
  <2>2. a \in Accounts /\ acc[a] \in Account /\ acc[a].exists
    BY <2>1, Known
  <2>3. x \in Account /\ x.exists
    BY <1>2, <2>2, WithMs
  <2> HIDE DEF x
  <2>4. past' \in PastType /\ past'.dropped = past.dropped
    BY <1>1, <2>1, <2>2 DEF PastType
  <2> QED
    BY <1>1, <2>1, <2>3, <2>4, StoreEffect
<1>12. CASE Resend(r)
  <2> DEFINE x == [acc[a] EXCEPT !.link = TRUE]
  <2>1. req[r].pc = "save" /\ acc' = Stored(r, x) /\ req' = Ended(r)
        /\ members' = members /\ past' = past
    BY <1>12 DEF Resend, At
  <2>2. x \in Account /\ x.exists
    BY <2>1, Known, WithLink
  <2> HIDE DEF x
  <2> QED
    BY <1>1, <2>1, <2>2, StoreEffect
<1> QED
  BY <1>3, <1>4, <1>5, <1>6, <1>7, <1>8, <1>9, <1>10, <1>11, <1>12 DEF Edit

-----------------------------------------------------------------------------
(* The invariant is inductive.                                             *)

LEMMA InitInv == Init => MembersInv
<1> SUFFICES ASSUME Init PROVE MembersInv
  OBVIOUS
<1>1. /\ Activated(CreatedAs) \in Membership
      /\ \A r \in Requests : req[r] = Idle
  BY MembershipType, ActivatedType DEF Init
<1>2. TypeOK
  <2>1. acc \in [Accounts -> Account]
    BY <1>1, MembershipType DEF Init, Account
  <2>2. req \in [Requests -> ReqType]
    BY IdleType DEF Init
  <2>3. past \in PastType
    BY BoundsAssumption DEF Init, PastType
  <2>4. members \in SUBSET Accounts
    BY SettledAssumption DEF Init
  <2> QED
    BY <1>1, <2>1, <2>2, <2>3, <2>4, IdleType, ReqsType DEF PastType
<1>3. UnknownInv
  <2> SUFFICES ASSUME NEW a \in Accounts, ~acc[a].exists
               PROVE  /\ ~acc[a].ms.has /\ ~acc[a].ms.active /\ ~acc[a].link
                      /\ a \notin members /\ a \notin past.dropped
                      /\ \A r \in Requests : a \notin req[r].org /\ req[r].acc # a
    BY DEF UnknownInv
  <2>1. a \notin Settled /\ acc[a] = Blank
    BY DEF Init
  <2>2. ~acc[a].ms.has /\ ~acc[a].ms.active /\ ~acc[a].link
    BY <2>1 DEF Blank, NoMembership
  <2> QED
    BY <1>1, <2>1, <2>2, IdleType, NoneAssumption DEF Init
<1> QED
  BY <1>1, <1>2, <1>3, IdleType DEF MembersInv, NewInv, CopyInv, CopyOK

\* What a request that begins is about.
LEMMA BeginEffect ==
  ASSUME MembersInv, NEW r \in Requests, Begin(r)
  PROVE  \E k \in Kinds, a \in Accounts, pc \in {"account", "check", "read"},
            org \in {members, {}} :
           /\ Begins(r, k, a, pc, org)
           /\ pc = "account" => Fresh(a)
           /\ pc # "account" => acc[a].ms.has \/ a \in members \/ acc[a].link
<1>1. PICK a \in Accounts : StartNew(r, a) \/ StartEdit(r, a) \/ StartLink(r, a)
  BY DEF Begin
<1>2. CASE StartNew(r, a)
  BY <1>2 DEF StartNew, Kinds
<1>3. CASE StartEdit(r, a)
  <2>1. acc[a].ms.has \/ a \in members
    BY <1>3 DEF StartEdit
  <2>2. \/ \E k \in {"lock", "unlock", "resend", "activate", "group"} : Begins(r, k, a, "read", {})
        \/ Begins(r, "drop", a, "read", members)
        \/ Begins(r, "roles", a, "check", {})
    BY <1>3 DEF StartEdit
  <2> QED
    BY <2>1, <2>2 DEF Kinds
<1>4. CASE StartLink(r, a)
  BY <1>4 DEF StartLink, Kinds
<1> QED
  BY <1>1, <1>2, <1>3, <1>4

LEMMA BeginInv ==
  ASSUME MembersInv, NEW r \in Requests, Begin(r)
  PROVE  MembersInv'
<1>1. PICK k \in Kinds, a \in Accounts, pc \in {"account", "check", "read"},
           org \in {members, {}} :
        /\ Begins(r, k, a, pc, org)
        /\ pc = "account" => Fresh(a)
        /\ pc # "account" => acc[a].ms.has \/ a \in members \/ acc[a].link
  BY BeginEffect
<1>2. TypeOK /\ pc \in Pcs /\ org \in SUBSET Accounts
  BY DEF MembersInv, TypeOK, Pcs
<1>3. /\ req' \in [Requests -> ReqType]
      /\ req[r].pc = "idle"
      /\ req'[r].pc = pc /\ req'[r].kind = k /\ req'[r].acc = a
      /\ req'[r].copy = Blank /\ req'[r].org = org
      /\ \A q \in Requests : q # r => req'[q] = req[q]
      /\ members' = members /\ acc' = acc
      /\ past'.created = past.created /\ past'.dropped = past.dropped
      /\ past'.undone = past.undone /\ past'.stops = past.stops
      /\ past'.starts \in 0..MaxStarts
  BY <1>1, <1>2, BeginsType
<1>4. past' = [past EXCEPT !.starts = @ + 1]
  BY <1>1 DEF Begins
<1>5. past' \in PastType
  BY <1>2, <1>3, <1>4 DEF TypeOK, PastType
<1>6. TypeOK'
  <2>1. \A q \in Requests : req'[q].pc # "idle" => req'[q].acc \in Accounts
    BY <1>2, <1>3, HandleType
  <2>2. members' \in SUBSET Accounts /\ acc' \in [Accounts -> Account]
    BY <1>2, <1>3 DEF TypeOK
  <2>3. req' \in [Requests -> ReqType]
    BY <1>3
  <2> QED
    BY <1>5, <2>1, <2>2, <2>3 DEF TypeOK, ReqType, PastType
<1>7. UnknownInv'
  <2>1. pc # "account" => acc[a].exists
    BY <1>1 DEF MembersInv, UnknownInv
  <2> QED
    BY <1>3, <2>1 DEF MembersInv, UnknownInv
<1>8. NewInv'
  <2> SUFFICES ASSUME NEW q \in Requests, req'[q].pc \in {"account", "membership"}
               PROVE  LET b == req'[q].acc IN
                        /\ ~acc[b].ms.has /\ ~acc[b].ms.active /\ ~acc[b].link
                        /\ b \notin members /\ b \notin past.dropped
                        /\ req'[q].pc = "account" => ~acc[b].exists
                        /\ \A p \in Requests : /\ b \notin req'[p].org
                                               /\ p # q => req'[p].acc # b
    BY <1>3 DEF NewInv
  <2>1. CASE q = r
    <3>1. pc = "account" /\ Fresh(a)
      BY <1>1, <1>3, <2>1
    <3>2. ~acc[a].exists /\ \A p \in Requests : req[p].acc # a
      BY <3>1 DEF Fresh
    <3>3. /\ ~acc[a].ms.has /\ ~acc[a].ms.active /\ ~acc[a].link
          /\ a \notin members /\ a \notin past.dropped
          /\ \A p \in Requests : a \notin req[p].org
      BY <3>2 DEF MembersInv, UnknownInv
    <3> QED
      BY <1>3, <2>1, <3>2, <3>3
  <2>2. CASE q # r
    <3> DEFINE b == req[q].acc
    <3>1. req'[q] = req[q] /\ b \in Accounts
      BY <1>2, <1>3, <2>2, HandleType
    <3>2. /\ ~acc[b].ms.has /\ ~acc[b].ms.active /\ ~acc[b].link
          /\ b \notin members /\ b \notin past.dropped
          /\ req[q].pc = "account" => ~acc[b].exists
          /\ \A p \in Requests : /\ b \notin req[p].org
                                 /\ p # q => req[p].acc # b
      BY <3>1 DEF MembersInv, NewInv
    <3>3. a # b
      <4>1. CASE pc = "account"
        BY <1>1, <4>1 DEF Fresh
      <4>2. CASE pc # "account"
        BY <1>1, <3>2, <4>2
      <4> QED
        BY <4>1, <4>2
    <3> HIDE DEF b
    <3>4. \A p \in Requests : b \notin req'[p].org /\ (p # q => req'[p].acc # b)
      BY <1>3, <3>2, <3>3
    <3> QED
      BY <3>1, <3>2, <3>4 DEF b
  <2> QED
    BY <2>1, <2>2
<1>9. CopyInv'
  <2>1. CopyOK(r)'
    BY <1>3 DEF CopyOK
  <2> QED
    BY <1>3, <2>1 DEF MembersInv, CopyInv, CopyOK
<1> QED
  BY <1>6, <1>7, <1>8, <1>9 DEF MembersInv

LEMMA EffectInv ==
  ASSUME MembersInv, NEW r \in Requests, req[r].pc # "idle", Effect(r)
  PROVE  MembersInv'
<1> DEFINE a == req[r].acc
<1>1. TypeOK'
  <2>1. \A q \in Requests : req'[q].pc # "idle" => req'[q].acc \in Accounts
    BY HandleType DEF Effect, MembersInv
  <2>2. members' \in SUBSET Accounts /\ acc' \in [Accounts -> Account]
    BY HandleType DEF Effect, MembersInv, TypeOK
  <2>3. req' \in [Requests -> ReqType] /\ past' \in PastType
    BY DEF Effect
  <2> QED
    BY <2>1, <2>2, <2>3 DEF TypeOK, ReqType, PastType
<1>2. UnknownInv'
  <2> SUFFICES ASSUME NEW b \in Accounts, ~acc'[b].exists
               PROVE  /\ ~acc'[b].ms.has /\ ~acc'[b].ms.active /\ ~acc'[b].link
                      /\ b \notin members' /\ b \notin past'.dropped
                      /\ \A q \in Requests : /\ b \notin req'[q].org
                                             /\ req'[q].acc = b => req'[q].pc = "account"
    BY DEF UnknownInv
  <2>1. b # a
    BY DEF Effect, MembersInv, UnknownInv
  <2>2. acc'[b] = acc[b]
    BY <2>1 DEF Effect
  <2>3. /\ ~acc[b].ms.has /\ ~acc[b].ms.active /\ ~acc[b].link
        /\ b \notin members /\ b \notin past.dropped
        /\ \A q \in Requests : /\ b \notin req[q].org
                               /\ req[q].acc = b => req[q].pc = "account"
    BY <2>2 DEF MembersInv, UnknownInv
  <2>4. b \notin members' /\ b \notin past'.dropped
    BY <2>1, <2>3 DEF Effect
  <2>5. req'[r].acc # b /\ b \notin req'[r].org
    BY <2>1, <2>3, NoneAssumption DEF Effect
  <2>6. \A q \in Requests : q # r => req'[q] = req[q]
    BY DEF Effect
  <2> HIDE DEF a
  <2> QED
    BY <2>2, <2>3, <2>4, <2>5, <2>6
<1>3. NewInv'
  <2> SUFFICES ASSUME NEW q \in Requests, req'[q].pc \in {"account", "membership"}
               PROVE  LET b == req'[q].acc IN
                        /\ ~acc'[b].ms.has /\ ~acc'[b].ms.active /\ ~acc'[b].link
                        /\ b \notin members' /\ b \notin past'.dropped
                        /\ req'[q].pc = "account" => ~acc'[b].exists
                        /\ \A p \in Requests : /\ b \notin req'[p].org
                                               /\ p # q => req'[p].acc # b
    BY DEF NewInv
  <2>1. \A p \in Requests : p # r => req'[p] = req[p]
    BY DEF Effect
  <2>2. req'[r].org \subseteq req[r].org /\ req'[r].acc \in {None, a} /\ a \in Accounts
    BY DEF Effect
  <2>3. CASE q = r
    <3>1. req'[r].pc = "membership" /\ req[r].pc = "account" /\ req'[r].acc = a
          /\ members' = members /\ past' = past
          /\ ~acc'[a].ms.has /\ ~acc'[a].ms.active /\ ~acc'[a].link
      BY <2>3 DEF Effect
    <3>2. /\ a \notin members /\ a \notin past.dropped
          /\ \A p \in Requests : /\ a \notin req[p].org
                                 /\ p # r => req[p].acc # a
      BY <3>1 DEF MembersInv, NewInv
    <3>3. \A p \in Requests : a \notin req'[p].org /\ (p # r => req'[p].acc # a)
      BY <2>1, <2>2, <3>2
    <3> HIDE DEF a
    <3> QED
      BY <2>3, <3>1, <3>2, <3>3
  <2>4. CASE q # r
    <3> DEFINE b == req[q].acc
    <3>1. req'[q] = req[q] /\ b \in Accounts
      BY <2>1, <2>4, HandleType DEF MembersInv
    <3>2. /\ ~acc[b].ms.has /\ ~acc[b].ms.active /\ ~acc[b].link
          /\ b \notin members /\ b \notin past.dropped
          /\ req[q].pc = "account" => ~acc[b].exists
          /\ \A p \in Requests : /\ b \notin req[p].org
                                 /\ p # q => req[p].acc # b
      BY <3>1 DEF MembersInv, NewInv
    <3>3. a # b
      BY <2>4, <3>2
    <3>4. acc'[b] = acc[b] /\ b \notin members' /\ b \notin past'.dropped
      BY <3>1, <3>2, <3>3 DEF Effect
    <3> HIDE DEF a, b
    <3>5. req'[r].acc # b
      BY <2>2, <3>1, <3>3, NoneAssumption
    <3>6. \A p \in Requests : b \notin req'[p].org /\ (p # q => req'[p].acc # b)
      BY <2>1, <2>2, <3>2, <3>5
    <3> QED
      BY <3>1, <3>2, <3>4, <3>6 DEF b
  <2> QED
    BY <2>3, <2>4
<1>4. CopyInv'
  BY DEF Effect, MembersInv, CopyInv, CopyOK
<1> QED
  BY <1>1, <1>2, <1>3, <1>4 DEF MembersInv

LEMMA StopInv == MembersInv /\ Stop => MembersInv'
<1> SUFFICES ASSUME MembersInv, Stop PROVE MembersInv'
  OBVIOUS
<1>1. /\ members' = members /\ acc' = acc
      /\ req' = [r \in Requests |-> Idle]
  BY DEF Stop
<1>2. past' \in PastType /\ past'.dropped = past.dropped
  <2> DEFINE half == past.undone \cup {a \in Accounts : \E r \in Requests : req[r].acc = a}
  <2>1. past' = [past EXCEPT !.stops = @ + 1, !.undone = half] /\ past.stops < MaxStops
    BY DEF Stop
  <2>2. past \in PastType
    BY DEF MembersInv, TypeOK, PastType
  <2>3. half \in SUBSET Accounts
    BY <2>2 DEF PastType
  <2>4. past.stops + 1 \in 0..MaxStops
    BY <2>1, <2>2, BoundsAssumption DEF PastType
  <2> DEFINE n == past.stops + 1
  <2>5. past' = [past EXCEPT !.stops = n, !.undone = half] /\ n \in 0..MaxStops
    BY <2>1, <2>4
  <2> HIDE DEF half, n
  <2> QED
    BY <2>2, <2>3, <2>5 DEF PastType
<1>3. req' \in [Requests -> ReqType] /\ \A r \in Requests : req'[r] = Idle
  BY <1>1, IdleType
<1>4. TypeOK'
  BY <1>1, <1>2, <1>3, IdleType DEF MembersInv, TypeOK, ReqType, PastType
<1> QED
  BY <1>1, <1>2, <1>3, <1>4, IdleType, NoneAssumption
     DEF MembersInv, UnknownInv, NewInv, CopyInv, CopyOK

LEMMA StepInv == MembersInv /\ [Next]_vars => MembersInv'
<1> SUFFICES ASSUME MembersInv, [Next]_vars PROVE MembersInv'
  OBVIOUS
<1>1. CASE Stop
  BY <1>1, StopInv
<1>2. ASSUME NEW r \in Requests, Begin(r) PROVE MembersInv'
  BY <1>2, BeginInv
<1>3. ASSUME NEW r \in Requests, Create(r) \/ Edit(r) PROVE MembersInv'
  <2>1. req[r].pc # "idle"
    BY <1>3 DEF Create, SaveAccount, AddMembership, ListMember, MailLink, Edit, Check, Read,
                Lock, Activate, UseLink, ActivateByLink, DropMembership, DropMember, Roles,
                Group, Resend, At
  <2> QED
    BY <1>3, <2>1, CreateEffect, EditEffect, EffectInv
<1>4. CASE UNCHANGED vars
  BY <1>4 DEF vars, MembersInv, TypeOK, UnknownInv, NewInv, CopyInv, CopyOK
<1> QED
  BY <1>1, <1>2, <1>3, <1>4 DEF Next

-----------------------------------------------------------------------------
(* What a step may do to the membership of its account.                    *)

\* It keeps it, ends it, gives the first one to a new account, or writes what
\* was read: of a manager that is not locked, of others it may be anything.
MsEffect(r) ==
  LET a == req[r].acc
      c == req[r].copy.ms
      m == acc[a].ms
      n == acc'[a].ms
  IN  \/ n = m
      \/ ~n.has
      \/ ~m.has /\ ~m.active /\ a \notin past.dropped
      \/ c.has /\ (req[r].kind = "link" \/ n = c \/ ~c.locked \/ ~c.active)

LEMMA StoredMs ==
  ASSUME MembersInv, NEW r \in Requests, req[r].pc # "idle", NEW x \in Account,
         acc' = Stored(r, x)
  PROVE  acc'[req[r].acc] = x
BY StoredType, HandleType DEF MembersInv

LEMMA CreateMs ==
  ASSUME MembersInv, NEW r \in Requests, Create(r)
  PROVE  MsEffect(r)
<1> DEFINE a == req[r].acc
<1>1. CASE SaveAccount(r) \/ AddMembership(r)
  <2>1. req[r].pc \in {"account", "membership"}
    BY <1>1 DEF SaveAccount, AddMembership
  <2>2. ~acc[a].ms.has /\ ~acc[a].ms.active /\ a \notin past.dropped
    BY <2>1 DEF MembersInv, NewInv
  <2> QED
    BY <2>2 DEF MsEffect
<1>2. CASE ListMember(r)
  BY <1>2 DEF ListMember, MsEffect
<1>3. CASE MailLink(r)
  <2> DEFINE x == [acc[a] EXCEPT !.link = TRUE]
  <2>1. req[r].pc = "link" /\ acc' = Stored(r, x)
    BY <1>3 DEF MailLink
  <2>2. acc[a] \in Account
    BY <2>1, Known
  <2>3. x \in Account /\ x.ms = acc[a].ms
    BY <2>2, WithLink
  <2> HIDE DEF x
  <2>4. acc'[a] = x
    BY <2>1, <2>3, StoredMs
  <2> QED
    BY <2>3, <2>4 DEF MsEffect
<1> QED
  BY <1>1, <1>2, <1>3 DEF Create

LEMMA EditMs ==
  ASSUME MembersInv, ~ServerAdmin, NEW r \in Requests, Edit(r)
  PROVE  MsEffect(r)
<1> DEFINE a == req[r].acc
<1> DEFINE c == req[r].copy
<1>1. c \in Account /\ c.ms \in Membership
  BY HandleType DEF MembersInv
<1>2. CASE Check(r) \/ Read(r) \/ DropMember(r)
  BY <1>2 DEF Check, Read, DropMember, MsEffect
<1>3. CASE Lock(r)
  <2>1. c.ms.has /\ ~c.ms.locked
    BY <1>3 DEF Lock, MembersInv, CopyInv, CopyOK
  <2> QED
    BY <2>1 DEF MsEffect
<1>4. CASE Activate(r)
  <2>1. req[r].pc = "save" /\ acc' = Stored(r, ActivateWrites(r))
    BY <1>4 DEF Activate, ActivateWrites, At
  <2>2. /\ ActivateWrites(r) \in Account
        /\ ActivateWrites(r).ms.has = c.ms.has
        /\ c.ms.active => ActivateWrites(r).ms = c.ms
    BY <1>4, ActivateStores
  <2>3. acc'[a] = ActivateWrites(r)
    BY <2>1, <2>2, StoredMs
  <2> QED
    BY <2>2, <2>3 DEF MsEffect
<1>5. CASE UseLink(r)
  <2> DEFINE x == [c EXCEPT !.link = FALSE]
  <2>1. req[r].pc = "save" /\ req[r].kind = "link" /\ acc' = Stored(r, x)
    BY <1>5 DEF UseLink, At
  <2>2. x \in Account /\ x.ms = c.ms
    BY <1>1, WithLink
  <2> HIDE DEF x
  <2>3. acc'[a] = x
    BY <2>1, <2>2, StoredMs
  <2> QED
    BY <2>1, <2>2, <2>3 DEF MsEffect
<1>6. CASE ActivateByLink(r)
  <2>1. req[r].pc = "again" /\ req[r].kind = "link" /\ acc' = Stored(r, LinkWrites(r))
    BY <1>6 DEF ActivateByLink, LinkWrites, At
  <2>2. LinkWrites(r) \in Account /\ LinkWrites(r).ms.has = c.ms.has
    BY <1>6, LinkStores
  <2>3. acc'[a] = LinkWrites(r)
    BY <2>1, <2>2, StoredMs
  <2> QED
    BY <2>1, <2>2, <2>3 DEF MsEffect
<1>7. CASE DropMembership(r)
  <2> DEFINE x == [acc[a] EXCEPT !.ms = NoMembership]
  <2>1. req[r].pc = "save" /\ acc' = Stored(r, x)
    BY <1>7 DEF DropMembership, At
  <2>2. acc[a] \in Account
    BY <2>1, Known
  <2>3. x \in Account /\ ~x.ms.has
    BY <2>2, MembershipType, WithMs
  <2> HIDE DEF x
  <2>4. acc'[a] = x
    BY <2>1, <2>3, StoredMs
  <2> QED
    BY <2>3, <2>4 DEF MsEffect
<1>8. CASE Roles(r) \/ Group(r)
  <2> DEFINE x == [acc[a] EXCEPT !.ms = c.ms]
  <2>1. req[r].pc = "save" /\ acc' = Stored(r, x) /\ req[r].kind \in {"roles", "group"}
    BY <1>8 DEF Roles, Group, At
  <2>2. acc[a] \in Account
    BY <2>1, Known
  <2>3. x \in Account /\ x.ms = c.ms
    BY <1>1, <2>2, WithMs
  <2> HIDE DEF x
  <2>4. acc'[a] = x
    BY <2>1, <2>3, StoredMs
  <2>5. c.ms.has
    BY <2>1 DEF MembersInv, CopyInv, CopyOK
  <2> QED
    BY <2>3, <2>4, <2>5 DEF MsEffect
<1>9. CASE Resend(r)
  <2> DEFINE x == [acc[a] EXCEPT !.link = TRUE]
  <2>1. req[r].pc = "save" /\ acc' = Stored(r, x)
    BY <1>9 DEF Resend, At
  <2>2. acc[a] \in Account
    BY <2>1, Known
  <2>3. x \in Account /\ x.ms = acc[a].ms
    BY <2>2, WithLink
  <2> HIDE DEF x
  <2>4. acc'[a] = x
    BY <2>1, <2>3, StoredMs
  <2> QED
    BY <2>3, <2>4 DEF MsEffect
<1> QED
  BY <1>2, <1>3, <1>4, <1>5, <1>6, <1>7, <1>8, <1>9 DEF Edit

\* A membership that changes is that of the account of one of the requests.
LEMMA NextMs ==
  ASSUME MembersInv, ~ServerAdmin, [Next]_vars, NEW a \in Accounts, acc'[a].ms # acc[a].ms
  PROVE  \E r \in Requests : req[r].acc = a /\ MsEffect(r)
<1>1. PICK r \in Requests : Create(r) \/ Edit(r)
  <2>1. acc' # acc
    OBVIOUS
  <2>2. ~Stop /\ ~UNCHANGED vars
    BY <2>1 DEF Stop, vars
  <2>3. ASSUME NEW r \in Requests, Begin(r) PROVE FALSE
    BY <2>1, <2>3, BeginEffect DEF Begins
  <2> QED
    BY <2>2, <2>3 DEF Next
<1>2. Effect(r) /\ MsEffect(r)
  BY <1>1, CreateEffect, EditEffect, CreateMs, EditMs
<1>3. req[r].acc = a
  BY <1>2 DEF Effect
<1> QED
  BY <1>2, <1>3

-----------------------------------------------------------------------------
(* Who is listed, when only one request at a time creates members.         *)

\* What a creation holds of the list, and what it has written.
ListInv ==
  /\ ListedStays
  /\ \A r \in Requests :
       /\ req[r].pc # "idle" => req[r].kind \in May[r]
       /\ req[r].pc \in {"membership", "list"} => req[r].kind = "create"
       /\ req[r].kind = "create" /\ req[r].pc \in {"account", "membership", "list"} =>
            req[r].org = members
       /\ req[r].kind = "create" /\ req[r].pc = "link" => req[r].acc \in members

LEMMA EditKeeps ==
  ASSUME MembersInv, NEW r \in Requests, Edit(r)
  PROVE  /\ members' = members /\ past'.created = past.created
         /\ past.dropped \subseteq past'.dropped
         /\ req[r].pc # "idle"
         /\ \A q \in Requests : q # r => req'[q] = req[q]
         /\ req'[r].pc \in {"idle", "read", "save", "again", "org"}
         /\ req'[r].pc # "idle" => req'[r].kind = req[r].kind
<1>1. TypeOK /\ past \in PastType
  BY DEF MembersInv, TypeOK, PastType
<1>2. req[r].pc # "idle" /\ members' = members
  BY DEF Edit, Check, Read, Lock, Activate, UseLink, ActivateByLink, DropMembership,
         DropMember, Roles, Group, Resend, At
<1>3. past'.created = past.created /\ past.dropped \subseteq past'.dropped
  <2>1. CASE DropMember(r)
    BY <1>1, <2>1 DEF DropMember, PastType
  <2>2. CASE Group(r)
    BY <1>1, <2>2 DEF Group, PastType
  <2>3. CASE past' = past
    BY <2>3
  <2> QED
    BY <2>1, <2>2, <2>3
       DEF Edit, Check, Read, Lock, Activate, UseLink, ActivateByLink, DropMembership,
           Roles, Resend
<1>4. \/ req' = Ended(r)
      \/ \E pc \in {"read", "again", "org"} : req' = Goes(r, pc)
      \/ req' = [req EXCEPT ![r].pc = "save", ![r].copy = acc[req[r].acc]]
  BY DEF Edit, Check, Read, Lock, Activate, UseLink, ActivateByLink, DropMembership,
         DropMember, Roles, Group, Resend
<1>5. /\ \A q \in Requests : q # r => req'[q] = req[q]
      /\ req'[r].pc \in {"idle", "read", "save", "again", "org"}
      /\ req'[r].pc # "idle" => req'[r].kind = req[r].kind
  <2>1. CASE req' = Ended(r)
    BY <1>1, <2>1, EndedOK
  <2>2. ASSUME NEW pc \in {"read", "again", "org"}, req' = Goes(r, pc)
        PROVE  /\ \A q \in Requests : q # r => req'[q] = req[q]
               /\ req'[r].pc = pc /\ req'[r].kind = req[r].kind
    <3>1. pc \in Pcs
      BY DEF Pcs
    <3> QED
      BY <1>1, <2>2, <3>1, GoesType
  <2>3. CASE req' = [req EXCEPT ![r].pc = "save", ![r].copy = acc[req[r].acc]]
    <3>1. req \in [Requests -> ReqType]
      BY <1>1, ReqsType
    <3> QED
      BY <2>3, <3>1 DEF ReqType
  <2> QED
    BY <1>4, <2>1, <2>2, <2>3
<1> QED
  BY <1>2, <1>3, <1>5

LEMMA ListStep ==
  ASSUME NEW c, \A r \in Requests : "create" \in May[r] => r = c,
         MembersInv, ListInv, [Next]_vars
  PROVE  ListInv'
<1>1. TypeOK /\ past \in PastType
  BY DEF MembersInv, TypeOK, PastType
<1>2. CASE Stop
  <2>1. past'.created = past.created /\ past'.dropped = past.dropped /\ members' = members
    BY <1>1, <1>2 DEF Stop, PastType
  <2>2. \A r \in Requests : req'[r] = Idle
    BY <1>2 DEF Stop
  <2> QED
    BY <2>1, <2>2, IdleType DEF ListInv, ListedStays
<1>3. ASSUME NEW r \in Requests, Begin(r) PROVE ListInv'
  <2>1. PICK a \in Accounts :
          \/ Begins(r, "create", a, "account", members)
          \/ \E k \in Kinds \ {"create"}, pc \in {"account", "check", "read"},
                org \in SUBSET Accounts : Begins(r, k, a, pc, org)
    <3>1. PICK a \in Accounts : StartNew(r, a) \/ StartEdit(r, a) \/ StartLink(r, a)
      BY <1>3 DEF Begin
    <3>2. members \in SUBSET Accounts
      BY <1>1 DEF TypeOK
    <3> QED
      BY <3>1, <3>2 DEF StartNew, StartEdit, StartLink, Kinds
  <2>2. PICK k \in Kinds, pc \in {"account", "check", "read"}, org \in SUBSET Accounts :
          Begins(r, k, a, pc, org) /\ (k = "create" => org = members)
    <3>1. "create" \in Kinds /\ members \in SUBSET Accounts
      BY <1>1 DEF Kinds, TypeOK
    <3> QED
      BY <2>1, <3>1
  <2>3. pc \in Pcs
    BY DEF Pcs
  <2>4. /\ req'[r].pc = pc /\ req'[r].kind = k /\ req'[r].org = org
        /\ \A q \in Requests : q # r => req'[q] = req[q]
        /\ members' = members
        /\ past'.created = past.created /\ past'.dropped = past.dropped
    BY <1>1, <2>2, <2>3, BeginsType
  <2>5. k \in May[r]
    BY <2>2 DEF Begins
  <2> QED
    BY <2>2, <2>4, <2>5 DEF ListInv, ListedStays
<1>4. ASSUME NEW r \in Requests, Create(r) PROVE ListInv'
  <2>1. CASE SaveAccount(r) \/ AddMembership(r)
    <3>1. PICK pc \in {"membership", "list", "link"} :
            /\ req' = Goes(r, pc) /\ members' = members /\ past' = past
            /\ req[r].pc \in {"account", "membership"}
            /\ (req[r].kind = "create" /\ pc # "link") \/ (req[r].kind = "invite" /\ pc = "link")
      BY <2>1 DEF SaveAccount, AddMembership, ListInv
    <3>2. pc \in Pcs
      BY DEF Pcs
    <3>3. /\ req'[r].pc = pc /\ req'[r].kind = req[r].kind /\ req'[r].org = req[r].org
          /\ \A q \in Requests : q # r => req'[q] = req[q]
      BY <1>1, <3>1, <3>2, GoesType
    <3> QED
      BY <3>1, <3>3 DEF ListInv, ListedStays
  <2>2. CASE ListMember(r)
    <3>1. req[r].pc = "list" /\ req' = Goes(r, "link") /\ past' = past
          /\ members' = req[r].org \cup {req[r].acc}
      BY <2>2 DEF ListMember
    <3>2. req[r].kind = "create" /\ req[r].org = members /\ r = c
      BY <3>1 DEF ListInv
    <3>3. /\ req'[r].pc = "link" /\ req'[r].kind = req[r].kind /\ req'[r].acc = req[r].acc
          /\ \A q \in Requests : q # r => req'[q] = req[q]
      BY <1>1, <3>1, GoesType DEF Pcs
    <3>4. \A q \in Requests : q # r /\ req[q].pc # "idle" => req[q].kind # "create"
      BY <3>2 DEF ListInv
    <3> QED
      BY <3>1, <3>2, <3>3, <3>4 DEF ListInv, ListedStays
  <2>3. CASE MailLink(r)
    <3>1. req[r].pc = "link" /\ req' = Ended(r) /\ members' = members
      BY <2>3 DEF MailLink
    <3>2. /\ past'.dropped = past.dropped
          /\ \/ past'.created = past.created
             \/ req[r].kind = "create" /\ past'.created = past.created \cup {req[r].acc}
      BY <1>1, <2>3 DEF MailLink, PastType
    <3>3. req'[r].pc = "idle" /\ \A q \in Requests : q # r => req'[q] = req[q]
      BY <1>1, <3>1, EndedOK
    <3> QED
      BY <3>1, <3>2, <3>3 DEF ListInv, ListedStays
  <2> QED
    BY <1>4, <2>1, <2>2, <2>3 DEF Create
<1>5. ASSUME NEW r \in Requests, Edit(r) PROVE ListInv'
  BY <1>5, EditKeeps DEF ListInv, ListedStays
<1>6. CASE UNCHANGED vars
  BY <1>6 DEF vars, ListInv, ListedStays
<1> QED
  BY <1>2, <1>3, <1>4, <1>5, <1>6 DEF Next

-----------------------------------------------------------------------------
(* Who can become active.                                                  *)

\* A request that will mail a link, or activate the membership.
Waits(r) == req[r].pc \in {"list", "link"} \/ (req[r].pc = "again" /\ req[r].copy.ms.has)

LinkInv ==
  \A a \in Accounts \ past.undone : acc[a].ms.has /\ ~acc[a].ms.active =>
    acc[a].link \/ \E r \in Requests : req[r].acc = a /\ Waits(r)

\* What every step of a request does to the way to become active.
LinkEffect(r) ==
  LET a == req[r].acc IN
  /\ past.undone \subseteq past'.undone
  /\ \/ ~acc'[a].ms.has \/ acc'[a].ms.active \/ acc'[a].link \/ a \in past'.undone
     \/ Waits(r)' /\ req'[r].acc = a
     \/ ~Waits(r) /\ acc'[a].ms = acc[a].ms /\ (acc[a].link => acc'[a].link)

LEMMA CreateLink ==
  ASSUME MembersInv, NEW r \in Requests, Create(r)
  PROVE  LinkEffect(r)
<1> DEFINE a == req[r].acc
<1>1. TypeOK /\ past \in PastType
  BY DEF MembersInv, TypeOK, PastType
<1>2. CASE SaveAccount(r) /\ req[r].kind = "create"
  <2>1. req[r].pc = "account" /\ req' = Goes(r, "membership") /\ past' = past
    BY <1>2 DEF SaveAccount
  <2>2. Effect(r) /\ req'[r].pc = "membership"
    BY <1>1, <1>2, <2>1, CreateEffect, GoesType DEF Create, Pcs
  <2> QED
    BY <2>1, <2>2 DEF Effect, LinkEffect
<1>3. CASE (SaveAccount(r) /\ req[r].kind # "create") \/ AddMembership(r) \/ ListMember(r)
  <2>1. PICK pc \in {"list", "link"} : req' = Goes(r, pc) /\ past' = past
    BY <1>3 DEF SaveAccount, AddMembership, ListMember
  <2>2. req'[r].pc = pc /\ req'[r].acc = a
    <3>1. pc \in Pcs
      BY DEF Pcs
    <3> QED
      BY <1>1, <2>1, <3>1, GoesType
  <2>3. Waits(r)'
    BY <2>2 DEF Waits
  <2> QED
    BY <2>1, <2>2, <2>3 DEF LinkEffect
<1>4. CASE MailLink(r)
  <2> DEFINE x == [acc[a] EXCEPT !.link = TRUE]
  <2>1. req[r].pc = "link" /\ acc' = Stored(r, x)
    BY <1>4 DEF MailLink
  <2>2. acc[a] \in Account
    BY <2>1, Known
  <2>3. x \in Account /\ x.link
    BY <2>2, WithLink
  <2> HIDE DEF x
  <2>4. acc'[a] = x
    BY <2>1, <2>3, StoredMs
  <2>5. past'.undone = past.undone
    BY <1>1, <1>4 DEF MailLink, PastType
  <2> QED
    BY <2>3, <2>4, <2>5 DEF LinkEffect
<1> QED
  BY <1>2, <1>3, <1>4 DEF Create

LEMMA EditLink ==
  ASSUME MembersInv, ~ServerAdmin, NEW r \in Requests, Edit(r)
  PROVE  LinkEffect(r)
<1> DEFINE a == req[r].acc
<1> DEFINE c == req[r].copy
<1>1. TypeOK /\ past \in PastType
  BY DEF MembersInv, TypeOK, PastType
<1>2. c \in Account /\ c.ms \in Membership
  BY HandleType DEF MembersInv
<1>3. CASE Check(r) \/ Read(r) \/ DropMember(r)
  <2>1. req[r].pc \in {"check", "read", "org"} /\ acc' = acc
    BY <1>3 DEF Check, Read, DropMember, At
  <2>2. past'.undone = past.undone
    BY <1>1, <1>3 DEF Check, Read, DropMember, PastType
  <2> QED
    BY <2>1, <2>2 DEF LinkEffect, Waits
<1>4. CASE Lock(r)
  <2>1. req[r].pc = "save" /\ acc' = Stored(r, LockWrites(r)) /\ past' = past
    BY <1>4 DEF Lock, LockWrites
  <2>2. c.ms.has /\ c.ms.active
    BY <1>4 DEF Lock, MembersInv, CopyInv, CopyOK
  <2>3. LockWrites(r) \in Account /\ LockWrites(r).ms.active
    BY <1>4, <2>2, LockStores
  <2>4. acc'[a] = LockWrites(r)
    BY <2>1, <2>3, StoredMs
  <2> QED
    BY <2>1, <2>3, <2>4 DEF LinkEffect
<1>5. CASE Activate(r)
  <2>1. req[r].pc = "save" /\ acc' = Stored(r, ActivateWrites(r)) /\ past' = past
    BY <1>5 DEF Activate, ActivateWrites, At
  <2>2. /\ ActivateWrites(r) \in Account
        /\ ActivateWrites(r).ms.has => ActivateWrites(r).ms.active
    BY <1>5, ActivateStores
  <2>3. acc'[a] = ActivateWrites(r)
    BY <2>1, <2>2, StoredMs
  <2> QED
    BY <2>1, <2>2, <2>3 DEF LinkEffect
<1>6. CASE UseLink(r)
  <2> DEFINE x == [c EXCEPT !.link = FALSE]
  <2>1. req[r].pc = "save" /\ req' = Goes(r, "again") /\ acc' = Stored(r, x) /\ past' = past
    BY <1>6 DEF UseLink, At
  <2>2. x \in Account /\ x.ms = c.ms
    BY <1>2, WithLink
  <2> HIDE DEF x
  <2>3. acc'[a] = x
    BY <2>1, <2>2, StoredMs
  <2>4. req'[r].pc = "again" /\ req'[r].acc = a /\ req'[r].copy = c
    BY <1>1, <2>1, GoesType DEF Pcs
  <2>5. c.ms.has => Waits(r)'
    BY <2>4 DEF Waits
  <2> HIDE DEF c
  <2> QED
    BY <2>1, <2>2, <2>3, <2>4, <2>5 DEF LinkEffect
<1>7. CASE ActivateByLink(r)
  <2>1. req[r].pc = "again" /\ acc' = Stored(r, LinkWrites(r)) /\ past' = past
    BY <1>7 DEF ActivateByLink, LinkWrites, At
  <2>2. LinkWrites(r) \in Account /\ (LinkWrites(r).ms.has => LinkWrites(r).ms.active)
    BY <1>7, LinkStores
  <2>3. acc'[a] = LinkWrites(r)
    BY <2>1, <2>2, StoredMs
  <2> QED
    BY <2>1, <2>2, <2>3 DEF LinkEffect
<1>8. CASE DropMembership(r)
  <2> DEFINE x == [acc[a] EXCEPT !.ms = NoMembership]
  <2>1. req[r].pc = "save" /\ acc' = Stored(r, x) /\ past' = past
    BY <1>8 DEF DropMembership, At
  <2>2. acc[a] \in Account
    BY <2>1, Known
  <2>3. x \in Account /\ ~x.ms.has
    BY <2>2, MembershipType, WithMs
  <2> HIDE DEF x
  <2>4. acc'[a] = x
    BY <2>1, <2>3, StoredMs
  <2> QED
    BY <2>1, <2>3, <2>4 DEF LinkEffect
<1>9. CASE Roles(r) \/ Group(r)
  <2> DEFINE x == [acc[a] EXCEPT !.ms = c.ms]
  <2>1. req[r].pc = "save" /\ acc' = Stored(r, x)
    BY <1>9 DEF Roles, Group, At
  <2>2. acc[a] \in Account
    BY <2>1, Known
  <2>3. x \in Account /\ x.ms = c.ms /\ x.link = acc[a].link
    BY <1>2, <2>2, WithMs
  <2> HIDE DEF x
  <2>4. acc'[a] = x
    BY <2>1, <2>3, StoredMs
  <2>5. c.ms.active \/ c.ms = acc[a].ms \/ a \in past'.undone
    <3>1. CASE Roles(r)
      BY <3>1 DEF Roles, At, MembersInv, CopyInv, CopyOK
    <3>2. CASE Group(r)
      BY <1>1, <3>2 DEF Group, PastType
    <3> QED
      BY <1>9, <3>1, <3>2
  <2>6. past.undone \subseteq past'.undone
    BY <1>1, <1>9 DEF Roles, Group, PastType
  <2>7. ~Waits(r)
    BY <2>1 DEF Waits
  <2> HIDE DEF c
  <2> QED
    BY <2>3, <2>4, <2>5, <2>6, <2>7 DEF LinkEffect
<1>10. CASE Resend(r)
  <2> DEFINE x == [acc[a] EXCEPT !.link = TRUE]
  <2>1. req[r].pc = "save" /\ acc' = Stored(r, x) /\ past' = past
    BY <1>10 DEF Resend, At
  <2>2. acc[a] \in Account
    BY <2>1, Known
  <2>3. x \in Account /\ x.link
    BY <2>2, WithLink
  <2> HIDE DEF x
  <2>4. acc'[a] = x
    BY <2>1, <2>3, StoredMs
  <2> QED
    BY <2>1, <2>3, <2>4 DEF LinkEffect
<1> QED
  BY <1>3, <1>4, <1>5, <1>6, <1>7, <1>8, <1>9, <1>10 DEF Edit

LEMMA LinkStep ==
  ASSUME ~ServerAdmin, MembersInv, LinkInv, [Next]_vars
  PROVE  LinkInv'
<1>1. TypeOK /\ past \in PastType
  BY DEF MembersInv, TypeOK, PastType
<1>2. CASE Stop
  <2>1. acc' = acc /\ past'.undone = past.undone \cup
                        {a \in Accounts : \E r \in Requests : req[r].acc = a}
    BY <1>1, <1>2 DEF Stop, PastType
  <2> QED
    BY <2>1 DEF LinkInv
<1>3. ASSUME NEW r \in Requests, Begin(r) PROVE LinkInv'
  <2>1. PICK k \in Kinds, a \in Accounts, pc \in {"account", "check", "read"},
             org \in {members, {}} : Begins(r, k, a, pc, org)
    BY <1>3, BeginEffect
  <2>2. pc \in Pcs /\ org \in SUBSET Accounts
    BY <1>1 DEF TypeOK, Pcs
  <2>3. /\ req[r].pc = "idle" /\ acc' = acc /\ past'.undone = past.undone
        /\ \A q \in Requests : q # r => req'[q] = req[q]
    BY <1>1, <2>1, <2>2, BeginsType
  <2> QED
    BY <2>3 DEF LinkInv, Waits
<1>4. ASSUME NEW r \in Requests, Create(r) \/ Edit(r) PROVE LinkInv'
  <2> DEFINE a == req[r].acc
  <2>1. Effect(r) /\ LinkEffect(r)
    BY <1>4, CreateEffect, EditEffect, CreateLink, EditLink
  <2> SUFFICES ASSUME NEW b \in Accounts \ past'.undone, acc'[b].ms.has, ~acc'[b].ms.active
               PROVE  acc'[b].link \/ \E q \in Requests : req'[q].acc = b /\ Waits(q)'
    BY DEF LinkInv
  <2>2. b \notin past.undone
    BY <2>1 DEF LinkEffect
  <2>3. \A q \in Requests : q # r => req'[q] = req[q]
    BY <2>1 DEF Effect
  <2>4. CASE b # a
    <3>1. acc'[b] = acc[b]
      BY <2>1, <2>4 DEF Effect
    <3>2. CASE acc[b].link
      BY <3>1, <3>2
    <3>3. CASE ~acc[b].link
      <4>1. PICK q \in Requests : req[q].acc = b /\ Waits(q)
        BY <2>2, <3>1, <3>3 DEF LinkInv
      <4>2. q # r
        BY <2>4, <4>1
      <4> QED
        BY <2>3, <4>1, <4>2 DEF Waits
    <3> QED
      BY <3>2, <3>3
  <2>5. CASE b = a
    <3>1. CASE Waits(r)' /\ req'[r].acc = a
      BY <2>5, <3>1
    <3>2. CASE ~Waits(r) /\ acc'[a].ms = acc[a].ms /\ (acc[a].link => acc'[a].link)
      <4>1. CASE acc[b].link
        BY <2>5, <3>2, <4>1
      <4>2. CASE ~acc[b].link
        <5>1. PICK q \in Requests : req[q].acc = b /\ Waits(q)
          BY <2>2, <2>5, <3>2, <4>2 DEF LinkInv
        <5>2. q # r
          BY <3>2, <5>1
        <5> QED
          BY <2>3, <5>1, <5>2 DEF Waits
      <4> QED
        BY <4>1, <4>2
    <3> QED
      BY <2>1, <2>5, <3>1, <3>2 DEF LinkEffect
  <2> QED
    BY <2>4, <2>5
<1>5. CASE UNCHANGED vars
  BY <1>5 DEF vars, LinkInv, Waits
<1> QED
  BY <1>2, <1>3, <1>4, <1>5 DEF Next

-----------------------------------------------------------------------------
(* Theorems.                                                               *)

\* The strengthening holds of every state.
THEOREM Strengthening == Spec => []MembersInv
BY InitInv, StepInv, PTL DEF Spec

\* Records, handles and counts have their types, whatever the requests do.
THEOREM TypeCorrect == Spec => []TypeOK
<1>1. MembersInv => TypeOK
  BY DEF MembersInv
<1> QED
  BY <1>1, Strengthening, PTL

\* When the managers do not administrate the server, a dropped member comes back
\* only through a request that had read the membership before it was dropped.
THEOREM DropStandsHolds ==
  ASSUME ~ServerAdmin
  PROVE  Spec => DropStands
<1> DEFINE Back(a) == a \in past.dropped /\ ~acc[a].ms.has /\ acc'[a].ms.has
<1> DEFINE By(a)   == \E r \in Requests : Late(r, a) /\ req[r].copy.ms.has
<1>1. MembersInv /\ [Next]_vars => [\A a \in past.dropped : Back(a) => By(a)]_vars
  <2> SUFFICES ASSUME MembersInv, [Next]_vars, NEW a \in past.dropped, Back(a)
               PROVE  By(a)
    OBVIOUS
  <2>1. a \in Accounts
    BY DEF MembersInv, TypeOK
  <2>2. PICK r \in Requests : req[r].acc = a /\ MsEffect(r)
    BY <2>1, NextMs
  <2> QED
    BY <2>2 DEF MsEffect, Late
<1>2. [\A a \in past.dropped : Back(a) => By(a)]_vars
        => [\A a \in past.dropped : ~acc[a].ms.has /\ acc'[a].ms.has =>
              \E r \in Requests : Late(r, a) /\ req[r].copy.ms.has]_vars
  OBVIOUS
<1> HIDE DEF Back, By
<1> QED
  BY <1>1, <1>2, Strengthening, PTL DEF Spec, DropStands

\* When the managers do not administrate the server, a lock of an active member
\* is taken off by a link or by a request that had read what is not there now.
THEOREM LockStandsHolds ==
  ASSUME ~ServerAdmin
  PROVE  Spec => LockStands
<1> DEFINE Free(a) == acc[a].ms.active /\ acc[a].ms.locked /\ acc'[a].ms.has /\ ~acc'[a].ms.locked
<1> DEFINE By(a)   == \E r \in Requests : Late(r, a) \/ (req[r].acc = a /\ req[r].kind = "link")
<1>1. MembersInv /\ [Next]_vars => [\A a \in Accounts : Free(a) => By(a)]_vars
  <2> SUFFICES ASSUME MembersInv, [Next]_vars, NEW a \in Accounts, Free(a)
               PROVE  By(a)
    OBVIOUS
  <2>1. PICK r \in Requests : req[r].acc = a /\ MsEffect(r)
    BY NextMs
  <2> QED
    BY <2>1 DEF MsEffect, Late
<1>2. [\A a \in Accounts : Free(a) => By(a)]_vars
        => [\A a \in Accounts :
              acc[a].ms.active /\ acc[a].ms.locked /\ acc'[a].ms.has /\ ~acc'[a].ms.locked =>
                \E r \in Requests : Late(r, a) \/ (req[r].acc = a /\ req[r].kind = "link")]_vars
  OBVIOUS
<1> HIDE DEF Free, By
<1> QED
  BY <1>1, <1>2, Strengthening, PTL DEF Spec, LockStands

\* When only one request at a time creates members, an account whose creation
\* has ended is listed until it is dropped.
THEOREM ListedStaysHolds ==
  ASSUME NEW c, \A r \in Requests : "create" \in May[r] => r = c
  PROVE  Spec => []ListedStays
<1>1. Init => ListInv
  <2> SUFFICES ASSUME Init PROVE ListInv
    OBVIOUS
  <2>1. past.created = {} /\ \A r \in Requests : req[r] = Idle
    BY DEF Init
  <2> QED
    BY <2>1, IdleType DEF ListInv, ListedStays
<1>2. MembersInv /\ ListInv /\ [Next]_vars => ListInv'
  BY ListStep
<1>3. ListInv => ListedStays
  BY DEF ListInv
<1> QED
  BY <1>1, <1>2, <1>3, Strengthening, PTL DEF Spec

\* When the managers do not administrate the server, an inactive member about
\* whom no request runs has a link that works, unless it was left half done.
THEOREM ActivatableHolds ==
  ASSUME ~ServerAdmin
  PROVE  Spec => []Activatable
<1>1. Init => LinkInv
  <2> SUFFICES ASSUME Init, NEW a \in Accounts PROVE acc[a].ms.has => acc[a].ms.active
    BY DEF LinkInv
  <2>1. a \in Settled => acc[a].ms = Activated(CreatedAs)
    BY DEF Init
  <2>2. a \notin Settled => acc[a].ms = NoMembership
    BY DEF Init, Blank
  <2> QED
    BY <2>1, <2>2, MembershipType, ActivatedType
<1>2. MembersInv /\ LinkInv /\ [Next]_vars => LinkInv'
  BY LinkStep
<1>3. LinkInv => Activatable
  BY DEF LinkInv, Activatable
<1> QED
  BY <1>1, <1>2, <1>3, Strengthening, PTL DEF Spec
=============================================================================
