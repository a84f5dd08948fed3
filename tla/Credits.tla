------------------------------- MODULE Credits -------------------------------
(***************************************************************************)
(* The business plan of one organization: the credits bought on the        *)
(* marketplace, the subscriptions that were paid with them, and the scans  *)
(* that ask whether their application has one.                             *)
(*                                                                         *)
(* The plan is one field of the organization's record.  Every request      *)
(* reads the record into an object of its own, changes the plan there, and *)
(* writes the whole field back.  A step is the code from one await to the  *)
(* next: Read, then the change of the copy, then Update.                   *)
(***************************************************************************)
EXTENDS Integers, FiniteSets, FiniteSetsExt

CONSTANTS
  Buys,     \* requests of POST /mkplace/buy
  Acts,     \* requests of POST /ou/app/:aid/license/activate
  Scans,    \* scans of an application, started by a slave
  Products,
  Apps,
  Product,  \* Product[f]: what request f is about; for a scan, its scanner
  Type,     \* Type[f]: the kind of credit that a buy or an activation is about
  App,      \* App[f]: the application of an activation or of a scan
  Qty,      \* Qty[f]: the quantity that f buys, nothing or less than nothing included
  Credit,   \* what a subscription costs; quantities may be fractions of it
  Life,     \* a purchase is valid for Life units of time (365 days)
  MaxTime,  \* bound on the clock
  NoPlan    \* "null"

Types    == {"sub", "scan"}
Writers  == Buys \cup Acts
Requests == Writers \cup Scans

ASSUME CreditsAssumption ==
  /\ Buys \cap Acts = {} /\ Buys \cap Scans = {} /\ Acts \cap Scans = {}
  /\ Product \in [Requests -> Products]
  /\ Type \in [Writers -> Types]
  /\ App \in [Acts \cup Scans -> Apps]
  /\ Qty \in [Buys -> Int] /\ Credit \in Nat \ {0}
  /\ Life \in Nat /\ MaxTime \in Nat

Items == Products \X Types
Item(f) == <<Product[f], Type[f]>>

\* mkpPurchases is the set of the requests that bought, wallet the set of the
\* requests that subscribed, with their dates.
Plan == [credits: [Items -> Int], mkpPurchases: SUBSET Buys,
         wallet: SUBSET (Acts \X (0..MaxTime))]

Empty == [credits |-> [i \in Items |-> 0], mkpPurchases |-> {}, wallet |-> {}]

ASSUME NoPlanAssumption == NoPlan \notin Plan

VARIABLES
  db,      \* the field businessPlan of the organization's record
  plan,    \* plan[f]: the same field of the object that request f read
  pc,      \* pc[f]: where request f, or the balance check of scan f, is
  scan,    \* scan[f]: the state of the order of scan f
  now,     \* the clock
  overlap  \* history: requests that were not alone between read and write

vars == <<db, plan, pc, scan, now, overlap>>

(***************************************************************************)
(* "done"     answered with success, after a write                         *)
(* "unsaved"  a purchase answered with success whose write changed nothing *)
(* "had"      an activation that found its subscription, no write          *)
(* "late"     an activation that was saved and answered FALSE              *)
(* "check"    a scan has the plan it will look at                          *)
(* "covered", "refused"  the results of that                               *)
(***************************************************************************)
Pc == {"start", "read", "update", "done", "unsaved", "had", "late",
       "check", "covered", "refused"}

TypeOK ==
  /\ db \in Plan \cup {NoPlan}
  /\ plan \in [Requests -> Plan \cup {NoPlan}]
  /\ pc \in [Requests -> Pc]
  /\ scan \in [Scans -> {"new", "RUNNING", "TERMINATED", "crashed"}]
  /\ now \in 0..MaxTime
  /\ overlap \subseteq Requests

Init ==
  /\ db \in {NoPlan, Empty}
  /\ plan = [f \in Requests |-> NoPlan]
  /\ pc = [f \in Requests |-> "start"]
  /\ scan = [f \in Scans |-> "new"]
  /\ now = 0
  /\ overlap = {}

-----------------------------------------------------------------------------
(* BusinessPlan.                                                           *)

HasExpired(w) == now - w[2] > Life

\* The application has a subscription to the product that is still valid.
CanPerformScan(p, app, product) ==
  \E w \in p.wallet : /\ App[w[1]] = app /\ Product[w[1]] = product
                      /\ ~HasExpired(w)

\* Mutant of HasEnoughCredit: any entry of the product is enough.
NotNull(p, f) == p.credits[Item(f)] >= 0

HasEnoughCredit(p, f) == p.credits[Item(f)] > 0

\* Mutant of AddCredit: the quantity replaces the credits.
AddReplaces(p, f) == [p EXCEPT !.credits[Item(f)] = Qty[f],
                               !.mkpPurchases = @ \cup {f}]

\* The quantity is added as the request gives it.
AddCredit(p, f) == [p EXCEPT !.credits[Item(f)] = @ + Qty[f],
                             !.mkpPurchases = @ \cup {f}]

\* addSubscription() at time t.
Subscribed(p, f, t) == [p EXCEPT !.credits[Item(f)] = @ - Credit,
                                 !.wallet = @ \cup {<<f, t>>}]

-----------------------------------------------------------------------------
(* Steps that requests share.                                              *)

Goes(f, l) == pc' = [pc EXCEPT ![f] = l]

\* Between the read of the record and the write of the field.
Open == {f \in Requests : pc[f] \in {"read", "update"}}

\* getOrganization() for a request that may write.
Load(f) ==
  /\ plan' = [plan EXCEPT ![f] = db]
  /\ overlap' = IF Open = {} THEN overlap ELSE overlap \cup Open \cup {f}

Read(f) ==
  /\ pc[f] = "start"
  /\ Load(f)
  /\ Goes(f, "read")
  /\ UNCHANGED <<db, scan, now>>

Changes(f, p) ==
  /\ plan' = [plan EXCEPT ![f] = p]
  /\ Goes(f, "update")
  /\ UNCHANGED <<db, scan, now, overlap>>

\* The object of f is not used any more once f is answered.
Drops(f) == plan' = [plan EXCEPT ![f] = NoPlan]

Ends(f, l) ==
  /\ Goes(f, l)
  /\ Drops(f)
  /\ UNCHANGED <<db, scan, now, overlap>>

\* Mutant of Written: the update leaves out the purchases.
WrittenWithoutPurchases(f) ==
  IF db = NoPlan THEN plan[f] ELSE [plan[f] EXCEPT !.mkpPurchases = db.mkpPurchases]

\* asyncUpdateEntry with $set: ['businessPlan'].
Written(f) == plan[f]

Saves(f, l) ==
  /\ db' = Written(f)
  /\ Goes(f, l)
  /\ Drops(f)
  /\ UNCHANGED <<scan, now, overlap>>

-----------------------------------------------------------------------------
(* Marketplace: buyProduct().                                              *)

\* Without a plan getBusinessPlan() throws.
BuyChange(f) ==
  /\ pc[f] = "read"
  /\ IF plan[f] = NoPlan THEN Ends(f, "refused") ELSE Changes(f, AddCredit(plan[f], f))

\* The result of the update is not looked at.
BuyUpdate(f) ==
  /\ pc[f] = "update"
  /\ Saves(f, "done") \/ Ends(f, "unsaved")

Buy(f) == Read(f) \/ BuyChange(f) \/ BuyUpdate(f)

-----------------------------------------------------------------------------
(* Licenses: activateLicense().                                            *)

\* Mutant of Activated: the application is not asked for.
NeverActivated(f) == FALSE

Activated(f) == CanPerformScan(plan[f], App[f], Product[f])

\* addSubscription() throws without credit.  A missing plan becomes an empty one,
\* which has none, and is not saved.
SubChange(f) ==
  /\ pc[f] = "read" /\ Type[f] = "sub"
  /\ \/ plan[f] = NoPlan /\ Ends(f, "refused")
     \/ plan[f] # NoPlan /\ Activated(f) /\ Ends(f, "had")
     \/ /\ plan[f] # NoPlan /\ ~Activated(f)
        /\ IF HasEnoughCredit(plan[f], f)
           THEN Changes(f, Subscribed(plan[f], f, now)) ELSE Ends(f, "refused")

\* activateApplicationScan() does nothing and the request succeeds.
ScanChange(f) ==
  /\ pc[f] = "read" /\ Type[f] = "scan"
  /\ Ends(f, IF plan[f] = NoPlan THEN "refused" ELSE "had")

\* The answer looks at the object, not at the record.
ActUpdate(f) ==
  /\ pc[f] = "update"
  /\ Saves(f, IF Activated(f) THEN "done" ELSE "late") \/ Ends(f, "refused")

Activate(f) == Read(f) \/ SubChange(f) \/ ScanChange(f) \/ ActUpdate(f)

-----------------------------------------------------------------------------
(* Scans: newStandaloneScan() calls verifyScanBalance() and does not wait. *)

ScanStart(f) ==
  /\ scan[f] = "new"
  /\ scan' = [scan EXCEPT ![f] = "RUNNING"]
  /\ UNCHANGED <<db, plan, pc, now, overlap>>

ScanEnd(f) ==
  /\ scan[f] = "RUNNING"
  /\ scan' = [scan EXCEPT ![f] = "TERMINATED"]
  /\ UNCHANGED <<db, plan, pc, now, overlap>>

Verifies(f) == scan[f] \in {"RUNNING", "TERMINATED"}

\* Mutant of Missing: a plan without credits is taken for none.
Unfunded == db = NoPlan \/ \A i \in Items : db.credits[i] = 0

Missing == db = NoPlan

\* A missing plan is created at once, and saved.
VerifyRead(f) ==
  /\ pc[f] = "start" /\ Verifies(f)
  /\ IF Missing
     THEN /\ plan' = [plan EXCEPT ![f] = Empty]
          /\ overlap' = IF Open = {} THEN overlap ELSE overlap \cup Open \cup {f}
          /\ Goes(f, "update")
     ELSE /\ plan' = [plan EXCEPT ![f] = db]
          /\ UNCHANGED overlap
          /\ Goes(f, "check")
  /\ UNCHANGED <<db, scan, now>>

VerifyCreate(f) ==
  /\ pc[f] = "update" /\ Verifies(f)
  /\ Goes(f, "check")
  /\ db' \in {db, Written(f)}
  /\ UNCHANGED <<plan, scan, now, overlap>>

\* After the look-up of the assurance model, which tells the scanner.
VerifyPass(f) ==
  /\ pc[f] = "check" /\ Verifies(f)
  /\ CanPerformScan(plan[f], App[f], Product[f])
  /\ Ends(f, "covered")

\* The exception is the rejection of a promise nobody holds: depending on the
\* version of Node the process goes on, or ends.
VerifyRefuse(f) ==
  /\ pc[f] = "check" /\ Verifies(f)
  /\ ~CanPerformScan(plan[f], App[f], Product[f])
  /\ Goes(f, "refused")
  /\ \/ UNCHANGED scan
     \/ scan[f] = "RUNNING" /\ scan' = [scan EXCEPT ![f] = "crashed"]
  /\ Drops(f)
  /\ UNCHANGED <<db, now, overlap>>

Scan(f) == \/ ScanStart(f) \/ ScanEnd(f)
           \/ VerifyRead(f) \/ VerifyCreate(f) \/ VerifyPass(f) \/ VerifyRefuse(f)

-----------------------------------------------------------------------------
Tick ==
  /\ now < MaxTime
  /\ now' = now + 1
  /\ UNCHANGED <<db, plan, pc, scan, overlap>>

Next == \/ \E f \in Buys : Buy(f)
        \/ \E f \in Acts : Activate(f)
        \/ \E f \in Scans : Scan(f)
        \/ Tick

Spec == Init /\ [][Next]_vars

-----------------------------------------------------------------------------
(* Properties.                                                             *)

\* Every copy of the plan that exists.
Copies == ({db} \cup {plan[f] : f \in Requests}) \ {NoPlan}

Bought(p, i) == MapThenSumSet(LAMBDA f : Qty[f], {f \in p.mkpPurchases : Item(f) = i})
Paid(p, i)   == Cardinality({w \in p.wallet : Item(w[1]) = i})

\* In the record and in every object, whatever was lost to overlapping writes,
\* what was bought is what was spent on subscriptions plus the credits left:
\* no credit is spent twice and none comes from nowhere.
Balanced ==
  \A p \in Copies : \A i \in Items : Bought(p, i) = Credit * Paid(p, i) + p.credits[i]

\* The purchases that added credits, without those that took some away.
Added(p, i) ==
  MapThenSumSet(LAMBDA f : Qty[f], {f \in p.mkpPurchases : Item(f) = i /\ Qty[f] > 0})

\* Subscriptions cost less than one credit more than purchases added, in whatever
\* order they are read and written: a balance that a negative quantity took below
\* zero pays none, and a fraction of a credit pays one at most.
Funded ==
  /\ TypeOK
  /\ \A p \in Copies : \A i \in Items : Credit * Paid(p, i) < Added(p, i) + Credit

\* At most one of the subscriptions of an application to a product is valid.
Once(p) ==
  \A v, w \in p.wallet :
    v # w /\ App[v[1]] = App[w[1]] /\ Product[v[1]] = Product[w[1]]
      => HasExpired(v) \/ HasExpired(w)

\* No application pays a product again while its subscription is valid, in
\* whatever order activations are read and written.
PaidOnce == \A p \in Copies : Once(p)

\* The record holds what request f did.
Holds(p, f) ==
  /\ p # NoPlan
  /\ IF f \in Buys THEN f \in p.mkpPurchases ELSE \E t \in 0..MaxTime : <<f, t>> \in p.wallet

Saved(f) == pc[f] \in {"done", "late"}

\* A purchase or a subscription that was saved stays in the record, whatever
\* other requests and scans write later, unless its request overlapped
\* another one between the read and the write.
NoLoss == \A f \in Writers : Saved(f) /\ f \notin overlap => Holds(db, f)

\* What request f does to a record, had it the record for itself.
Effect(f, p, q) ==
  IF f \in Scans THEN p = NoPlan /\ q = Empty
  ELSE /\ p # NoPlan
       /\ \/ f \in Buys /\ q = AddCredit(p, f)
          \/ /\ f \in Acts /\ p.credits[Item(f)] > 0
             /\ \E t \in 0..MaxTime : q = Subscribed(p, f, t)

\* A request that overlapped no other changes the record as one atomic step.
AtomicWhenAlone ==
  [][\A f \in Requests :
       pc[f] = "update" /\ pc'[f] # "update" /\ db' # db /\ f \notin overlap
         => Effect(f, db, db')]_vars

\* What NoLoss and AtomicWhenAlone rest on.  Two requests between their read
\* and their write know of each other; one that is alone there still has what
\* the record says; and each of them has what was saved before it read.
OpenTogether == \A f, g \in Open : f # g => f \in overlap

UpToDate ==
  \A f \in Open \ overlap :
    /\ pc[f] = "read" => plan[f] = db
    /\ pc[f] = "update" => Effect(f, db, plan[f])

Carried ==
  \A g \in Open, f \in Writers : Saved(f) /\ f \notin overlap => Holds(plan[g], f)

AloneInvariant == OpenTogether /\ UpToDate /\ NoLoss /\ Carried

-----------------------------------------------------------------------------
(* Properties that the code does not keep.                                 *)

\* Credits do not drop below zero.
NoDebt == \A p \in Copies : \A i \in Items : p.credits[i] >= 0

\* What was saved stays saved, even when requests overlap.
SavedStays == \A f \in Writers : Saved(f) => Holds(db, f)

\* A request that is answered with success is saved.
SuccessMeansSaved == \A f \in Writers : pc[f] # "unsaved"

\* A scan ends only when the balance allowed it.
ScanPaid == \A f \in Scans : scan[f] = "TERMINATED" => pc[f] = "covered"

\* A purchase is not refused: it makes the plan when there is none.
BuyMakesPlan == \A f \in Buys : pc[f] # "refused"
=============================================================================
