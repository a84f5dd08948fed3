---------------------------- MODULE CreditsProofs ----------------------------
(***************************************************************************)
(* Proofs about Credits, for any number of requests, scans, products and   *)
(* applications, any quantities, any length of a subscription.             *)
(***************************************************************************)
EXTENDS Credits, FiniteSetTheorems, WellFoundedInduction, TLAPS

-----------------------------------------------------------------------------
(* What the operations of a plan return.                                   *)

LEMMA PlanFields ==
  /\ Empty \in Plan
  /\ \A p \in Plan : /\ p.credits \in [Items -> Int] /\ p.mkpPurchases \in SUBSET Buys
                     /\ p.wallet \in SUBSET (Acts \X (0..MaxTime))
                     /\ p # NoPlan
BY NoPlanAssumption DEF Plan, Empty

LEMMA ItemType == \A f \in Writers : Item(f) \in Items
BY CreditsAssumption DEF Item, Items, Writers, Requests

LEMMA AddCreditPlan ==
  ASSUME NEW p \in Plan, NEW f \in Buys
  PROVE  /\ AddCredit(p, f) \in Plan
         /\ AddCredit(p, f).mkpPurchases = p.mkpPurchases \cup {f}
         /\ AddCredit(p, f).wallet = p.wallet
<1> DEFINE c == [p.credits EXCEPT ![Item(f)] = @ + Qty[f]]
<1>1. Item(f) \in Items /\ Qty[f] \in Int
  BY ItemType, CreditsAssumption DEF Writers
<1>2. c \in [Items -> Int]
  <2>1. p.credits[Item(f)] + Qty[f] \in Int
    BY <1>1, PlanFields
  <2> QED
    BY <2>1, PlanFields
<1>3. AddCredit(p, f) = [credits |-> c, mkpPurchases |-> p.mkpPurchases \cup {f}, wallet |-> p.wallet]
  <2>1. p = [credits |-> p.credits, mkpPurchases |-> p.mkpPurchases, wallet |-> p.wallet]
    BY DEF Plan
  <2>2. AddCredit(p, f) = [p EXCEPT !.credits = c, !.mkpPurchases = @ \cup {f}]
    BY DEF AddCredit
  <2> QED
    BY <2>1, <2>2
<1> HIDE DEF c
<1> QED
  BY <1>2, <1>3, PlanFields DEF Plan

LEMMA SubscribedPlan ==
  ASSUME NEW p \in Plan, NEW f \in Acts, NEW t \in 0..MaxTime
  PROVE  /\ Subscribed(p, f, t) \in Plan
         /\ Subscribed(p, f, t).mkpPurchases = p.mkpPurchases
         /\ Subscribed(p, f, t).wallet = p.wallet \cup {<<f, t>>}
<1> DEFINE c == [p.credits EXCEPT ![Item(f)] = @ - Credit]
<1>1. Item(f) \in Items
  BY ItemType DEF Writers
<1>2. c \in [Items -> Int]
  <2>1. p.credits[Item(f)] - Credit \in Int
    BY <1>1, PlanFields, CreditsAssumption
  <2> QED
    BY <2>1, PlanFields
<1>3. Subscribed(p, f, t)
        = [credits |-> c, mkpPurchases |-> p.mkpPurchases, wallet |-> p.wallet \cup {<<f, t>>}]
  <2>1. p = [credits |-> p.credits, mkpPurchases |-> p.mkpPurchases, wallet |-> p.wallet]
    BY DEF Plan
  <2>2. Subscribed(p, f, t) = [p EXCEPT !.credits = c, !.wallet = @ \cup {<<f, t>>}]
    BY DEF Subscribed
  <2> QED
    BY <2>1, <2>2
<1> HIDE DEF c
<1> QED
  BY <1>2, <1>3, PlanFields DEF Plan

-----------------------------------------------------------------------------
(* Type correctness.                                                       *)

LEMMA InitType == Init => TypeOK
BY PlanFields, CreditsAssumption DEF Init, TypeOK, Pc

LEMMA StepType == TypeOK /\ [Next]_vars => TypeOK'
<1> SUFFICES ASSUME TypeOK, [Next]_vars PROVE TypeOK'
  OBVIOUS
<1> USE CreditsAssumption DEF TypeOK, Goes, Drops, Ends, Changes, Saves, Written, Load, Open, Pc, Writers
<1>1. ASSUME NEW f \in Buys, Buy(f) PROVE TypeOK'
  <2>1. CASE Read(f)
    BY <2>1 DEF Read, Requests
  <2>2. CASE BuyChange(f)
    <3>1. CASE plan[f] = NoPlan
      BY <2>2, <3>1 DEF BuyChange, Requests
    <3>2. CASE plan[f] # NoPlan
      <4>1. AddCredit(plan[f], f) \in Plan
        BY <3>2, AddCreditPlan DEF Requests
      <4> QED
        BY <2>2, <3>2, <4>1 DEF BuyChange, Requests
    <3> QED
      BY <3>1, <3>2
  <2>3. CASE BuyUpdate(f)
    BY <2>3 DEF BuyUpdate, Requests
  <2> QED
    BY <1>1, <2>1, <2>2, <2>3 DEF Buy
<1>2. ASSUME NEW f \in Acts, Activate(f) PROVE TypeOK'
  <2>1. CASE Read(f)
    BY <2>1 DEF Read, Requests
  <2>2. CASE SubChange(f)
    <3>1. CASE Ends(f, "refused") \/ Ends(f, "had")
      BY <3>1 DEF Requests
    <3>2. CASE /\ plan[f] # NoPlan /\ HasEnoughCredit(plan[f], f)
               /\ Changes(f, Subscribed(plan[f], f, now))
      <4>1. Subscribed(plan[f], f, now) \in Plan
        BY <3>2, SubscribedPlan DEF Requests, HasEnoughCredit
      <4> QED
        BY <3>2, <4>1 DEF Requests
    <3> QED
      BY <2>2, <3>1, <3>2 DEF SubChange
  <2>3. CASE ScanChange(f)
    BY <2>3 DEF ScanChange, Requests
  <2>4. CASE ActUpdate(f)
    BY <2>4 DEF ActUpdate, Requests
  <2> QED
    BY <1>2, <2>1, <2>2, <2>3, <2>4 DEF Activate
<1>3. ASSUME NEW f \in Scans, Scan(f) PROVE TypeOK'
  <2>1. CASE ScanStart(f)
    BY <2>1 DEF ScanStart, Requests
  <2>2. CASE ScanEnd(f)
    BY <2>2 DEF ScanEnd, Requests
  <2>3. CASE VerifyRead(f)
    BY <2>3, PlanFields DEF VerifyRead, Missing, Requests
  <2>4. CASE VerifyCreate(f)
    BY <2>4 DEF VerifyCreate, Requests
  <2>5. CASE VerifyPass(f)
    BY <2>5 DEF VerifyPass, Requests
  <2>6. CASE VerifyRefuse(f)
    BY <2>6 DEF VerifyRefuse, Requests
  <2> QED
    BY <1>3, <2>1, <2>2, <2>3, <2>4, <2>5, <2>6 DEF Scan
<1>4. CASE Tick
  BY <1>4 DEF Tick
<1>5. CASE UNCHANGED vars
  BY <1>5 DEF vars
<1> QED
  BY <1>1, <1>2, <1>3, <1>4, <1>5 DEF Next

\* Every variable keeps its type, whatever quantities are bought.
THEOREM TypeCorrect == Spec => []TypeOK
BY InitType, StepType, PTL DEF Spec

-----------------------------------------------------------------------------
(* One valid subscription per application and product.                     *)

\* What a step can make of the wallets of the copies.
Grown(p, q) ==
  \/ p.wallet = q.wallet
  \/ \E f \in Acts : /\ p.wallet = q.wallet \cup {<<f, now>>}
                     /\ ~CanPerformScan(q, App[f], Product[f])

LEMMA CopiesGrow ==
  ASSUME TypeOK, [Next]_vars
  PROVE  /\ \A p \in Copies' : \E q \in Copies \cup {Empty} : Grown(p, q)
         /\ now' \in 0..MaxTime /\ now <= now'
<1> USE CreditsAssumption, PlanFields DEF TypeOK, Copies, Goes, Drops, Ends, Changes, Saves, Written, Load, Writers, Grown
<1>1. now' \in 0..MaxTime /\ now <= now'
  <2>1. TypeOK'
    BY StepType
  <2>2. UNCHANGED now \/ Tick
    BY DEF Next, vars, Buy, Activate, Scan, Read, BuyChange, BuyUpdate, SubChange, ScanChange, ActUpdate,
           ScanStart, ScanEnd, VerifyRead, VerifyCreate, VerifyPass, VerifyRefuse
  <2> QED
    BY <2>1, <2>2 DEF Tick
<1>2. ASSUME NEW f \in Buys, Buy(f), NEW p \in Copies'
      PROVE  \E q \in Copies \cup {Empty} : Grown(p, q)
  <2>1. CASE Read(f)
    BY <1>2, <2>1 DEF Read, Requests
  <2>2. CASE BuyChange(f)
    <3>1. CASE Ends(f, "refused")
      BY <1>2, <3>1 DEF Requests
    <3>2. CASE plan[f] # NoPlan /\ Changes(f, AddCredit(plan[f], f))
      <4>1. plan[f] \in Plan /\ plan[f] \in Copies
        BY <3>2 DEF Requests
      <4>2. AddCredit(plan[f], f).wallet = plan[f].wallet
        BY <4>1, AddCreditPlan
      <4> QED
        BY <1>2, <3>2, <4>1, <4>2 DEF Requests
    <3> QED
      BY <2>2, <3>1, <3>2 DEF BuyChange
  <2>3. CASE BuyUpdate(f)
    BY <1>2, <2>3 DEF BuyUpdate, Requests
  <2> QED
    BY <1>2, <2>1, <2>2, <2>3 DEF Buy
<1>3. ASSUME NEW f \in Acts, Activate(f), NEW p \in Copies'
      PROVE  \E q \in Copies \cup {Empty} : Grown(p, q)
  <2>1. CASE Read(f)
    BY <1>3, <2>1 DEF Read, Requests
  <2>2. CASE SubChange(f)
    <3>1. CASE Ends(f, "refused") \/ Ends(f, "had")
      BY <1>3, <3>1 DEF Requests
    <3>2. CASE /\ plan[f] # NoPlan /\ HasEnoughCredit(plan[f], f) /\ ~Activated(f)
               /\ Changes(f, Subscribed(plan[f], f, now))
      <4>1. plan[f] \in Plan /\ plan[f] \in Copies
        BY <3>2 DEF Requests
      <4>2. Subscribed(plan[f], f, now).wallet = plan[f].wallet \cup {<<f, now>>}
        <5>1. now \in 0..MaxTime
          OBVIOUS
        <5> HIDE DEF TypeOK, Copies
        <5>2. \A q \in Plan : Subscribed(q, f, now).wallet = q.wallet \cup {<<f, now>>}
          BY <5>1, SubscribedPlan
        <5> QED
          BY <4>1, <5>2
      <4>3. ~CanPerformScan(plan[f], App[f], Product[f])
        BY <3>2 DEF Activated
      <4>4. Grown(Subscribed(plan[f], f, now), plan[f])
        BY <4>2, <4>3
      <4>5. p \in Copies \/ p = Subscribed(plan[f], f, now)
        BY <1>3, <3>2 DEF Requests
      <4> QED
        BY <4>1, <4>4, <4>5
    <3> QED
      BY <2>2, <3>1, <3>2 DEF SubChange
  <2>3. CASE ScanChange(f)
    BY <1>3, <2>3 DEF ScanChange, Requests
  <2>4. CASE ActUpdate(f)
    BY <1>3, <2>4 DEF ActUpdate, Requests
  <2> QED
    BY <1>3, <2>1, <2>2, <2>3, <2>4 DEF Activate
<1>4. ASSUME NEW f \in Scans, Scan(f), NEW p \in Copies'
      PROVE  \E q \in Copies \cup {Empty} : Grown(p, q)
  <2>1. p \in Copies \cup {Empty}
    BY <1>4 DEF Scan, ScanStart, ScanEnd, VerifyRead, VerifyCreate, VerifyPass, VerifyRefuse, Requests
  <2> QED
    BY <2>1
<1>5. ASSUME Tick \/ UNCHANGED vars, NEW p \in Copies'
      PROVE  \E q \in Copies \cup {Empty} : Grown(p, q)
  BY <1>5 DEF Tick, vars
<1> QED
  BY <1>1, <1>2, <1>3, <1>4, <1>5 DEF Next

\* An expired subscription stays expired.
LEMMA ExpiredStays ==
  ASSUME TypeOK, now' \in 0..MaxTime, now <= now', NEW w \in Acts \X (0..MaxTime), HasExpired(w)
  PROVE  HasExpired(w)'
<1>1. /\ now \in Int /\ now' \in Int /\ Life \in Int /\ w[2] \in Int
      /\ now - w[2] > Life
  BY CreditsAssumption DEF TypeOK, HasExpired
<1> QED
  BY <1>1 DEF HasExpired

LEMMA PaidOnceStep == TypeOK /\ PaidOnce /\ [Next]_vars => PaidOnce'
<1> SUFFICES ASSUME TypeOK, PaidOnce, [Next]_vars, NEW p \in Copies',
                    NEW v \in p.wallet, NEW w \in p.wallet, v # w,
                    App[v[1]] = App[w[1]], Product[v[1]] = Product[w[1]]
             PROVE  HasExpired(v)' \/ HasExpired(w)'
  BY DEF PaidOnce, Once
<1>1. PICK q \in Copies \cup {Empty} : Grown(p, q)
  BY CopiesGrow
<1>2. p \in Plan
  BY StepType DEF TypeOK, Copies
<1>3. v \in Acts \X (0..MaxTime) /\ w \in Acts \X (0..MaxTime)
  BY <1>2, PlanFields
<1>4. now' \in 0..MaxTime /\ now <= now'
  BY CopiesGrow
<1>5. Once(q)
  BY <1>1 DEF PaidOnce, Once, Empty
<1>6. HasExpired(v) \/ HasExpired(w)
  <2>1. CASE v \in q.wallet /\ w \in q.wallet
    BY <1>5, <2>1 DEF Once
  <2>2. CASE v \notin q.wallet \/ w \notin q.wallet
    <3>1. PICK f \in Acts : /\ p.wallet = q.wallet \cup {<<f, now>>}
                            /\ ~CanPerformScan(q, App[f], Product[f])
      BY <1>1, <2>2 DEF Grown
    <3>2. CASE v = <<f, now>>
      <4>1. w \in q.wallet /\ App[w[1]] = App[f] /\ Product[w[1]] = Product[f]
        BY <3>1, <3>2
      <4> QED
        BY <3>1, <4>1 DEF CanPerformScan
    <3>3. CASE w = <<f, now>>
      <4>1. v \in q.wallet /\ App[v[1]] = App[f] /\ Product[v[1]] = Product[f]
        BY <3>1, <3>3
      <4> QED
        BY <3>1, <4>1 DEF CanPerformScan
    <3> QED
      BY <2>2, <3>1, <3>2, <3>3
  <2> QED
    BY <2>1, <2>2
<1> QED
  BY <1>3, <1>4, <1>6, ExpiredStays

LEMMA PaidOnceInit == Init => PaidOnce
BY CreditsAssumption DEF Init, PaidOnce, Once, Copies, Empty

\* No copy of the plan holds two valid subscriptions of one application to one
\* product, whatever requests overlap.
THEOREM PaidOnceHolds == Spec => []PaidOnce
BY PaidOnceInit, PaidOnceStep, TypeCorrect, PTL DEF Spec

-----------------------------------------------------------------------------
(* Requests that are alone.                                                *)

LEMMA AloneInit == Init => AloneInvariant
BY CreditsAssumption
   DEF Init, AloneInvariant, OpenTogether, UpToDate, NoLoss, Carried, Open, Saved, Writers, Requests

\* The steps of a request, as far as the invariant can see them.
Begins(f) ==
  /\ pc[f] = "start"
  /\ \/ plan' = [plan EXCEPT ![f] = db] /\ Goes(f, "read")
     \/ /\ f \in Scans /\ db = NoPlan
        /\ plan' = [plan EXCEPT ![f] = Empty] /\ Goes(f, "update")
  /\ overlap' = IF Open = {} THEN overlap ELSE overlap \cup Open \cup {f}
  /\ UNCHANGED <<db, now>>

Computes(f) ==
  /\ pc[f] = "read" /\ f \in Writers
  /\ \E p \in Plan : /\ Effect(f, plan[f], p)
                     /\ Changes(f, p)

Writes(f) ==
  /\ pc[f] = "update"
  /\ db' = plan[f]
  /\ \E l \in Pc \ {"start", "read", "update"} : Goes(f, l)
  /\ \A g \in Requests \ {f} : plan'[g] = plan[g]
  /\ plan'[f] \in {plan[f], db, NoPlan}
  /\ UNCHANGED <<now, overlap>>

Stops(f) ==
  /\ \E l \in Pc \ {"start", "read", "update", "done", "late"} : Goes(f, l)
  /\ \A g \in Requests \ {f} : plan'[g] = plan[g]
  /\ plan'[f] \in {plan[f], db, NoPlan}
  /\ UNCHANGED <<db, now, overlap>>

Waits == UNCHANGED <<db, plan, pc, overlap>> /\ now' \in 0..MaxTime /\ now <= now'

LEMMA EffectHolds ==
  ASSUME TypeOK, NEW f \in Writers, NEW p, NEW q, p \in Plan \cup {NoPlan}, Effect(f, p, q)
  PROVE  q \in Plan /\ Holds(q, f) /\ \A g \in Writers : Holds(p, g) => Holds(q, g)
<1> USE CreditsAssumption, PlanFields DEF TypeOK, Writers
<1>1. p \in Plan /\ p # NoPlan
  BY DEF Effect
<1>2. CASE f \in Buys
  <2>1. q = AddCredit(p, f)
    BY <1>2 DEF Effect
  <2>2. /\ q \in Plan /\ q.mkpPurchases = p.mkpPurchases \cup {f}
        /\ q.wallet = p.wallet
    BY <1>1, <1>2, <2>1, AddCreditPlan
  <2> QED
    BY <1>1, <1>2, <2>2 DEF Holds
<1>3. CASE f \in Acts
  <2>1. PICK t \in 0..MaxTime : q = Subscribed(p, f, t)
    BY <1>3 DEF Effect
  <2>2. p.credits[Item(f)] > 0
    BY <1>3 DEF Effect
  <2>3. /\ q \in Plan /\ q.mkpPurchases = p.mkpPurchases
        /\ q.wallet = p.wallet \cup {<<f, t>>}
    BY <1>1, <1>3, <2>1, <2>2, SubscribedPlan
  <2> QED
    BY <1>1, <1>3, <2>3 DEF Holds
<1> QED
  BY <1>2, <1>3

\* Every step is one of these.
LEMMA StepKinds ==
  ASSUME TypeOK, [Next]_vars
  PROVE  Waits \/ \E f \in Requests : Begins(f) \/ Computes(f) \/ Writes(f) \/ Stops(f)
<1> USE CreditsAssumption, PlanFields DEF Writers, Requests, Pc
<1>1. ASSUME NEW f \in Buys, Buy(f)
      PROVE  Begins(f) \/ Computes(f) \/ Writes(f) \/ Stops(f)
  <2>1. CASE Read(f)
    BY <2>1 DEF Read, Load, Begins
  <2>2. CASE BuyChange(f)
    <3>1. CASE Ends(f, "refused")
      BY <3>1 DEF Ends, Stops, Drops, TypeOK
    <3>2. CASE plan[f] # NoPlan /\ Changes(f, AddCredit(plan[f], f))
      <4>1. plan[f] \in Plan
        BY <3>2 DEF TypeOK
      <4>2. AddCredit(plan[f], f) \in Plan
        BY <4>1, AddCreditPlan
      <4>3. Effect(f, plan[f], AddCredit(plan[f], f))
        BY <3>2 DEF Effect
      <4> QED
        BY <2>2, <3>2, <4>2, <4>3 DEF Computes, BuyChange
    <3> QED
      BY <2>2, <3>1, <3>2 DEF BuyChange
  <2>3. CASE BuyUpdate(f)
    BY <2>3 DEF BuyUpdate, Saves, Ends, Written, Drops, Writes, Stops, TypeOK
  <2> QED
    BY <1>1, <2>1, <2>2, <2>3 DEF Buy
<1>2. ASSUME NEW f \in Acts, Activate(f)
      PROVE  Begins(f) \/ Computes(f) \/ Writes(f) \/ Stops(f)
  <2>1. CASE Read(f)
    BY <2>1 DEF Read, Load, Begins
  <2>2. CASE SubChange(f)
    <3>1. CASE Ends(f, "refused") \/ Ends(f, "had")
      BY <3>1 DEF Ends, Stops, Drops, TypeOK
    <3>2. CASE /\ plan[f] # NoPlan /\ HasEnoughCredit(plan[f], f)
               /\ Changes(f, Subscribed(plan[f], f, now))
      <4>1. plan[f] \in Plan /\ now \in 0..MaxTime
        BY <3>2 DEF TypeOK
      <4>2. Effect(f, plan[f], Subscribed(plan[f], f, now))
        BY <3>2, <4>1 DEF Effect, HasEnoughCredit
      <4>3. Subscribed(plan[f], f, now) \in Plan
        BY <4>1, <4>2, EffectHolds
      <4> QED
        BY <2>2, <3>2, <4>2, <4>3 DEF Computes, SubChange
    <3> QED
      BY <2>2, <3>1, <3>2 DEF SubChange
  <2>3. CASE ScanChange(f)
    BY <2>3 DEF ScanChange, Ends, Stops, Drops, TypeOK
  <2>4. CASE ActUpdate(f)
    BY <2>4 DEF ActUpdate, Saves, Ends, Written, Drops, Writes, Stops, TypeOK
  <2> QED
    BY <1>2, <2>1, <2>2, <2>3, <2>4 DEF Activate
<1>3. ASSUME NEW f \in Scans, Scan(f)
      PROVE  Waits \/ Begins(f) \/ Computes(f) \/ Writes(f) \/ Stops(f)
  <2>1. CASE ScanStart(f) \/ ScanEnd(f)
    BY <2>1 DEF ScanStart, ScanEnd, Waits, TypeOK
  <2>2. CASE VerifyRead(f)
    BY <2>2 DEF VerifyRead, Missing, Begins, Stops, TypeOK
  <2>3. CASE VerifyCreate(f)
    BY <2>3 DEF VerifyCreate, Written, Writes, Stops
  <2>4. CASE VerifyPass(f) \/ VerifyRefuse(f)
    BY <2>4 DEF VerifyPass, VerifyRefuse, Ends, Drops, Stops, TypeOK
  <2> QED
    BY <1>3, <2>1, <2>2, <2>3, <2>4 DEF Scan
<1>4. ASSUME Tick \/ UNCHANGED vars PROVE Waits
  BY <1>4 DEF Tick, vars, Waits, TypeOK
<1> QED
  BY <1>1, <1>2, <1>3, <1>4 DEF Next

LEMMA AloneBegins ==
  ASSUME TypeOK, AloneInvariant, NEW f \in Requests, Begins(f)
  PROVE  AloneInvariant'
<1> USE DEF TypeOK, Pc, Begins, Goes, AloneInvariant, Open, Saved, Writers, Requests
<1>1. /\ Open' = Open \cup {f} /\ f \notin Open /\ overlap \subseteq overlap'
      /\ \A g \in Requests \ {f} : pc'[g] = pc[g] /\ plan'[g] = plan[g]
  OBVIOUS
<1>2. \A g \in Requests : Saved(g)' => Saved(g) /\ g # f
  OBVIOUS
<1>3. OpenTogether'
  BY <1>1 DEF OpenTogether
<1>4. UpToDate'
  <2> SUFFICES ASSUME NEW g \in Open', g \notin overlap'
               PROVE  /\ pc'[g] = "read" => plan'[g] = db'
                      /\ pc'[g] = "update" => Effect(g, db', plan'[g])
    BY DEF UpToDate
  <2>1. CASE g = f
    BY <2>1, CreditsAssumption DEF Effect
  <2>2. CASE g # f
    <3>1. g \in Open /\ g \notin overlap
      BY <1>1, <2>2
    <3> QED
      BY <1>1, <2>2, <3>1 DEF UpToDate, Effect, Subscribed, AddCredit
  <2> QED
    BY <2>1, <2>2
<1>5. NoLoss'
  BY <1>1, <1>2 DEF NoLoss, Holds
<1>6. Carried'
  <2> SUFFICES ASSUME NEW g \in Open', NEW h \in Writers, Saved(h)', h \notin overlap'
               PROVE  Holds(plan'[g], h)
    BY DEF Carried, Holds
  <2>1. Saved(h) /\ h # f /\ h \notin overlap /\ Holds(db, h)
    BY <1>1, <1>2 DEF NoLoss
  <2>2. CASE g = f
    BY <2>1, <2>2 DEF Holds
  <2>3. CASE g # f
    BY <1>1, <2>1, <2>3 DEF Carried
  <2> QED
    BY <2>2, <2>3
<1> QED
  BY <1>3, <1>4, <1>5, <1>6

LEMMA AloneComputes ==
  ASSUME TypeOK, AloneInvariant, NEW f \in Requests, Computes(f)
  PROVE  AloneInvariant'
<1> USE DEF TypeOK, Pc, AloneInvariant, Open, Saved, Writers, Requests
<1>1. PICK p \in Plan : Effect(f, plan[f], p) /\ Changes(f, p)
  BY DEF Computes
<1>2. /\ Open' = Open /\ f \in Open /\ f \in Writers
      /\ UNCHANGED <<db, now, overlap>>
      /\ pc[f] = "read" /\ pc'[f] = "update" /\ plan'[f] = p
      /\ \A g \in Requests \ {f} : pc'[g] = pc[g] /\ plan'[g] = plan[g]
  BY <1>1 DEF Computes, Changes, Goes
<1>3. \A g \in Requests : Saved(g)' => Saved(g) /\ g # f
  BY <1>2
<1>4. OpenTogether'
  BY <1>2 DEF OpenTogether
<1>5. UpToDate'
  <2> SUFFICES ASSUME NEW g \in Open', g \notin overlap'
               PROVE  /\ pc'[g] = "read" => plan'[g] = db'
                      /\ pc'[g] = "update" => Effect(g, db', plan'[g])
    BY DEF UpToDate, Effect
  <2>1. CASE g = f
    BY <1>1, <1>2, <2>1 DEF UpToDate
  <2>2. CASE g # f
    BY <1>2, <2>2 DEF UpToDate
  <2> QED
    BY <2>1, <2>2
<1>6. NoLoss'
  BY <1>2, <1>3 DEF NoLoss, Holds
<1>7. Carried'
  <2> SUFFICES ASSUME NEW g \in Open, NEW h \in Writers, Saved(h), h \notin overlap
               PROVE  Holds(plan'[g], h)
    BY <1>2, <1>3 DEF Carried, Holds
  <2>1. Holds(plan[g], h)
    BY DEF Carried
  <2>2. CASE g = f
    BY <1>1, <1>2, <2>1, <2>2, EffectHolds
  <2>3. CASE g # f
    BY <1>2, <2>1, <2>3
  <2> QED
    BY <2>2, <2>3
<1> QED
  BY <1>4, <1>5, <1>6, <1>7

LEMMA AloneWrites ==
  ASSUME TypeOK, AloneInvariant, NEW f \in Requests, Writes(f)
  PROVE  AloneInvariant'
<1> USE DEF TypeOK, Pc, AloneInvariant, Open, Saved, Writers, Requests
<1>1. /\ Open' = Open \ {f} /\ f \in Open /\ UNCHANGED <<now, overlap>>
      /\ pc[f] = "update" /\ db' = plan[f]
      /\ \A g \in Requests \ {f} : pc'[g] = pc[g] /\ plan'[g] = plan[g]
  BY DEF Writes, Goes
<1>2. \A g \in Open : g # f => g \in overlap /\ f \in overlap
  BY <1>1 DEF OpenTogether
<1>3. OpenTogether'
  BY <1>1 DEF OpenTogether
<1>4. UpToDate'
  <2>1. Open' \ overlap' = {}
    BY <1>1, <1>2
  <2> QED
    BY <2>1 DEF UpToDate
<1>5. NoLoss'
  <2> SUFFICES ASSUME NEW h \in Writers, Saved(h)', h \notin overlap
               PROVE  Holds(plan[f], h)
    BY <1>1 DEF NoLoss, Holds
  <2>1. CASE h = f
    <3>1. Effect(f, db, plan[f])
      BY <1>1, <2>1 DEF UpToDate
    <3> QED
      BY <2>1, <3>1, EffectHolds
  <2>2. CASE h # f
    BY <1>1, <2>2 DEF Carried
  <2> QED
    BY <2>1, <2>2
<1>6. Carried'
  <2> SUFFICES ASSUME NEW g \in Open', NEW h \in Writers, Saved(h)', h \notin overlap
               PROVE  Holds(plan[g], h)
    BY <1>1 DEF Carried, Holds
  <2>1. g \in Open /\ g # f /\ h # f
    BY <1>1, <1>2
  <2> QED
    BY <1>1, <2>1 DEF Carried
<1> QED
  BY <1>3, <1>4, <1>5, <1>6

LEMMA AloneStops ==
  ASSUME TypeOK, AloneInvariant, NEW f \in Requests, Stops(f)
  PROVE  AloneInvariant'
<1> USE DEF TypeOK, Pc, AloneInvariant, Open, Saved, Writers, Requests
<1>1. /\ Open' = Open \ {f} /\ UNCHANGED <<db, now, overlap>>
      /\ \A g \in Requests \ {f} : pc'[g] = pc[g] /\ plan'[g] = plan[g]
      /\ \A g \in Requests : Saved(g)' => Saved(g) /\ g # f
  BY DEF Stops, Goes
<1>2. OpenTogether'
  BY <1>1 DEF OpenTogether
<1>3. UpToDate'
  <2> SUFFICES ASSUME NEW g \in Open', g \notin overlap'
               PROVE  /\ pc'[g] = "read" => plan'[g] = db'
                      /\ pc'[g] = "update" => Effect(g, db', plan'[g])
    BY DEF UpToDate, Effect
  <2> QED
    BY <1>1 DEF UpToDate
<1>4. NoLoss'
  BY <1>1 DEF NoLoss, Holds
<1>5. Carried'
  BY <1>1 DEF Carried, Holds
<1> QED
  BY <1>2, <1>3, <1>4, <1>5

LEMMA AloneWaits ==
  ASSUME TypeOK, AloneInvariant, Waits
  PROVE  AloneInvariant'
<1> USE DEF Waits, AloneInvariant, Open, Saved
<1>1. OpenTogether' /\ NoLoss' /\ Carried'
  BY DEF OpenTogether, NoLoss, Carried, Holds
<1>2. UpToDate'
  BY DEF UpToDate, Effect
<1> QED
  BY <1>1, <1>2

LEMMA AloneStep == TypeOK /\ AloneInvariant /\ [Next]_vars => AloneInvariant'
BY StepKinds, AloneBegins, AloneComputes, AloneWrites, AloneStops, AloneWaits

THEOREM AloneInvariantHolds == Spec => []AloneInvariant
BY AloneInit, AloneStep, TypeCorrect, PTL DEF Spec

\* A purchase or a subscription that was saved by a request that overlapped no
\* other is in the record for ever.
THEOREM NoLossHolds == Spec => []NoLoss
<1>1. AloneInvariant => NoLoss
  BY DEF AloneInvariant
<1> QED
  BY <1>1, AloneInvariantHolds, PTL

LEMMA AtomicStep ==
  ASSUME TypeOK, AloneInvariant, [Next]_vars, NEW f \in Requests,
         pc[f] = "update", pc'[f] # "update", db' # db, f \notin overlap
  PROVE  Effect(f, db, db')
<1>1. PICK g \in Requests : Begins(g) \/ Computes(g) \/ Writes(g) \/ Stops(g)
  BY StepKinds DEF Waits
<1>2. Writes(g)
  BY <1>1 DEF Begins, Computes, Stops, Changes
<1>3. g = f
  BY <1>2 DEF Writes, Goes, TypeOK
<1> QED
  BY <1>2, <1>3 DEF Writes, AloneInvariant, UpToDate, Open

\* A request that overlapped no other changes the record as one atomic step.
THEOREM AtomicWhenAloneHolds == Spec => AtomicWhenAlone
<1>1. TypeOK /\ AloneInvariant /\ [Next]_vars
        => [\A f \in Requests :
              pc[f] = "update" /\ pc'[f] # "update" /\ db' # db /\ f \notin overlap
                => Effect(f, db, db')]_vars
  BY AtomicStep
<1> QED
  BY <1>1, TypeCorrect, AloneInvariantHolds, PTL DEF Spec, AtomicWhenAlone

-----------------------------------------------------------------------------
(* Induction over numbers.                                                 *)

\* What holds of 0, and of n + 1 when it holds of n, holds of every number: the least
\* number of which it does not hold would be the successor of one of which it does.
LEMMA Numbers ==
  ASSUME NEW B \in SUBSET Nat, 0 \in B, \A n \in B : n + 1 \in B
  PROVE  B = Nat
<1> SUFFICES ASSUME Nat \ B # {}  PROVE FALSE
  OBVIOUS
<1>1. IsWellFoundedOn(OpToRel(<, Nat), Nat)
  BY NatLessThanWellFounded
<1>2. PICK m \in Nat \ B : \A x \in Nat \ B : ~ (<<x, m>> \in OpToRel(<, Nat))
  BY <1>1, WFMin, Zenon
<1>3. \A x \in Nat : x < m => <<x, m>> \in OpToRel(<, Nat)
  BY Zenon DEF OpToRel
<1>4. m # 0 /\ m - 1 \in Nat /\ m - 1 < m
  OBVIOUS
<1>5. m - 1 \in B
  BY <1>2, <1>3, <1>4
<1> QED  BY <1>4, <1>5

-----------------------------------------------------------------------------
(* The sum of the quantities of a finite set of purchases.                 *)

Pick(s) == CHOOSE x \in s : TRUE

\* g is the sum over the sets of D, by the recursion that MapThenSumSet evaluates.
Adds(g, D) == g = [s \in D |-> IF s = {} THEN 0 ELSE Qty[Pick(s)] + g[s \ {Pick(s)}]]

Total(S) == MapThenSumSet(LAMBDA f : Qty[f], S)

\* What MapThenSumSet is for a set of purchases.
LEMMA TotalUnfolded ==
  ASSUME NEW S
  PROVE  Total(S) = (CHOOSE g : Adds(g, SUBSET S))[S]
BY DEF Total, MapThenSumSet, MapThenFoldSet, Adds, Pick

\* A subset of a finite set loses an element.
LEMMA PickOne ==
  ASSUME NEW S, IsFiniteSet(S), NEW s \in SUBSET S, s # {}, NEW x \in s
  PROVE  /\ Pick(s) \in s /\ IsFiniteSet(s) /\ Cardinality(s) \in Nat
         /\ s \ {x} \in SUBSET S /\ Cardinality(s \ {x}) + 1 = Cardinality(s)
         /\ Cardinality(s \ {x}) \in Nat
<1>1. IsFiniteSet(s) /\ Cardinality(s) \in Nat
  BY FS_Subset, FS_CardinalityType
<1>2. IsFiniteSet(s \ {x}) /\ Cardinality(s \ {x}) = Cardinality(s) - 1
  BY <1>1, FS_RemoveElement
<1>3. Cardinality(s \ {x}) \in Nat
  BY <1>2, FS_CardinalityType
<1>4. Pick(s) \in s
  BY DEF Pick
<1> QED  BY <1>1, <1>2, <1>3, <1>4

\* The recursion defines a function.
LEMMA AddsExists ==
  ASSUME NEW S, IsFiniteSet(S)
  PROVE  \E g : Adds(g, SUBSET S)
<1> DEFINE D(n) == {s \in SUBSET S : Cardinality(s) <= n}
           B == {n \in Nat : \E g : Adds(g, D(n))}
<1>1. \A s \in SUBSET S : IsFiniteSet(s) /\ Cardinality(s) \in Nat
  BY FS_Subset, FS_CardinalityType
<1>2. 0 \in B
  <2> DEFINE h == [s \in D(0) |-> 0]
  <2>1. \A s \in D(0) : s = {}
    BY <1>1, FS_EmptySet
  <2>2. Adds(h, D(0))
    BY <2>1 DEF Adds
  <2> QED  BY <2>2
<1>3. ASSUME NEW n \in B  PROVE n + 1 \in B
  <2>1. PICK g : Adds(g, D(n))
    BY <1>3
  <2> DEFINE h == [s \in D(n + 1) |-> IF s = {} THEN 0 ELSE Qty[Pick(s)] + g[s \ {Pick(s)}]]
  <2>2. \A s \in D(n) : s \in D(n + 1) /\ g[s] = h[s]
    <3> SUFFICES ASSUME NEW s \in D(n)  PROVE s \in D(n + 1) /\ g[s] = h[s]
      OBVIOUS
    <3>1. s \in D(n + 1)
      <4>1. Cardinality(s) \in Nat /\ Cardinality(s) <= n /\ n \in Nat
        BY <1>1
      <4>2. Cardinality(s) <= n + 1
        BY <4>1
      <4> QED  BY <4>2
    <3> HIDE DEF D
    <3> QED  BY <2>1, <3>1 DEF Adds
  <2>3. \A s \in D(n + 1) : s # {} => s \ {Pick(s)} \in D(n)
    <3> SUFFICES ASSUME NEW s \in D(n + 1), s # {}  PROVE s \ {Pick(s)} \in D(n)
      OBVIOUS
    <3>1. Pick(s) \in s
      BY DEF Pick
    <3> QED  BY <3>1, PickOne
  <2>4. h = [s \in D(n + 1) |-> IF s = {} THEN 0 ELSE Qty[Pick(s)] + h[s \ {Pick(s)}]]
    <3> HIDE DEF D
    <3>1. \A s \in D(n + 1) : s # {} => h[s \ {Pick(s)}] = g[s \ {Pick(s)}]
      BY <2>2, <2>3
    <3> QED  BY <3>1
  <2> HIDE DEF h
  <2>5. Adds(h, D(n + 1))
    BY <2>4 DEF Adds
  <2>6. n + 1 \in Nat
    OBVIOUS
  <2> HIDE DEF D
  <2> QED  BY <2>5, <2>6
<1>4. B = Nat
  <2> HIDE DEF B
  <2>1. B \in SUBSET Nat
    BY DEF B
  <2> QED  BY <1>2, <1>3, <2>1, Numbers
<1>5. Cardinality(S) \in Nat /\ D(Cardinality(S)) = SUBSET S
  <2>1. \A s \in SUBSET S : Cardinality(s) <= Cardinality(S)
    BY FS_Subset
  <2> QED  BY <1>1, <2>1
<1>6. PICK g : Adds(g, D(Cardinality(S)))
  BY <1>4, <1>5
<1> QED  BY <1>5, <1>6

\* It does not matter which element is added first, and the sum is a number.
LEMMA AddsAny ==
  ASSUME NEW S \in SUBSET Buys, IsFiniteSet(S), NEW g, Adds(g, SUBSET S)
  PROVE  \A s \in SUBSET S : g[s] \in Int /\ \A x \in s : g[s] = Qty[x] + g[s \ {x}]
<1> DEFINE P(s) == g[s] \in Int /\ \A x \in s : g[s] = Qty[x] + g[s \ {x}]
           B == {n \in Nat : \A s \in SUBSET S : Cardinality(s) <= n => P(s)}
<1>1. \A s \in SUBSET S : IsFiniteSet(s) /\ Cardinality(s) \in Nat
  BY FS_Subset, FS_CardinalityType
<1>2. \A x \in S : Qty[x] \in Int
  BY CreditsAssumption
<1>3. P({})
  BY DEF Adds
<1>4. 0 \in B
  <2> SUFFICES ASSUME NEW s \in SUBSET S, Cardinality(s) <= 0  PROVE P(s)
    OBVIOUS
  <2>1. s = {}
    BY <1>1, FS_EmptySet
  <2> QED  BY <1>3, <2>1
<1>5. ASSUME NEW n \in B  PROVE n + 1 \in B
  <2> HIDE DEF P
  <2>0. n \in Nat /\ n + 1 \in Nat
    OBVIOUS
  <2> SUFFICES ASSUME NEW s \in SUBSET S, Cardinality(s) <= n + 1, s # {}  PROVE P(s)
    BY <1>3, <2>0
  <2> DEFINE y == Pick(s)
  <2>1. y \in s
    BY DEF Pick
  <2>2. g[s] = Qty[y] + g[s \ {y}]
    BY DEF Adds
  <2> HIDE DEF y
  <2>3. \A t \in SUBSET S : Cardinality(t) <= n => P(t)
    OBVIOUS
  <2>4. \A x \in s : P(s \ {x})
    <3> SUFFICES ASSUME NEW x \in s  PROVE P(s \ {x})
      OBVIOUS
    <3>1. s \ {x} \in SUBSET S /\ Cardinality(s \ {x}) + 1 = Cardinality(s) /\ Cardinality(s \ {x}) \in Nat
      BY PickOne
    <3>2. Cardinality(s \ {x}) <= n
      BY <1>1, <2>0, <3>1
    <3> QED  BY <2>3, <3>1, <3>2
  <2>5. \A x, z \in s : x # z => g[(s \ {x}) \ {z}] \in Int
    <3> SUFFICES ASSUME NEW x \in s, NEW z \in s, x # z  PROVE P((s \ {x}) \ {z})
      BY DEF P
    <3>1. s \ {x} \in SUBSET S /\ Cardinality(s \ {x}) + 1 = Cardinality(s) /\ Cardinality(s \ {x}) \in Nat
      BY PickOne
    <3> DEFINE t == s \ {x}
    <3>2. t \ {z} \in SUBSET S /\ Cardinality(t \ {z}) + 1 = Cardinality(t) /\ Cardinality(t \ {z}) \in Nat
      <4>1. t \in SUBSET S /\ z \in t /\ t # {}
        OBVIOUS
      <4> HIDE DEF t
      <4> QED  BY <4>1, PickOne
    <3>3. Cardinality((s \ {x}) \ {z}) <= n
      BY <1>1, <2>0, <3>1, <3>2
    <3> QED  BY <2>3, <3>2, <3>3
  <2> USE DEF P
  <2>6. g[s] \in Int
    <3>1. g[s \ {y}] \in Int
      BY <2>1, <2>4, Zenon
    <3>2. Qty[y] \in Int
      BY <1>2, <2>1
    <3> HIDE DEF P
    <3> QED  BY <2>2, <3>1, <3>2
  <2>7. ASSUME NEW x \in s, x # y  PROVE g[s] = Qty[x] + g[s \ {x}]
    <3>1. (s \ {y}) \ {x} = (s \ {x}) \ {y}
      OBVIOUS
    <3>2. g[s \ {y}] = Qty[x] + g[(s \ {x}) \ {y}]
      <4>1. P(s \ {y}) /\ x \in s \ {y}
        BY <2>1, <2>4, <2>7
      <4>2. g[s \ {y}] = Qty[x] + g[(s \ {y}) \ {x}]
        BY <4>1
      <4> QED  BY <3>1, <4>2
    <3>3. g[s \ {x}] = Qty[y] + g[(s \ {x}) \ {y}]
      BY <2>1, <2>4, <2>7
    <3>4. Qty[x] \in Int /\ Qty[y] \in Int
      BY <1>2, <2>1
    <3>5. g[(s \ {x}) \ {y}] \in Int
      BY <2>1, <2>5, <2>7
    <3> HIDE DEF P
    <3> QED  BY <2>2, <3>2, <3>3, <3>4, <3>5
  <2> QED  BY <2>2, <2>6, <2>7
<1>6. B = Nat
  <2> HIDE DEF B
  <2>1. B \in SUBSET Nat
    BY DEF B
  <2> QED  BY <1>4, <1>5, <2>1, Numbers
<1> QED  BY <1>1, <1>6

\* A set and a larger one: the sum over the first is the same in both recursions.
LEMMA AddsSame ==
  ASSUME NEW S \in SUBSET Buys, IsFiniteSet(S), NEW T, T \subseteq S,
         NEW g, Adds(g, SUBSET S), NEW h, Adds(h, SUBSET T)
  PROVE  g[T] = h[T]
<1> DEFINE B == {n \in Nat : \A s \in SUBSET T : Cardinality(s) <= n => g[s] = h[s]}
<1>1. \A s \in SUBSET T : IsFiniteSet(s) /\ Cardinality(s) \in Nat
  BY FS_Subset, FS_CardinalityType
<1>2. g[{}] = h[{}]
  BY DEF Adds
<1>3. 0 \in B
  BY <1>1, <1>2, FS_EmptySet
<1>4. ASSUME NEW n \in B  PROVE n + 1 \in B
  <2>0. n \in Nat /\ n + 1 \in Nat
    OBVIOUS
  <2> SUFFICES ASSUME NEW s \in SUBSET T, Cardinality(s) <= n + 1, s # {}  PROVE g[s] = h[s]
    BY <1>2, <2>0
  <2>1. Pick(s) \in s
    BY DEF Pick
  <2>2. g[s] = Qty[Pick(s)] + g[s \ {Pick(s)}] /\ h[s] = Qty[Pick(s)] + h[s \ {Pick(s)}]
    BY DEF Adds
  <2>3. /\ s \ {Pick(s)} \in SUBSET T /\ Cardinality(s \ {Pick(s)}) + 1 = Cardinality(s)
        /\ Cardinality(s \ {Pick(s)}) \in Nat
    BY <1>1, <2>1, PickOne
  <2>4. Cardinality(s \ {Pick(s)}) <= n
    BY <1>1, <2>0, <2>3
  <2> QED  BY <1>4, <2>2, <2>3, <2>4
<1>5. B = Nat
  <2> HIDE DEF B
  <2>1. B \in SUBSET Nat
    BY DEF B
  <2> QED  BY <1>3, <1>4, <2>1, Numbers
<1> QED  BY <1>1, <1>5

\* The sum of the quantities grows by the quantity of the purchase that is added.
LEMMA TotalGrows ==
  ASSUME NEW S \in SUBSET Buys, IsFiniteSet(S)
  PROVE  /\ Total({}) = 0 /\ Total(S) \in Int
         /\ \A f \in Buys \ S : Total(S \cup {f}) = Total(S) + Qty[f]
<1>1. \A T : IsFiniteSet(T) => \E g : Adds(g, SUBSET T) /\ Total(T) = g[T]
  BY AddsExists, TotalUnfolded
<1>2. Total({}) = 0
  <2>1. PICK g : Adds(g, SUBSET {}) /\ Total({}) = g[{}]
    BY <1>1, FS_EmptySet
  <2> QED  BY <2>1 DEF Adds
<1>3. PICK h : Adds(h, SUBSET S) /\ Total(S) = h[S]
  BY <1>1
<1>4. Total(S) \in Int
  <2>1. S \in SUBSET S
    OBVIOUS
  <2>2. h[S] \in Int
    BY <1>3, <2>1, AddsAny, Zenon
  <2> QED  BY <1>3, <2>2
<1>5. ASSUME NEW f \in Buys \ S  PROVE Total(S \cup {f}) = Total(S) + Qty[f]
  <2> DEFINE U == S \cup {f}
  <2>1. IsFiniteSet(U)
    BY FS_AddElement
  <2>2. PICK g : Adds(g, SUBSET U) /\ Total(U) = g[U]
    BY <1>1, <2>1
  <2>3. U \in SUBSET Buys /\ f \in U /\ U \ {f} = S /\ S \subseteq U /\ S \in SUBSET U
    OBVIOUS
  <2> HIDE DEF U
  <2>4. g[U] = Qty[f] + g[S]
    BY <2>1, <2>2, <2>3, AddsAny
  <2>5. g[S] = h[S]
    <3>1. Adds(g, SUBSET U) /\ Adds(h, SUBSET S)
      BY <1>3, <2>2
    <3> HIDE DEF Total
    <3> QED  BY <2>1, <2>3, <3>1, AddsSame, Zenon
  <2>6. Qty[f] \in Int
    BY CreditsAssumption
  <2> QED  BY <1>3, <1>4, <2>2, <2>4, <2>5, <2>6 DEF U
<1> QED  BY <1>2, <1>4, <1>5

-----------------------------------------------------------------------------
(* What was bought is what was paid with plus what is left.                *)

\* The plan p is finite and its accounts are right.  What was bought is at most what was
\* added, since some quantities may be negative.
Audited(p) ==
  /\ IsFiniteSet(p.mkpPurchases) /\ IsFiniteSet(p.wallet)
  /\ \A i \in Items : /\ Bought(p, i) = Credit * Paid(p, i) + p.credits[i]
                      /\ Bought(p, i) <= Added(p, i)
                      /\ Credit * Paid(p, i) < Added(p, i) + Credit

\* Who has not changed its copy yet is named by no copy.
Unnamed(p) == \A f \in Writers : pc[f] \in {"start", "read"} => ~Holds(p, f)

BalanceInvariant == \A p \in Copies : Audited(p) /\ Unnamed(p)

\* The purchases of p about i, those of them that add, and the subscriptions.
Purchases(p, i) == {g \in p.mkpPurchases : Item(g) = i}
Gains(p, i)     == {g \in p.mkpPurchases : Item(g) = i /\ Qty[g] > 0}
Subs(p, i)      == {w \in p.wallet : Item(w[1]) = i}

\* The accounts of a plan in terms of these sets.
LEMMA Accounts ==
  ASSUME NEW p, NEW i
  PROVE  /\ Bought(p, i) = Total(Purchases(p, i))
         /\ Added(p, i) = Total(Gains(p, i))
         /\ Paid(p, i) = Cardinality(Subs(p, i))
BY DEF Bought, Added, Paid, Total, Purchases, Gains, Subs

\* Of finite sets, the accounts are numbers.
LEMMA AccountsType ==
  ASSUME NEW p \in Plan, IsFiniteSet(p.mkpPurchases), IsFiniteSet(p.wallet), NEW i
  PROVE  /\ Purchases(p, i) \in SUBSET Buys /\ IsFiniteSet(Purchases(p, i))
         /\ Gains(p, i) \in SUBSET Buys /\ IsFiniteSet(Gains(p, i))
         /\ IsFiniteSet(Subs(p, i))
         /\ Bought(p, i) \in Int /\ Added(p, i) \in Int /\ Paid(p, i) \in Nat
<1>1. Purchases(p, i) \in SUBSET Buys /\ Gains(p, i) \in SUBSET Buys
  BY PlanFields DEF Purchases, Gains
<1>2. IsFiniteSet(Purchases(p, i)) /\ IsFiniteSet(Gains(p, i)) /\ IsFiniteSet(Subs(p, i))
  BY FS_Subset DEF Purchases, Gains, Subs
<1>3. Total(Purchases(p, i)) \in Int /\ Total(Gains(p, i)) \in Int
  BY <1>1, <1>2, TotalGrows
<1>4. Cardinality(Subs(p, i)) \in Nat
  BY <1>2, FS_CardinalityType
<1> QED  BY <1>1, <1>2, <1>3, <1>4, Accounts

\* What one subscription more costs.
LEMMA Cost ==
  ASSUME NEW n \in Nat
  PROVE  Credit * n \in Int /\ Credit * (n + 1) = Credit * n + Credit /\ Credit * 0 = 0
         /\ Credit \in Int /\ Credit > 0
BY CreditsAssumption

\* The empty plan is balanced, and names nobody.
LEMMA EmptyAudited == Audited(Empty) /\ Unnamed(Empty)
<1>1. Empty.mkpPurchases = {} /\ Empty.wallet = {} /\ \A i \in Items : Empty.credits[i] = 0
  BY DEF Empty
<1>2. Total({}) = 0
  BY TotalGrows, FS_EmptySet
<1>3. ASSUME NEW i \in Items  PROVE Bought(Empty, i) = 0 /\ Paid(Empty, i) = 0 /\ Added(Empty, i) = 0
  <2>1. Purchases(Empty, i) = {} /\ Gains(Empty, i) = {} /\ Subs(Empty, i) = {}
    BY <1>1 DEF Purchases, Gains, Subs
  <2> QED  BY <1>2, <2>1, Accounts, FS_EmptySet
<1>4. Credit * 0 = 0 /\ Credit \in Int /\ Credit > 0
  BY Cost
<1> QED  BY <1>1, <1>3, <1>4, FS_EmptySet DEF Audited, Unnamed, Holds

\* A purchase that is not in the plan yet adds its quantity on both sides.
LEMMA AddAudited ==
  ASSUME NEW p \in Plan, Audited(p), NEW f \in Buys, f \notin p.mkpPurchases
  PROVE  Audited(AddCredit(p, f))
<1> DEFINE q == AddCredit(p, f)
<1>1. /\ q.mkpPurchases = p.mkpPurchases \cup {f} /\ q.wallet = p.wallet
      /\ p.mkpPurchases \in SUBSET Buys /\ p.credits \in [Items -> Int]
  BY AddCreditPlan, PlanFields
<1>2. q.credits = [p.credits EXCEPT ![Item(f)] = @ + Qty[f]]
  BY DEF AddCredit, Plan
<1>3. IsFiniteSet(p.mkpPurchases) /\ IsFiniteSet(p.wallet)
  BY DEF Audited
<1>4. IsFiniteSet(q.mkpPurchases) /\ IsFiniteSet(q.wallet)
  BY <1>1, <1>3, FS_AddElement
<1>5. Item(f) \in Items /\ Qty[f] \in Int
  BY ItemType, CreditsAssumption DEF Writers
<1>6. ASSUME NEW i \in Items
      PROVE  /\ Bought(q, i) = Credit * Paid(q, i) + q.credits[i]
             /\ Bought(q, i) <= Added(q, i)
             /\ Credit * Paid(q, i) < Added(q, i) + Credit
  <2>1. /\ Purchases(p, i) \in SUBSET Buys /\ IsFiniteSet(Purchases(p, i))
        /\ Gains(p, i) \in SUBSET Buys /\ IsFiniteSet(Gains(p, i))
        /\ Bought(p, i) \in Int /\ Added(p, i) \in Int /\ Paid(p, i) \in Nat
    BY <1>3, AccountsType
  <2>2. Paid(q, i) = Paid(p, i)
    BY <1>1 DEF Paid
  <2>3. f \notin Purchases(p, i) /\ f \notin Gains(p, i)
    BY DEF Purchases, Gains
  <2>4. /\ Purchases(q, i) = IF Item(f) = i THEN Purchases(p, i) \cup {f} ELSE Purchases(p, i)
        /\ Gains(q, i) = IF Item(f) = i /\ Qty[f] > 0 THEN Gains(p, i) \cup {f} ELSE Gains(p, i)
    BY <1>1 DEF Purchases, Gains
  <2>5. q.credits[i] = IF Item(f) = i THEN p.credits[i] + Qty[f] ELSE p.credits[i]
    BY <1>1, <1>2, <1>5
  <2>6. /\ Total(Purchases(p, i) \cup {f}) = Bought(p, i) + Qty[f]
        /\ Total(Gains(p, i) \cup {f}) = Added(p, i) + Qty[f]
    BY <2>1, <2>3, TotalGrows, Accounts
  <2>7. /\ Bought(q, i) = IF Item(f) = i THEN Bought(p, i) + Qty[f] ELSE Bought(p, i)
        /\ Added(q, i) = IF Item(f) = i /\ Qty[f] > 0 THEN Added(p, i) + Qty[f] ELSE Added(p, i)
    BY <2>4, <2>6, Accounts
  <2>8. /\ Bought(p, i) = Credit * Paid(p, i) + p.credits[i]
        /\ Bought(p, i) <= Added(p, i)
        /\ Credit * Paid(p, i) < Added(p, i) + Credit
    BY DEF Audited
  <2>9. p.credits[i] \in Int /\ Credit * Paid(p, i) \in Int /\ Credit \in Int
    BY <1>1, <2>1, Cost
  <2> DEFINE cost == Credit * Paid(p, i)
  <2>10. cost \in Int /\ Bought(p, i) = cost + p.credits[i] /\ cost < Added(p, i) + Credit
    BY <2>8, <2>9
  <2> HIDE DEF cost, q
  <2>11. /\ Bought(q, i) = cost + q.credits[i]
         /\ Bought(q, i) <= Added(q, i)
         /\ cost < Added(q, i) + Credit
    BY <1>5, <2>1, <2>5, <2>7, <2>8, <2>9, <2>10
  <2> QED  BY <2>2, <2>11 DEF cost
<1> HIDE DEF q
<1>7. Audited(q)
  BY <1>4, <1>6 DEF Audited
<1> QED  BY <1>7 DEF q

\* So does a subscription, which costs one credit and is only made when some is left.
LEMMA SubAudited ==
  ASSUME NEW p \in Plan, Audited(p), NEW f \in Acts, NEW t \in 0..MaxTime,
         p.credits[Item(f)] > 0, <<f, t>> \notin p.wallet
  PROVE  Audited(Subscribed(p, f, t))
<1> DEFINE q == Subscribed(p, f, t)
<1>1. /\ q.mkpPurchases = p.mkpPurchases /\ q.wallet = p.wallet \cup {<<f, t>>}
      /\ p.credits \in [Items -> Int]
  BY SubscribedPlan, PlanFields
<1>2. q.credits = [p.credits EXCEPT ![Item(f)] = @ - Credit]
  BY DEF Subscribed, Plan
<1>3. IsFiniteSet(p.mkpPurchases) /\ IsFiniteSet(p.wallet)
  BY DEF Audited
<1>4. IsFiniteSet(q.mkpPurchases) /\ IsFiniteSet(q.wallet)
  BY <1>1, <1>3, FS_AddElement
<1>5. Item(f) \in Items
  BY ItemType DEF Writers
<1>6. ASSUME NEW i \in Items
      PROVE  /\ Bought(q, i) = Credit * Paid(q, i) + q.credits[i]
             /\ Bought(q, i) <= Added(q, i)
             /\ Credit * Paid(q, i) < Added(q, i) + Credit
  <2>1. Bought(q, i) = Bought(p, i) /\ Added(q, i) = Added(p, i)
    BY <1>1 DEF Bought, Added
  <2>2. /\ IsFiniteSet(Subs(p, i))
        /\ Bought(p, i) \in Int /\ Added(p, i) \in Int /\ Paid(p, i) \in Nat
    BY <1>3, AccountsType
  <2>3. Subs(q, i) = IF Item(f) = i THEN Subs(p, i) \cup {<<f, t>>} ELSE Subs(p, i)
    BY <1>1 DEF Subs
  <2>4. Cardinality(Subs(p, i) \cup {<<f, t>>}) = Cardinality(Subs(p, i)) + 1
    <3>1. <<f, t>> \notin Subs(p, i)
      BY DEF Subs
    <3> QED  BY <2>2, <3>1, FS_AddElement
  <2>5. Paid(q, i) = IF Item(f) = i THEN Paid(p, i) + 1 ELSE Paid(p, i)
    BY <2>3, <2>4, Accounts
  <2>6. q.credits[i] = IF Item(f) = i THEN p.credits[i] - Credit ELSE p.credits[i]
    BY <1>1, <1>2, <1>5
  <2>7. /\ Bought(p, i) = Credit * Paid(p, i) + p.credits[i]
        /\ Bought(p, i) <= Added(p, i)
        /\ Credit * Paid(p, i) < Added(p, i) + Credit
    BY DEF Audited
  <2>8. /\ p.credits[i] \in Int /\ Credit * Paid(p, i) \in Int /\ Credit \in Int
        /\ Credit * (Paid(p, i) + 1) = Credit * Paid(p, i) + Credit
    BY <1>1, <2>2, Cost
  <2> DEFINE cost == Credit * Paid(p, i)
             next == Credit * Paid(q, i)
  <2>9. /\ cost \in Int /\ Bought(p, i) = cost + p.credits[i] /\ cost < Added(p, i) + Credit
        /\ next = IF Item(f) = i THEN cost + Credit ELSE cost
    BY <2>5, <2>7, <2>8
  <2> HIDE DEF cost, next, q
  <2>10. /\ Bought(q, i) = next + q.credits[i]
         /\ Bought(q, i) <= Added(q, i)
         /\ next < Added(q, i) + Credit
    BY <2>1, <2>2, <2>6, <2>7, <2>8, <2>9
  <2> QED  BY <2>10 DEF next
<1> HIDE DEF q
<1>7. Audited(q)
  BY <1>4, <1>6 DEF Audited
<1> QED  BY <1>7 DEF q

\* At first there is no plan, or the empty one.
LEMMA BalanceInit == Init => BalanceInvariant
<1> SUFFICES ASSUME Init, NEW p \in Copies  PROVE Audited(p) /\ Unnamed(p)
  BY DEF BalanceInvariant
<1>1. p = Empty
  BY DEF Init, Copies
<1> QED  BY <1>1, EmptyAudited

\* A step makes at most one new copy: a request changes the copy it read.
LEMMA BalanceStep == TypeOK /\ BalanceInvariant /\ [Next]_vars => BalanceInvariant'
<1> SUFFICES ASSUME TypeOK, BalanceInvariant, [Next]_vars  PROVE BalanceInvariant'
  OBVIOUS
<1> SUFFICES ASSUME NEW p \in Copies'  PROVE Audited(p) /\ Unnamed(p)'
  BY DEF BalanceInvariant
<1>1. Waits \/ \E f \in Requests : Begins(f) \/ Computes(f) \/ Writes(f) \/ Stops(f)
  BY StepKinds
<1>2. \A f \in Requests : pc'[f] \in {"start", "read"} => pc[f] \in {"start", "read"}
  BY <1>1 DEF Waits, Begins, Computes, Writes, Stops, Changes, Goes, TypeOK, Pc
<1>3. CASE p \in Copies \cup {Empty}
  <2>1. Audited(p) /\ Unnamed(p)
    BY <1>3, EmptyAudited DEF BalanceInvariant
  <2> QED  BY <1>2, <2>1 DEF Unnamed, Holds, Requests
<1>4. ASSUME NEW f \in Requests, Computes(f), p \notin Copies
      PROVE  Audited(p) /\ Unnamed(p)'
  <2>1. PICK q \in Plan : Effect(f, plan[f], q) /\ Changes(f, q)
    BY <1>4 DEF Computes
  <2>2. p = q /\ f \in Writers /\ pc[f] = "read"
    BY <1>4, <2>1 DEF Computes, Changes, Copies, TypeOK
  <2>3. plan[f] \in Plan /\ plan[f] \in Copies
    BY <2>1, <2>2, CreditsAssumption DEF Effect, TypeOK, Writers, Copies
  <2>4. Audited(plan[f]) /\ Unnamed(plan[f]) /\ ~Holds(plan[f], f)
    BY <2>2, <2>3 DEF BalanceInvariant, Unnamed
  <2>5. Audited(q)
    <3>1. CASE f \in Buys
      <4>1. f \notin plan[f].mkpPurchases /\ q = AddCredit(plan[f], f)
        BY <2>1, <2>2, <2>3, <2>4, <3>1, PlanFields, CreditsAssumption DEF Holds, Effect, Writers
      <4> QED  BY <2>3, <2>4, <3>1, <4>1, AddAudited
    <3>2. CASE f \in Acts
      <4>1. PICK t \in 0..MaxTime : q = Subscribed(plan[f], f, t)
        BY <2>1, <2>2, <3>2, CreditsAssumption DEF Effect, Writers
      <4>2. plan[f].credits[Item(f)] > 0
        BY <2>1, <2>2, <3>2, CreditsAssumption DEF Effect, Writers
      <4>3. <<f, t>> \notin plan[f].wallet
        BY <2>3, <2>4, <3>2, PlanFields, CreditsAssumption DEF Holds
      <4> QED  BY <2>3, <2>4, <3>2, <4>1, <4>2, <4>3, SubAudited
    <3> QED  BY <2>2, <3>1, <3>2 DEF Writers
  <2>6. \A g \in Writers \ {f} : Holds(q, g) => Holds(plan[f], g)
    <3>1. CASE f \in Buys
      <4>1. q = AddCredit(plan[f], f)
        BY <2>1, <2>2, <3>1, CreditsAssumption DEF Effect, Writers
      <4>2. q.mkpPurchases = plan[f].mkpPurchases \cup {f} /\ q.wallet = plan[f].wallet
        BY <2>3, <3>1, <4>1, AddCreditPlan
      <4> QED  BY <2>3, <4>2, PlanFields DEF Holds
    <3>2. CASE f \in Acts
      <4>1. PICK t \in 0..MaxTime : q = Subscribed(plan[f], f, t)
        BY <2>1, <2>2, <3>2, CreditsAssumption DEF Effect, Writers
      <4>2. plan[f].credits[Item(f)] > 0
        BY <2>1, <2>2, <3>2, CreditsAssumption DEF Effect, Writers
      <4>3. q.mkpPurchases = plan[f].mkpPurchases /\ q.wallet = plan[f].wallet \cup {<<f, t>>}
        BY <2>3, <3>2, <4>1, <4>2, SubscribedPlan
      <4> QED  BY <2>3, <4>3, PlanFields DEF Holds
    <3> QED  BY <2>2, <3>1, <3>2 DEF Writers
  <2>7. pc'[f] = "update"
    BY <2>1, <2>2 DEF Changes, Goes, TypeOK, Requests, Writers
  <2>8. Unnamed(q)'
    BY <1>2, <2>4, <2>6, <2>7 DEF Unnamed, Holds, Requests
  <2> QED  BY <2>2, <2>5, <2>8
<1>5. ASSUME NEW f \in Requests, Begins(f) \/ Writes(f) \/ Stops(f)
      PROVE  p \in Copies \cup {Empty}
  BY <1>5 DEF Begins, Writes, Stops, Copies, TypeOK
<1>6. CASE Waits
  BY <1>3, <1>6 DEF Waits, Copies
<1> QED  BY <1>1, <1>3, <1>4, <1>5, <1>6

\* In every copy of the plan, whatever requests overlap and whichever writes fail:
\* credits bought are credits spent plus credits left.
THEOREM BalancedHolds == Spec => []Balanced
<1>1. BalanceInvariant => Balanced
  BY DEF BalanceInvariant, Balanced, Audited
<1> QED  BY <1>1, BalanceInit, BalanceStep, TypeCorrect, PTL DEF Spec

\* addSubscription(), addCredit(): whatever quantities are bought, negative ones and
\* fractions included, in every copy of the plan subscriptions cost less than one credit
\* more than purchases added.
THEOREM FundedHolds == Spec => []Funded
<1>1. TypeOK /\ BalanceInvariant => Funded
  BY DEF BalanceInvariant, Funded, Audited
<1> QED  BY <1>1, BalanceInit, BalanceStep, TypeCorrect, PTL DEF Spec
=============================================================================
