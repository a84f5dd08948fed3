------------------------- MODULE NodeRefreshProofs -------------------------
(***************************************************************************)
(* Theorems about NodeRefresh: what is proved of the pool in               *)
(* NodePoolProofs still holds while slaves are stopped, killed and hung up *)
(* and their records archived and removed.                                 *)
(***************************************************************************)
EXTENDS NodeRefresh, NodePoolProofs

EntryType == [state: State, running: BOOLEAN, port: Ports, pid: Procs \cup {None},
              idleSince: BOOLEAN]
RefType   == [pc: RefPc, list: [Nodes -> EntryType], ps: SUBSET Procs,
              todo: SUBSET Nodes, kept: SUBSET Nodes]
KillType  == [pc: KillPc, port: Ports, slave: Procs \cup {None}]

(***************************************************************************)
(* The inductive invariant                                                 *)
(***************************************************************************)

\* The list r was read from records that exist, and what is kept of it is not visited
\* again; a list that was just read keeps nothing yet.
ListSound(r) ==
  /\ \A n \in Nodes : r.list[n].running \/ r.list[n].state # "none" => n <= created
  /\ r.pc \in {"off", "ps"} => r.kept = {}
  /\ r.todo \cap r.kept = {}

\* A kill is one of a node that was created, and knows the slave that exits.
KillSound(n) ==
  /\ kill[n].pc # "none" => n <= created
  /\ kill[n].pc = "exits" => kill[n].slave \in Procs

RefreshInvariant ==
  /\ ref \in RefType /\ kill \in [Nodes -> KillType] /\ hup \in SUBSET Procs
  /\ ListSound(ref)
  /\ \A n \in Nodes : KillSound(n)

RInv == IInv /\ RefreshInvariant

(***************************************************************************)
(* The pool                                                                *)
(***************************************************************************)

\* A record is archived or removed: it keeps its address.
LEMMA RecordLeaves ==
  ASSUME IInv, NEW n \in Nodes, NEW e \in Record, db' = Put(n, e), e.port = db[n].port,
         e.state \in {"STOPPED", "REMOVED"}, e.running => db[n].running,
         UNCHANGED <<created, proc, spawned, req, reg>>
  PROVE  IInv'
<1>1. /\ db \in [Nodes -> Record] /\ NodeSound(n) /\ created \in Nat /\ spawned \in Nat
      /\ created \in 0..MaxNodes /\ spawned \in 0..MaxProcs
  BY DEF IInv, TypeOK, PoolInvariant
<1>2. Grows
  BY <1>1 DEF Grows
<1>3. db' \in [Nodes -> Record] /\ \A m \in Nodes : db'[m] = db[m] \/ (m = n /\ db'[m] = e /\ Exists(n))
  BY <1>1 DEF Put
<1>4. \A m \in Nodes : NodeSound(m)'
  <2> TAKE m \in Nodes
  <2>1. NodeSound(m)
    BY DEF IInv, PoolInvariant
  <2>2. /\ db'[m] \in Record /\ db'[m].port = db[m].port
        /\ db[m].state = "REMOVED" => db'[m].state = "REMOVED"
        /\ db'[m].state = "none" <=> db[m].state = "none"
        /\ db'[m].running => m <= created
        /\ db'[m].state \in {"REGISTERED", "IDLE", "BUSY"} =>
             db[m].state \in {"REGISTERED", "IDLE", "BUSY"}
    <3>1. CASE db'[m] = db[m]
      BY <1>3, <2>1, <3>1 DEF NodeSound
    <3>2. CASE m = n /\ db'[m] = e /\ Exists(n)
      BY <1>3, <2>1, <3>2 DEF NodeSound, Exists
    <3> QED  BY <1>3, <3>1, <3>2
  <2>3. Settled(m)' \subseteq Settled(m) /\ created' = created /\ created' \in Nat /\ spawned' \in Nat
    BY <1>1, SameSettled
  <2> QED  BY <1>1, <1>2, <2>2, <2>3, NodeKept
<1>5. \A p \in Procs : ProcSound(p)'
  BY DEF IInv, PoolInvariant, ProcSound
<1>6. /\ proc' \in [Procs -> ProcType] /\ req' \in [Requests -> ReqType] /\ reg' \in [Regs -> RegType]
      /\ req' = req /\ reg' = reg /\ created' \in 0..MaxNodes /\ spawned' \in 0..MaxProcs
  BY <1>1 DEF IInv, TypeOK, ProcType, ReqType, RegType
<1> QED  BY <1>2, <1>3, <1>4, <1>5, <1>6, Combine

\* stopped() archives.
LEMMA StoppedSound ==
  ASSUME IInv, NEW n \in Nodes, db' = Stopped(n), UNCHANGED <<created, proc, spawned, req, reg>>
  PROVE  IInv'
<1> DEFINE e == [db[n] EXCEPT !.running = FALSE, !.state = "STOPPED"]
<1>1. db[n] \in Record
  BY DEF IInv, TypeOK
<1>2. e \in Record /\ e.port = db[n].port /\ e.state = "STOPPED" /\ e.running = FALSE
  BY <1>1 DEF Record, State
<1>3. db' = Put(n, e)
  BY DEF Stopped
<1> HIDE DEF e
<1> QED  BY <1>2, <1>3, RecordLeaves

\* remove() removes.
LEMMA RemovedSound ==
  ASSUME IInv, NEW n \in Nodes, db' = Removed(n), UNCHANGED <<created, proc, spawned, req, reg>>
  PROVE  IInv'
<1> DEFINE e == [db[n] EXCEPT !.state = "REMOVED"]
<1>1. db[n] \in Record
  BY DEF IInv, TypeOK
<1>2. e \in Record /\ e.port = db[n].port /\ e.state = "REMOVED" /\ e.running = db[n].running
  BY <1>1 DEF Record, State
<1>3. db' = Put(n, e)
  BY DEF Removed
<1> HIDE DEF e
<1> QED  BY <1>2, <1>3, RecordLeaves

\* A process that is there ends.
LEMMA EndsSound ==
  ASSUME IInv, NEW p \in Procs, proc[p].pc \in {"starting", "up"}, Ends(p)
  PROVE  IInv'
BY ClosedFacts, EndSound DEF Ends

\* Every step of the refresh, of a kill and of a signal keeps the invariant of the pool.
LEMMA PoolKept ==
  ASSUME RInv, [RefreshNext]_allVars
  PROVE  IInv'
<1>1. IInv /\ RefreshInvariant
  BY DEF RInv
<1>2. CASE UNCHANGED vars
  BY <1>1, <1>2, StutterSound
<1>3. CASE Next
  BY <1>1, <1>3, NextSound
<1>4. CASE Refresh
  <2>1. CASE ReadList \/ ReadPs \/ \E n \in Nodes : Keep(n) \/ Unhealthy(n) \/ Free(n)
    BY <1>2, <2>1 DEF ReadList, ReadPs, Keep, Unhealthy, Free
  <2>2. ASSUME NEW n \in Nodes, Down(n) \/ Flush(n)  PROVE IInv'
    BY <1>1, <2>2, StoppedSound DEF Down, Flush
  <2>3. ASSUME NEW n \in Nodes, FlushRemoves(n)  PROVE IInv'
    BY <1>1, <2>3, RemovedSound DEF FlushRemoves
  <2> QED  BY <1>4, <2>1, <2>2, <2>3 DEF Refresh, Visit
<1>5. ASSUME NEW n \in Nodes, StopRunner(n) \/ KillStep(n)  PROVE IInv'
  <2>1. CASE StopRunner(n) \/ NoAnswer(n)
    BY <1>2, <2>1 DEF StopRunner, NoAnswer
  <2>2. CASE SlaveStops(n)
    <3>1. PICK p \in ServerAt(kill[n].port) :
            db' = IF proc[p].uuid = None THEN db ELSE Stopped(proc[p].uuid)
      BY <2>2 DEF SlaveStops
    <3>2. UNCHANGED <<created, proc, spawned, req, reg>>
      BY <2>2 DEF SlaveStops
    <3>3. CASE proc[p].uuid = None
      BY <1>2, <3>1, <3>2, <3>3 DEF vars
    <3>4. CASE proc[p].uuid # None
      <4>1. proc[p].uuid \in Nodes
        <5>1. p \in Procs
          BY DEF ServerAt
        <5>2. proc[p] \in ProcType
          BY <1>1, <5>1, ProcFacts
        <5> QED  BY <3>4, <5>2 DEF ProcType
      <4> QED  BY <1>1, <3>1, <3>2, <3>4, <4>1, StoppedSound
    <3> QED  BY <3>3, <3>4
  <2>3. CASE SlaveExits(n)
    <3>1. kill[n].slave \in Procs /\ proc[kill[n].slave].pc = "up" /\ Ends(kill[n].slave)
      BY <1>1, <2>3 DEF SlaveExits, RefreshInvariant, KillSound
    <3> QED  BY <1>1, <3>1, EndsSound
  <2>4. CASE KillArchives(n)
    BY <1>1, <2>4, StoppedSound DEF KillArchives
  <2>5. CASE KillRemoves(n)
    BY <1>1, <2>5, RemovedSound DEF KillRemoves
  <2> QED  BY <1>5, <2>1, <2>2, <2>3, <2>4, <2>5 DEF KillStep
<1>6. ASSUME NEW p \in Procs, Hangup(p)  PROVE IInv'
  <2>1. CASE p \in Alive
    BY <1>1, <1>6, <2>1, EndsSound DEF Hangup, Alive
  <2>2. CASE p \notin Alive
    BY <1>2, <1>6, <2>2 DEF Hangup
  <2> QED  BY <2>1, <2>2
<1> QED  BY <1>2, <1>3, <1>4, <1>5, <1>6 DEF RefreshNext, allVars

(***************************************************************************)
(* The refresh and the kills                                               *)
(***************************************************************************)

\* Records are only added.
LEMMA CreatedGrows ==
  ASSUME IInv, [RefreshNext]_allVars
  PROVE  created' \in Nat /\ created <= created'
<1>1. created \in Nat
  BY DEF IInv, TypeOK
<1>2. created' = created \/ created' = created + 1
  <2>1. ASSUME NEW r \in Requests, Search(r) \/ Serve(r)
        PROVE  created' = created \/ created' = created + 1
    BY <2>1 DEF Search, Serve, Ready, FreeFound, FreeNone, Claim, Assign, Quota, GetPorts, Insert,
                Start, Poll, Work, Finish
  <2>2. ASSUME NEW p \in Procs, ProcStep(p) \/ Die(p)
        PROVE  created' = created
    BY <2>2 DEF ProcStep, Listen, PortInUse, Die
  <2>3. ASSUME NEW p \in Procs, NEW k \in 1..Tries, RegStep(p, k) \/ RegReply(p, k)
        PROVE  created' = created \/ created' = created + 1
    BY <2>3 DEF RegStep, RegReply, RegRead, RegCreate, RegSaveAll, RegState, RegEvent, RegUpdate
  <2>4. CASE Refresh
    BY <2>4 DEF Refresh, Visit, ReadList, ReadPs, Keep, Unhealthy, Free, Down, Flush, FlushRemoves, vars
  <2>5. ASSUME NEW n \in Nodes, StopRunner(n) \/ KillStep(n)
        PROVE  created' = created
    BY <2>5 DEF StopRunner, KillStep, NoAnswer, SlaveStops, SlaveExits, Ends, KillArchives,
                KillRemoves, vars
  <2>6. ASSUME NEW p \in Procs, Hangup(p)
        PROVE  created' = created
    BY <2>6 DEF Hangup, Ends, vars
  <2>7. CASE UNCHANGED allVars
    BY <2>7 DEF allVars, vars
  <2> QED  BY <2>1, <2>2, <2>3, <2>4, <2>5, <2>6, <2>7 DEF RefreshNext, Next
<1> QED  BY <1>1, <1>2

\* Nothing was read.
LEMMA RestSound == Rest \in RefType /\ ListSound(Rest)
<1>1. Unread \in EntryType /\ Unread.running = FALSE /\ Unread.state = "none"
  BY PoolAssumption DEF Unread, EntryType, State, Ports
<1> QED  BY <1>1 DEF Rest, RefType, ListSound, RefPc

\* What a step leaves of the refresh and of the kills is sound.
LEMMA RefreshCombine ==
  ASSUME RInv, [RefreshNext]_allVars,
         ref' = ref \/ (ref' \in RefType /\ ListSound(ref)'),
         kill' \in [Nodes -> KillType], hup' \in SUBSET Procs,
         \A n \in Nodes : kill'[n] = kill[n] \/ KillSound(n)'
  PROVE  RefreshInvariant'
<1>1. created \in Nat /\ created' \in Nat /\ created <= created'
  BY CreatedGrows DEF RInv, IInv, TypeOK
<1>2. ref' \in RefType /\ ListSound(ref)'
  <2>1. CASE ref' = ref
    BY <1>1, <2>1 DEF RInv, RefreshInvariant, ListSound, Nodes
  <2> QED  BY <2>1
<1>3. \A n \in Nodes : KillSound(n)'
  BY <1>1 DEF RInv, RefreshInvariant, KillSound, Nodes
<1> QED  BY <1>2, <1>3 DEF RefreshInvariant

\* The refresh goes on with a sound list, or ends.
LEMMA GoesOnSound ==
  ASSUME RefreshInvariant, NEW r \in RefType, ListSound(r), GoesOn(r), created' = created
  PROVE  ref' \in RefType /\ ListSound(ref)' /\ hup' \in SUBSET Procs
<1>1. hup' \in SUBSET Procs
  BY DEF GoesOn, RefreshInvariant, RefType
<1>2. ref' = r \/ ref' = Rest
  BY DEF GoesOn
<1>3. Rest \in RefType /\ ListSound(Rest)
  BY RestSound
<1>4. ListSound(ref)'
  BY <1>2, <1>3 DEF ListSound
<1> QED  BY <1>1, <1>2, <1>3, <1>4

\* Nodes that are kept are not visited any more.
LEMMA KeptSound ==
  ASSUME NEW r \in RefType, ListSound(r), r.pc = "visit", NEW K \in SUBSET Nodes
  PROVE  Kept(r, K) \in RefType /\ ListSound(Kept(r, K)) /\ Kept(r, K).pc = "visit"
<1> DEFINE l == [n \in Nodes |->
                   IF n \in K THEN [Unread EXCEPT !.pid = r.list[n].pid]
                   ELSE IF n \in r.todo \cup r.kept THEN r.list[n] ELSE Unread]
<1>1. Unread \in EntryType /\ Unread.running = FALSE /\ Unread.state = "none"
  BY PoolAssumption DEF Unread, EntryType, State, Ports
<1>2. r.list \in [Nodes -> EntryType]
  BY DEF RefType
<1>3. \A n \in Nodes : [Unread EXCEPT !.pid = r.list[n].pid] \in EntryType
  BY <1>1, <1>2 DEF EntryType
<1>4. \A n \in Nodes : LET u == [Unread EXCEPT !.pid = r.list[n].pid]
                       IN u.running = FALSE /\ u.state = "none"
  BY <1>1 DEF EntryType
<1>5. l \in [Nodes -> EntryType]
  BY <1>1, <1>2, <1>3
<1>6. \A n \in Nodes : l[n].running \/ l[n].state # "none" => l[n] = r.list[n]
  BY <1>1, <1>4
<1> HIDE DEF l
<1>7. Kept(r, K) = [r EXCEPT !.kept = r.kept \cup K, !.todo = r.todo \ K, !.list = l]
  BY DEF Kept, l, RefType
<1>8. /\ Kept(r, K) \in RefType /\ Kept(r, K).list = l /\ Kept(r, K).kept = r.kept \cup K
      /\ Kept(r, K).todo = r.todo \ K /\ Kept(r, K).pc = "visit"
  BY <1>5, <1>7 DEF RefType
<1> QED  BY <1>6, <1>8 DEF ListSound

\* A node that is dropped is not visited any more.
LEMMA DroppedSound ==
  ASSUME NEW r \in RefType, ListSound(r), NEW n \in Nodes
  PROVE  Dropped(r, n) \in RefType /\ ListSound(Dropped(r, n))
<1>1. Unread \in EntryType /\ Unread.running = FALSE /\ Unread.state = "none"
  BY PoolAssumption DEF Unread, EntryType, State, Ports
<1> DEFINE l == [r.list EXCEPT ![n] = Unread]
<1>2. l \in [Nodes -> EntryType] /\ \A m \in Nodes : l[m] = r.list[m] \/ l[m] = Unread
  BY <1>1 DEF RefType
<1>3. Dropped(r, n) = [r EXCEPT !.pc = "visit", !.todo = r.todo \ {n}, !.list = l]
  BY DEF Dropped, RefType
<1> HIDE DEF l
<1>4. /\ Dropped(r, n) \in RefType /\ Dropped(r, n).list = l /\ Dropped(r, n).kept = r.kept
      /\ Dropped(r, n).todo = r.todo \ {n} /\ Dropped(r, n).pc = "visit"
  BY <1>2, <1>3 DEF RefType, RefPc
<1> QED  BY <1>1, <1>2, <1>4 DEF ListSound

\* A kill is asked of a node that was created.
LEMMA AskedSound ==
  ASSUME RefreshInvariant, NEW n \in Nodes, NEW port \in Ports
  PROVE  /\ Asked(n, port) \in [Nodes -> KillType]
         /\ \A m \in Nodes : m # n => Asked(n, port)[m] = kill[m]
         /\ Asked(n, port)[n] = kill[n] \/ Asked(n, port)[n].pc = "asked"
<1> DEFINE x == [NoKill EXCEPT !.pc = "asked", !.port = port]
<1>1. x \in KillType /\ x.pc = "asked"
  BY DEF NoKill, KillType, KillPc
<1>2. Asked(n, port) = IF kill[n].pc = "none" THEN [kill EXCEPT ![n] = x] ELSE kill
  BY DEF Asked
<1> HIDE DEF x
<1> QED  BY <1>1, <1>2 DEF RefreshInvariant

\* What the refresh reads of a record.
LEMMA EntryRead ==
  ASSUME NEW d \in Record
  PROVE  /\ [f \in DOMAIN Unread |-> d[f]] \in EntryType
         /\ [f \in DOMAIN Unread |-> d[f]].running = d.running
<1>1. DOMAIN Unread = {"state", "running", "port", "pid", "idleSince"}
  BY DEF Unread
<1> DEFINE e == [f \in DOMAIN Unread |-> d[f]]
<1>2. e = [state |-> d.state, running |-> d.running, port |-> d.port, pid |-> d.pid,
           idleSince |-> d.idleSince]
  BY <1>1
<1> HIDE DEF e
<1>3. e \in EntryType /\ e.running = d.running
  BY <1>2 DEF Record, EntryType
<1> QED  BY <1>3 DEF e

\* The list is that of the records that exist.
LEMMA ReadListSound ==
  ASSUME RInv, ReadList
  PROVE  ref' \in RefType /\ ListSound(ref)'
<1> DEFINE l == [n \in Nodes |-> IF Exists(n) THEN [f \in DOMAIN Unread |-> db[n][f]] ELSE Unread]
<1>1. ref \in RefType /\ ListSound(ref) /\ ref.pc = "off" /\ created' = created
  BY DEF RInv, RefreshInvariant, ReadList, vars
<1>2. db \in [Nodes -> Record] /\ \A n \in Nodes : NodeSound(n)
  BY DEF RInv, IInv, TypeOK, PoolInvariant
<1>3. Unread \in EntryType /\ Unread.running = FALSE /\ Unread.state = "none"
  BY PoolAssumption DEF Unread, EntryType, State, Ports
<1>4. l \in [Nodes -> EntryType]
  BY <1>2, <1>3, EntryRead
<1>5. \A n \in Nodes : l[n].running \/ l[n].state # "none" => n <= created
  <2> TAKE n \in Nodes
  <2>1. CASE ~Exists(n)
    BY <1>3, <2>1
  <2>2. CASE Exists(n)
    <3>1. created \in Nat /\ n \in Nat
      BY DEF RInv, IInv, TypeOK, Nodes
    <3> QED  BY <1>2, <2>2, <3>1 DEF Exists, NodeSound
  <2> QED  BY <2>1, <2>2
<1> HIDE DEF l
<1>6. ref' = [ref EXCEPT !.pc = "ps", !.list = l]
  BY DEF ReadList, l
<1>7. ref' \in RefType /\ ref'.pc = "ps" /\ ref'.list = l /\ ref'.kept = ref.kept
      /\ ref'.todo = ref.todo
  BY <1>1, <1>4, <1>6 DEF RefType, RefPc
<1> QED  BY <1>1, <1>5, <1>7 DEF ListSound

\* The nodes that are not probed are kept, or visited.
LEMMA ReadPsSound ==
  ASSUME RInv, ReadPs
  PROVE  /\ ref' \in RefType /\ ListSound(ref)' /\ hup' \in SUBSET Procs
         /\ kill' \in [Nodes -> KillType]
         /\ \A n \in Nodes : kill'[n] = kill[n] \/ KillSound(n)'
<1>1. /\ ref \in RefType /\ ListSound(ref) /\ ref.pc = "ps" /\ created' = created
      /\ RefreshInvariant
  BY DEF RInv, RefreshInvariant, ReadPs, vars
<1>2. PICK old \in SUBSET (Unprobed \cap Aging) :
        LET out  == old \cup {n \in Unprobed : ref.list[n].state = "STOPPED"}
            kept == Waits \cup (Unprobed \ out)
        IN
        /\ \E late \in SUBSET {n \in Unprobed \ out : ref.list[n].idleSince} :
             kill' = [n \in Nodes |-> IF n \in late THEN Asked(n, ref.list[n].port)[n]
                                      ELSE kill[n]]
        /\ GoesOn(Kept([ref EXCEPT !.pc = "visit", !.ps = Alive, !.todo = Probed \cup out],
                       kept))
  BY DEF ReadPs
<1> DEFINE out  == old \cup {n \in Unprobed : ref.list[n].state = "STOPPED"}
           kept == Waits \cup (Unprobed \ out)
           r    == [ref EXCEPT !.pc = "visit", !.ps = Alive, !.todo = Probed \cup out]
<1>3. PICK late \in SUBSET {n \in Unprobed \ out : ref.list[n].idleSince} :
        kill' = [n \in Nodes |-> IF n \in late THEN Asked(n, ref.list[n].port)[n] ELSE kill[n]]
  BY <1>2
<1>4. GoesOn(Kept(r, kept))
  BY <1>2
<1>5. /\ out \in SUBSET Nodes /\ kept \in SUBSET Nodes /\ Probed \cup out \in SUBSET Nodes
      /\ Alive \in SUBSET Procs /\ late \in SUBSET Unprobed
  BY DEF Unprobed, Waits, Probed, Alive
<1> HIDE DEF out, kept
<1>6. r \in RefType /\ r.pc = "visit" /\ r.list = ref.list /\ r.kept = ref.kept
  BY <1>1, <1>5 DEF RefType, RefPc
<1> HIDE DEF r
<1>7. ListSound(r)
  BY <1>1, <1>6 DEF ListSound
<1>8. Kept(r, kept) \in RefType /\ ListSound(Kept(r, kept))
  BY <1>5, <1>6, <1>7, KeptSound
<1>9. ref' \in RefType /\ ListSound(ref)' /\ hup' \in SUBSET Procs
  BY <1>1, <1>4, <1>8, GoesOnSound
<1>10. \A n \in Nodes : ref.list[n].port \in Ports
  BY <1>1 DEF RefType, EntryType
<1>11. \A n \in Nodes : kill'[n] \in KillType /\ (kill'[n] = kill[n] \/ (n \in late /\ kill'[n].pc = "asked"))
  <2> TAKE n \in Nodes
  <2>1. CASE n \in late
    <3>1. /\ Asked(n, ref.list[n].port) \in [Nodes -> KillType]
          /\ Asked(n, ref.list[n].port)[n] = kill[n] \/ Asked(n, ref.list[n].port)[n].pc = "asked"
      BY <1>1, <1>10, AskedSound
    <3> QED  BY <1>3, <2>1, <3>1
  <2>2. CASE n \notin late
    BY <1>1, <1>3, <2>2 DEF RefreshInvariant
  <2> QED  BY <2>1, <2>2
<1>12. \A n \in late : n <= created
  BY <1>1, <1>5 DEF ListSound, Unprobed
<1>13. \A n \in Nodes : kill'[n] = kill[n] \/ KillSound(n)'
  BY <1>1, <1>11, <1>12 DEF KillSound
<1> QED  BY <1>3, <1>9, <1>11, <1>13

\* One visit.
LEMMA VisitSound ==
  ASSUME RInv, NEW n \in Nodes, Visit(n) \/ Free(n)
  PROVE  /\ ref' \in RefType /\ ListSound(ref)' /\ hup' \in SUBSET Procs
         /\ kill' \in [Nodes -> KillType]
         /\ \A m \in Nodes : kill'[m] = kill[m] \/ KillSound(m)'
<1>1. ref \in RefType /\ ListSound(ref) /\ RefreshInvariant /\ kill \in [Nodes -> KillType]
      /\ hup \in SUBSET Procs
  BY DEF RInv, RefreshInvariant
<1>2. CASE Keep(n)
  <2>1. Kept(ref, {n}) \in RefType /\ ListSound(Kept(ref, {n}))
    BY <1>1, <1>2, KeptSound DEF Keep, Visits
  <2> QED  BY <1>1, <1>2, <2>1, GoesOnSound DEF Keep, vars
<1>3. CASE Free(n)
  <2>1. Kept(ref, {n}) \in RefType /\ ListSound(Kept(ref, {n}))
    BY <1>1, <1>3, KeptSound DEF Free, Visits
  <2>2. ref' \in RefType /\ ListSound(ref)' /\ hup' \in SUBSET Procs
    BY <1>1, <1>3, <2>1, GoesOnSound DEF Free, vars
  <2>3. kill' = Asked(n, ref.list[n].port) /\ ref.list[n].port \in Ports /\ created' = created
    BY <1>1, <1>3 DEF Free, vars, RefType, EntryType
  <2>4. n <= created
    BY <1>1, <1>3 DEF Free, ListSound
  <2>5. /\ kill' \in [Nodes -> KillType]
        /\ \A m \in Nodes : m # n => kill'[m] = kill[m]
        /\ kill'[n] = kill[n] \/ kill'[n].pc = "asked"
    BY <1>1, <2>3, AskedSound
  <2>6. \A m \in Nodes : kill'[m] = kill[m] \/ KillSound(m)'
    BY <2>3, <2>4, <2>5 DEF KillSound
  <2> QED  BY <2>2, <2>5, <2>6
<1>4. CASE Unhealthy(n) \/ Flush(n)
  <2>1. PICK pc \in {"down", "flush"} : ref' = [ref EXCEPT !.pc = pc]
    BY <1>4 DEF Unhealthy, Flush
  <2>2. ref' \in RefType /\ ref'.pc = pc /\ ref'.list = ref.list /\ ref'.todo = ref.todo
        /\ ref'.kept = ref.kept
    BY <1>1, <2>1 DEF RefType, RefPc
  <2>3. UNCHANGED <<created, kill, hup>>
    BY <1>4 DEF Unhealthy, Flush, vars
  <2>4. ListSound(ref)'
    BY <1>1, <2>2, <2>3 DEF ListSound
  <2> QED  BY <1>1, <2>2, <2>3, <2>4
<1>5. CASE Down(n) \/ FlushRemoves(n)
  <2>1. GoesOn(Dropped(ref, n)) /\ UNCHANGED <<created, kill>>
    BY <1>5 DEF Down, FlushRemoves
  <2>2. Dropped(ref, n) \in RefType /\ ListSound(Dropped(ref, n))
    BY <1>1, DroppedSound
  <2> QED  BY <1>1, <2>1, <2>2, GoesOnSound
<1> QED  BY <1>2, <1>3, <1>4, <1>5 DEF Visit

\* One step of a kill.
LEMMA KillStepSound ==
  ASSUME RInv, NEW n \in Nodes, StopRunner(n) \/ KillStep(n)
  PROVE  /\ UNCHANGED <<ref, hup>> /\ kill' \in [Nodes -> KillType]
         /\ \A m \in Nodes : kill'[m] = kill[m] \/ KillSound(m)'
<1>1. kill \in [Nodes -> KillType] /\ KillSound(n) /\ RefreshInvariant
  BY DEF RInv, RefreshInvariant
<1>2. UNCHANGED <<ref, hup, created>>
  BY DEF StopRunner, KillStep, SlaveStops, SlaveExits, Ends, NoAnswer, KillArchives, KillRemoves, vars
<1>3. ASSUME NEW x \in KillType, kill' = [kill EXCEPT ![n] = x],
             x.pc # "none" => n <= created, x.pc = "exits" => x.slave \in Procs
      PROVE  /\ kill' \in [Nodes -> KillType]
             /\ \A m \in Nodes : kill'[m] = kill[m] \/ KillSound(m)'
  BY <1>1, <1>2, <1>3 DEF KillSound
<1>4. CASE StopRunner(n)
  <2>1. kill' = Asked(n, db[n].port) /\ Exists(n)
    BY <1>4 DEF StopRunner
  <2>2. db[n] \in Record /\ NodeSound(n) /\ n \in Nat /\ created \in Nat
    BY DEF RInv, IInv, TypeOK, PoolInvariant, Nodes
  <2>3. db[n].port \in Ports /\ n <= created
    BY <2>1, <2>2 DEF Record, Exists, NodeSound
  <2>4. /\ kill' \in [Nodes -> KillType]
        /\ \A m \in Nodes : m # n => kill'[m] = kill[m]
        /\ kill'[n] = kill[n] \/ kill'[n].pc = "asked"
    BY <1>1, <2>1, <2>3, AskedSound
  <2> QED  BY <1>2, <2>3, <2>4 DEF KillSound
<1>5. CASE SlaveStops(n)
  <2>1. PICK p \in Procs : kill' = [kill EXCEPT ![n] = [kill[n] EXCEPT !.pc = "exits", !.slave = p]]
    BY <1>1, <1>5 DEF SlaveStops, ServerAt
  <2> DEFINE x == [kill[n] EXCEPT !.pc = "exits", !.slave = p]
  <2>2. x \in KillType /\ x.slave = p /\ n <= created
    BY <1>1, <1>5 DEF KillType, KillPc, KillSound, SlaveStops
  <2> HIDE DEF x
  <2>3. kill' = [kill EXCEPT ![n] = x]
    BY <2>1 DEF x
  <2> QED  BY <1>2, <1>3, <2>2, <2>3
<1>6. CASE SlaveExits(n) \/ NoAnswer(n)
  <2> DEFINE x == [kill[n] EXCEPT !.pc = "answered", !.slave = None]
  <2>1. kill' = [kill EXCEPT ![n] = x] /\ kill[n].pc # "none"
    BY <1>1, <1>6 DEF SlaveExits, NoAnswer
  <2>2. x \in KillType /\ x.pc = "answered" /\ n <= created
    BY <1>1, <2>1 DEF KillType, KillPc, KillSound
  <2> HIDE DEF x
  <2> QED  BY <1>2, <1>3, <2>1, <2>2
<1>7. CASE KillArchives(n)
  <2> DEFINE x == [kill[n] EXCEPT !.pc = "archived"]
  <2>1. kill' = [kill EXCEPT ![n] = x] /\ kill[n].pc # "none"
    BY <1>1, <1>7 DEF KillArchives
  <2>2. x \in KillType /\ x.pc = "archived" /\ n <= created
    BY <1>1, <2>1 DEF KillType, KillPc, KillSound
  <2> HIDE DEF x
  <2> QED  BY <1>2, <1>3, <2>1, <2>2
<1>8. CASE KillRemoves(n)
  <2>1. kill' = [kill EXCEPT ![n] = NoKill]
    BY <1>8 DEF KillRemoves
  <2>2. NoKill \in KillType /\ NoKill.pc = "none"
    BY PoolAssumption DEF NoKill, KillType, KillPc, Ports
  <2> QED  BY <1>2, <1>3, <2>1, <2>2
<1> QED  BY <1>2, <1>4, <1>5, <1>6, <1>7, <1>8 DEF KillStep

\* The invariant is inductive.
LEMMA RefreshStep ==
  ASSUME RInv, [RefreshNext]_allVars
  PROVE  RInv'
<1>1. IInv'
  BY PoolKept
<1>2. /\ kill \in [Nodes -> KillType] /\ hup \in SUBSET Procs
  BY DEF RInv, RefreshInvariant
<1>3. CASE UNCHANGED refreshVars
  <2>1. RefreshInvariant'
    BY <1>2, <1>3, RefreshCombine DEF refreshVars
  <2> QED  BY <1>1, <2>1 DEF RInv
<1>4. CASE Refresh
  <2>1. CASE ReadList
    <3>1. UNCHANGED <<kill, hup>>
      BY <2>1 DEF ReadList
    <3>2. RefreshInvariant'
      BY <1>2, <2>1, <3>1, ReadListSound, RefreshCombine
    <3> QED  BY <1>1, <3>2 DEF RInv
  <2>2. CASE ReadPs
    <3>1. RefreshInvariant'
      BY <2>2, ReadPsSound, RefreshCombine
    <3> QED  BY <1>1, <3>1 DEF RInv
  <2>3. ASSUME NEW n \in Nodes, Visit(n) \/ Free(n)  PROVE RInv'
    <3>1. RefreshInvariant'
      BY <2>3, VisitSound, RefreshCombine
    <3> QED  BY <1>1, <3>1 DEF RInv
  <2> QED  BY <1>4, <2>1, <2>2, <2>3 DEF Refresh
<1>5. ASSUME NEW n \in Nodes, StopRunner(n) \/ KillStep(n)  PROVE RInv'
  <2>1. UNCHANGED <<ref, hup>> /\ kill' \in [Nodes -> KillType]
        /\ \A m \in Nodes : kill'[m] = kill[m] \/ KillSound(m)'
    BY <1>5, KillStepSound
  <2>2. RefreshInvariant'
    BY <1>2, <2>1, RefreshCombine
  <2> QED  BY <1>1, <2>2 DEF RInv
<1>6. ASSUME NEW p \in Procs, Hangup(p)  PROVE RInv'
  <2>1. UNCHANGED <<ref, kill>> /\ hup' \in SUBSET Procs
    BY <1>2, <1>6 DEF Hangup
  <2>2. RefreshInvariant'
    BY <1>2, <2>1, RefreshCombine
  <2> QED  BY <1>1, <2>2 DEF RInv
<1> QED  BY <1>3, <1>4, <1>5, <1>6 DEF RefreshNext, allVars

(***************************************************************************)
(* The specification                                                       *)
(***************************************************************************)

\* The slaves that are known from the start are registered, each as the node of its
\* number; nothing else has happened.
LEMMA RefreshInitSound == RefreshInit => RInv
<1> SUFFICES ASSUME RefreshInit  PROVE RInv
  OBVIOUS
<1>1. Blank \in Record /\ Blank.port = 0 /\ Blank.state = "none" /\ Blank.running = FALSE
  BY PoolAssumption DEF Blank, Record, State, Ports
<1>2. /\ MaxProcs \in Nat /\ MaxNodes \in Nat /\ Tries \in Nat \ {0} /\ Outside \in 0..MaxProcs
      /\ Known \in 0..Outside /\ Known <= MaxNodes
  BY PoolAssumption, RefreshAssumption
<1>3. PICK used \in SUBSET (1..Known) :
        db = [n \in Nodes |->
               IF n > Known THEN Blank
               ELSE [Blank EXCEPT !.state = "IDLE", !.running = TRUE, !.port = n,
                                  !.idleSince = n \in used]]
  BY DEF RefreshInit
<1>4. /\ created = Known /\ spawned = Outside /\ ref = Rest /\ hup = {}
      /\ kill = [n \in Nodes |-> NoKill]
  BY Zenon DEF RefreshInit
<1> DEFINE first(n) == [Blank EXCEPT !.state = "IDLE", !.running = TRUE, !.port = n,
                                     !.idleSince = n \in used]
<1>5. db = [n \in Nodes |-> IF n > Known THEN Blank ELSE first(n)]
  BY <1>3, Zenon
<1>6. \A n \in Nodes : n <= Known => /\ first(n) \in Record /\ first(n).port = n
                                     /\ first(n).state = "IDLE" /\ first(n).running = TRUE
  <2> SUFFICES ASSUME NEW n \in Nodes, n <= Known
               PROVE  /\ first(n) \in Record /\ first(n).port = n
                      /\ first(n).state = "IDLE" /\ first(n).running = TRUE
    OBVIOUS
  <2>1. n \in Ports /\ "IDLE" \in State
    BY <1>2 DEF Nodes, Ports, State
  <2> DEFINE b == n \in used
  <2>2. b \in BOOLEAN
    OBVIOUS
  <2>3. first(n) = [Blank EXCEPT !.state = "IDLE", !.running = TRUE, !.port = n, !.idleSince = b]
    BY Zenon
  <2> HIDE DEF b, first
  <2>4. first(n) = [state |-> "IDLE", running |-> TRUE, project |-> Blank.project, port |-> n,
                    pid |-> Blank.pid, idleSince |-> b]
    BY <2>3 DEF Blank
  <2>5. Blank.project \in Projects \cup {None} /\ Blank.pid \in Procs \cup {None}
    BY DEF Blank
  <2> QED  BY <2>1, <2>2, <2>4, <2>5 DEF Record
<1> HIDE DEF first
<1>7. \A n \in Nodes :
        /\ n > Known => db[n] = Blank
        /\ n <= Known => /\ db[n] \in Record /\ db[n].port = n /\ db[n].state = "IDLE"
                         /\ db[n].running = TRUE
  BY <1>2, <1>5, <1>6 DEF Nodes
<1>8. \A p \in Procs :
        /\ proc[p] \in ProcType /\ proc[p].node = None /\ proc[p].port <= p
        /\ proc[p].port = (IF p <= Outside THEN p ELSE 0)
        /\ proc[p].pc = (IF p <= Known THEN "up" ELSE IF p <= Outside THEN "starting" ELSE "none")
  <2> TAKE p \in Procs
  <2>1. p \in Nat /\ p > 0 /\ p <= MaxProcs
    BY <1>2 DEF Procs
  <2>2. (IF p <= Outside THEN p ELSE 0) \in Ports
    BY <1>2, <2>1 DEF Ports
  <2>3. (IF p <= Known THEN p ELSE None) \in Nodes \cup {None}
    BY <1>2, <2>1 DEF Nodes
  <2>4. (IF p <= Known THEN "up" ELSE IF p <= Outside THEN "starting" ELSE "none") \in ProcPc
    BY DEF ProcPc
  <2>5. proc[p] = [pc |-> IF p <= Known THEN "up" ELSE IF p <= Outside THEN "starting" ELSE "none",
                   port |-> IF p <= Outside THEN p ELSE 0,
                   node |-> None, uuid |-> IF p <= Known THEN p ELSE None]
    BY DEF RefreshInit
  <2> QED  BY <1>2, <2>1, <2>2, <2>3, <2>4, <2>5 DEF ProcType
<1>9. \A g \in Regs :
        /\ reg[g] \in RegType /\ g[1] \in Procs
        /\ reg[g].pc = (IF g[1] <= Known THEN "done" ELSE "off")
        /\ reg[g].node = (IF g[1] <= Known THEN g[1] ELSE None)
  <2> TAKE g \in Regs
  <2>1. g[1] \in Procs
    BY DEF Regs
  <2>2. (IF g[1] <= Known THEN g[1] ELSE None) \in Nodes \cup {None}
    BY <1>2, <2>1 DEF Procs, Nodes
  <2>3. reg[g] = [pc |-> IF g[1] <= Known THEN "done" ELSE "off",
                  node |-> IF g[1] <= Known THEN g[1] ELSE None,
                  copy |-> Blank, free |-> FALSE]
    BY DEF RefreshInit
  <2> QED  BY <1>1, <2>1, <2>2, <2>3 DEF RegType, RegPc
<1>10. TypeOK
  <2>1. db \in [Nodes -> Record]
    <3>1. \A n \in Nodes : db[n] \in Record
      BY <1>1, <1>2, <1>7 DEF Nodes
    <3> QED  BY <1>5, <3>1
  <2>2. created \in 0..MaxNodes /\ spawned \in 0..MaxProcs
    BY <1>2, <1>4
  <2>3. proc \in [Procs -> ProcType]
    BY <1>8 DEF RefreshInit
  <2>4. req \in [Requests -> ReqType]
    <3>1. 0 \in Ports /\ "ready" \in ReqPc
      BY <1>2 DEF Ports, ReqPc
    <3> QED  BY <1>1, <3>1 DEF RefreshInit, ReqType
  <2>5. reg \in [Regs -> RegType]
    BY <1>9 DEF RefreshInit
  <2>6. \A r \in Requests : req[r].node = None
    BY DEF RefreshInit
  <2>7. \A g \in Regs : reg[g].node # None => reg[g].node \in 1..created
    BY <1>2, <1>9, <1>4 DEF Procs
  <2> QED  BY <2>1, <2>2, <2>3, <2>4, <2>5, <2>6, <2>7 DEF TypeOK, ProcType, ReqType, RegType
<1>11. \A n \in Nodes : NodeSound(n)
  <2> TAKE n \in Nodes
  <2>1. n \in Nat /\ n > 0 /\ n # None
    BY <1>2, NoneAssumption DEF Nodes
  <2>2. created = Known /\ spawned = Outside
    BY <1>4
  <2>3. CASE n > Known
    <3>1. Settled(n) = {}
      BY <1>2, <1>9, <2>1, <2>3 DEF Settled, Procs
    <3> QED  BY <1>1, <1>2, <1>7, <2>1, <2>2, <2>3, <3>1 DEF NodeSound
  <2>4. CASE n <= Known
    <3> DEFINE g == <<n, 1>>
    <3>1. n \in Procs /\ g \in Regs /\ g[1] = n
      BY <1>2, <2>1, <2>4 DEF Procs, Regs
    <3>2. g \in Settled(n) /\ proc[g[1]].port = n
      BY <1>2, <1>8, <1>9, <2>1, <2>4, <3>1 DEF Settled, Written
    <3> HIDE DEF g
    <3>3. AddressOf(n, db[n].port)
      BY <1>7, <2>4, <3>2 DEF AddressOf
    <3> QED  BY <1>2, <1>7, <2>1, <2>2, <2>4, <3>3 DEF NodeSound
  <2> QED  BY <1>2, <2>1, <2>3, <2>4
<1>12. \A p \in Procs : ProcSound(p)
  <2> TAKE p \in Procs
  <2>1. p \in Nat /\ p > 0
    BY <1>2 DEF Procs
  <2>2. proc[p].pc = "none" <=> p > spawned
    BY <1>2, <1>8, <1>4, <2>1
  <2>3. ASSUME NEW q \in Procs, proc[p].pc = "up", proc[q].pc = "up", proc[p].port = proc[q].port
        PROVE  p = q
    <3>1. q \in Nat /\ q > 0
      BY <1>2 DEF Procs
    <3> QED  BY <1>2, <1>8, <2>1, <2>3, <3>1
  <2> QED  BY <1>8, <2>2, <2>3 DEF ProcSound
<1>13. \A r \in Requests : ReqSound(r)
  <2>1. \A r \in Requests : /\ req[r].pc = "ready" /\ req[r].node = None /\ req[r].port = 0
                            /\ req[r].order = "none"
    BY DEF RefreshInit
  <2> QED  BY <1>2, <1>4, <2>1 DEF ReqSound
<1>14. \A g \in Regs : RegSound(g)
  <2> TAKE g \in Regs
  <2>1. g[1] \in Nat /\ g[1] # None /\ g[1] \in Procs
    BY <1>2, <1>9, NoneAssumption DEF Procs
  <2> QED  BY <1>2, <1>8, <1>9, <2>1 DEF RegSound
<1>15. RefreshInvariant
  <2>1. ref \in RefType /\ ListSound(ref)
    BY <1>4, RestSound
  <2>2. \A n \in Nodes : kill[n] = NoKill
    BY <1>4
  <2>3. kill \in [Nodes -> KillType] /\ hup \in SUBSET Procs
    <3>1. NoKill \in KillType
      BY <1>2 DEF NoKill, KillType, KillPc, Ports
    <3> QED  BY <1>4, <3>1
  <2> QED  BY <2>1, <2>2, <2>3 DEF RefreshInvariant, KillSound, NoKill
<1> QED  BY <1>10, <1>11, <1>12, <1>13, <1>14, <1>15 DEF RInv, IInv, PoolInvariant

\* The invariant gives the types.
LEMMA RefreshTypes == RInv => RefreshTypeOK
<1> SUFFICES ASSUME RInv  PROVE RefreshTypeOK
  OBVIOUS
<1>1. created \in Nat
  BY DEF RInv, IInv, TypeOK
<1>2. \A n \in Nodes : kill[n].pc # "none" => n \in 1..created
  BY <1>1 DEF RInv, RefreshInvariant, KillSound, Nodes
<1>3. ref \in RefType /\ kill \in [Nodes -> KillType] /\ hup \in SUBSET Procs
      /\ ref.todo \cap ref.kept = {}
  BY DEF RInv, RefreshInvariant, ListSound
<1> QED  BY <1>2, <1>3 DEF RefreshTypeOK, RefType, KillType, EntryType, Entry

\* refreshPool(), kill(): a record that was kept in a refresh is not visited again in
\* it, and only a node that was created is killed.
THEOREM RefreshTypeCorrect == RefreshSpec => []RefreshTypeOK
<1>1. RefreshInit => RInv
  BY RefreshInitSound
<1>2. RInv /\ [RefreshNext]_allVars => RInv'
  BY RefreshStep
<1>3. RInv => RefreshTypeOK
  BY RefreshTypes
<1> QED  BY <1>1, <1>2, <1>3, PTL DEF RefreshSpec

\* Whatever is archived, removed, killed or hung up meanwhile, a node that is ready for
\* orders has the address of a process that registered as it, unless such a process
\* ended.
THEOREM ReachableWhenIdleKept == RefreshSpec => []ReachableWhenIdle
<1>1. RefreshInit => RInv
  BY RefreshInitSound
<1>2. RInv /\ [RefreshNext]_allVars => RInv'
  BY RefreshStep
<1>3. RInv => ReachableWhenIdle
  BY Reachable DEF RInv
<1> QED  BY <1>1, <1>2, <1>3, PTL DEF RefreshSpec

\* Two nodes that are ready for orders keep two addresses while others are stopped, if
\* every process gets the answer to the first registration it sends.
THEOREM AddressesDistinctKept ==
  ASSUME Tries = 1
  PROVE  RefreshSpec => []AddressesDistinct
<1>1. RefreshInit => RInv
  BY RefreshInitSound
<1>2. RInv /\ [RefreshNext]_allVars => RInv'
  BY RefreshStep
<1>3. RInv => AddressesDistinct
  BY Distinct DEF RInv
<1> QED  BY <1>1, <1>2, <1>3, PTL DEF RefreshSpec
=============================================================================
