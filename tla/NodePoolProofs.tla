--------------------------- MODULE NodePoolProofs ---------------------------
(***************************************************************************)
(* Theorems about NodePool: types, and the addresses of the nodes that are *)
(* ready, for any number of requests, processes and deaths.                *)
(***************************************************************************)
EXTENDS NodePool, WellFoundedInduction, TLAPS

ReqType  == [pc: ReqPc, node: Nodes \cup {None}, copy: Record, port: Ports,
             order: {"none", "queued", "running", "done"}]
RegType  == [pc: RegPc, node: Nodes \cup {None}, copy: Record, free: BOOLEAN]
ProcType == [pc: ProcPc, port: Ports, node: Nodes \cup {None}, uuid: Nodes \cup {None}]

(***************************************************************************)
(* The inductive invariant                                                 *)
(***************************************************************************)

Written == {"state", "event", "update", "done"}

\* The registrations of node n that have written their handle.
Settled(n) == {g \in Regs : reg[g].node = n /\ reg[g].pc \in Written}

\* A process that registered as node n has this port.
AddressOf(n, port) == \E g \in Settled(n) : proc[g[1]].port = port

\* A record is known once it was created; once somebody registered as the node, or it
\* is ready, it has the address of a process that registered, unless one ended.
NodeSound(n) ==
  /\ db[n].state = "none" <=> n > created
  /\ db[n].running => n <= created
  /\ db[n].port <= spawned + 1
  /\ /\ Settled(n) # {} \/ db[n].state \in {"REGISTERED", "IDLE", "BUSY"}
     /\ db[n].state # "REMOVED"
     => Ended(n) \/ AddressOf(n, db[n].port)

\* Ports grow with the identifiers of the processes, and one process listens at a
\* port.
ProcSound(p) ==
  /\ proc[p].pc = "none" <=> p > spawned
  /\ proc[p].port <= p
  /\ proc[p].node # None => proc[p].node <= created
  /\ \A q \in Procs :
       proc[p].pc = "up" /\ proc[q].pc = "up" /\ proc[p].port = proc[q].port => p = q

\* The handle of a request that was given a free node has an address of this node,
\* and an order, given at the end of the search, that runs is one of a node somebody
\* registered as.
ReqSound(r) ==
  /\ req[r].port <= spawned + 1
  /\ req[r].pc \in {"claim", "assign", "start"} \/ req[r].order \in {"queued", "running"} =>
       req[r].node # None
  /\ req[r].pc \in {"claim", "assign"} =>
       /\ req[r].copy.state \in {"IDLE", "REGISTERED"} /\ req[r].copy.port <= spawned + 1
       /\ Ended(req[r].node) \/ AddressOf(req[r].node, req[r].copy.port)
  /\ req[r].order # "none" => req[r].pc \in {"poll", "told", "ordered"}
  /\ req[r].order = "running" => Ended(req[r].node) \/ Settled(req[r].node) # {}

\* A registration is that of a process that was up, and its handle has the address
\* of this process.
RegSound(g) ==
  /\ reg[g].pc # "off" => proc[g[1]].pc \in {"up", "dead"}
  /\ reg[g].pc \in {"off", "create"} <=> reg[g].node = None
  /\ reg[g].pc \in {"saveall", "state"} =>
       reg[g].copy.state = "QUEUED" /\ reg[g].copy.port = proc[g[1]].port
  /\ reg[g].pc = "update" => reg[g].copy.state = "IDLE"

PoolInvariant ==
  /\ \A n \in Nodes : NodeSound(n)
  /\ \A p \in Procs : ProcSound(p)
  /\ \A r \in Requests : ReqSound(r)
  /\ \A g \in Regs : RegSound(g)

IInv == TypeOK /\ PoolInvariant

(***************************************************************************)
(* The highest port                                                        *)
(***************************************************************************)

\* A set of natural numbers has a least element.
LEMMA LeastOfSet ==
  ASSUME NEW S \in SUBSET Nat, S # {}
  PROVE  \E m \in S : \A x \in S : m <= x
<1>1. IsWellFoundedOn(OpToRel(<, Nat), Nat)
  BY NatLessThanWellFounded
<1>2. \E m \in S : \A x \in S : ~ (<<x, m>> \in OpToRel(<, Nat))
  BY <1>1, WFMin, Zenon
<1>3. \A x, m \in Nat : x < m => <<x, m>> \in OpToRel(<, Nat)
  BY Zenon DEF OpToRel
<1>4. \E m \in S : \A x \in S : ~ (x < m)
  BY <1>2, <1>3, Zenon
<1> QED  BY <1>4

\* A bounded one has a greatest.
LEMMA GreatestOfSet ==
  ASSUME NEW K \in Nat, NEW S \in SUBSET (0..K), S # {}
  PROVE  MaxOf(S) \in S /\ \A x \in S : x <= MaxOf(S)
<1> DEFINE T == {n \in Nat : \E x \in S : n = K - x}
<1>1. T \in SUBSET Nat
  OBVIOUS
<1>2. T # {}
  <2>1. PICK x \in S : TRUE
    OBVIOUS
  <2>2. K - x \in T
    OBVIOUS
  <2> QED  BY <2>2
<1>3. PICK t \in T : \A x \in T : t <= x
  <2> HIDE DEF T
  <2> QED  BY <1>1, <1>2, LeastOfSet
<1>4. PICK m \in S : t = K - m
  BY <1>3
<1>5. \A x \in S : K - x \in T
  OBVIOUS
<1>6. \A x \in S : K - m <= K - x
  BY <1>3, <1>4, <1>5
<1>7. \A x \in S : x <= m
  BY <1>6
<1> QED  BY <1>7, Zenon DEF MaxOf

\* NextPort is one above a port that is known, and above those of the living.
LEMMA NextPortBound ==
  ASSUME IInv
  PROVE  /\ NextPort \in Ports /\ NextPort <= spawned + 1
         /\ \A p \in Alive : proc[p].port < NextPort
<1> DEFINE S == {0} \cup {proc[p].port : p \in Alive}
<1>1. MaxProcs \in Nat /\ spawned \in 0..MaxProcs
  BY PoolAssumption DEF IInv, TypeOK
<1>2. \A p \in Alive : proc[p].port \in 0..spawned
  <2> TAKE p \in Alive
  <2>1. p \in Procs /\ proc[p].pc # "none"
    BY DEF Alive
  <2>2. proc[p].port \in Ports /\ proc[p].port <= p /\ p <= spawned
    BY <1>1, <2>1 DEF IInv, TypeOK, PoolInvariant, ProcSound, Procs
  <2> QED  BY <1>1, <2>1, <2>2 DEF Ports, Procs
<1>3. S \in SUBSET (0..spawned) /\ S # {}
  BY <1>1, <1>2
<1> HIDE DEF S
<1>4. MaxOf(S) \in 0..spawned /\ \A x \in S : x <= MaxOf(S)
  <2>1. spawned \in Nat
    BY <1>1
  <2>2. MaxOf(S) \in S /\ \A x \in S : x <= MaxOf(S)
    BY <1>3, <2>1, GreatestOfSet, Zenon
  <2> QED  BY <1>3, <2>2
<1>5. NextPort = MaxOf(S) + 1 /\ \A p \in Alive : proc[p].port \in S
  BY DEF NextPort, S
<1> QED  BY <1>1, <1>2, <1>4, <1>5 DEF Ports

(***************************************************************************)
(* What every step keeps                                                   *)
(***************************************************************************)

\* Nothing that is known of processes and registrations is forgotten.
Grows ==
  /\ created <= created' /\ spawned <= spawned'
  /\ \A p \in Procs : proc[p].pc # "none" =>
       /\ proc'[p].port = proc[p].port /\ proc'[p].node = proc[p].node
       /\ proc[p].pc = "up" => proc'[p].pc \in {"up", "dead"}
       /\ proc[p].pc = "dead" => proc'[p].pc = "dead"
  /\ \A g \in Regs : reg[g].node # None =>
       /\ reg'[g].node = reg[g].node
       /\ reg[g].pc \in Written => reg'[g].pc \in Written

\* So a node keeps its addresses.
LEMMA AddressesKept ==
  ASSUME IInv, Grows, NEW n \in Nodes
  PROVE  /\ Ended(n) => Ended(n)'
         /\ Settled(n) \subseteq Settled(n)'
         /\ \A port : AddressOf(n, port) => AddressOf(n, port)'
<1>1. n # None
  BY NoneAssumption
<1>2. Ended(n) => Ended(n)'
  <2> SUFFICES ASSUME NEW p \in Procs, proc[p].pc = "dead",
                      proc[p].node = n \/ \E k \in 1..Tries : reg[<<p, k>>].node = n
               PROVE  Ended(n)'
    BY DEF Ended
  <2>1. proc'[p].pc = "dead" /\ proc'[p].node = proc[p].node
    BY DEF Grows
  <2>2. \A k \in 1..Tries : reg[<<p, k>>].node = n => reg'[<<p, k>>].node = n
    BY <1>1 DEF Grows, Regs
  <2> QED  BY <2>1, <2>2 DEF Ended
<1>3. Settled(n) \subseteq Settled(n)'
  BY <1>1 DEF Settled, Grows
<1>4. \A g \in Settled(n) : proc'[g[1]].port = proc[g[1]].port
  <2> TAKE g \in Settled(n)
  <2>1. g \in Regs /\ reg[g].pc # "off" /\ g[1] \in Procs
    BY DEF Settled, Written, Regs
  <2>2. proc[g[1]].pc \in {"up", "dead"}
    BY <2>1 DEF IInv, PoolInvariant, RegSound
  <2> QED  BY <2>1, <2>2 DEF Grows
<1> QED  BY <1>2, <1>3, <1>4 DEF AddressOf

\* A request that does not move stays sound.
LEMMA ReqKept ==
  ASSUME IInv, Grows, spawned' \in Nat, NEW r \in Requests, req'[r] = req[r]
  PROVE  ReqSound(r)'
<1>1. ReqSound(r) /\ req[r].port \in Nat /\ req[r].copy.port \in Nat /\ spawned \in Nat
  <2>1. req[r] \in ReqType /\ ReqSound(r) /\ spawned \in Nat
    BY DEF IInv, TypeOK, PoolInvariant, ReqType
  <2> QED  BY <2>1 DEF ReqType, Record, Ports
<1>2. spawned <= spawned'
  BY DEF Grows
<1>3. req[r].node # None => req[r].node \in Nodes
  BY DEF IInv, TypeOK
<1>4. ASSUME req[r].node # None
      PROVE  /\ Ended(req[r].node) => Ended(req[r].node)'
             /\ Settled(req[r].node) # {} => Settled(req[r].node)' # {}
             /\ \A port : AddressOf(req[r].node, port) => AddressOf(req[r].node, port)'
  BY <1>3, <1>4, AddressesKept
<1>5. req[r].pc \in {"claim", "assign"} \/ req[r].order = "running" => req[r].node # None
  BY <1>1 DEF ReqSound
<1> QED  BY <1>1, <1>2, <1>4, <1>5 DEF ReqSound

\* A registration that stays where it is stays sound while handles and ports only grow.
LEMMA RegKept ==
  ASSUME IInv, Grows, NEW g \in Regs, reg'[g] = reg[g]
  PROVE  RegSound(g)'
<1>1. g[1] \in Procs /\ RegSound(g)
  BY DEF Regs, IInv, PoolInvariant
<1> QED  BY <1>1 DEF RegSound, Grows

\* A node whose record keeps its address, and is not readied by somebody who is
\* not registered as it, stays sound.
LEMMA NodeKept ==
  ASSUME IInv, Grows, spawned' \in Nat, NEW n \in Nodes,
         n <= created' <=> n <= created, created' \in Nat, Settled(n)' \subseteq Settled(n),
         db'[n] \in Record, db'[n].port = db[n].port,
         db[n].state = "REMOVED" => db'[n].state = "REMOVED",
         db'[n].state = "none" <=> db[n].state = "none",
         db'[n].running => n <= created,
         db'[n].state \in {"REGISTERED", "IDLE", "BUSY"} =>
           db[n].state \in {"REGISTERED", "IDLE", "BUSY"} \/ Ended(n) \/ Settled(n) # {}
  PROVE  NodeSound(n)'
<1>1. NodeSound(n) /\ n \in Nat /\ created \in Nat /\ spawned \in Nat /\ db[n].port \in Nat
  <2>1. db[n] \in Record /\ NodeSound(n) /\ spawned \in Nat /\ created \in Nat
    BY DEF IInv, TypeOK, PoolInvariant
  <2> QED  BY <2>1 DEF Record, Ports, Nodes
<1>2. /\ Ended(n) => Ended(n)'
      /\ \A port : AddressOf(n, port) => AddressOf(n, port)'
  BY AddressesKept
<1>3. spawned <= spawned'
  BY DEF Grows
<1>4. /\ Settled(n)' # {} \/ db'[n].state \in {"REGISTERED", "IDLE", "BUSY"}
      /\ db'[n].state # "REMOVED"
      => Ended(n) \/ AddressOf(n, db[n].port)
  BY <1>1 DEF NodeSound
<1>5. AddressOf(n, db[n].port) => AddressOf(n, db[n].port)'
  <2>1. AddressOf(n, db[n].port) => \E g \in Settled(n)' : proc'[g[1]].port = db[n].port
    BY <1>2 DEF AddressOf
  <2> QED  BY <2>1 DEF AddressOf
<1>6. /\ Settled(n)' # {} \/ db'[n].state \in {"REGISTERED", "IDLE", "BUSY"}
      /\ db'[n].state # "REMOVED"
      => Ended(n)' \/ AddressOf(n, db[n].port)'
  BY <1>2, <1>4, <1>5
<1>7. /\ db'[n].state = "none" <=> n > created'
      /\ db'[n].running => n <= created'
      /\ db'[n].port <= spawned' + 1
  BY <1>1, <1>3 DEF NodeSound
<1> QED  BY <1>6, <1>7 DEF NodeSound

\* A record that is there is written, one that was removed is not.
LEMMA PutGone ==
  ASSUME NEW n, db[n].state = "REMOVED", NEW e
  PROVE  Put(n, e) = db
BY DEF Put, Exists

\* It becomes what was written.
LEMMA PutAt ==
  ASSUME IInv, NEW n \in Nodes, n <= created, db[n].state # "REMOVED", NEW e \in Record
  PROVE  /\ Put(n, e) \in [Nodes -> Record] /\ Put(n, e)[n] = e
         /\ \A m \in Nodes \ {n} : Put(n, e)[m] = db[m]
<1>1. db \in [Nodes -> Record] /\ NodeSound(n) /\ created \in Nat /\ n \in Nat
  BY DEF IInv, TypeOK, PoolInvariant, Nodes
<1>2. Exists(n)
  BY <1>1 DEF NodeSound, Exists
<1> QED  BY <1>1, <1>2 DEF Put

\* The parts make the invariant.  A step says of each request, registration and
\* record that it is kept, or why it is sound.
LEMMA Combine ==
  ASSUME IInv, Grows, created' \in 0..MaxNodes, spawned' \in 0..MaxProcs,
         db' \in [Nodes -> Record], proc' \in [Procs -> ProcType],
         req' \in [Requests -> ReqType], reg' \in [Regs -> RegType],
         \A n \in Nodes : NodeSound(n)',
         \A p \in Procs : ProcSound(p)',
         \A r \in Requests :
           req'[r] = req[r] \/ (ReqSound(r)' /\ (req'[r].node # None => req'[r].node <= created')),
         \A g \in Regs :
           reg'[g] = reg[g] \/ (RegSound(g)' /\ (reg'[g].node # None => reg'[g].node <= created'))
  PROVE  IInv'
<1>1. created \in Nat /\ created' \in Nat /\ spawned' \in Nat /\ created <= created'
  BY PoolAssumption DEF IInv, TypeOK, Grows
<1>2. \A r \in Requests : ReqSound(r)' /\ (req'[r].node # None => req'[r].node \in 1..created')
  <2> TAKE r \in Requests
  <2>1. req'[r].node \in Nodes \cup {None}
    BY DEF ReqType
  <2>2. CASE req'[r] = req[r]
    <3>1. req[r].node # None => req[r].node \in 1..created
      BY DEF IInv, TypeOK
    <3> QED  BY <1>1, <2>2, <3>1, ReqKept
  <2> QED  BY <1>1, <2>1, <2>2 DEF Nodes
<1>3. \A g \in Regs : RegSound(g)' /\ (reg'[g].node # None => reg'[g].node \in 1..created')
  <2> TAKE g \in Regs
  <2>1. reg'[g].node \in Nodes \cup {None}
    BY DEF RegType
  <2>2. CASE reg'[g] = reg[g]
    <3>1. reg[g].node # None => reg[g].node \in 1..created
      BY DEF IInv, TypeOK
    <3> QED  BY <1>1, <2>2, <3>1, RegKept
  <2> QED  BY <1>1, <2>1, <2>2 DEF Nodes
<1>4. TypeOK'
  BY <1>2, <1>3 DEF TypeOK, ProcType, ReqType, RegType
<1> QED  BY <1>2, <1>3, <1>4 DEF IInv, PoolInvariant

(***************************************************************************)
(* The steps of a request                                                  *)
(***************************************************************************)

\* What is known of a request.
LEMMA ReqFacts ==
  ASSUME IInv, NEW r \in Requests
  PROVE  /\ req \in [Requests -> ReqType] /\ req[r] \in ReqType /\ ReqSound(r)
         /\ req[r].node # None => req[r].node \in Nodes /\ req[r].node <= created
         /\ created \in Nat /\ spawned \in Nat /\ Blank \in Record /\ Blank.port = 0
         /\ Proj[r] \in Projects
<1>1. req \in [Requests -> ReqType] /\ ReqSound(r) /\ created \in 0..MaxNodes /\ spawned \in Nat
  BY DEF IInv, TypeOK, PoolInvariant, ReqType
<1>2. req[r].node # None => req[r].node \in 1..created
  BY DEF IInv, TypeOK
<1>3. Blank \in Record
  BY PoolAssumption DEF Blank, Record, State, Ports
<1> QED  BY <1>1, <1>2, <1>3, PoolAssumption DEF Nodes, Projects, Blank

\* What ReqSound says of a request whose record is q.
Fine(q) ==
  /\ q.node # None => q.node <= created
  /\ q.port <= spawned + 1
  /\ q.pc \in {"claim", "assign", "start"} \/ q.order \in {"queued", "running"} => q.node # None
  /\ q.pc \in {"claim", "assign"} =>
       /\ q.copy.state \in {"IDLE", "REGISTERED"} /\ q.copy.port <= spawned + 1
       /\ Ended(q.node) \/ AddressOf(q.node, q.copy.port)
  /\ q.order # "none" => q.pc \in {"poll", "told", "ordered"}
  /\ q.order = "running" => Ended(q.node) \/ Settled(q.node) # {}

\* A step that changes one request only.
LEMMA OneRequest ==
  ASSUME IInv, NEW r \in Requests, NEW q \in ReqType, req' = [req EXCEPT ![r] = q],
         UNCHANGED <<db, created, proc, spawned, reg>>, Fine(q)
  PROVE  IInv'
<1>1. Grows
  BY DEF Grows, IInv, TypeOK
<1>2. req' \in [Requests -> ReqType] /\ req'[r] = q /\ \A s \in Requests \ {r} : req'[s] = req[s]
  BY ReqFacts
<1>3. \A n : Ended(n)' = Ended(n) /\ Settled(n)' = Settled(n)
  BY DEF Ended, Settled
<1>4. \A n, port : AddressOf(n, port)' = AddressOf(n, port)
  BY <1>3 DEF AddressOf
<1>5. ReqSound(r)'
  BY <1>2, <1>3, <1>4 DEF ReqSound, Fine
<1>6. \A n \in Nodes : NodeSound(n)'
  BY <1>3, <1>4 DEF IInv, PoolInvariant, NodeSound
<1>7. \A p \in Procs : ProcSound(p)'
  BY DEF IInv, PoolInvariant, ProcSound
<1>8. /\ created' \in 0..MaxNodes /\ spawned' \in 0..MaxProcs
      /\ db' \in [Nodes -> Record] /\ proc' \in [Procs -> ProcType] /\ reg' \in [Regs -> RegType]
  BY DEF IInv, TypeOK, ProcType, RegType
<1>9. \A s \in Requests :
        req'[s] = req[s] \/ (ReqSound(s)' /\ (req'[s].node # None => req'[s].node <= created'))
  BY <1>2, <1>5 DEF Fine
<1> QED  BY <1>1, <1>2, <1>6, <1>7, <1>8, <1>9, Combine

\* The request once it has its node.
GotReq(r, order) ==
  [req[r] EXCEPT !.pc = IF Kind[r] = "order" THEN "ordered" ELSE "poll",
                 !.order = order, !.copy = Blank, !.port = 0]

\* The request that has its answer: it keeps its node and forgets its copy and its port.
LEMMA GotFacts ==
  ASSUME IInv, NEW r \in Requests, NEW o \in {"queued", "done"}
  PROVE  /\ Got(r, o) = [req EXCEPT ![r] = GotReq(r, o)]
         /\ GotReq(r, o) \in ReqType
         /\ GotReq(r, o).node = req[r].node /\ GotReq(r, o).port = 0
         /\ GotReq(r, o).pc \in {"ordered", "poll"} /\ GotReq(r, o).order = o
<1>1. req \in [Requests -> ReqType] /\ req[r] \in ReqType /\ Blank \in Record
  BY ReqFacts
<1>2. Got(r, o) = [req EXCEPT ![r] = GotReq(r, o)]
  BY <1>1 DEF Got, GotReq
<1>3. 0 \in Ports
  BY PoolAssumption DEF Ports
<1> DEFINE pc == IF Kind[r] = "order" THEN "ordered" ELSE "poll"
           q  == [req[r] EXCEPT !.pc = pc, !.order = o, !.copy = Blank, !.port = 0]
<1>4. pc \in {"ordered", "poll"}
  OBVIOUS
<1> HIDE DEF pc
<1>5. q \in ReqType /\ q.node = req[r].node /\ q.port = 0 /\ q.pc = pc /\ q.order = o
  BY <1>1, <1>3, <1>4 DEF ReqType, ReqPc
<1>6. GotReq(r, o) = q
  BY DEF GotReq, pc
<1> HIDE DEF q
<1> QED  BY <1>2, <1>4, <1>5, <1>6

\* Nodes that are found by a search were registered as, or one has ended.
LEMMA IdleFacts ==
  ASSUME IInv, NEW project, NEW n \in Idle(project)
  PROVE  /\ n \in Nodes /\ n <= created /\ n # None /\ db[n] \in Record
         /\ db[n].state \in {"IDLE", "REGISTERED"} /\ db[n].port <= spawned + 1
         /\ Ended(n) \/ AddressOf(n, db[n].port)
<1>1. n \in Nodes /\ NodeSound(n) /\ db[n].state \in {"IDLE", "REGISTERED"} /\ db[n].running
  BY DEF Idle, IInv, PoolInvariant
<1>2. db[n] \in Record /\ n # None
  BY <1>1, NoneAssumption DEF IInv, TypeOK
<1> QED  BY <1>1, <1>2 DEF NodeSound

\* A request finds a slave that has its project ready, or none.
LEMMA ReadySound ==
  ASSUME IInv, NEW r \in Requests, Ready(r)
  PROVE  IInv'
<1>1. req \in [Requests -> ReqType] /\ req[r] \in ReqType /\ ReqSound(r)
      /\ (req[r].node # None => req[r].node <= created) /\ spawned \in Nat
  BY ReqFacts
<1>2. req[r].pc = "ready" /\ UNCHANGED <<db, created, proc, spawned, reg>>
  BY DEF Ready
<1>3. CASE Idle(Proj[r]) = {}
  <2> DEFINE q == [req[r] EXCEPT !.pc = "free"]
  <2>1. q \in ReqType /\ q.pc = "free" /\ q.node = req[r].node /\ q.port = req[r].port
        /\ q.order = req[r].order
    BY <1>1 DEF ReqType, ReqPc
  <2>2. req' = [req EXCEPT ![r] = q]
    BY <1>1, <1>3 DEF Ready
  <2> HIDE DEF q
  <2>3. Fine(q)
    BY <1>1, <1>2, <2>1 DEF ReqSound, Fine
  <2> QED  BY <1>2, <2>1, <2>2, <2>3, OneRequest
<1>4. CASE Idle(Proj[r]) # {}
  <2>1. PICK n \in Idle(Proj[r]) : req' = [Got(r, "done") EXCEPT ![r].node = n]
    BY <1>4 DEF Ready
  <2> DEFINE g == GotReq(r, "done")
             q == [g EXCEPT !.node = n]
  <2>2. n \in Nodes /\ n <= created
    BY IdleFacts
  <2>3. Got(r, "done") = [req EXCEPT ![r] = g] /\ g \in ReqType /\ g.port = 0
        /\ g.pc \in {"ordered", "poll"} /\ g.order = "done"
    BY GotFacts
  <2> HIDE DEF g
  <2>4. q \in ReqType /\ q.pc \in {"ordered", "poll"} /\ q.node = n /\ q.port = 0
        /\ q.order = "done"
    BY <2>2, <2>3 DEF ReqType
  <2>5. req' = [req EXCEPT ![r] = q]
    BY <1>1, <2>1, <2>3
  <2> HIDE DEF q
  <2>6. Fine(q)
    BY <1>1, <2>2, <2>4 DEF Fine
  <2> QED  BY <1>2, <2>4, <2>5, <2>6, OneRequest
<1> QED  BY <1>3, <1>4

\* The request takes a slave without a project, with a copy of its record.
LEMMA FreeFoundSound ==
  ASSUME IInv, NEW r \in Requests, FreeFound(r)
  PROVE  IInv'
<1>1. req \in [Requests -> ReqType] /\ req[r] \in ReqType /\ ReqSound(r) /\ spawned \in Nat
      /\ Proj[r] \in Projects
  BY ReqFacts
<1>2. req[r].pc = "free" /\ UNCHANGED <<db, created, proc, spawned, reg>>
  BY DEF FreeFound
<1>3. PICK n \in Idle(None) :
        req' = [req EXCEPT ![r].node = n,
                           ![r].copy = [db[n] EXCEPT !.project = Proj[r]],
                           ![r].pc = IF Kind[r] = "order" THEN "claim" ELSE "assign"]
  BY DEF FreeFound
<1> DEFINE c  == [db[n] EXCEPT !.project = Proj[r]]
           pc == IF Kind[r] = "order" THEN "claim" ELSE "assign"
           q  == [req[r] EXCEPT !.node = n, !.copy = c, !.pc = pc]
<1>4. /\ n \in Nodes /\ n <= created /\ n # None /\ db[n] \in Record
      /\ db[n].state \in {"IDLE", "REGISTERED"} /\ db[n].port <= spawned + 1
      /\ Ended(n) \/ AddressOf(n, db[n].port)
  BY IdleFacts
<1>5. c \in Record /\ c.state = db[n].state /\ c.port = db[n].port
  BY <1>1, <1>4 DEF Record
<1> HIDE DEF c
<1>6. /\ q \in ReqType /\ q.node = n /\ q.copy = c /\ q.pc \in {"claim", "assign"}
      /\ q.port = req[r].port /\ q.order = req[r].order
  BY <1>1, <1>4, <1>5 DEF ReqType, ReqPc
<1>7. req' = [req EXCEPT ![r] = q]
  BY <1>1, <1>3 DEF c
<1>8. Ended(n) \/ Settled(n) # {}
  BY <1>4 DEF AddressOf
<1> HIDE DEF q
<1>9. Fine(q)
  BY <1>1, <1>2, <1>4, <1>5, <1>6, <1>8 DEF Fine, ReqSound
<1> QED  BY <1>2, <1>6, <1>7, <1>9, OneRequest

\* The steps that only move a request on, or note a port.
LEMMA MoveSound ==
  ASSUME IInv, NEW r \in Requests, NEW pc \in {"quota", "ports", "refused", "insert", "told"},
         NEW port \in Ports, port <= spawned + 1, pc = "told" \/ req[r].order = "none",
         req' = [req EXCEPT ![r] = [req[r] EXCEPT !.pc = pc, !.port = port]],
         UNCHANGED <<db, created, proc, spawned, reg>>
  PROVE  IInv'
<1> DEFINE q == [req[r] EXCEPT !.pc = pc, !.port = port]
<1>1. req[r] \in ReqType /\ ReqSound(r) /\ (req[r].node # None => req[r].node <= created)
  BY ReqFacts
<1>2. q \in ReqType /\ q.pc = pc /\ q.port = port /\ q.node = req[r].node
      /\ q.order = req[r].order
  BY <1>1 DEF ReqType, ReqPc
<1> HIDE DEF q
<1>3. req' = [req EXCEPT ![r] = q]
  BY DEF q
<1>4. Fine(q)
  BY <1>1, <1>2 DEF Fine, ReqSound
<1> QED  BY <1>2, <1>3, <1>4, OneRequest

\* The steps of a request that change nothing but where it is: no free slave, the quotas, the next
\* port, a poll of the state.
LEMMA LocalSound ==
  ASSUME IInv, NEW r \in Requests, FreeNone(r) \/ Quota(r) \/ GetPorts(r) \/ Poll(r)
  PROVE  IInv'
<1>1. req \in [Requests -> ReqType] /\ req[r] \in ReqType /\ ReqSound(r)
  BY ReqFacts
<1>2. req[r].port \in Ports /\ req[r].port <= spawned + 1
      /\ \A pc : [req[r] EXCEPT !.pc = pc] = [req[r] EXCEPT !.pc = pc, !.port = req[r].port]
  BY <1>1 DEF ReqType, ReqSound
<1> DEFINE none == req[r].order = "none"
<1>7. req[r].pc \in {"free", "quota", "ports"} => none
  BY <1>1 DEF ReqSound
<1>3. CASE FreeNone(r)
  <2>1. PICK pc \in {"quota", "ports"} : req' = [req EXCEPT ![r] = [req[r] EXCEPT !.pc = pc]]
    BY <1>1, <1>3 DEF FreeNone
  <2> QED  BY <1>2, <1>3, <1>7, <2>1, MoveSound DEF FreeNone
<1>4. CASE Quota(r)
  <2>1. PICK pc \in {"ports", "refused"} : req' = [req EXCEPT ![r] = [req[r] EXCEPT !.pc = pc]]
    BY <1>1, <1>4 DEF Quota
  <2> QED  BY <1>2, <1>4, <1>7, <2>1, MoveSound DEF Quota
<1>5. CASE GetPorts(r)
  <2>1. req' = [req EXCEPT ![r] = [req[r] EXCEPT !.pc = "insert", !.port = NextPort]]
    BY <1>1, <1>5 DEF GetPorts
  <2> QED  BY <1>5, <1>7, <2>1, NextPortBound, MoveSound DEF GetPorts
<1>6. CASE Poll(r)
  <2>1. req' = [req EXCEPT ![r] = [req[r] EXCEPT !.pc = "told"]]
    BY <1>1, <1>6 DEF Poll
  <2> QED  BY <1>2, <1>6, <2>1, MoveSound DEF Poll
<1> QED  BY <1>3, <1>4, <1>5, <1>6

\* What NodeSound says of node n, that exists, if its record is e.
Apt(n, e) ==
  /\ n \in Nodes /\ n <= created /\ e \in Record
  /\ e.state \notin {"none", "REMOVED"} /\ e.port <= spawned + 1
  /\ Settled(n) # {} \/ e.state \in {"REGISTERED", "IDLE", "BUSY"} =>
       Ended(n) \/ AddressOf(n, e.port)

\* The record of a node that exists is apt, and stays so if its port does, and its
\* state, or somebody is registered as the node.
LEMMA RecordApt ==
  ASSUME IInv, NEW n \in Nodes, n <= created, db[n].state # "REMOVED"
  PROVE  /\ Apt(n, db[n])
         /\ \A e \in Record :
              /\ e.port = db[n].port /\ e.state \notin {"none", "REMOVED"}
              /\ e.state \in {"REGISTERED", "IDLE", "BUSY"} =>
                   db[n].state \in {"REGISTERED", "IDLE", "BUSY"} \/ Ended(n) \/ Settled(n) # {}
              => Apt(n, e)
<1>1. NodeSound(n) /\ db[n] \in Record /\ n \in Nat /\ created \in Nat
  BY DEF IInv, TypeOK, PoolInvariant, Nodes
<1> QED  BY <1>1 DEF NodeSound, Apt

\* A step that changes one request and writes one record.
LEMMA OneRecord ==
  ASSUME IInv, NEW r \in Requests, NEW q \in ReqType, req' = [req EXCEPT ![r] = q],
         UNCHANGED <<created, proc, spawned, reg>>, Fine(q),
         NEW n, NEW e, db[n].state # "REMOVED" => Apt(n, e), db' = Put(n, e)
  PROVE  IInv'
<1>0. CASE db[n].state = "REMOVED"
  BY <1>0, PutGone, OneRequest
<1> SUFFICES ASSUME db[n].state # "REMOVED"  PROVE IInv'
  BY <1>0
<1>1. Grows
  BY DEF Grows, IInv, TypeOK
<1>2. req' \in [Requests -> ReqType] /\ req'[r] = q /\ \A s \in Requests \ {r} : req'[s] = req[s]
  BY ReqFacts
<1>3. \A m : Ended(m)' = Ended(m) /\ Settled(m)' = Settled(m)
  BY DEF Ended, Settled
<1>4. \A m, port : AddressOf(m, port)' = AddressOf(m, port)
  BY <1>3 DEF AddressOf
<1>5. ReqSound(r)'
  BY <1>2, <1>3, <1>4 DEF ReqSound, Fine
<1>6. db' \in [Nodes -> Record] /\ db'[n] = e /\ \A m \in Nodes \ {n} : db'[m] = db[m]
  BY PutAt DEF Apt
<1>7. \A m \in Nodes : NodeSound(m)'
  <2> TAKE m \in Nodes
  <2>1. CASE m = n
    <3>1. n \in Nat /\ created \in Nat
      BY DEF Apt, Nodes, IInv, TypeOK
    <3> QED  BY <1>3, <1>4, <1>6, <2>1, <3>1 DEF NodeSound, Apt
  <2>2. CASE m # n
    BY <1>3, <1>4, <1>6, <2>2 DEF IInv, PoolInvariant, NodeSound
  <2> QED  BY <2>1, <2>2
<1>8. \A p \in Procs : ProcSound(p)'
  BY DEF IInv, PoolInvariant, ProcSound
<1>9. /\ created' \in 0..MaxNodes /\ spawned' \in 0..MaxProcs
      /\ proc' \in [Procs -> ProcType] /\ reg' \in [Regs -> RegType]
  BY DEF IInv, TypeOK, ProcType, RegType
<1>10. \A s \in Requests :
         req'[s] = req[s] \/ (ReqSound(s)' /\ (req'[s].node # None => req'[s].node <= created'))
  BY <1>2, <1>5 DEF Fine
<1> QED  BY <1>1, <1>2, <1>6, <1>7, <1>8, <1>9, <1>10, Combine

\* The project of the request is written into the record of the slave it took.
LEMMA ClaimSound ==
  ASSUME IInv, NEW r \in Requests, Claim(r)
  PROVE  IInv'
<1> DEFINE n == req[r].node
           e == [db[n] EXCEPT !.project = Proj[r]]
           q == [req[r] EXCEPT !.pc = "assign"]
<1>1. req \in [Requests -> ReqType] /\ req[r] \in ReqType /\ ReqSound(r) /\ Proj[r] \in Projects
      /\ (n # None => n \in Nodes /\ n <= created)
  BY ReqFacts
<1>2. req[r].pc = "claim" /\ db' = Put(n, e) /\ UNCHANGED <<created, proc, spawned, reg>>
      /\ req' = [req EXCEPT ![r] = q]
  BY <1>1 DEF Claim
<1>3. n \in Nodes /\ n <= created
  BY <1>1, <1>2 DEF ReqSound
<1>4. db[n].state # "REMOVED" => Apt(n, db[n])
  BY <1>3, RecordApt
<1>5. e \in Record /\ e.port = db[n].port /\ e.state = db[n].state
  <2>1. db[n] \in Record
    BY <1>3 DEF IInv, TypeOK
  <2> QED  BY <1>1, <2>1 DEF Record
<1>6. /\ q \in ReqType /\ q.pc = "assign" /\ q.node = n /\ q.copy = req[r].copy
      /\ q.port = req[r].port /\ q.order = req[r].order
  BY <1>1 DEF ReqType, ReqPc
<1> HIDE DEF e, q
<1>7. db[n].state # "REMOVED" => Apt(n, e)
  BY <1>4, <1>5 DEF Apt
<1>8. Fine(q)
  BY <1>1, <1>2, <1>3, <1>6 DEF Fine, ReqSound
<1> QED  BY <1>2, <1>6, <1>7, <1>8, OneRecord

\* The request saves its whole copy, address included: an address of the slave it took.
LEMMA AssignSound ==
  ASSUME IInv, NEW r \in Requests, Assign(r)
  PROVE  IInv'
<1> DEFINE n == req[r].node
           q == GotReq(r, "queued")
<1>1. /\ req[r] \in ReqType /\ ReqSound(r) /\ spawned \in Nat
      /\ (n # None => n \in Nodes /\ n <= created)
  BY ReqFacts
<1>2. req[r].pc = "assign" /\ db' = Put(n, req[r].copy) /\ UNCHANGED <<created, proc, spawned, reg>>
      /\ req' = Got(r, "queued")
  BY DEF Assign
<1>3. /\ Got(r, "queued") = [req EXCEPT ![r] = q] /\ q \in ReqType
      /\ q.node = n /\ q.port = 0 /\ q.pc \in {"ordered", "poll"} /\ q.order = "queued"
  BY GotFacts
<1> HIDE DEF q
<1>4. Apt(n, req[r].copy)
  BY <1>1, <1>2 DEF Apt, ReqSound, ReqType
<1>5. Fine(q)
  BY <1>1, <1>2, <1>3 DEF Fine, ReqSound
<1> QED  BY <1>2, <1>3, <1>4, <1>5, OneRecord

\* A slave that starts an order says BUSY; its record keeps its address.
LEMMA WorkSound ==
  ASSUME IInv, NEW r \in Requests, Work(r)
  PROVE  IInv'
<1> DEFINE n == req[r].node
           s == IF Kind[r] = "order" THEN db[n].idleSince ELSE FALSE
           e == [db[n] EXCEPT !.state = "BUSY", !.idleSince = s]
           q == [req[r] EXCEPT !.order = "running"]
<1>1. req \in [Requests -> ReqType] /\ req[r] \in ReqType /\ ReqSound(r)
      /\ (n # None => n \in Nodes /\ n <= created)
  BY ReqFacts
<1>2. /\ req[r].order = "queued" /\ db[n].state = "IDLE"
      /\ UNCHANGED <<created, proc, spawned, reg>>
      /\ req' = [req EXCEPT ![r] = q]
  BY <1>1 DEF Work
<1>3. n \in Nodes /\ n <= created
  BY <1>1, <1>2 DEF ReqSound
<1>4. Apt(n, db[n])
  BY <1>2, <1>3, RecordApt
<1>5. s \in BOOLEAN
  BY <1>4 DEF Apt, Record
<1>6. db' = [db EXCEPT ![n] = e] /\ db \in [Nodes -> Record]
  <2>1. db \in [Nodes -> Record]
    BY DEF IInv, TypeOK
  <2> QED  BY <1>3, <2>1 DEF Work
<1>7. db' = Put(n, e)
  BY <1>2, <1>6 DEF Put, Exists
<1> HIDE DEF s
<1>8. e \in Record /\ e.port = db[n].port /\ e.state = "BUSY"
  BY <1>4, <1>5 DEF Record, Apt, State
<1>9. /\ q \in ReqType /\ q.pc = req[r].pc /\ q.node = n /\ q.copy = req[r].copy
      /\ q.port = req[r].port /\ q.order = "running"
  BY <1>1 DEF ReqType
<1> HIDE DEF e, q
<1>10. Apt(n, e)
  BY <1>2, <1>4, <1>8 DEF Apt
<1>11. Ended(n) \/ Settled(n) # {}
  BY <1>2, <1>4 DEF Apt, AddressOf
<1>12. Fine(q)
  BY <1>1, <1>2, <1>3, <1>9, <1>11 DEF Fine, ReqSound
<1> QED  BY <1>2, <1>7, <1>9, <1>10, <1>12, OneRecord

\* A slave that ends an order says IDLE; its record keeps its address.
LEMMA FinishSound ==
  ASSUME IInv, NEW r \in Requests, Finish(r)
  PROVE  IInv'
<1> DEFINE n == req[r].node
           e == [db[n] EXCEPT !.state = "IDLE", !.idleSince = TRUE]
           q == [req[r] EXCEPT !.order = "done"]
<1>1. req \in [Requests -> ReqType] /\ req[r] \in ReqType /\ ReqSound(r)
      /\ (n # None => n \in Nodes /\ n <= created)
  BY ReqFacts
<1>2. req[r].order = "running" /\ UNCHANGED <<created, proc, spawned, reg>>
      /\ req' = [req EXCEPT ![r] = q]
  BY <1>1 DEF Finish
<1>3. n \in Nodes /\ n <= created
  BY <1>1, <1>2 DEF ReqSound
<1>4. db[n] \in Record
  BY <1>3 DEF IInv, TypeOK
<1>5. e \in Record /\ e.port = db[n].port /\ e.state = "IDLE"
  BY <1>4 DEF Record, State
<1>6. /\ q \in ReqType /\ q.pc = req[r].pc /\ q.node = n /\ q.copy = req[r].copy
      /\ q.port = req[r].port /\ q.order = "done"
  BY <1>1 DEF ReqType
<1>7. CASE Kind[r] = "order"
  <2>1. db' = db
    BY <1>7 DEF Finish
  <2> HIDE DEF q
  <2>2. Fine(q)
    BY <1>1, <1>2, <1>3, <1>6 DEF Fine, ReqSound
  <2> QED  BY <1>2, <1>6, <2>1, <2>2, OneRequest
<1>8. CASE Kind[r] # "order"
  <2>1. db' = Put(n, e)
    BY <1>8 DEF Finish
  <2> HIDE DEF e, q
  <2>2. Fine(q)
    BY <1>1, <1>2, <1>3, <1>6 DEF Fine, ReqSound
  <2>3. Ended(n) \/ Settled(n) # {}
    BY <1>1, <1>2 DEF ReqSound
  <2>4. db[n].state # "REMOVED" => Apt(n, e)
    BY <1>3, <1>5, <2>3, RecordApt
  <2> QED  BY <1>2, <1>6, <2>1, <2>2, <2>4, OneRecord
<1> QED  BY <1>7, <1>8

\* Record k is inserted: nobody is registered as its node.
LEMMA InsertedSound ==
  ASSUME IInv, Grows, NEW k \in Nodes, k = created + 1, created' = k, spawned' = spawned,
         \A n \in Nodes : Settled(n)' \subseteq Settled(n),
         NEW project \in Projects \cup {None}, NEW port \in Ports, port <= spawned + 1,
         db' = [db EXCEPT ![k] = Queued(project, port)]
  PROVE  /\ db' \in [Nodes -> Record] /\ created' \in 0..MaxNodes
         /\ \A n \in Nodes : NodeSound(n)'
<1> DEFINE e == Queued(project, port)
<1>1. /\ k \in Nat /\ created \in Nat /\ created' \in 0..MaxNodes /\ spawned \in Nat
      /\ db \in [Nodes -> Record]
  BY PoolAssumption DEF IInv, TypeOK, Nodes
<1>2. e \in Record /\ e.state = "QUEUED" /\ e.port = port
  BY DEF Queued, Blank, Record, State
<1>3. db' = [db EXCEPT ![k] = e]
  OBVIOUS
<1> HIDE DEF e
<1>4. db' \in [Nodes -> Record] /\ db'[k] = e /\ \A n \in Nodes \ {k} : db'[n] = db[n]
  BY <1>1, <1>2, <1>3
<1>5. Settled(k)' = {}
  <2>1. \A g \in Regs : reg[g].node # None => reg[g].node \in 1..created
    BY DEF IInv, TypeOK
  <2>2. k # None /\ k \notin 1..created
    BY <1>1, NoneAssumption
  <2>3. Settled(k) = {}
    BY <2>1, <2>2 DEF Settled
  <2> QED  BY <2>3
<1>6. NodeSound(k)'
  BY <1>1, <1>2, <1>4, <1>5 DEF NodeSound
<1>7. \A n \in Nodes \ {k} : NodeSound(n)'
  <2> TAKE n \in Nodes \ {k}
  <2>1. NodeSound(n) /\ n \in Nat /\ db[n] \in Record
    BY <1>1 DEF IInv, PoolInvariant, Nodes
  <2>2. n <= created' <=> n <= created
    BY <1>1, <2>1
  <2>3. db'[n] = db[n] /\ created' \in Nat /\ spawned' \in Nat
    BY <1>1, <1>4
  <2>4. db[n].running => n <= created
    BY <2>1 DEF NodeSound
  <2> QED  BY <2>1, <2>2, <2>3, <2>4, NodeKept
<1> QED  BY <1>1, <1>4, <1>6, <1>7

\* A record is created with the port that the request computed.
LEMMA InsertSound ==
  ASSUME IInv, NEW r \in Requests, Insert(r)
  PROVE  IInv'
<1>1. req \in [Requests -> ReqType] /\ req[r] \in ReqType /\ ReqSound(r) /\ Proj[r] \in Projects
      /\ created \in Nat /\ spawned \in Nat
  BY ReqFacts
<1>2. req[r].pc = "insert" /\ created < MaxNodes /\ UNCHANGED <<proc, spawned, reg>>
  BY DEF Insert
<1>3. PICK k \in Nodes : k = created + 1
  BY <1>1, <1>2, PoolAssumption DEF Nodes
<1> DEFINE q == [req[r] EXCEPT !.pc = "start", !.node = k]
<1>4. /\ created' = k /\ db' = [db EXCEPT ![k] = Queued(Proj[r], req[r].port)]
      /\ req' = [req EXCEPT ![r] = q]
  BY <1>1, <1>3 DEF Insert
<1>5. Grows
  BY <1>1, <1>2, <1>3, <1>4 DEF Grows
<1>6. \A n : Settled(n)' = Settled(n) /\ Ended(n)' = Ended(n)
  BY <1>2 DEF Settled, Ended
<1>7. req[r].port \in Ports /\ req[r].port <= spawned + 1 /\ req[r].order = "none" /\ k # None
  BY <1>1, <1>2, NoneAssumption DEF ReqType, ReqSound
<1>8. db' \in [Nodes -> Record] /\ created' \in 0..MaxNodes /\ \A n \in Nodes : NodeSound(n)'
  BY <1>1, <1>2, <1>3, <1>4, <1>5, <1>6, <1>7, InsertedSound
<1>9. /\ q \in ReqType /\ q.pc = "start" /\ q.node = k /\ q.port = req[r].port
      /\ q.order = req[r].order
  BY <1>1 DEF ReqType, ReqPc
<1> HIDE DEF q
<1>10. req' \in [Requests -> ReqType] /\ req'[r] = q /\ \A s \in Requests \ {r} : req'[s] = req[s]
  BY <1>1, <1>4, <1>9
<1>11. ReqSound(r)' /\ q.node <= created'
  BY <1>2, <1>3, <1>4, <1>7, <1>9, <1>10 DEF ReqSound
<1>12. \A p \in Procs : ProcSound(p)'
  <2> TAKE p \in Procs
  <2>1. ProcSound(p) /\ (proc[p].node # None => proc[p].node \in Nat)
    BY DEF IInv, TypeOK, PoolInvariant, Nodes
  <2>2. proc[p].node # None => proc[p].node <= created'
    BY <1>1, <1>3, <1>4, <2>1 DEF ProcSound
  <2> QED  BY <1>2, <2>1, <2>2 DEF ProcSound
<1>13. /\ spawned' \in 0..MaxProcs
       /\ proc' \in [Procs -> ProcType] /\ reg' \in [Regs -> RegType]
  BY <1>2 DEF IInv, TypeOK, ProcType, RegType
<1>14. \A s \in Requests :
         req'[s] = req[s] \/ (ReqSound(s)' /\ (req'[s].node # None => req'[s].node <= created'))
  BY <1>10, <1>11
<1> QED  BY <1>2, <1>5, <1>8, <1>10, <1>12, <1>13, <1>14, Combine

\* A process is spawned: its port is at most its identifier, and nobody has registered as its node
\* unless the record already has the address of one who did.
LEMMA StartSound ==
  ASSUME IInv, NEW r \in Requests, Start(r)
  PROVE  IInv'
<1> DEFINE n == req[r].node
           k == spawned + 1
           w == [pc |-> "starting", port |-> req[r].port, node |-> n, uuid |-> None]
           e == [db[n] EXCEPT !.state = "QUEUED", !.running = TRUE, !.pid = k]
           q == GotReq(r, "queued")
<1>1. /\ req \in [Requests -> ReqType] /\ req[r] \in ReqType /\ ReqSound(r)
      /\ created \in Nat /\ spawned \in Nat /\ (n # None => n \in Nodes /\ n <= created)
  BY ReqFacts
<1>2. /\ req[r].pc = "start" /\ spawned < MaxProcs /\ spawned' = k
      /\ proc' = [proc EXCEPT ![k] = w] /\ db' = Put(n, e)
      /\ req' = Got(r, "queued") /\ UNCHANGED <<created, reg>>
  BY DEF Start
<1>3. n \in Nodes /\ n <= created /\ n # None
  BY <1>1, <1>2 DEF ReqSound
<1>4. k \in Procs /\ spawned' \in 0..MaxProcs /\ proc \in [Procs -> ProcType]
  BY <1>1, <1>2, PoolAssumption DEF Procs, IInv, TypeOK, ProcType
<1>5. proc[k].pc = "none"
  BY <1>1, <1>4 DEF IInv, PoolInvariant, ProcSound
<1>6. w \in ProcType /\ w.pc = "starting" /\ w.port = req[r].port /\ w.node = n
  BY <1>1, <1>3 DEF ProcType, ProcPc, ReqType
<1>7. db[n] \in Record /\ NodeSound(n) /\ n \in Nat
  BY <1>3 DEF IInv, TypeOK, PoolInvariant, Nodes
<1>8. e \in Record /\ e.port = db[n].port /\ e.state = "QUEUED"
  BY <1>4, <1>7 DEF Record, State
<1>9. /\ Got(r, "queued") = [req EXCEPT ![r] = q] /\ q \in ReqType
      /\ q.node = n /\ q.port = 0 /\ q.pc \in {"ordered", "poll"} /\ q.order = "queued"
  BY GotFacts
<1> HIDE DEF w, e, q
<1>10. /\ proc' \in [Procs -> ProcType] /\ proc'[k] = w
       /\ \A p \in Procs \ {k} : proc'[p] = proc[p]
  BY <1>2, <1>4, <1>6
<1>11. /\ db' \in [Nodes -> Record] /\ \A m \in Nodes \ {n} : db'[m] = db[m]
       /\ IF db[n].state = "REMOVED" THEN db'[n] = db[n] ELSE db'[n] = e
  <2>1. CASE db[n].state = "REMOVED"
    BY <1>2, <2>1, PutGone DEF IInv, TypeOK
  <2>2. CASE db[n].state # "REMOVED"
    BY <1>2, <1>3, <1>8, <2>2, PutAt
  <2> QED  BY <2>1, <2>2
<1>12. Grows
  BY <1>1, <1>2, <1>5, <1>10 DEF Grows
<1>13. \A m : Settled(m)' = Settled(m)
  BY <1>2 DEF Settled
<1>14. \A m \in Nodes : NodeSound(m)'
  <2> TAKE m \in Nodes
  <2>1. NodeSound(m) /\ db[m] \in Record
    BY DEF IInv, TypeOK, PoolInvariant
  <2>2. /\ db'[m] \in Record /\ db'[m].port = db[m].port
        /\ db[m].state = "REMOVED" => db'[m].state = "REMOVED"
        /\ db'[m].state = "none" <=> db[m].state = "none"
        /\ db'[m].running => m <= created
        /\ db'[m].state \in {"REGISTERED", "IDLE", "BUSY"} =>
             db[m].state \in {"REGISTERED", "IDLE", "BUSY"}
    <3>1. CASE m = n
      BY <1>1, <1>3, <1>7, <1>8, <1>11, <3>1 DEF NodeSound
    <3>2. CASE m # n
      BY <1>11, <2>1, <3>2 DEF NodeSound
    <3> QED  BY <3>1, <3>2
  <2>3. created' = created /\ spawned' \in Nat
    BY <1>1, <1>2
  <2> QED  BY <1>1, <1>12, <1>13, <2>2, <2>3, NodeKept
<1>15. \A p \in Procs : ProcSound(p)'
  <2> TAKE p \in Procs
  <2>1. ProcSound(p) /\ p \in Nat /\ proc[p].port \in Nat
    BY <1>4 DEF IInv, PoolInvariant, Procs, ProcType, Ports
  <2>2. CASE p = k
    <3>1. req[r].port \in Nat /\ req[r].port <= k
      BY <1>1 DEF ReqSound, ReqType, Ports
    <3> QED  BY <1>1, <1>2, <1>3, <1>6, <1>10, <2>2, <3>1 DEF ProcSound
  <2>3. CASE p # k
    <3>1. proc'[p].pc = "none" <=> p > spawned'
      BY <1>1, <1>2, <1>10, <2>1, <2>3 DEF ProcSound
    <3>2. \A o \in Procs : proc'[o].pc = "up" => o # k /\ proc'[o] = proc[o]
      BY <1>6, <1>10
    <3> QED  BY <1>2, <1>10, <2>1, <2>3, <3>1, <3>2 DEF ProcSound
  <2> QED  BY <2>2, <2>3
<1>16. req' \in [Requests -> ReqType] /\ req'[r] = q /\ \A s \in Requests \ {r} : req'[s] = req[s]
  BY <1>1, <1>2, <1>9
<1>17. ReqSound(r)' /\ q.node <= created'
  BY <1>1, <1>2, <1>3, <1>9, <1>16 DEF ReqSound
<1>18. reg' \in [Regs -> RegType] /\ created' \in 0..MaxNodes
  BY <1>2 DEF IInv, TypeOK, RegType
<1>19. \A s \in Requests :
         req'[s] = req[s] \/ (ReqSound(s)' /\ (req'[s].node # None => req'[s].node <= created'))
  BY <1>16, <1>17
<1> QED  BY <1>2, <1>4, <1>10, <1>11, <1>12, <1>14, <1>15, <1>16, <1>18, <1>19, Combine

(***************************************************************************)
(* The processes                                                           *)
(***************************************************************************)

\* What the invariant says of one process.
LEMMA ProcFacts ==
  ASSUME IInv, NEW p \in Procs
  PROVE  /\ proc \in [Procs -> ProcType] /\ proc[p] \in ProcType /\ ProcSound(p)
         /\ p \in Nat /\ spawned \in Nat /\ created \in Nat /\ proc[p].port \in Nat
         /\ proc[p].pc # "none" => proc[p].port <= spawned
         /\ proc[p].node # None => proc[p].node \in Nodes /\ proc[p].node <= created
<1>1. /\ proc \in [Procs -> ProcType] /\ proc[p] \in ProcType /\ ProcSound(p)
      /\ p \in Nat /\ spawned \in Nat /\ created \in Nat
  BY DEF IInv, TypeOK, PoolInvariant, ProcType, Procs
<1>2. proc[p].port \in Nat /\ (proc[p].node # None => proc[p].node \in Nodes)
  BY <1>1 DEF ProcType, Ports
<1> QED  BY <1>1, <1>2 DEF ProcSound

\* A process keeps its port and its node, and moves on.
LEMMA ProcMoves ==
  ASSUME IInv, NEW p \in Procs, proc[p].pc # "none", NEW w \in ProcType,
         proc' = [proc EXCEPT ![p] = w], UNCHANGED <<created, spawned, reg>>,
         w.port = proc[p].port, w.node = proc[p].node, w.pc # "none",
         proc[p].pc = "up" => w.pc \in {"up", "dead"},
         proc[p].pc = "dead" => w.pc = "dead",
         w.pc = "up" => proc[p].pc = "up" \/ ServerAt(proc[p].port) = {}
  PROVE  /\ Grows /\ proc' \in [Procs -> ProcType] /\ proc'[p] = w
         /\ \A q \in Procs : ProcSound(q)'
<1>1. /\ proc' \in [Procs -> ProcType] /\ proc'[p] = w
      /\ \A q \in Procs \ {p} : proc'[q] = proc[q]
  BY ProcFacts
<1>2. created \in Nat /\ spawned \in Nat
  BY ProcFacts
<1>3. Grows
  BY <1>1, <1>2 DEF Grows
<1>4. \A q \in Procs : ProcSound(q)
  BY DEF IInv, PoolInvariant
<1>5. \A q \in Procs : proc'[q].port = proc[q].port /\ proc'[q].node = proc[q].node
                       /\ (proc'[q].pc = "none" <=> proc[q].pc = "none")
  BY <1>1
<1>6. ASSUME NEW a \in Procs, NEW b \in Procs, proc'[a].pc = "up", proc'[b].pc = "up",
             proc'[a].port = proc'[b].port
      PROVE  a = b
  <2>1. \A o \in Procs : proc'[o].pc = "up" => o = p \/ proc[o].pc = "up"
    BY <1>1
  <2>2. proc[a].port = proc[b].port
    BY <1>5, <1>6
  <2>3. CASE proc[a].pc = "up" /\ proc[b].pc = "up"
    BY <1>4, <2>2, <2>3 DEF ProcSound
  <2>4. CASE proc[p].pc # "up" /\ (a = p \/ b = p)
    <3>1. w.pc = "up"
      BY <1>1, <1>6, <2>4
    <3>2. \A o \in Procs : ~(proc[o].pc = "up" /\ proc[o].port = proc[p].port)
      BY <2>4, <3>1 DEF ServerAt
    <3>3. a # b => proc[a].pc = "up" \/ proc[b].pc = "up"
      BY <1>6, <2>1, <2>4
    <3> QED  BY <2>2, <2>4, <3>2, <3>3
  <2> QED  BY <1>6, <2>1, <2>3, <2>4
<1>7. \A q \in Procs : ProcSound(q)'
  BY <1>4, <1>5, <1>6 DEF ProcSound
<1> QED  BY <1>1, <1>3, <1>7

\* What is not written by a process that moves is kept.
LEMMA ProcCombine ==
  ASSUME IInv, Grows, UNCHANGED <<created, spawned, req, reg>>,
         proc' \in [Procs -> ProcType], db' \in [Nodes -> Record],
         \A q \in Procs : ProcSound(q)', \A n \in Nodes : NodeSound(n)'
  PROVE  IInv'
<1>1. /\ created' \in 0..MaxNodes /\ spawned' \in 0..MaxProcs
      /\ req' \in [Requests -> ReqType] /\ reg' \in [Regs -> RegType]
  BY DEF IInv, TypeOK, ReqType, RegType
<1> QED  BY <1>1, Combine

\* Records that nobody writes are sound.
LEMMA NodesKept ==
  ASSUME IInv, Grows, UNCHANGED <<db, created, spawned>>,
         \A n \in Nodes : Settled(n)' \subseteq Settled(n)
  PROVE  db' \in [Nodes -> Record] /\ \A n \in Nodes : NodeSound(n)'
<1>1. db' \in [Nodes -> Record] /\ created' \in Nat /\ spawned' \in Nat
  BY DEF IInv, TypeOK
<1>2. \A n \in Nodes : db[n].running => n <= created
  BY DEF IInv, PoolInvariant, NodeSound
<1> QED  BY <1>1, <1>2, NodeKept

\* Who has registered as a node does not change while no registration moves.
LEMMA SameSettled ==
  ASSUME UNCHANGED reg
  PROVE  \A n : Settled(n)' = Settled(n)
BY DEF Settled

\* A process takes its port only when nobody listens at it.
LEMMA ListenSound ==
  ASSUME IInv, NEW p \in Procs, Listen(p)
  PROVE  IInv'
<1> DEFINE w == [proc[p] EXCEPT !.pc = "up"]
<1>1. proc \in [Procs -> ProcType] /\ proc[p] \in ProcType
  BY ProcFacts
<1>2. /\ proc[p].pc = "starting" /\ ServerAt(proc[p].port) = {}
      /\ proc' = [proc EXCEPT ![p] = w] /\ UNCHANGED <<db, created, spawned, req, reg>>
  BY <1>1 DEF Listen
<1>3. w \in ProcType /\ w.pc = "up" /\ w.port = proc[p].port /\ w.node = proc[p].node
  BY <1>1 DEF ProcType, ProcPc
<1> HIDE DEF w
<1>4. Grows /\ proc' \in [Procs -> ProcType] /\ \A q \in Procs : ProcSound(q)'
  BY <1>2, <1>3, ProcMoves
<1>5. db' \in [Nodes -> Record] /\ \A n \in Nodes : NodeSound(n)'
  BY <1>2, <1>4, SameSettled, NodesKept
<1> QED  BY <1>2, <1>4, <1>5, ProcCombine

\* The reply only tells a process its node.
LEMMA RegReplySound ==
  ASSUME IInv, NEW p \in Procs, NEW k \in 1..Tries, RegReply(p, k)
  PROVE  IInv'
<1> DEFINE u == reg[<<p, k>>].node
           w == [proc[p] EXCEPT !.uuid = u]
<1>1. proc \in [Procs -> ProcType] /\ proc[p] \in ProcType
  BY ProcFacts
<1>2. /\ proc[p].pc = "up" /\ proc' = [proc EXCEPT ![p] = w]
      /\ UNCHANGED <<db, created, spawned, req, reg>>
  BY <1>1 DEF RegReply
<1>3. u \in Nodes \cup {None}
  <2>1. <<p, k>> \in Regs /\ reg \in [Regs -> RegType]
    BY DEF Regs, IInv, TypeOK, RegType
  <2> QED  BY <2>1 DEF RegType
<1> HIDE DEF u
<1>4. w \in ProcType /\ w.pc = "up" /\ w.port = proc[p].port /\ w.node = proc[p].node
  BY <1>1, <1>2, <1>3 DEF ProcType
<1> HIDE DEF w
<1>5. Grows /\ proc' \in [Procs -> ProcType] /\ \A q \in Procs : ProcSound(q)'
  BY <1>2, <1>4, ProcMoves
<1>6. db' \in [Nodes -> Record] /\ \A n \in Nodes : NodeSound(n)'
  BY <1>2, <1>5, SameSettled, NodesKept
<1> QED  BY <1>2, <1>5, <1>6, ProcCombine

\* The record that the listener of a process writes.
LEMMA ClosedFacts ==
  ASSUME IInv, NEW p \in Procs
  PROVE  /\ Closed(p) \in [Nodes -> Record]
         /\ \A n \in Nodes :
              IF n = proc[p].node /\ db[n].state # "REMOVED"
              THEN Closed(p)[n].state = "STOPPED" /\ ~Closed(p)[n].running
                   /\ Closed(p)[n].port = proc[p].port
              ELSE Closed(p)[n] = db[n]
<1>1. proc[p] \in ProcType /\ db \in [Nodes -> Record]
      /\ (proc[p].node # None => proc[p].node \in Nodes /\ proc[p].node <= created)
  BY ProcFacts DEF IInv, TypeOK
<1>2. CASE proc[p].node = None
  BY <1>1, <1>2, NoneAssumption DEF Closed
<1>3. CASE proc[p].node # None
  <2> DEFINE n == proc[p].node
             e == [Queued(db[n].project, proc[p].port) EXCEPT !.state = "STOPPED", !.pid = p]
  <2>1. n \in Nodes /\ n <= created
    BY <1>1, <1>3
  <2>2. db[n].project \in Projects \cup {None} /\ proc[p].port \in Ports
    BY <1>1, <2>1 DEF Record, ProcType
  <2>3. e \in Record /\ e.state = "STOPPED" /\ e.running = FALSE /\ e.port = proc[p].port
    BY <2>2 DEF Queued, Blank, Record, State
  <2>4. Closed(p) = Put(n, e)
    BY <1>3 DEF Closed
  <2> HIDE DEF e
  <2>5. CASE db[n].state = "REMOVED"
    BY <1>1, <2>4, <2>5, PutGone
  <2>6. CASE db[n].state # "REMOVED"
    <3>1. /\ Put(n, e) \in [Nodes -> Record] /\ Put(n, e)[n] = e
          /\ \A m \in Nodes \ {n} : Put(n, e)[m] = db[m]
      BY <2>1, <2>3, <2>6, PutAt
    <3> QED  BY <2>3, <2>4, <2>6, <3>1
  <2> QED  BY <2>5, <2>6
<1> QED  BY <1>2, <1>3

\* A process ends; its node is written by the listener, another that does not run may
\* be archived.
LEMMA EndSound ==
  ASSUME IInv, NEW p \in Procs, proc[p].pc \in {"starting", "up"},
         proc' = [proc EXCEPT ![p].pc = "dead"], UNCHANGED <<created, spawned, req, reg>>,
         db' \in [Nodes -> Record],
         \A n \in Nodes :
           \/ db'[n] = Closed(p)[n]
           \/ n # proc[p].node /\ Exists(n) /\ db'[n] = [db[n] EXCEPT !.state = "STOPPED"]
  PROVE  IInv'
<1> DEFINE w == [proc[p] EXCEPT !.pc = "dead"]
<1>1. /\ proc \in [Procs -> ProcType] /\ proc[p] \in ProcType /\ spawned \in Nat /\ created \in Nat
      /\ proc[p].port <= spawned /\ proc[p].port \in Nat
      /\ (proc[p].node # None => proc[p].node \in Nodes /\ proc[p].node <= created)
  BY ProcFacts
<1>2. proc' = [proc EXCEPT ![p] = w]
  BY <1>1
<1>3. w \in ProcType /\ w.pc = "dead" /\ w.port = proc[p].port /\ w.node = proc[p].node
  BY <1>1 DEF ProcType, ProcPc
<1> HIDE DEF w
<1>4. Grows /\ proc' \in [Procs -> ProcType] /\ proc'[p] = w /\ \A q \in Procs : ProcSound(q)'
  BY <1>2, <1>3, ProcMoves
<1>5. \A n \in Nodes : NodeSound(n)'
  <2> TAKE n \in Nodes
  <2>1. NodeSound(n) /\ db[n] \in Record /\ n \in Nat
    BY DEF IInv, TypeOK, PoolInvariant, Nodes
  <2>2. CASE n = proc[p].node /\ db[n].state # "REMOVED"
    <3>1. db'[n].state = "STOPPED" /\ ~db'[n].running /\ db'[n].port = proc[p].port
      BY <2>2, ClosedFacts
    <3>2. Ended(n)'
      BY <1>3, <1>4, <2>2 DEF Ended
    <3>3. n <= created /\ n # None
      BY <1>1, <2>2, NoneAssumption
    <3> QED  BY <1>1, <2>1, <3>1, <3>2, <3>3 DEF NodeSound
  <2>3. CASE n # proc[p].node \/ db[n].state = "REMOVED"
    <3>1. /\ db'[n] \in Record /\ db'[n].port = db[n].port
          /\ db[n].state = "REMOVED" => db'[n].state = "REMOVED"
          /\ db'[n].state = "none" <=> db[n].state = "none"
          /\ db'[n].running => n <= created
          /\ db'[n].state \in {"REGISTERED", "IDLE", "BUSY"} =>
               db[n].state \in {"REGISTERED", "IDLE", "BUSY"}
      <4>1. CASE db'[n] = db[n]
        BY <2>1, <4>1 DEF NodeSound
      <4>2. CASE Exists(n) /\ db'[n] = [db[n] EXCEPT !.state = "STOPPED"]
        BY <2>1, <4>2 DEF NodeSound, Exists, Record
      <4> QED  BY <2>3, <4>1, <4>2, ClosedFacts
    <3>2. created' = created /\ spawned' \in Nat
      BY <1>1
    <3> QED  BY <1>1, <1>4, <3>1, <3>2, SameSettled, NodeKept
  <2> QED  BY <2>2, <2>3
<1> QED  BY <1>4, <1>5, ProcCombine

\* A process dies: the nodes it had registered as are among the ended ones.
LEMMA DieSound ==
  ASSUME IInv, NEW p \in Procs, Die(p)
  PROVE  IInv'
BY ClosedFacts, EndSound DEF Die

\* A process that finds its port taken ends; it never registered.
LEMMA PortInUseSound ==
  ASSUME IInv, NEW p \in Procs, PortInUse(p)
  PROVE  IInv'
<1> DEFINE stale == {n \in Nodes : /\ Exists(n) /\ ~db[n].running
                                   /\ n # proc[p].node /\ db[n].port = proc[p].port}
<1>1. proc[p].pc = "starting" /\ proc' = [proc EXCEPT ![p].pc = "dead"]
      /\ UNCHANGED <<created, spawned, req, reg>>
  BY DEF PortInUse
<1>2. CASE stale = {}
  <2>1. db' = Closed(p)
    BY <1>2 DEF PortInUse
  <2> QED  BY <1>1, <2>1, ClosedFacts, EndSound
<1>3. CASE stale # {}
  <2>1. PICK m \in stale : db' = [Closed(p) EXCEPT ![m].state = "STOPPED"]
    BY <1>3 DEF PortInUse
  <2>2. m \in Nodes /\ Exists(m) /\ m # proc[p].node
    OBVIOUS
  <2> HIDE DEF stale
  <2>3. Closed(p) \in [Nodes -> Record] /\ Closed(p)[m] = db[m]
    BY <2>2, ClosedFacts
  <2>4. /\ db' \in [Nodes -> Record] /\ db'[m] = [db[m] EXCEPT !.state = "STOPPED"]
        /\ \A n \in Nodes \ {m} : db'[n] = Closed(p)[n]
    <3>1. [db[m] EXCEPT !.state = "STOPPED"] \in Record
      <4>1. db[m] \in Record
        BY <2>2 DEF IInv, TypeOK
      <4> QED  BY <4>1 DEF Record, State
    <3>2. db' = [Closed(p) EXCEPT ![m] = [db[m] EXCEPT !.state = "STOPPED"]]
      BY <2>1, <2>2, <2>3
    <3> QED  BY <2>2, <2>3, <3>1, <3>2
  <2> QED  BY <1>1, <2>2, <2>4, EndSound
<1> QED  BY <1>2, <1>3

(***************************************************************************)
(* The registrations                                                       *)
(***************************************************************************)

\* What the invariant says of one registration.
LEMMA RegFacts ==
  ASSUME IInv, NEW g \in Regs
  PROVE  /\ reg \in [Regs -> RegType] /\ reg[g] \in RegType /\ RegSound(g) /\ g[1] \in Procs
         /\ reg[g].node # None => reg[g].node \in Nodes /\ reg[g].node <= created
         /\ created \in Nat /\ spawned \in Nat
<1>1. /\ reg \in [Regs -> RegType] /\ reg[g] \in RegType /\ RegSound(g) /\ g[1] \in Procs
      /\ created \in Nat /\ spawned \in Nat /\ (reg[g].node # None => reg[g].node \in 1..created)
  BY DEF IInv, TypeOK, PoolInvariant, RegType, Regs
<1> QED  BY <1>1 DEF RegType

\* A registration becomes x, and keeps the node it has.
LEMMA RegMoves ==
  ASSUME IInv, NEW g \in Regs, NEW x \in RegType, reg' = [reg EXCEPT ![g] = x],
         UNCHANGED <<proc, spawned>>, created <= created', created' \in Nat,
         reg[g].node # None => x.node = reg[g].node,
         reg[g].pc \in Written => x.pc \in Written
  PROVE  /\ Grows /\ reg' \in [Regs -> RegType] /\ reg'[g] = x
         /\ \A h \in Regs \ {g} : reg'[h] = reg[h]
         /\ x.pc \notin Written \/ reg[g].pc \in Written =>
              \A n \in Nodes : Settled(n)' \subseteq Settled(n)
         /\ \A n \in Nodes : n # x.node => Settled(n)' \subseteq Settled(n)
<1>1. /\ reg' \in [Regs -> RegType] /\ reg'[g] = x /\ \A h \in Regs \ {g} : reg'[h] = reg[h]
      /\ spawned \in Nat /\ RegSound(g)
  BY RegFacts
<1>2. Grows
  BY <1>1 DEF Grows
<1>3. ASSUME x.pc \notin Written \/ reg[g].pc \in Written, NEW n \in Nodes
      PROVE  Settled(n)' \subseteq Settled(n)
  <2>1. reg[g].pc \in Written => reg[g].node # None
    BY <1>1 DEF RegSound, Written
  <2> QED  BY <1>1, <1>3, <2>1 DEF Settled
<1>4. \A n \in Nodes : n # x.node => Settled(n)' \subseteq Settled(n)
  BY <1>1 DEF Settled
<1> QED  BY <1>1, <1>2, <1>3, <1>4

\* A step of one registration keeps the invariant if it keeps the parts it can disturb.
LEMMA RegCombine ==
  ASSUME IInv, Grows, UNCHANGED <<proc, spawned, req>>, created' \in 0..MaxNodes,
         NEW g \in Regs, reg' \in [Regs -> RegType], \A h \in Regs \ {g} : reg'[h] = reg[h],
         RegSound(g)', reg'[g].node # None => reg'[g].node <= created',
         db' \in [Nodes -> Record], \A n \in Nodes : NodeSound(n)'
  PROVE  IInv'
<1>1. /\ spawned' \in 0..MaxProcs /\ req' \in [Requests -> ReqType] /\ proc' \in [Procs -> ProcType]
      /\ created' \in Nat /\ created \in Nat /\ created <= created'
  BY PoolAssumption DEF IInv, TypeOK, ReqType, ProcType, Grows
<1>2. \A p \in Procs : ProcSound(p)'
  <2> TAKE p \in Procs
  <2>1. ProcSound(p) /\ (proc[p].node # None => proc[p].node \in Nat)
    BY DEF IInv, TypeOK, PoolInvariant, Nodes
  <2>2. proc[p].node # None => proc[p].node <= created'
    BY <1>1, <2>1 DEF ProcSound
  <2> QED  BY <2>1, <2>2 DEF ProcSound
<1> QED  BY <1>1, <1>2, Combine

\* registerNode() takes the newest record that waits, and puts the address of the process in its
\* handle; or finds none.
LEMMA RegReadSound ==
  ASSUME IInv, NEW p \in Procs, NEW k \in 1..Tries, RegRead(p, k)
  PROVE  IInv'
<1> DEFINE g == <<p, k>>
<1>1. g \in Regs /\ g[1] = p
  BY DEF Regs
<1>2. /\ reg \in [Regs -> RegType] /\ reg[g] \in RegType /\ RegSound(g)
      /\ created \in Nat /\ spawned \in Nat
  BY <1>1, RegFacts
<1>3. /\ reg[g].pc = "off" /\ proc[p].pc = "up" /\ UNCHANGED <<db, created, proc, spawned, req>>
      /\ reg[g].node = None
  BY <1>2 DEF RegRead, Asks, RegSound
<1>4. ASSUME NEW x \in RegType, reg' = [reg EXCEPT ![g] = x],
             x.pc \in {"create", "saveall"}, x.pc = "create" <=> x.node = None,
             x.node # None => x.node <= created,
             x.pc = "saveall" => x.copy.state = "QUEUED" /\ x.copy.port = proc[p].port
      PROVE  IInv'
  <2> HIDE DEF g
  <2>1. x.pc \notin Written /\ reg[g].pc \notin Written
    BY <1>3, <1>4 DEF Written
  <2>6. created <= created' /\ created' \in Nat /\ UNCHANGED <<proc, spawned>>
    BY <1>2, <1>3
  <2>2. /\ Grows /\ reg' \in [Regs -> RegType] /\ reg'[g] = x
        /\ \A h \in Regs \ {g} : reg'[h] = reg[h]
        /\ \A n \in Nodes : Settled(n)' \subseteq Settled(n)
    BY <1>1, <1>3, <1>4, <2>1, <2>6, RegMoves
  <2>3. RegSound(g)'
    BY <1>1, <1>3, <1>4, <2>2 DEF RegSound
  <2>4. db' \in [Nodes -> Record] /\ \A n \in Nodes : NodeSound(n)'
    BY <1>3, <2>2, NodesKept
  <2>5. created' \in 0..MaxNodes /\ (reg'[g].node # None => reg'[g].node <= created')
    BY <1>3, <1>4, <2>2 DEF IInv, TypeOK
  <2> QED  BY <1>1, <1>3, <2>2, <2>3, <2>4, <2>5, RegCombine
<1>5. CASE Waiting = {}
  <2> DEFINE x == [reg[g] EXCEPT !.pc = "create"]
  <2>1. x \in RegType /\ x.pc = "create" /\ x.node = None
    BY <1>2, <1>3 DEF RegType, RegPc
  <2>2. reg' = [reg EXCEPT ![g] = x]
    BY <1>1, <1>2, <1>5 DEF RegRead
  <2> HIDE DEF x, g
  <2> QED  BY <1>4, <2>1, <2>2
<1>6. CASE Waiting # {}
  <2> DEFINE n == MaxOf(Waiting)
             c == Tagged(n, p)
             x == [pc |-> "saveall", node |-> n, copy |-> c, free |-> FALSE]
  <2>1. Waiting \in SUBSET (0..MaxNodes) /\ MaxNodes \in Nat
    BY PoolAssumption DEF Waiting, Nodes
  <2>2. n \in Waiting
    BY <1>6, <2>1, GreatestOfSet, Zenon
  <2>3. reg' = [reg EXCEPT ![g] = x]
    BY <1>6 DEF RegRead
  <2> HIDE DEF n
  <2>4. n \in Nodes /\ n # None /\ db[n] \in Record /\ NodeSound(n) /\ db[n].state = "QUEUED"
    BY <2>2, NoneAssumption DEF Waiting, IInv, TypeOK, PoolInvariant
  <2>5. n <= created
    <3>1. n \in Nat
      BY <2>4 DEF Nodes
    <3> QED  BY <1>2, <2>4, <3>1 DEF NodeSound
  <2>6. proc[p].port \in Ports
    BY ProcFacts DEF ProcType
  <2>7. c \in Record /\ c.state = "QUEUED" /\ c.port = proc[p].port
    BY <2>4, <2>6 DEF Tagged, Record
  <2> HIDE DEF c
  <2>8. /\ x \in RegType /\ x.pc = "saveall" /\ x.node = n /\ x.copy = c
    BY <2>4, <2>7 DEF RegType, RegPc
  <2> HIDE DEF x, g
  <2> QED  BY <1>4, <2>3, <2>4, <2>5, <2>7, <2>8
<1> QED  BY <1>5, <1>6

\* registerNode() creates a record for a process that no record describes.
LEMMA RegCreateSound ==
  ASSUME IInv, NEW p \in Procs, NEW k \in 1..Tries, RegCreate(p, k)
  PROVE  IInv'
<1> DEFINE g == <<p, k>>
<1>1. g \in Regs /\ g[1] = p
  BY DEF Regs
<1>2. /\ reg \in [Regs -> RegType] /\ reg[g] \in RegType /\ RegSound(g)
      /\ created \in Nat /\ spawned \in Nat
  BY <1>1, RegFacts
<1>3. /\ reg[g].pc = "create" /\ reg[g].node = None /\ created < MaxNodes
      /\ UNCHANGED <<proc, spawned, req>> /\ proc[p].pc \in {"up", "dead"}
  BY <1>1, <1>2 DEF RegCreate, RegSound
<1>4. PICK n \in Nodes : n = created + 1
  BY <1>2, <1>3, PoolAssumption DEF Nodes
<1> DEFINE e == Queued(None, NextPort)
           c == [e EXCEPT !.running = TRUE, !.port = proc[p].port]
           x == [pc |-> "saveall", node |-> n, copy |-> c, free |-> TRUE]
<1>5. /\ created' = n /\ db' = [db EXCEPT ![n] = e] /\ reg' = [reg EXCEPT ![g] = x]
  BY <1>4 DEF RegCreate
<1>6. NextPort \in Ports /\ NextPort <= spawned + 1 /\ proc[p].port \in Ports
  BY NextPortBound, ProcFacts DEF ProcType
<1>7. c \in Record /\ c.state = "QUEUED" /\ c.port = proc[p].port
  <2>1. e \in Record /\ e.state = "QUEUED"
    BY <1>6 DEF Queued, Blank, Record, State
  <2> HIDE DEF e
  <2> QED  BY <1>6, <2>1 DEF Record
<1> HIDE DEF c
<1>8. x \in RegType /\ x.pc = "saveall" /\ x.node = n /\ x.copy = c
  BY <1>7 DEF RegType, RegPc
<1> HIDE DEF x, g
<1>9. x.pc \notin Written /\ reg[g].pc \notin Written
  BY <1>3, <1>8 DEF Written
<1>10. created <= created' /\ created' \in Nat /\ n # None
  BY <1>2, <1>4, <1>5, NoneAssumption
<1>11. /\ Grows /\ reg' \in [Regs -> RegType] /\ reg'[g] = x
       /\ \A h \in Regs \ {g} : reg'[h] = reg[h]
       /\ \A m \in Nodes : Settled(m)' \subseteq Settled(m)
  BY <1>1, <1>2, <1>3, <1>5, <1>8, <1>9, <1>10, RegMoves
<1>12. db' \in [Nodes -> Record] /\ created' \in 0..MaxNodes /\ \A m \in Nodes : NodeSound(m)'
  <2>1. spawned' = spawned
    BY <1>3
  <2> QED  BY <1>4, <1>5, <1>6, <1>11, <2>1, InsertedSound
<1>13. RegSound(g)'
  BY <1>1, <1>3, <1>7, <1>8, <1>10, <1>11 DEF RegSound
<1>14. reg'[g].node <= created'
  BY <1>5, <1>8, <1>10, <1>11
<1> QED  BY <1>1, <1>3, <1>11, <1>12, <1>13, <1>14, RegCombine

\* A registration that writes the record of its node, and is registered as it then.
LEMMA RegWrites ==
  ASSUME IInv, NEW g \in Regs, NEW n \in Nodes, reg[g].node = n, NEW x \in RegType,
         reg' = [reg EXCEPT ![g] = x], UNCHANGED <<created, proc, spawned, req>>,
         x.node = n, x.pc \in {"state", "event", "done"},
         x.pc = "state" => x.copy.state = "QUEUED" /\ x.copy.port = proc[g[1]].port,
         NEW e \in Record, db' = Put(n, e), e.state \notin {"none", "REMOVED"},
         e.port = proc[g[1]].port \/ (reg[g].pc \in Written /\ e.port = db[n].port)
  PROVE  IInv'
<1>1. /\ reg \in [Regs -> RegType] /\ reg[g] \in RegType /\ RegSound(g) /\ g[1] \in Procs
      /\ n <= created /\ created \in Nat /\ spawned \in Nat /\ n # None /\ n \in Nat
  BY RegFacts, NoneAssumption DEF Nodes
<1>2. x.pc \in Written /\ created <= created' /\ created' \in Nat
  BY <1>1 DEF Written
<1>3. /\ Grows /\ reg' \in [Regs -> RegType] /\ reg'[g] = x
      /\ \A h \in Regs \ {g} : reg'[h] = reg[h]
      /\ \A m \in Nodes : m # n => Settled(m)' \subseteq Settled(m)
  BY <1>1, <1>2, RegMoves
<1>4. /\ db' \in [Nodes -> Record] /\ \A m \in Nodes \ {n} : db'[m] = db[m]
      /\ IF db[n].state = "REMOVED" THEN db'[n] = db[n] ELSE db'[n] = e
  <2>1. CASE db[n].state = "REMOVED"
    BY <2>1, PutGone DEF IInv, TypeOK
  <2>2. CASE db[n].state # "REMOVED"
    BY <1>1, <2>2, PutAt
  <2> QED  BY <2>1, <2>2
<1>5. proc[g[1]].pc # "none" /\ proc[g[1]].port <= spawned /\ proc[g[1]].port \in Nat
  <2>1. proc[g[1]].pc \in {"up", "dead"}
    BY <1>1 DEF RegSound
  <2> QED  BY <1>1, <2>1, ProcFacts
<1>6. g \in Settled(n)'
  BY <1>2, <1>3 DEF Settled
<1>7. ASSUME db[n].state # "REMOVED"
      PROVE  e.port <= spawned + 1 /\ (Ended(n)' \/ AddressOf(n, e.port)')
  <2>1. CASE e.port = proc[g[1]].port
    <3>1. AddressOf(n, e.port)'
      BY <1>6, <2>1 DEF AddressOf
    <3> QED  BY <1>1, <1>5, <2>1, <3>1
  <2>2. CASE reg[g].pc \in Written /\ e.port = db[n].port
    <3>1. Settled(n) # {}
      BY <2>2 DEF Settled
    <3>2. db[n].port <= spawned + 1 /\ (Ended(n) \/ AddressOf(n, e.port))
      BY <1>7, <2>2, <3>1 DEF IInv, PoolInvariant, NodeSound
    <3> QED  BY <1>3, <2>2, <3>2, AddressesKept
  <2> QED  BY <2>1, <2>2
<1>8. NodeSound(n)'
  <2>1. CASE db[n].state # "REMOVED"
    <3>1. AddressOf(n, e.port)' => AddressOf(n, db[n].port)'
      BY <1>4, <2>1 DEF AddressOf
    <3> QED  BY <1>1, <1>4, <1>7, <2>1, <3>1 DEF NodeSound
  <2>2. CASE db[n].state = "REMOVED"
    BY <1>4, <2>2 DEF IInv, PoolInvariant, NodeSound
  <2> QED  BY <2>1, <2>2
<1>9. \A m \in Nodes \ {n} : NodeSound(m)'
  <2> TAKE m \in Nodes \ {n}
  <2>1. NodeSound(m) /\ db[m] \in Record
    BY DEF IInv, TypeOK, PoolInvariant
  <2>2. db[m].running => m <= created
    BY <2>1 DEF NodeSound
  <2>3. created' = created /\ spawned' \in Nat /\ created' \in Nat
    BY <1>1
  <2> QED  BY <1>3, <1>4, <2>1, <2>2, <2>3, NodeKept
<1>10. RegSound(g)'
  BY <1>1, <1>3 DEF RegSound
<1>11. created' \in 0..MaxNodes /\ reg'[g].node <= created'
  BY <1>1, <1>3 DEF IInv, TypeOK
<1> QED  BY <1>3, <1>4, <1>8, <1>9, <1>10, <1>11, RegCombine

\* registerNode() saves the whole handle, address included.
LEMMA RegSaveAllSound ==
  ASSUME IInv, NEW p \in Procs, NEW k \in 1..Tries, RegSaveAll(p, k)
  PROVE  IInv'
<1> DEFINE g  == <<p, k>>
           n  == reg[g].node
           pc == IF reg[g].free THEN "state" ELSE "event"
           x  == [reg[g] EXCEPT !.pc = pc]
<1>1. g \in Regs /\ g[1] = p
  BY DEF Regs
<1>2. /\ reg[g] \in RegType /\ RegSound(g) /\ (n # None => n \in Nodes)
      /\ reg \in [Regs -> RegType]
  BY <1>1, RegFacts
<1>3. /\ reg[g].pc = "saveall" /\ db' = Put(n, reg[g].copy)
      /\ UNCHANGED <<created, proc, spawned, req>> /\ reg' = [reg EXCEPT ![g] = x]
  BY <1>1, <1>2 DEF RegSaveAll
<1>4. /\ n \in Nodes /\ reg[g].copy \in Record /\ reg[g].copy.state = "QUEUED"
      /\ reg[g].copy.port = proc[g[1]].port
  BY <1>2, <1>3 DEF RegSound, RegType
<1>5. /\ x \in RegType /\ x.node = n /\ x.pc \in {"state", "event"} /\ x.copy = reg[g].copy
  BY <1>2 DEF RegType, RegPc
<1> HIDE DEF x, g
<1> QED  BY <1>1, <1>3, <1>4, <1>5, RegWrites

\* The handle of a node that was created here saves itself as REGISTERED.
LEMMA RegStateSound ==
  ASSUME IInv, NEW p \in Procs, NEW k \in 1..Tries, RegState(p, k)
  PROVE  IInv'
<1> DEFINE g == <<p, k>>
           n == reg[g].node
           e == [reg[g].copy EXCEPT !.state = "REGISTERED"]
           x == [reg[g] EXCEPT !.pc = "event", !.free = FALSE]
<1>1. g \in Regs /\ g[1] = p
  BY DEF Regs
<1>2. /\ reg[g] \in RegType /\ RegSound(g) /\ (n # None => n \in Nodes)
      /\ reg \in [Regs -> RegType]
  BY <1>1, RegFacts
<1>3. /\ reg[g].pc = "state" /\ db' = Put(n, e)
      /\ UNCHANGED <<created, proc, spawned, req>> /\ reg' = [reg EXCEPT ![g] = x]
  BY <1>1, <1>2 DEF RegState
<1>4. n \in Nodes /\ reg[g].copy \in Record /\ reg[g].copy.port = proc[g[1]].port
  BY <1>2, <1>3 DEF RegSound, RegType
<1>5. e \in Record /\ e.state = "REGISTERED" /\ e.port = proc[g[1]].port
  BY <1>4 DEF Record, State
<1>6. x \in RegType /\ x.node = n /\ x.pc = "event"
  BY <1>2 DEF RegType, RegPc
<1> HIDE DEF x, e, g
<1> QED  BY <1>1, <1>3, <1>4, <1>5, <1>6, RegWrites

\* The state event of a registration updates three fields; the address is not among them.
LEMMA RegUpdateSound ==
  ASSUME IInv, NEW p \in Procs, NEW k \in 1..Tries, RegUpdate(p, k)
  PROVE  IInv'
<1> DEFINE g == <<p, k>>
           n == reg[g].node
           c == reg[g].copy
           e == [db[n] EXCEPT !.running = c.running, !.state = c.state, !.idleSince = c.idleSince]
           x == [reg[g] EXCEPT !.pc = "done", !.copy = Blank]
<1>1. g \in Regs /\ g[1] = p
  BY DEF Regs
<1>2. /\ reg[g] \in RegType /\ RegSound(g) /\ (n # None => n \in Nodes)
      /\ reg \in [Regs -> RegType]
  BY <1>1, RegFacts
<1>3. /\ reg[g].pc = "update" /\ db' = Put(n, e)
      /\ UNCHANGED <<created, proc, spawned, req>> /\ reg' = [reg EXCEPT ![g] = x]
  BY <1>1, <1>2 DEF RegUpdate
<1>4. n \in Nodes /\ c \in Record /\ c.state = "IDLE" /\ reg[g].pc \in Written
  BY <1>2, <1>3 DEF RegSound, RegType, Written
<1>5. e \in Record /\ e.state = "IDLE" /\ e.port = db[n].port
  <2>1. db[n] \in Record
    BY <1>4 DEF IInv, TypeOK
  <2>2. c.running \in BOOLEAN /\ c.idleSince \in BOOLEAN
    BY <1>4 DEF Record
  <2> HIDE DEF c, n
  <2> QED  BY <1>4, <2>1, <2>2 DEF Record, State
<1>6. Blank \in Record
  BY PoolAssumption DEF Blank, Record, State, Ports
<1>7. x \in RegType /\ x.node = n /\ x.pc = "done"
  BY <1>2, <1>6 DEF RegType, RegPc
<1> HIDE DEF x, e, g
<1> QED  BY <1>1, <1>3, <1>4, <1>5, <1>7, RegWrites

\* The state event of a registration reads the record, or finds that it is gone.
LEMMA RegEventSound ==
  ASSUME IInv, NEW p \in Procs, NEW k \in 1..Tries, RegEvent(p, k)
  PROVE  IInv'
<1> DEFINE g  == <<p, k>>
           n  == reg[g].node
           pc == IF Exists(n) THEN "update" ELSE "done"
           c  == IF Exists(n) THEN [db[n] EXCEPT !.state = "IDLE"] ELSE Blank
           x  == [reg[g] EXCEPT !.pc = pc, !.copy = c]
<1>1. g \in Regs /\ g[1] = p
  BY DEF Regs
<1>2. /\ reg[g] \in RegType /\ RegSound(g) /\ (n # None => n \in Nodes /\ n <= created)
      /\ reg \in [Regs -> RegType] /\ created \in Nat
  BY <1>1, RegFacts
<1>3. /\ reg[g].pc = "event" /\ UNCHANGED <<db, created, proc, spawned, req>>
      /\ reg' = [reg EXCEPT ![g] = x]
  BY <1>1, <1>2 DEF RegEvent
<1>4. n \in Nodes /\ n # None /\ n <= created
  BY <1>2, <1>3 DEF RegSound
<1>5. c \in Record /\ (pc = "update" => c.state = "IDLE") /\ pc \in {"update", "done"}
  <2>1. db[n] \in Record
    BY <1>4 DEF IInv, TypeOK
  <2>2. Blank \in Record
    BY PoolAssumption DEF Blank, Record, State, Ports
  <2> QED  BY <2>1, <2>2 DEF Record, State
<1> HIDE DEF c, pc
<1>6. x \in RegType /\ x.node = n /\ x.pc = pc /\ x.copy = c
  BY <1>2, <1>5 DEF RegType, RegPc
<1>7. x.pc \in Written /\ reg[g].pc \in Written /\ created <= created' /\ created' \in Nat
      /\ UNCHANGED <<proc, spawned>>
  BY <1>2, <1>3, <1>5, <1>6 DEF Written
<1>8. proc[g[1]].pc \in {"up", "dead"}
  BY <1>2, <1>3 DEF RegSound
<1> HIDE DEF x, g
<1>9. /\ Grows /\ reg' \in [Regs -> RegType] /\ reg'[g] = x
      /\ \A h \in Regs \ {g} : reg'[h] = reg[h]
      /\ \A m \in Nodes : Settled(m)' \subseteq Settled(m)
  BY <1>1, <1>3, <1>6, <1>7, RegMoves
<1>10. db' \in [Nodes -> Record] /\ \A m \in Nodes : NodeSound(m)'
  BY <1>3, <1>9, NodesKept
<1>11. RegSound(g)'
  BY <1>3, <1>4, <1>5, <1>6, <1>8, <1>9 DEF RegSound
<1>12. created' \in 0..MaxNodes /\ reg'[g].node <= created'
  BY <1>3, <1>4, <1>6, <1>9 DEF IInv, TypeOK
<1> QED  BY <1>1, <1>3, <1>9, <1>10, <1>11, <1>12, RegCombine

(***************************************************************************)
(* The specification                                                       *)
(***************************************************************************)

\* The processes that run from the start have distinct ports; nothing else has happened.
LEMMA InitSound == Init => IInv
<1> SUFFICES ASSUME Init  PROVE IInv
  OBVIOUS
<1>1. Blank \in Record /\ Blank.port = 0 /\ Blank.state = "none" /\ Blank.running = FALSE
  BY PoolAssumption DEF Blank, Record, State, Ports
<1>2. MaxProcs \in Nat /\ MaxNodes \in Nat /\ Outside \in 0..MaxProcs
  BY PoolAssumption
<1>3. \A p \in Procs : (IF p <= Outside THEN p ELSE 0) \in Ports
  BY <1>2 DEF Procs, Ports
<1>4. TypeOK
  <2>1. db \in [Nodes -> Record]
    BY <1>1 DEF Init
  <2>2. created \in 0..MaxNodes /\ spawned \in 0..MaxProcs
    BY <1>2 DEF Init
  <2>3. proc \in [Procs -> [pc: ProcPc, port: Ports, node: Nodes \cup {None},
                            uuid: Nodes \cup {None}]]
    <3> SUFFICES ASSUME NEW p \in Procs
                 PROVE  [pc |-> IF p <= Outside THEN "starting" ELSE "none",
                         port |-> IF p <= Outside THEN p ELSE 0,
                         node |-> None, uuid |-> None]
                        \in [pc: ProcPc, port: Ports, node: Nodes \cup {None},
                             uuid: Nodes \cup {None}]
      BY DEF Init
    <3>1. (IF p <= Outside THEN "starting" ELSE "none") \in ProcPc
      BY DEF ProcPc
    <3> QED  BY <1>3, <3>1
  <2>4. req \in [Requests -> [pc: ReqPc, node: Nodes \cup {None}, copy: Record, port: Ports,
                              order: {"none", "queued", "running", "done"}]]
    <3>1. 0 \in Ports /\ "ready" \in ReqPc
      BY <1>2 DEF Ports, ReqPc
    <3> QED  BY <1>1, <3>1 DEF Init
  <2>5. reg \in [Regs -> [pc: RegPc, node: Nodes \cup {None}, copy: Record, free: BOOLEAN]]
    BY <1>1 DEF Init, RegPc
  <2>6. /\ \A r \in Requests : req[r].node = None
        /\ \A g \in Regs : reg[g].node = None
    BY DEF Init
  <2> QED  BY <2>1, <2>2, <2>3, <2>4, <2>5, <2>6 DEF TypeOK
<1>5. \A n \in Nodes : NodeSound(n)
  <2> TAKE n \in Nodes
  <2>1. n # None /\ n > 0
    BY NoneAssumption DEF Nodes
  <2>2. Settled(n) = {}
    BY <2>1 DEF Settled, Init
  <2> QED  BY <1>1, <1>2, <2>1, <2>2 DEF NodeSound, Init
<1>6. \A p \in Procs : ProcSound(p)
  BY <1>2 DEF ProcSound, Init, Procs
<1>7. \A r \in Requests : ReqSound(r)
  BY <1>2 DEF ReqSound, Init
<1>8. \A g \in Regs : RegSound(g)
  BY DEF RegSound, Init
<1> QED  BY <1>4, <1>5, <1>6, <1>7, <1>8 DEF IInv, PoolInvariant

\* Nothing happens.
LEMMA StutterSound ==
  ASSUME IInv, UNCHANGED vars
  PROVE  IInv'
<1>1. \A n : Ended(n)' = Ended(n) /\ Settled(n)' = Settled(n)
  BY DEF vars, Ended, Settled
<1>2. \A n, port : AddressOf(n, port)' = AddressOf(n, port)
  BY <1>1 DEF AddressOf, vars
<1>3. TypeOK'
  BY DEF IInv, TypeOK, vars
<1>4. PoolInvariant'
  BY <1>1, <1>2 DEF IInv, PoolInvariant, NodeSound, ProcSound, ReqSound, RegSound, vars
<1> QED  BY <1>3, <1>4 DEF IInv

\* The invariant is inductive.
LEMMA NextSound == IInv /\ [Next]_vars => IInv'
<1> SUFFICES ASSUME IInv, [Next]_vars  PROVE IInv'
  OBVIOUS
<1>1. ASSUME NEW r \in Requests, Search(r)  PROVE IInv'
  BY <1>1, ReadySound, FreeFoundSound, LocalSound, ClaimSound, AssignSound, InsertSound, StartSound
     DEF Search
<1>2. ASSUME NEW r \in Requests, Serve(r)  PROVE IInv'
  BY <1>2, LocalSound, WorkSound, FinishSound DEF Serve
<1>3. ASSUME NEW p \in Procs, ProcStep(p) \/ Die(p)  PROVE IInv'
  BY <1>3, ListenSound, PortInUseSound, DieSound DEF ProcStep
<1>4. ASSUME NEW p \in Procs, NEW k \in 1..Tries, RegStep(p, k) \/ RegReply(p, k)  PROVE IInv'
  BY <1>4, RegReadSound, RegCreateSound, RegSaveAllSound, RegStateSound, RegEventSound,
     RegUpdateSound, RegReplySound DEF RegStep
<1>5. CASE UNCHANGED vars
  BY <1>5, StutterSound
<1> QED  BY <1>1, <1>2, <1>3, <1>4, <1>5 DEF Next

\* A node that is ready has the address of somebody who registered as it.
LEMMA Reachable == IInv => ReachableWhenIdle
<1> SUFFICES ASSUME IInv, NEW n \in Nodes, db[n].state \in {"IDLE", "BUSY"}, ~Ended(n)
             PROVE  \E g \in Regs : /\ reg[g].node = n /\ reg[g].pc \in Written
                                    /\ proc[g[1]].port = db[n].port
  BY DEF ReachableWhenIdle, Written
<1>1. AddressOf(n, db[n].port)
  BY DEF IInv, PoolInvariant, NodeSound
<1> QED  BY <1>1 DEF AddressOf, Settled

\* If each process asks once, the process at an address is registered as one node.
LEMMA Distinct == IInv /\ Tries = 1 => AddressesDistinct
<1> SUFFICES ASSUME IInv, Tries = 1, NEW m \in Nodes, NEW n \in Nodes,
                    db[m].state \in {"IDLE", "BUSY"}, ~Ended(m),
                    db[n].state \in {"IDLE", "BUSY"}, ~Ended(n),
                    db[m].port = db[n].port
             PROVE  m = n
  BY DEF AddressesDistinct
<1>1. AddressOf(m, db[m].port) /\ AddressOf(n, db[n].port)
  BY DEF IInv, PoolInvariant, NodeSound
<1>2. PICK g \in Settled(m) : proc[g[1]].port = db[m].port
  BY <1>1 DEF AddressOf
<1>3. PICK h \in Settled(n) : proc[h[1]].port = db[n].port
  BY <1>1 DEF AddressOf
<1>4. /\ g \in Regs /\ reg[g].node = m /\ reg[g].pc # "off"
      /\ h \in Regs /\ reg[h].node = n /\ reg[h].pc # "off"
  BY DEF Settled, Written
<1>5. /\ g[1] \in Procs /\ g[2] \in 1..Tries /\ g = <<g[1], g[2]>>
      /\ h[1] \in Procs /\ h[2] \in 1..Tries /\ h = <<h[1], h[2]>>
  BY <1>4 DEF Regs
<1>6. proc[g[1]].pc = "up" /\ proc[h[1]].pc = "up"
  <2>1. proc[g[1]].pc \in {"up", "dead"} /\ proc[h[1]].pc \in {"up", "dead"}
    BY <1>4 DEF IInv, PoolInvariant, RegSound
  <2>2. proc[g[1]].pc # "dead"
    BY <1>4, <1>5 DEF Ended
  <2>3. proc[h[1]].pc # "dead"
    BY <1>4, <1>5 DEF Ended
  <2> QED  BY <2>1, <2>2, <2>3
<1>7. g[1] = h[1]
  BY <1>2, <1>3, <1>5, <1>6 DEF IInv, PoolInvariant, ProcSound
<1>8. g[2] = h[2]
  BY <1>5
<1>9. g = h
  BY <1>5, <1>7, <1>8, Zenon
<1> QED  BY <1>4, <1>9

\* The variables have their types: in particular the ports of processes and records
\* stay within the bound, although each is one above the highest that is in use.
THEOREM TypeCorrect == Spec => []TypeOK
<1>1. Init => IInv
  BY InitSound
<1>2. IInv /\ [Next]_vars => IInv'
  BY NextSound
<1>3. IInv => TypeOK
  BY DEF IInv
<1> QED  BY <1>1, <1>2, <1>3, PTL DEF Spec

\* registerNode(), onNodeStateChanged(), getFreeSlave(), start(): whatever copies of
\* its record are written back, a node that is ready for orders has the address of a
\* process that registered as it, unless such a process ended.
THEOREM ReachableWhenIdleHolds == Spec => []ReachableWhenIdle
<1>1. Init => IInv
  BY InitSound
<1>2. IInv /\ [Next]_vars => IInv'
  BY NextSound
<1>3. IInv => ReachableWhenIdle
  BY Reachable
<1> QED  BY <1>1, <1>2, <1>3, PTL DEF Spec

\* Two nodes that are ready for orders have two addresses, if every process gets the
\* answer to the first registration it sends.
THEOREM AddressesDistinctHolds ==
  ASSUME Tries = 1
  PROVE  Spec => []AddressesDistinct
<1>1. Init => IInv
  BY InitSound
<1>2. IInv /\ [Next]_vars => IInv'
  BY NextSound
<1>3. IInv => AddressesDistinct
  BY Distinct
<1> QED  BY <1>1, <1>2, <1>3, PTL DEF Spec
====
