------------------------ MODULE NodePoolSerialProofs ------------------------
(***************************************************************************)
(* Theorems about NodePool when nothing overlaps, that is when a request   *)
(* or a registration only begins while no other is under way: what the     *)
(* code would keep if it handled them one after the other.                 *)
(***************************************************************************)
EXTENDS NodePoolProofs, FiniteSetTheorems

(***************************************************************************)
(* The inductive invariant                                                 *)
(***************************************************************************)

Busy(r)   == req[r].pc \in Searching
Active(g) == reg[g].pc \notin {"off", "done"}

\* One search or one registration is under way.
OneAtATime ==
  /\ \A r, s \in Requests : Busy(r) /\ Busy(s) => r = s
  /\ \A g, h \in Regs : Active(g) /\ Active(h) => g = h
  /\ \A r \in Requests, g \in Regs : ~(Busy(r) /\ Active(g))

\* The port that a request was given is still free when its process is started.
OwnPorts ==
  /\ PortsDistinct
  /\ \A r \in Requests : req[r].pc \in {"insert", "start"} =>
       \A p \in Alive : proc[p].port # req[r].port

\* A registration has a node of its own, which does not wait any more when the
\* registration is done.
OwnNodes ==
  /\ \A g, h \in Regs : reg[g].node # None /\ reg[g].node = reg[h].node => g = h
  /\ \A g \in Regs : reg[g].pc = "done" => db[reg[g].node].state # "QUEUED"
  /\ \A r \in Requests, g \in Regs : req[r].pc = "start" => reg[g].node # req[r].node
  /\ \A p \in Procs : proc[p].uuid # None => \E k \in 1..Tries : reg[<<p, k>>].node = proc[p].uuid

(***************************************************************************)
(* One at a time                                                           *)
(***************************************************************************)

\* The types, for a step.
LEMMA Types ==
  ASSUME IInv
  PROVE  /\ db \in [Nodes -> Record] /\ proc \in [Procs -> ProcType]
         /\ req \in [Requests -> ReqType] /\ reg \in [Regs -> RegType]
         /\ created \in Nat /\ spawned \in Nat /\ MaxNodes \in Nat /\ MaxProcs \in Nat
         /\ Nodes = 1..MaxNodes /\ Procs = 1..MaxProcs /\ created <= MaxNodes
BY PoolAssumption DEF IInv, TypeOK, ProcType, ReqType, RegType, Nodes, Procs

\* Being served, a request keeps its port, and its place but for the answer to the user.
LEMMA ServeMoves ==
  ASSUME IInv, NEW r \in Requests, Serve(r)
  PROVE  /\ UNCHANGED <<created, proc, spawned, reg>>
         /\ \A s \in Requests : s # r => req'[s] = req[s]
         /\ req'[r].pc \in {req[r].pc, "told"} /\ req'[r].port = req[r].port
         /\ req'[r].node = req[r].node
<1>1. req \in [Requests -> ReqType] /\ req[r] \in ReqType
  BY Types
<1>2. CASE Poll(r)
  <2>1. req' = [req EXCEPT ![r] = [req[r] EXCEPT !.pc = "told"]]
    BY <1>1, <1>2 DEF Poll
  <2> QED  BY <1>1, <1>2, <2>1 DEF Poll, ReqType
<1>3. CASE Work(r) \/ Finish(r)
  <2>1. PICK o \in {"running", "done"} : req' = [req EXCEPT ![r] = [req[r] EXCEPT !.order = o]]
    BY <1>1, <1>3 DEF Work, Finish
  <2>2. UNCHANGED <<created, proc, spawned, reg>>
    BY <1>3 DEF Work, Finish
  <2> QED  BY <1>1, <2>1, <2>2 DEF ReqType
<1> QED  BY <1>2, <1>3 DEF Serve

\* A step of a request other than its first does not begin a search, and moves
\* only this request.
LEMMA RequestMoves ==
  ASSUME IInv, NEW r \in Requests, Search(r) \/ Serve(r), ~Ready(r)
  PROVE  /\ UNCHANGED reg
         /\ \A s \in Requests : s # r => req'[s] = req[s]
         /\ Busy(r)' => Busy(r)
<1>1. req \in [Requests -> ReqType]
  BY Types
<1>2. CASE FreeFound(r)
  BY <1>1, <1>2 DEF FreeFound, Busy, Searching
<1>3. CASE FreeNone(r) \/ Claim(r) \/ Quota(r) \/ GetPorts(r) \/ Insert(r)
  BY <1>1, <1>3 DEF FreeNone, Claim, Quota, GetPorts, Insert, Busy, Searching
<1>4. CASE Assign(r) \/ Start(r)
  BY <1>1, <1>4 DEF Assign, Start, Got, Busy, Searching
<1>5. CASE Serve(r)
  BY <1>5, ServeMoves DEF Busy, Searching
<1> QED  BY <1>2, <1>3, <1>4, <1>5 DEF Search

\* A step of a registration other than its first does not begin one, and moves
\* only this registration.
LEMMA RegistrationMoves ==
  ASSUME IInv, NEW p \in Procs, NEW k \in 1..Tries, RegStep(p, k), ~RegRead(p, k)
  PROVE  /\ UNCHANGED <<proc, spawned, req>> /\ Active(<<p, k>>) /\ <<p, k>> \in Regs
         /\ \A h \in Regs : h # <<p, k>> => reg'[h] = reg[h]
<1> DEFINE g == <<p, k>>
<1>1. reg \in [Regs -> RegType] /\ g \in Regs
  BY Types DEF Regs
<1>2. CASE RegCreate(p, k)
  BY <1>1, <1>2 DEF RegCreate, Active
<1>3. CASE RegSaveAll(p, k) \/ RegState(p, k)
  BY <1>1, <1>3 DEF RegSaveAll, RegState, Active
<1>4. CASE RegEvent(p, k) \/ RegUpdate(p, k)
  BY <1>1, <1>4 DEF RegEvent, RegUpdate, Active
<1> QED  BY <1>2, <1>3, <1>4 DEF RegStep

\* A search and a registration begin in quiet only.
LEMMA OneAtATimeStep ==
  ASSUME Overlap = FALSE, IInv, OneAtATime, [Next]_vars
  PROVE  OneAtATime'
<1>1. req \in [Requests -> ReqType] /\ reg \in [Regs -> RegType]
  BY Types
<1>2. ASSUME \A r \in Requests : Busy(r)' => Busy(r), \A g \in Regs : Active(g)' => Active(g)
      PROVE  OneAtATime'
  BY <1>2 DEF OneAtATime
<1>3. CASE UNCHANGED vars
  BY <1>2, <1>3 DEF vars, Busy, Active
<1>4. ASSUME NEW r \in Requests, Search(r) \/ Serve(r)
      PROVE  OneAtATime'
  <2>1. CASE Ready(r)
    <3>1. Quiet /\ UNCHANGED reg
      BY <2>1 DEF Ready
    <3>2. \A s \in Requests : s # r => req'[s] = req[s]
      BY <1>1, <2>1 DEF Ready, Got
    <3>3. (\A s \in Requests : ~Busy(s)) /\ (\A g \in Regs : ~Active(g))
      BY <3>1 DEF Quiet, Busy, Active
    <3>4. (\A s \in Requests : Busy(s)' => s = r) /\ (\A g \in Regs : ~Active(g)')
      BY <3>1, <3>2, <3>3 DEF Busy, Active
    <3> QED  BY <3>4 DEF OneAtATime
  <2>2. CASE ~Ready(r)
    <3>1. UNCHANGED reg /\ (\A s \in Requests : s # r => req'[s] = req[s]) /\ (Busy(r)' => Busy(r))
      BY <1>4, <2>2, RequestMoves
    <3> QED  BY <1>2, <3>1 DEF Busy, Active
  <2> QED  BY <2>1, <2>2
<1>5. ASSUME NEW p \in Procs, ProcStep(p) \/ Die(p)
      PROVE  OneAtATime'
  BY <1>2, <1>5 DEF ProcStep, Listen, PortInUse, Die, Busy, Active
<1>6. ASSUME NEW p \in Procs, NEW k \in 1..Tries, RegStep(p, k) \/ RegReply(p, k)
      PROVE  OneAtATime'
  <2>1. CASE RegReply(p, k)
    BY <1>2, <2>1 DEF RegReply, Busy, Active
  <2>2. CASE RegRead(p, k)
    <3>1. Quiet /\ UNCHANGED req
      BY <2>2 DEF RegRead, Asks
    <3>2. \A h \in Regs : h # <<p, k>> => reg'[h] = reg[h]
      BY <1>1, <2>2 DEF RegRead
    <3>3. (\A s \in Requests : ~Busy(s)) /\ (\A g \in Regs : ~Active(g))
      BY <3>1 DEF Quiet, Busy, Active
    <3>4. (\A s \in Requests : ~Busy(s)') /\ (\A h \in Regs : Active(h)' => h = <<p, k>>)
      BY <3>1, <3>2, <3>3 DEF Busy, Active
    <3> QED  BY <3>4 DEF OneAtATime
  <2>3. CASE RegStep(p, k) /\ ~RegRead(p, k)
    <3>1. /\ UNCHANGED req /\ Active(<<p, k>>)
          /\ \A h \in Regs : h # <<p, k>> => reg'[h] = reg[h]
      BY <2>3, RegistrationMoves
    <3> QED  BY <1>2, <3>1 DEF Busy, Active
  <2> QED  BY <1>6, <2>1, <2>2, <2>3
<1> QED  BY <1>3, <1>4, <1>5, <1>6 DEF Next

(***************************************************************************)
(* The ports                                                               *)
(***************************************************************************)

\* Nobody takes a port between getNextPorts() and the start of the process.
LEMMA OwnPortsStep ==
  ASSUME IInv, OneAtATime, OwnPorts, [Next]_vars
  PROVE  OwnPorts'
<1>1. /\ req \in [Requests -> ReqType] /\ proc \in [Procs -> ProcType]
      /\ Procs = 1..MaxProcs /\ MaxProcs \in Nat /\ spawned \in Nat
  BY Types
<1>2. ASSUME \A p \in Alive' : p \in Alive /\ proc'[p].port = proc[p].port,
             \A s \in Requests : req'[s].pc \in {"insert", "start"} =>
               req[s].pc \in {"insert", "start"} /\ req'[s].port = req[s].port
      PROVE  OwnPorts'
  BY <1>2 DEF OwnPorts, PortsDistinct
<1>3. (UNCHANGED proc => \A p \in Alive' : p \in Alive /\ proc'[p].port = proc[p].port)
  BY DEF Alive
<1>4. CASE UNCHANGED vars
  BY <1>2, <1>3, <1>4 DEF vars
<1>5. ASSUME NEW r \in Requests, Search(r) \/ Serve(r)
      PROVE  OwnPorts'
  <2>1. CASE Ready(r) \/ FreeFound(r) \/ FreeNone(r) \/ Claim(r) \/ Assign(r) \/ Quota(r)
    <3>1. UNCHANGED proc
      BY <2>1 DEF Ready, FreeFound, FreeNone, Claim, Assign, Quota
    <3>2. \A s \in Requests : s # r => req'[s] = req[s]
      BY <1>1, <2>1 DEF Ready, FreeFound, FreeNone, Claim, Assign, Quota, Got
    <3>3. req'[r].pc \notin {"insert", "start"}
      <4>1. CASE Ready(r)
        <5>1. CASE Idle(Proj[r]) = {}
          <6>1. req' = [req EXCEPT ![r] = [req[r] EXCEPT !.pc = "free"]]
            BY <1>1, <4>1, <5>1 DEF Ready
          <6> QED  BY <1>1, <6>1 DEF ReqType
        <5>2. CASE Idle(Proj[r]) # {}
          <6>1. PICK n : req' = [Got(r, "done") EXCEPT ![r].node = n]
            BY <4>1, <5>2 DEF Ready
          <6>2. req'[r].pc = GotReq(r, "done").pc
            BY <1>1, <6>1, GotFacts DEF ReqType
          <6> QED  BY <6>2, GotFacts
        <5> QED  BY <5>1, <5>2
      <4>2. CASE FreeFound(r)
        BY <1>1, <4>2 DEF FreeFound
      <4>3. CASE FreeNone(r) \/ Claim(r)
        <5>1. PICK pc \in {"quota", "ports", "assign"} :
                req' = [req EXCEPT ![r] = [req[r] EXCEPT !.pc = pc]]
          BY <1>1, <4>3 DEF FreeNone, Claim
        <5> QED  BY <1>1, <5>1 DEF ReqType
      <4>5. CASE Quota(r)
        BY <1>1, <4>5 DEF Quota
      <4>4. CASE Assign(r)
        BY <1>1, <4>4 DEF Assign, Got
      <4> QED  BY <2>1, <4>1, <4>2, <4>3, <4>4, <4>5
    <3> QED  BY <1>2, <1>3, <3>1, <3>2, <3>3
  <2>2. CASE GetPorts(r)
    <3>1. /\ UNCHANGED proc /\ req'[r].port = NextPort
          /\ \A s \in Requests : s # r => req'[s] = req[s]
      BY <1>1, <2>2 DEF GetPorts
    <3>2. Alive' = Alive /\ \A p \in Alive : proc'[p].port = proc[p].port
      BY <3>1 DEF Alive
    <3>3. \A p \in Alive : proc[p].port # NextPort
      <4> TAKE p \in Alive
      <4>1. proc[p].port \in Nat
        BY <1>1 DEF Alive, ProcType, Ports
      <4> QED  BY <4>1, NextPortBound
    <3> QED  BY <3>1, <3>2, <3>3 DEF OwnPorts, PortsDistinct
  <2>3. CASE Insert(r)
    <3>1. /\ UNCHANGED proc /\ req'[r].port = req[r].port /\ req[r].pc = "insert"
          /\ \A s \in Requests : s # r => req'[s] = req[s]
      BY <1>1, <2>3 DEF Insert
    <3> QED  BY <1>2, <1>3, <3>1
  <2>4. CASE Start(r)
    <3> DEFINE q == spawned + 1
    <3>1. q \in Procs /\ req[r].pc = "start"
      BY <1>1, <2>4 DEF Start
    <3>2. /\ proc'[q].port = req[r].port
          /\ \A p \in Procs : p # q => proc'[p] = proc[p]
      BY <1>1, <2>4, <3>1 DEF Start
    <3>3. /\ req'[r].pc \notin {"insert", "start"}
          /\ \A s \in Requests : s # r => req'[s] = req[s]
      BY <1>1, <2>4 DEF Start, Got
    <3>4. \A s \in Requests : req'[s].pc \notin {"insert", "start"}
      BY <3>1, <3>3 DEF OneAtATime, Busy, Searching
    <3> HIDE DEF q
    <3>5. \A p \in Alive' : p \in Procs /\ (p # q => p \in Alive /\ proc'[p].port = proc[p].port)
      BY <3>2 DEF Alive
    <3>6. \A p \in Alive : proc[p].port # req[r].port
      BY <3>1 DEF OwnPorts
    <3>7. PortsDistinct'
      BY <3>2, <3>5, <3>6 DEF OwnPorts, PortsDistinct
    <3> QED  BY <3>4, <3>7 DEF OwnPorts
  <2>5. CASE Serve(r)
    BY <1>2, <1>3, <2>5, ServeMoves
  <2> QED  BY <1>5, <2>1, <2>2, <2>3, <2>4, <2>5 DEF Search
<1>6. ASSUME NEW p \in Procs, ProcStep(p) \/ Die(p)
      PROVE  OwnPorts'
  <2>1. UNCHANGED req
    BY <1>6 DEF ProcStep, Listen, PortInUse, Die
  <2>2. PICK pc : /\ proc' = [proc EXCEPT ![p] = [proc[p] EXCEPT !.pc = pc]]
                  /\ proc[p].pc \in {"starting", "up"}
    BY <1>1, <1>6 DEF ProcStep, Listen, PortInUse, Die
  <2>3. \A q \in Procs : proc'[q].port = proc[q].port /\ (q # p => proc'[q] = proc[q])
    BY <1>1, <2>2 DEF ProcType
  <2>4. \A q \in Alive' : q \in Alive /\ proc'[q].port = proc[q].port
    BY <2>2, <2>3 DEF Alive
  <2> QED  BY <1>2, <2>1, <2>4
<1>7. ASSUME NEW p \in Procs, NEW k \in 1..Tries, RegStep(p, k) \/ RegReply(p, k)
      PROVE  OwnPorts'
  <2>1. CASE RegReply(p, k)
    <3>1. \A q \in Alive' : q \in Alive /\ proc'[q].port = proc[q].port
      BY <1>1, <2>1 DEF RegReply, Alive
    <3> QED  BY <1>2, <2>1, <3>1 DEF RegReply
  <2>2. CASE RegRead(p, k)
    BY <1>2, <1>3, <2>2 DEF RegRead
  <2>3. CASE RegStep(p, k) /\ ~RegRead(p, k)
    BY <1>2, <1>3, <2>3, RegistrationMoves
  <2> QED  BY <1>7, <2>1, <2>2, <2>3
<1> QED  BY <1>4, <1>5, <1>6, <1>7 DEF Next

(***************************************************************************)
(* The nodes                                                               *)
(***************************************************************************)

\* A write changes its record, if any.
LEMMA PutCases ==
  ASSUME IInv, NEW n \in Nodes, NEW e
  PROVE  \A m \in Nodes : Put(n, e)[m] = db[m] \/ (m = n /\ Put(n, e)[m] = e /\ Exists(n))
BY Types DEF Put

\* The nodes of registrations that are done do not wait again, and nothing else
\* changes.
LEMMA OwnNodesKept ==
  ASSUME OwnNodes,
         \A g \in Regs : reg'[g].node = reg[g].node,
         \A g \in Regs : reg'[g].pc = "done" => db'[reg[g].node].state # "QUEUED",
         \A r \in Requests : req'[r].pc = "start" =>
           req[r].pc = "start" /\ req'[r].node = req[r].node,
         \A p \in Procs : proc'[p].uuid = proc[p].uuid
  PROVE  OwnNodes'
<1>1. \A p \in Procs, k \in 1..Tries : <<p, k>> \in Regs
  BY DEF Regs
<1>2. \A g, h \in Regs : reg'[g].node # None /\ reg'[g].node = reg'[h].node => g = h
  BY DEF OwnNodes
<1>3. \A g \in Regs : reg'[g].pc = "done" => db'[reg'[g].node].state # "QUEUED"
  OBVIOUS
<1>4. \A r \in Requests, g \in Regs : req'[r].pc = "start" => reg'[g].node # req'[r].node
  BY DEF OwnNodes
<1>5. \A p \in Procs : proc'[p].uuid # None => \E k \in 1..Tries : reg'[<<p, k>>].node = proc'[p].uuid
  BY <1>1 DEF OwnNodes
<1> QED  BY <1>2, <1>3, <1>4, <1>5 DEF OwnNodes

\* A registration that is done has a node, of which the record was created.
LEMMA DoneNode ==
  ASSUME IInv, NEW g \in Regs
  PROVE  /\ reg[g].pc = "done" => reg[g].node \in Nodes
         /\ reg[g].node # None => reg[g].node \in Nodes /\ reg[g].node <= created
         /\ reg[g].pc \in {"off", "create"} <=> reg[g].node = None
<1>1. RegSound(g) /\ (reg[g].node # None => reg[g].node \in Nodes /\ reg[g].node <= created)
  BY RegFacts
<1> QED  BY <1>1 DEF RegSound

\* A request puts a node back to wait only when it starts the process of the node.
LEMMA OwnNodesSearch ==
  ASSUME IInv, OneAtATime, OwnNodes, NEW r \in Requests, Search(r) \/ Serve(r)
  PROVE  OwnNodes'
<1>1. /\ req \in [Requests -> ReqType] /\ req[r] \in ReqType /\ db \in [Nodes -> Record]
      /\ proc \in [Procs -> ProcType] /\ created \in Nat /\ spawned \in Nat
      /\ Procs = 1..MaxProcs /\ MaxProcs \in Nat /\ Nodes = 1..MaxNodes /\ MaxNodes \in Nat
  BY Types
<1>2. /\ ReqSound(r) /\ (req[r].node # None => req[r].node \in Nodes)
  BY ReqFacts
<1>3. ASSUME UNCHANGED <<reg, proc>>, \A s \in Requests : s # r => req'[s] = req[s],
             req'[r].pc # "start",
             \A n \in Nodes : db'[n].state = "QUEUED" => db[n].state = "QUEUED"
      PROVE  OwnNodes'
  <2>1. \A g \in Regs : reg'[g].pc = "done" => db'[reg[g].node].state # "QUEUED"
    BY <1>3, DoneNode DEF OwnNodes
  <2> QED  BY <1>3, <2>1, OwnNodesKept
<1>4. CASE Ready(r) \/ FreeFound(r) \/ FreeNone(r) \/ Quota(r) \/ GetPorts(r)
  <2>1. UNCHANGED <<db, reg, proc>> /\ \A s \in Requests : s # r => req'[s] = req[s]
    BY <1>1, <1>4 DEF Ready, FreeFound, FreeNone, Quota, GetPorts, Got
  <2>2. req'[r].pc # "start"
    <3>1. CASE Ready(r)
      <4>1. CASE Idle(Proj[r]) = {}
        <5>1. req' = [req EXCEPT ![r] = [req[r] EXCEPT !.pc = "free"]]
          BY <1>1, <3>1, <4>1 DEF Ready
        <5> QED  BY <1>1, <5>1 DEF ReqType
      <4>2. CASE Idle(Proj[r]) # {}
        <5>1. PICK n : req' = [Got(r, "done") EXCEPT ![r].node = n]
          BY <3>1, <4>2 DEF Ready
        <5>2. req'[r].pc = GotReq(r, "done").pc
          BY <1>1, <5>1, GotFacts DEF ReqType
        <5> QED  BY <5>2, GotFacts
      <4> QED  BY <4>1, <4>2
    <3>2. CASE FreeFound(r)
      BY <1>1, <3>2 DEF FreeFound
    <3>3. CASE FreeNone(r) \/ Quota(r)
      <4>1. PICK pc \in {"quota", "ports", "refused"} :
              req' = [req EXCEPT ![r] = [req[r] EXCEPT !.pc = pc]]
        BY <1>1, <3>3 DEF FreeNone, Quota
      <4> QED  BY <1>1, <4>1 DEF ReqType
    <3>4. CASE GetPorts(r)
      BY <1>1, <3>4 DEF GetPorts
    <3> QED  BY <1>4, <3>1, <3>2, <3>3, <3>4
  <2> QED  BY <1>3, <2>1, <2>2
<1>5. CASE Claim(r)
  <2> DEFINE n == req[r].node
             e == [db[n] EXCEPT !.project = Proj[r]]
  <2>1. /\ UNCHANGED <<reg, proc>> /\ req[r].pc = "claim" /\ req'[r].pc = "assign"
        /\ db' = Put(n, e)
        /\ \A s \in Requests : s # r => req'[s] = req[s]
    BY <1>1, <1>5 DEF Claim
  <2>2. n \in Nodes
    BY <1>2, <2>1 DEF ReqSound
  <2>3. e.state = db[n].state
    BY <1>1, <2>2 DEF Record
  <2> HIDE DEF n, e
  <2>4. \A m \in Nodes : db'[m].state = "QUEUED" => db[m].state = "QUEUED"
    BY <2>1, <2>2, <2>3, PutCases
  <2> QED  BY <1>3, <2>1, <2>4
<1>6. CASE Assign(r)
  <2>1. /\ UNCHANGED <<reg, proc>> /\ req[r].pc = "assign"
        /\ db' = Put(req[r].node, req[r].copy) /\ req' = Got(r, "queued")
    BY <1>6 DEF Assign
  <2>2. req'[r].pc # "start" /\ \A s \in Requests : s # r => req'[s] = req[s]
    BY <1>1, <2>1, GotFacts
  <2>3. req[r].node \in Nodes /\ req[r].copy.state # "QUEUED"
    BY <1>2, <2>1 DEF ReqSound
  <2>4. \A n \in Nodes : db'[n].state = "QUEUED" => db[n].state = "QUEUED"
    BY <2>1, <2>3, PutCases
  <2> QED  BY <1>3, <2>1, <2>2, <2>4
<1>7. CASE Insert(r)
  <2> DEFINE k == created + 1
  <2>1. /\ UNCHANGED <<reg, proc>> /\ k \in Nodes
        /\ db' = [db EXCEPT ![k] = Queued(Proj[r], req[r].port)]
        /\ req'[r].node = k /\ \A s \in Requests : s # r => req'[s] = req[s]
    BY <1>1, <1>7 DEF Insert
  <2>2. \A g \in Regs : reg[g].node # None => reg[g].node # k
    BY <1>1, DoneNode
  <2>3. k # None
    BY <2>1, NoneAssumption
  <2> HIDE DEF k
  <2>4. \A g \in Regs : reg[g].node # k
    BY <2>2, <2>3
  <2>5. \A n \in Nodes : n # k => db'[n] = db[n]
    BY <1>1, <2>1
  <2>6. \A g \in Regs : reg'[g].pc = "done" => db'[reg[g].node].state # "QUEUED"
    BY <2>1, <2>4, <2>5, DoneNode DEF OwnNodes
  <2>7. \A s \in Requests, g \in Regs : req'[s].pc = "start" => reg'[g].node # req'[s].node
    BY <2>1, <2>4 DEF OwnNodes
  <2> QED  BY <2>1, <2>6, <2>7 DEF OwnNodes
<1>8. CASE Start(r)
  <2> DEFINE k == spawned + 1
             n == req[r].node
  <2>1. /\ UNCHANGED reg /\ req[r].pc = "start" /\ k \in Procs /\ req' = Got(r, "queued")
        /\ db' = Put(n, [db[n] EXCEPT !.state = "QUEUED", !.running = TRUE, !.pid = k])
        /\ proc' = [proc EXCEPT ![k] = [pc |-> "starting", port |-> req[r].port,
                                        node |-> n, uuid |-> None]]
    BY <1>1, <1>8 DEF Start
  <2>2. n \in Nodes /\ \A g \in Regs : reg[g].node # n
    BY <1>2, <2>1 DEF ReqSound, OwnNodes
  <2>3. req'[r].pc # "start" /\ \A s \in Requests : s # r => req'[s] = req[s]
    BY <1>1, <2>1, GotFacts
  <2>4. \A m \in Nodes : m # n => db'[m] = db[m]
    BY <2>1, <2>2, PutCases
  <2>5. \A g \in Regs : reg'[g].pc = "done" => db'[reg[g].node].state # "QUEUED"
    BY <2>1, <2>2, <2>4, DoneNode DEF OwnNodes
  <2> HIDE DEF k, n
  <2>6. \A p \in Procs : proc'[p].uuid = None \/ proc'[p].uuid = proc[p].uuid
    BY <1>1, <2>1
  <2>7. \A s \in Requests : req'[s].pc = "start" => req[s] = req'[s] /\ req[s].pc = "start"
    BY <2>3
  <2>8. \A p \in Procs : proc'[p].uuid # None =>
          \E j \in 1..Tries : reg'[<<p, j>>].node = proc'[p].uuid
    BY <2>1, <2>6 DEF OwnNodes
  <2>9. \A s \in Requests, g \in Regs : req'[s].pc = "start" => reg'[g].node # req'[s].node
    BY <2>1, <2>7 DEF OwnNodes
  <2>10. \A g, h \in Regs : reg'[g].node # None /\ reg'[g].node = reg'[h].node => g = h
    BY <2>1 DEF OwnNodes
  <2> QED  BY <2>1, <2>5, <2>8, <2>9, <2>10 DEF OwnNodes
<1>9. CASE Serve(r)
  <2>1. /\ UNCHANGED <<reg, proc>> /\ \A s \in Requests : s # r => req'[s] = req[s]
        /\ req'[r].pc \in {req[r].pc, "told"} /\ req'[r].node = req[r].node
    BY <1>9, ServeMoves
  <2>2. \A n \in Nodes : db'[n].state = "QUEUED" => db[n].state = "QUEUED"
    <3>1. CASE Poll(r)
      BY <3>1 DEF Poll
    <3>2. CASE Work(r)
      <4> DEFINE n == req[r].node
                 i == IF Kind[r] = "order" THEN db[n].idleSince ELSE FALSE
                 e == [db[n] EXCEPT !.state = "BUSY", !.idleSince = i]
      <4>1. n \in Nodes
        BY <1>2, <3>2 DEF Work, ReqSound
      <4>2. db' = [db EXCEPT ![n] = e]
        BY <1>1, <3>2, <4>1 DEF Work
      <4> HIDE DEF i
      <4>3. e.state = "BUSY"
        BY <1>1, <4>1 DEF Record
      <4> HIDE DEF n, e
      <4> QED  BY <1>1, <4>1, <4>2, <4>3
    <3>3. CASE Finish(r)
      <4> DEFINE n == req[r].node
                 e == [db[n] EXCEPT !.state = "IDLE", !.idleSince = TRUE]
      <4>1. n \in Nodes /\ (db' = db \/ db' = Put(n, e))
        BY <1>2, <3>3 DEF Finish, ReqSound
      <4>2. e.state = "IDLE"
        BY <1>1, <4>1 DEF Record
      <4> HIDE DEF n, e
      <4> QED  BY <4>1, <4>2, PutCases
    <3> QED  BY <1>9, <3>1, <3>2, <3>3 DEF Serve
  <2>3. \A g \in Regs : reg'[g].pc = "done" => db'[reg[g].node].state # "QUEUED"
    BY <2>1, <2>2, DoneNode DEF OwnNodes
  <2> QED  BY <2>1, <2>3, OwnNodesKept
<1> QED  BY <1>4, <1>5, <1>6, <1>7, <1>8, <1>9 DEF Search

\* The end of a process makes no node wait.
LEMMA OwnNodesProc ==
  ASSUME IInv, OwnNodes, NEW p \in Procs, ProcStep(p) \/ Die(p)
  PROVE  OwnNodes'
<1>1. /\ proc \in [Procs -> ProcType] /\ db \in [Nodes -> Record]
  BY Types
<1>2. UNCHANGED <<req, reg>>
  BY DEF ProcStep, Listen, PortInUse, Die
<1>3. PICK pc : proc' = [proc EXCEPT ![p] = [proc[p] EXCEPT !.pc = pc]]
  BY <1>1 DEF ProcStep, Listen, PortInUse, Die
<1>4. \A q \in Procs : proc'[q].uuid = proc[q].uuid
  BY <1>1, <1>3 DEF ProcType
<1>5. \A n \in Nodes : Closed(p)[n].state = "QUEUED" => db[n].state = "QUEUED"
  BY ClosedFacts
<1>6. \A n \in Nodes : db'[n].state = "QUEUED" => db[n].state = "QUEUED"
  <2>1. CASE Listen(p)
    BY <2>1 DEF Listen
  <2>2. CASE Die(p)
    BY <1>5, <2>2 DEF Die
  <2>3. CASE PortInUse(p)
    <3>1. db' = Closed(p) \/ \E m \in Nodes : db' = [Closed(p) EXCEPT ![m].state = "STOPPED"]
      BY <2>3 DEF PortInUse
    <3>2. CASE db' = Closed(p)
      BY <1>5, <3>2
    <3>3. ASSUME NEW m \in Nodes, db' = [Closed(p) EXCEPT ![m].state = "STOPPED"]
          PROVE  \A n \in Nodes : db'[n].state = "QUEUED" => db[n].state = "QUEUED"
      <4>1. Closed(p) \in [Nodes -> Record]
        BY ClosedFacts
      <4>2. db'[m].state = "STOPPED" /\ \A n \in Nodes : n # m => db'[n] = Closed(p)[n]
        BY <3>3, <4>1 DEF Record
      <4> QED  BY <1>5, <4>2
    <3> QED  BY <3>1, <3>2, <3>3
  <2> QED  BY <2>1, <2>2, <2>3 DEF ProcStep
<1>7. \A g \in Regs : reg'[g].pc = "done" => db'[reg[g].node].state # "QUEUED"
  BY <1>2, <1>6, DoneNode DEF OwnNodes
<1> QED  BY <1>2, <1>4, <1>7, OwnNodesKept

\* A registration takes a node that waits, or a new one; another that is under way
\* would have to be with a request or a registration that is not.
LEMMA OwnNodesReg ==
  ASSUME Overlap = FALSE, IInv, OneAtATime, OwnNodes, NEW p \in Procs, NEW k \in 1..Tries,
         RegStep(p, k) \/ RegReply(p, k)
  PROVE  OwnNodes'
<1> DEFINE g == <<p, k>>
           n == reg[g].node
<1>1. /\ reg \in [Regs -> RegType] /\ g \in Regs /\ db \in [Nodes -> Record]
      /\ proc \in [Procs -> ProcType] /\ created \in Nat /\ RegSound(g) /\ g[1] = p /\ g[2] = k
      /\ Nodes = 1..MaxNodes /\ MaxNodes \in Nat
  BY Types, RegFacts DEF Regs
<1>2. CASE RegReply(p, k)
  <2>1. /\ UNCHANGED <<db, req, reg>> /\ proc' = [proc EXCEPT ![p] = [proc[p] EXCEPT !.uuid = n]]
    BY <1>1, <1>2 DEF RegReply
  <2>2. proc'[p].uuid = n /\ \A q \in Procs : q # p => proc'[q] = proc[q]
    BY <1>1, <2>1 DEF ProcType
  <2> QED  BY <2>1, <2>2 DEF OwnNodes
<1>3. ASSUME NEW x \in Nodes, \A h \in Regs : reg[h].node # x,
             reg'[g].node = x, reg'[g].pc = "saveall", reg[g].node = None,
             \A h \in Regs : h # g => reg'[h] = reg[h], UNCHANGED <<proc, req>>,
             \A m \in Nodes : m # x => db'[m] = db[m],
             \A s \in Requests : ~Busy(s)
      PROVE  OwnNodes'
  <2>1. \A h, i \in Regs : reg'[h].node # None /\ reg'[h].node = reg'[i].node => h = i
    BY <1>3 DEF OwnNodes
  <2>2. \A h \in Regs : reg'[h].pc = "done" => db'[reg'[h].node].state # "QUEUED"
    BY <1>3, DoneNode DEF OwnNodes
  <2>3. \A s \in Requests : req'[s].pc # "start"
    BY <1>3 DEF Busy, Searching
  <2>4. \A q \in Procs, j \in 1..Tries : <<q, j>> \in Regs
    BY DEF Regs
  <2>5. ASSUME NEW q \in Procs, proc'[q].uuid # None
        PROVE  \E j \in 1..Tries : reg'[<<q, j>>].node = proc'[q].uuid
    <3>1. PICK j \in 1..Tries : reg[<<q, j>>].node = proc[q].uuid
      BY <1>3, <2>5 DEF OwnNodes
    <3>2. <<q, j>> # g /\ <<q, j>> \in Regs
      BY <1>3, <2>4, <2>5, <3>1
    <3> QED  BY <1>3, <3>1, <3>2
  <2> QED  BY <2>1, <2>2, <2>3, <2>5 DEF OwnNodes
<1>4. CASE RegRead(p, k)
  <2>1. /\ UNCHANGED <<db, req, proc>> /\ Quiet /\ reg[g].pc = "off"
    BY <1>4 DEF RegRead, Asks
  <2>2. n = None
    BY <1>1, <2>1, DoneNode
  <2>3. CASE Waiting = {}
    <3>1. reg' = [reg EXCEPT ![g] = [reg[g] EXCEPT !.pc = "create"]]
      BY <1>1, <1>4, <2>3 DEF RegRead
    <3>2. /\ reg'[g].node = n /\ reg'[g].pc = "create"
          /\ \A h \in Regs : h # g => reg'[h] = reg[h]
      BY <1>1, <3>1 DEF RegType
    <3>3. \A h \in Regs : reg'[h].pc = "done" => db'[reg[h].node].state # "QUEUED"
      BY <2>1, <3>2 DEF OwnNodes
    <3> QED  BY <2>1, <3>2, <3>3, OwnNodesKept
  <2>4. CASE Waiting # {}
    <3> DEFINE x == MaxOf(Waiting)
    <3>1. Waiting \in SUBSET (0..MaxNodes)
      BY <1>1 DEF Waiting
    <3>2. x \in Waiting
      BY <1>1, <2>4, <3>1, GreatestOfSet, Zenon
    <3>3. /\ reg'[g].node = x /\ reg'[g].pc = "saveall"
          /\ \A h \in Regs : h # g => reg'[h] = reg[h]
      BY <1>1, <1>4, <2>4 DEF RegRead
    <3> HIDE DEF x
    <3>4. x \in Nodes /\ db[x].state = "QUEUED" /\ x # None
      BY <3>2, NoneAssumption DEF Waiting
    <3>5. \A h \in Regs : reg[h].node # x
      BY <2>1, <3>4, DoneNode DEF Quiet, OwnNodes
    <3>6. \A s \in Requests : ~Busy(s)
      BY <2>1 DEF Quiet, Busy
    <3> QED  BY <1>3, <2>1, <2>2, <3>3, <3>4, <3>5, <3>6
  <2> QED  BY <2>3, <2>4
<1>5. CASE RegCreate(p, k)
  <2> DEFINE x == created + 1
             e == Queued(None, NextPort)
  <2>1. /\ UNCHANGED <<req, proc>> /\ reg[g].pc = "create" /\ x \in Nodes
        /\ db' = [db EXCEPT ![x] = e] /\ reg'[g].node = x /\ reg'[g].pc = "saveall"
        /\ \A h \in Regs : h # g => reg'[h] = reg[h]
    BY <1>1, <1>5 DEF RegCreate
  <2>2. n = None /\ x # None
    BY <1>1, <2>1, DoneNode, NoneAssumption
  <2>3. \A h \in Regs : reg[h].node # x
    BY <1>1, <2>2, DoneNode
  <2> HIDE DEF x, e
  <2>4. \A m \in Nodes : m # x => db'[m] = db[m]
    BY <1>1, <2>1
  <2>5. \A s \in Requests : ~Busy(s)
    BY <1>1, <2>1 DEF OneAtATime, Active
  <2> QED  BY <1>3, <2>1, <2>2, <2>3, <2>4, <2>5
<1>6. ASSUME reg[g].pc \notin {"off", "create", "done"}, UNCHANGED <<req, proc>>, reg'[g].node = n,
             \A h \in Regs : h # g => reg'[h] = reg[h],
             NEW e, db' = db \/ db' = Put(n, e),
             reg'[g].pc = "done" => db'[n].state # "QUEUED"
      PROVE  OwnNodes'
  <2>1. n \in Nodes /\ n # None
    BY <1>1, <1>6, DoneNode, NoneAssumption
  <2>2. \A m \in Nodes : m # n => db'[m] = db[m]
    BY <1>6, <2>1, PutCases
  <2>3. \A h \in Regs : h # g => reg[h].node # n
    BY <1>1, <2>1 DEF OwnNodes
  <2>4. \A h \in Regs : reg'[h].pc = "done" => db'[reg[h].node].state # "QUEUED"
    BY <1>6, <2>2, <2>3, DoneNode DEF OwnNodes
  <2> QED  BY <1>6, <2>4, OwnNodesKept
<1>7. CASE RegSaveAll(p, k)
  <2>1. /\ reg[g].pc = "saveall" /\ UNCHANGED <<req, proc>> /\ db' = Put(n, reg[g].copy)
        /\ reg' = [reg EXCEPT ![g] = [reg[g] EXCEPT !.pc = IF reg[g].free THEN "state" ELSE "event"]]
    BY <1>1, <1>7 DEF RegSaveAll
  <2>2. /\ reg'[g].node = n /\ reg'[g].pc # "done" /\ \A h \in Regs : h # g => reg'[h] = reg[h]
    BY <1>1, <2>1 DEF RegType
  <2> QED  BY <1>6, <2>1, <2>2
<1>8. CASE RegState(p, k)
  <2>1. /\ reg[g].pc = "state" /\ UNCHANGED <<req, proc>>
        /\ db' = Put(n, [reg[g].copy EXCEPT !.state = "REGISTERED"])
        /\ reg' = [reg EXCEPT ![g] = [reg[g] EXCEPT !.pc = "event", !.free = FALSE]]
    BY <1>1, <1>8 DEF RegState
  <2>2. /\ reg'[g].node = n /\ reg'[g].pc # "done" /\ \A h \in Regs : h # g => reg'[h] = reg[h]
    BY <1>1, <2>1 DEF RegType
  <2> QED  BY <1>6, <2>1, <2>2
<1>9. CASE RegEvent(p, k)
  <2> DEFINE pc == IF Exists(n) THEN "update" ELSE "done"
             c  == IF Exists(n) THEN [db[n] EXCEPT !.state = "IDLE"] ELSE Blank
  <2>1. /\ reg[g].pc = "event" /\ UNCHANGED <<db, req, proc>>
        /\ reg' = [reg EXCEPT ![g] = [reg[g] EXCEPT !.pc = pc, !.copy = c]]
    BY <1>1, <1>9 DEF RegEvent
  <2> HIDE DEF c
  <2>2. /\ reg'[g].node = n /\ reg'[g].pc = pc /\ \A h \in Regs : h # g => reg'[h] = reg[h]
    BY <1>1, <2>1 DEF RegType
  <2>3. reg'[g].pc = "done" => db'[n].state # "QUEUED"
    BY <2>1, <2>2 DEF Exists
  <2> QED  BY <1>6, <2>1, <2>2, <2>3
<1>10. CASE RegUpdate(p, k)
  <2> DEFINE c == reg[g].copy
             e == [db[n] EXCEPT !.running = c.running, !.state = c.state, !.idleSince = c.idleSince]
  <2>1. /\ reg[g].pc = "update" /\ UNCHANGED <<req, proc>> /\ db' = Put(n, e)
        /\ reg' = [reg EXCEPT ![g] = [reg[g] EXCEPT !.pc = "done", !.copy = Blank]]
    BY <1>1, <1>10 DEF RegUpdate
  <2>2. /\ reg'[g].node = n /\ \A h \in Regs : h # g => reg'[h] = reg[h]
    BY <1>1, <2>1 DEF RegType
  <2>3. n \in Nodes /\ c.state = "IDLE"
    BY <1>1, <2>1, DoneNode, NoneAssumption DEF RegSound
  <2>4. e.state = "IDLE"
    BY <1>1, <2>3 DEF Record
  <2>5. db'[n].state # "QUEUED"
    BY <1>1, <2>1, <2>3, <2>4 DEF Put, Exists
  <2> QED  BY <1>6, <2>1, <2>2, <2>5
<1> QED  BY <1>2, <1>4, <1>5, <1>7, <1>8, <1>9, <1>10 DEF RegStep

(***************************************************************************)
(* The specification                                                       *)
(***************************************************************************)

SerialInvariant == IInv /\ OneAtATime /\ OwnPorts /\ OwnNodes

\* At first nothing is under way, and the processes that run have ports of their own.
LEMMA SerialInit == Init => SerialInvariant
<1> SUFFICES ASSUME Init  PROVE SerialInvariant
  OBVIOUS
<1>1. IInv
  BY InitSound
<1>2. OneAtATime
  BY DEF Init, OneAtATime, Busy, Active, Searching
<1>3. OwnPorts
  BY DEF Init, OwnPorts, PortsDistinct, Alive
<1>4. OwnNodes
  BY DEF Init, OwnNodes
<1> QED  BY <1>1, <1>2, <1>3, <1>4 DEF SerialInvariant

\* The invariant is inductive.
LEMMA SerialStep ==
  ASSUME Overlap = FALSE, SerialInvariant, [Next]_vars
  PROVE  SerialInvariant'
<1>1. IInv /\ OneAtATime /\ OwnPorts /\ OwnNodes
  BY DEF SerialInvariant
<1>2. IInv' /\ OneAtATime' /\ OwnPorts'
  BY <1>1, NextSound, OneAtATimeStep, OwnPortsStep
<1>3. OwnNodes'
  <2>1. ASSUME NEW r \in Requests, Search(r) \/ Serve(r)  PROVE OwnNodes'
    BY <1>1, <2>1, OwnNodesSearch
  <2>2. ASSUME NEW p \in Procs, ProcStep(p) \/ Die(p)  PROVE OwnNodes'
    BY <1>1, <2>2, OwnNodesProc
  <2>3. ASSUME NEW p \in Procs, NEW k \in 1..Tries, RegStep(p, k) \/ RegReply(p, k)
        PROVE  OwnNodes'
    BY <1>1, <2>3, OwnNodesReg
  <2>4. CASE UNCHANGED vars
    BY <1>1, <2>4 DEF vars, OwnNodes
  <2> QED  BY <2>1, <2>2, <2>3, <2>4 DEF Next
<1> QED  BY <1>2, <1>3 DEF SerialInvariant

\* registerNode() gives two processes two nodes.
LEMMA OneProcess == SerialInvariant => OneProcessPerNode
<1> SUFFICES ASSUME SerialInvariant, NEW p \in Procs, NEW q \in Procs,
                    proc[p].uuid # None, proc[p].uuid = proc[q].uuid
             PROVE  p = q
  BY DEF OneProcessPerNode
<1>1. PICK j \in 1..Tries : reg[<<p, j>>].node = proc[p].uuid
  BY DEF SerialInvariant, OwnNodes
<1>2. PICK k \in 1..Tries : reg[<<q, k>>].node = proc[q].uuid
  BY DEF SerialInvariant, OwnNodes
<1>3. <<p, j>> \in Regs /\ <<q, k>> \in Regs
  BY DEF Regs
<1>4. <<p, j>> = <<q, k>>
  BY <1>1, <1>2, <1>3 DEF SerialInvariant, OwnNodes
<1> QED  BY <1>4

(***************************************************************************)
(* The quota                                                               *)
(***************************************************************************)

\* The processes are spawned by this master for requests that check the quota, send
\* one registration each, and do not end.
QuotaApplies ==
  /\ Overlap = FALSE /\ Outside = 0 /\ Tries = 1 /\ MaxDeaths = 0
  /\ \A r \in Requests : Kind[r] = "unit"

\* Process p was spawned for the p-th record, and is there.
OwnRecord(p) == p <= spawned => proc[p].node = p /\ proc[p].pc \in {"starting", "up"}

\* The records that run are those for which a process was spawned; they wait until
\* somebody registers, and they are never free.
RunsSpawned(n) ==
  /\ db[n].running <=> n <= spawned
  /\ n <= spawned => /\ db[n].project # None
                     /\ (\A g \in Regs : reg[g].node # n) => db[n].state = "QUEUED"

\* So do the copies that registrations hold.
CopyRuns(g) ==
  /\ reg[g].pc # "create"
  /\ reg[g].node # None => reg[g].node <= spawned
  /\ reg[g].pc \in {"saveall", "state", "update"} => reg[g].copy.running
  /\ reg[g].pc \in {"saveall", "state"} => reg[g].copy.project # None

\* A request that passed the quota starts one process more, for the newest record.
Passed(r) ==
  /\ req[r].pc \notin {"claim", "assign"}
  /\ req[r].pc \in {"ports", "insert", "start"} => spawned < MaxSlaves
  /\ req[r].pc = "start" =>
       /\ created = spawned + 1 /\ req[r].node = created
       /\ db[created].state = "QUEUED" /\ db[created].project # None

Counts ==
  /\ spawned <= MaxSlaves /\ spawned <= created
  /\ created # spawned => \E r \in Requests : req[r].pc = "start"

OwnSlaves ==
  /\ \A p \in Procs : OwnRecord(p)
  /\ \A n \in Nodes : RunsSpawned(n)
  /\ \A g \in Regs : CopyRuns(g)
  /\ \A r \in Requests : Passed(r)
  /\ Counts

\* The records that run are as many as the processes.
LEMMA RunningCount ==
  ASSUME IInv, OwnSlaves
  PROVE  Cardinality({n \in Nodes : db[n].running}) = spawned
<1>1. /\ created \in Nat /\ spawned \in Nat /\ MaxNodes \in Nat /\ created <= MaxNodes
      /\ Nodes = 1..MaxNodes
  BY Types
<1>2. {n \in Nodes : db[n].running} = {n \in Nodes : n <= spawned}
  BY DEF OwnSlaves, RunsSpawned
<1>3. {n \in Nodes : n <= spawned} = 1..spawned
  BY <1>1 DEF OwnSlaves, Counts
<1>4. Cardinality(1..spawned) = spawned
  BY <1>1, FS_Interval
<1> QED  BY <1>2, <1>3, <1>4

\* While one process has not asked, one record waits.
LEMMA SomeWaits ==
  ASSUME Tries = 1, SerialInvariant, OwnSlaves, NEW p \in Procs, proc[p].pc = "up",
         reg[<<p, 1>>].pc = "off"
  PROVE  Waiting # {}
<1> SUFFICES ASSUME Waiting = {}  PROVE FALSE
  OBVIOUS
<1>1. /\ created \in Nat /\ spawned \in Nat /\ MaxNodes \in Nat /\ created <= MaxNodes
      /\ Nodes = 1..MaxNodes /\ Procs = 1..MaxProcs /\ MaxProcs \in Nat /\ IInv
  BY Types DEF SerialInvariant
<1> DEFINE S == 1..spawned
           T == S \ {p}
<1>2. p \in S
  <2>1. ProcSound(p) /\ p \in Nat
    BY <1>1, ProcFacts
  <2> QED  BY <1>1, <2>1 DEF ProcSound
<1>3. reg[<<p, 1>>].node = None
  <2>1. <<p, 1>> \in Regs
    BY DEF Regs
  <2> QED  BY <1>1, <2>1, DoneNode
<1>4. ASSUME NEW n \in S
      PROVE  \E q \in T : reg[<<q, 1>>].node = n
  <2>1. n \in Nodes /\ n # None
    BY <1>1, NoneAssumption DEF OwnSlaves, Counts
  <2>2. PICK g \in Regs : reg[g].node = n
    BY <2>1 DEF Waiting, OwnSlaves, RunsSpawned
  <2>3. PICK q \in Procs : g = <<q, 1>>
    BY <2>2 DEF Regs
  <2>4. RegSound(g) /\ g[1] = q /\ ProcSound(q) /\ q \in Nat
    BY <1>1, <2>3, RegFacts, ProcFacts
  <2>5. proc[q].pc \in {"up", "dead"}
    BY <2>1, <2>2, <2>4 DEF RegSound
  <2>6. q \in S
    BY <1>1, <2>4, <2>5 DEF ProcSound
  <2>7. q # p
    BY <1>3, <2>1, <2>2, <2>3
  <2> QED  BY <2>2, <2>3, <2>6, <2>7
<1>5. IsFiniteSet(S) /\ IsFiniteSet(T) /\ Cardinality(T) < Cardinality(S)
  <2>1. IsFiniteSet(S) /\ Cardinality(S) = spawned
    <3>1. 1 \in Int /\ spawned \in Int
      BY <1>1
    <3>2. IsFiniteSet(1..spawned) /\ Cardinality(1..spawned) = IF 1 > spawned THEN 0 ELSE spawned - 1 + 1
      BY <3>1, FS_Interval, Zenon
    <3> QED  BY <1>1, <3>2
  <2>2. IsFiniteSet(T) /\ Cardinality(T) = Cardinality(S) - 1
    BY <1>2, <2>1, FS_RemoveElement
  <2> QED  BY <1>1, <2>1, <2>2
<1> DEFINE c(n) == CHOOSE q \in T : reg[<<q, 1>>].node = n
           f == [n \in S |-> c(n)]
<1>9. \A n \in S : c(n) \in T /\ reg[<<c(n), 1>>].node = n
  BY <1>4
<1> HIDE DEF c, S, T
<1>6. \A n \in S : f[n] \in T /\ reg[<<f[n], 1>>].node = n
  BY <1>9
<1>7. f \in [S -> T]
  BY <1>9
<1> HIDE DEF f
<1>8. PICK x, y \in S : x # y /\ f[x] = f[y]
  <2> HIDE DEF S, T
  <2> QED  BY <1>5, <1>7, FS_PigeonHole
<1> QED  BY <1>6, <1>8

\* A step of a request that only moves the request keeps all this.
LEMMA PassedOn ==
  ASSUME IInv, OwnSlaves, NEW r \in Requests, NEW q, req' = [req EXCEPT ![r] = q],
         UNCHANGED <<db, created, proc, spawned, reg>>, req[r].pc # "start",
         q.pc \notin {"start", "claim", "assign"},
         q.pc \in {"ports", "insert"} => spawned < MaxSlaves
  PROVE  OwnSlaves'
<1>1. /\ req \in [Requests -> ReqType]
  BY Types
<1>2. req'[r] = q /\ \A s \in Requests : s # r => req'[s] = req[s]
  BY <1>1
<1>3. \A s \in Requests : Passed(s)'
  BY <1>2 DEF OwnSlaves, Passed
<1>4. Counts'
  BY <1>2 DEF OwnSlaves, Counts
<1>5. (\A p \in Procs : OwnRecord(p)') /\ (\A n \in Nodes : RunsSpawned(n)') /\ (\A g \in Regs : CopyRuns(g)')
  BY DEF OwnSlaves, OwnRecord, RunsSpawned, CopyRuns
<1> QED  BY <1>3, <1>4, <1>5 DEF OwnSlaves

\* The search finds no free slave, and starts a process when fewer run than may.
LEMMA SearchOwns ==
  ASSUME QuotaApplies, SerialInvariant, OwnSlaves, NEW r \in Requests, Search(r)
  PROVE  OwnSlaves'
<1>1. /\ req \in [Requests -> ReqType] /\ db \in [Nodes -> Record] /\ req[r] \in ReqType
      /\ proc \in [Procs -> ProcType] /\ created \in Nat /\ spawned \in Nat
      /\ Procs = 1..MaxProcs /\ MaxProcs \in Nat /\ Nodes = 1..MaxNodes /\ MaxNodes \in Nat
      /\ IInv /\ OneAtATime /\ Kind[r] = "unit" /\ Passed(r) /\ Counts
  BY Types DEF SerialInvariant, OwnSlaves, QuotaApplies
<1>2. Idle(None) = {}
  BY DEF Idle, OwnSlaves, RunsSpawned
<1>3. CASE Ready(r)
  <2>1. req[r].pc = "ready" /\ UNCHANGED <<db, created, proc, spawned, reg>>
    BY <1>3 DEF Ready
  <2>2. CASE Idle(Proj[r]) = {}
    <3> DEFINE q == [req[r] EXCEPT !.pc = "free"]
    <3>1. req' = [req EXCEPT ![r] = q]
      BY <1>1, <1>3, <2>2 DEF Ready
    <3>2. q.pc = "free"
      BY <1>1 DEF ReqType
    <3> HIDE DEF q
    <3> QED  BY <1>1, <2>1, <3>1, <3>2, PassedOn
  <2>3. CASE Idle(Proj[r]) # {}
    <3>1. PICK n : req' = [Got(r, "done") EXCEPT ![r].node = n]
      BY <1>3, <2>3 DEF Ready
    <3> DEFINE q == [GotReq(r, "done") EXCEPT !.node = n]
    <3>2. req' = [req EXCEPT ![r] = q]
      BY <1>1, <3>1, GotFacts
    <3>3. q.pc \in {"ordered", "poll"}
      BY <1>1, GotFacts DEF ReqType
    <3> HIDE DEF q
    <3> QED  BY <1>1, <2>1, <3>2, <3>3, PassedOn
  <2> QED  BY <2>2, <2>3
<1>4. CASE FreeFound(r)
  BY <1>2, <1>4 DEF FreeFound
<1>5. CASE Claim(r) \/ Assign(r)
  BY <1>1, <1>5 DEF Claim, Assign, Passed
<1>6. CASE FreeNone(r)
  <2> DEFINE q == [req[r] EXCEPT !.pc = "quota"]
  <2>1. /\ req[r].pc = "free" /\ UNCHANGED <<db, created, proc, spawned, reg>>
        /\ req' = [req EXCEPT ![r] = q]
    BY <1>1, <1>6 DEF FreeNone
  <2>2. q.pc = "quota"
    BY <1>1 DEF ReqType
  <2> HIDE DEF q
  <2> QED  BY <1>1, <2>1, <2>2, PassedOn
<1>7. CASE Quota(r)
  <2> DEFINE pc == IF spawned < MaxSlaves THEN "ports" ELSE "refused"
             q  == [req[r] EXCEPT !.pc = pc]
  <2>1. /\ req[r].pc = "quota" /\ UNCHANGED <<db, created, proc, spawned, reg>>
        /\ req' = [req EXCEPT ![r] = q]
    BY <1>1, <1>7, RunningCount DEF Quota
  <2>2. q.pc = pc
    BY <1>1 DEF ReqType
  <2> HIDE DEF q
  <2> QED  BY <1>1, <2>1, <2>2, PassedOn
<1>8. CASE GetPorts(r)
  <2> DEFINE q == [req[r] EXCEPT !.pc = "insert", !.port = NextPort]
  <2>1. /\ req[r].pc = "ports" /\ UNCHANGED <<db, created, proc, spawned, reg>>
        /\ req' = [req EXCEPT ![r] = q]
    BY <1>1, <1>8 DEF GetPorts
  <2>2. q.pc = "insert"
    BY <1>1 DEF ReqType
  <2> HIDE DEF q
  <2>3. spawned < MaxSlaves
    BY <1>1, <2>1 DEF Passed
  <2> QED  BY <1>1, <2>1, <2>2, <2>3, PassedOn
<1>9. CASE Insert(r)
  <2> DEFINE k == created + 1
             e == Queued(Proj[r], req[r].port)
             q == [req[r] EXCEPT !.pc = "start", !.node = k]
  <2>1. /\ req[r].pc = "insert" /\ UNCHANGED <<proc, spawned, reg>> /\ created' = k /\ k \in Nodes
        /\ req' = [req EXCEPT ![r] = q] /\ db' = [db EXCEPT ![k] = e]
    <3>1. /\ req[r].pc = "insert" /\ UNCHANGED <<proc, spawned, reg>> /\ created' = k
          /\ db' = [db EXCEPT ![k] = e] /\ created < MaxNodes
      BY <1>9 DEF Insert
    <3> HIDE DEF e
    <3>2. req' = [req EXCEPT ![r] = q]
      BY <1>1, <1>9 DEF Insert
    <3> QED  BY <1>1, <3>1, <3>2
  <2>2. \A s \in Requests : Busy(s) => s = r
    BY <1>1, <2>1 DEF OneAtATime, Busy, Searching
  <2>3. created = spawned /\ spawned < MaxSlaves
    BY <1>1, <2>1, <2>2 DEF Counts, Busy, Searching, Passed
  <2>4. e.state = "QUEUED" /\ e.running = FALSE /\ e.project # None
    BY NoneAssumption DEF Queued, Blank, Projects
  <2>5. q.pc = "start" /\ q.node = k
    BY <1>1 DEF ReqType
  <2> HIDE DEF e, q
  <2>6. req'[r] = q /\ \A s \in Requests : s # r => req'[s] = req[s]
    BY <1>1, <2>1
  <2>7. db'[k] = e /\ \A n \in Nodes : n # k => db'[n] = db[n]
    BY <1>1, <2>1
  <2>8. \A s \in Requests : Passed(s)'
    <3> TAKE s \in Requests
    <3>1. CASE s = r
      BY <2>1, <2>3, <2>4, <2>5, <2>6, <2>7, <3>1 DEF Passed
    <3>2. CASE s # r
      BY <2>2, <2>6, <3>2 DEF Passed, Busy, Searching
    <3> QED  BY <3>1, <3>2
  <2>9. Counts'
    BY <1>1, <2>1, <2>3, <2>5, <2>6 DEF Counts
  <2>10. \A n \in Nodes : RunsSpawned(n)'
    <3> TAKE n \in Nodes
    <3>1. CASE n = k
      BY <1>1, <2>1, <2>3, <2>4, <2>7, <3>1 DEF RunsSpawned
    <3>2. CASE n # k
      BY <2>1, <2>7, <3>2 DEF OwnSlaves, RunsSpawned
    <3> QED  BY <3>1, <3>2
  <2>11. (\A p \in Procs : OwnRecord(p)') /\ (\A g \in Regs : CopyRuns(g)')
    BY <2>1 DEF OwnSlaves, OwnRecord, CopyRuns
  <2> QED  BY <2>8, <2>9, <2>10, <2>11 DEF OwnSlaves
<1>10. CASE Start(r)
  <2> DEFINE k == spawned + 1
             e == [db[k] EXCEPT !.state = "QUEUED", !.running = TRUE, !.pid = k]
             w == [pc |-> "starting", port |-> req[r].port, node |-> k, uuid |-> None]
  <2>1. /\ req[r].pc = "start" /\ created = k /\ req[r].node = k /\ spawned < MaxSlaves
        /\ db[k].state = "QUEUED" /\ db[k].project # None
    BY <1>1, <1>10 DEF Start, Passed
  <2>2. /\ k \in Procs /\ k \in Nodes /\ spawned' = k /\ UNCHANGED <<created, reg>>
        /\ proc' = [proc EXCEPT ![k] = w] /\ db' = Put(k, e) /\ req' = Got(r, "queued")
    <3>1. k \in Nodes
      BY <1>1, <2>1, ReqFacts, NoneAssumption DEF ReqSound
    <3> QED  BY <1>1, <1>10, <2>1, <3>1 DEF Start
  <2>3. e.state = "QUEUED" /\ e.running = TRUE /\ e.project = db[k].project
    BY <1>1, <2>2 DEF Record
  <2>4. db'[k] = e /\ \A n \in Nodes : n # k => db'[n] = db[n]
    BY <1>1, <2>1, <2>2 DEF Put, Exists
  <2>5. proc'[k] = w /\ \A p \in Procs : p # k => proc'[p] = proc[p]
    BY <1>1, <2>2
  <2> HIDE DEF e
  <2>6. req'[r].pc \in {"ordered", "poll"} /\ \A s \in Requests : s # r => req'[s] = req[s]
    BY <1>1, <2>2, GotFacts
  <2>7. \A s \in Requests : s # r => ~Busy(s)
    BY <1>1, <2>1 DEF OneAtATime, Busy, Searching
  <2>8. \A s \in Requests : Passed(s)'
    BY <2>6, <2>7 DEF Passed, Busy, Searching
  <2>9. Counts'
    BY <1>1, <2>1, <2>2, PoolAssumption DEF Counts
  <2>10. \A n \in Nodes : RunsSpawned(n)'
    <3> TAKE n \in Nodes
    <3>1. CASE n = k
      BY <1>1, <2>1, <2>2, <2>3, <2>4, <3>1 DEF RunsSpawned
    <3>2. CASE n # k
      <4>1. n <= k <=> n <= spawned
        BY <1>1, <3>2
      <4> HIDE DEF k
      <4> QED  BY <2>2, <2>4, <3>2, <4>1 DEF OwnSlaves, RunsSpawned
    <3> QED  BY <3>1, <3>2
  <2>11. \A p \in Procs : OwnRecord(p)'
    <3> TAKE p \in Procs
    <3>1. CASE p = k
      BY <2>2, <2>5, <3>1 DEF OwnRecord
    <3>2. CASE p # k
      <4>1. p <= k <=> p <= spawned
        BY <1>1, <3>2
      <4> HIDE DEF k
      <4> QED  BY <2>2, <2>5, <3>2, <4>1 DEF OwnSlaves, OwnRecord
    <3> QED  BY <3>1, <3>2
  <2>12. \A g \in Regs : CopyRuns(g)'
    <3> TAKE g \in Regs
    <3>1. CopyRuns(g) /\ (reg[g].node # None => reg[g].node \in Nat)
      BY <1>1, RegFacts DEF OwnSlaves
    <3> QED  BY <1>1, <2>2, <3>1 DEF CopyRuns
  <2> QED  BY <2>8, <2>9, <2>10, <2>11, <2>12 DEF OwnSlaves
<1> QED  BY <1>3, <1>4, <1>5, <1>6, <1>7, <1>8, <1>9, <1>10 DEF Search

\* A write of states to the record of a node somebody registered as.
LEMMA StateWritten ==
  ASSUME IInv, OwnSlaves, NEW n \in Nodes, NEW e, db' = db \/ db' = Put(n, e),
         UNCHANGED <<created, proc, spawned>>,
         e.running = db[n].running, e.project = db[n].project \/ e.project # None,
         \E h \in Regs : reg[h].node = n,
         \A h \in Regs : reg'[h].node = reg[h].node /\ CopyRuns(h)',
         \A r \in Requests : req'[r].pc = req[r].pc \/ (req'[r].pc = "told" /\ req[r].pc # "start"),
         \A r \in Requests : req'[r].node = req[r].node
  PROVE  OwnSlaves'
<1>1. created \in Nat /\ spawned \in Nat /\ n \in Nat
  BY Types
<1>2. PICK h \in Regs : reg[h].node = n
  OBVIOUS
<1>3. n # None /\ n <= spawned
  <2>1. n # None
    BY NoneAssumption
  <2> QED  BY <1>2, <2>1 DEF OwnSlaves, CopyRuns
<1>4. \A m \in Nodes : db'[m] = db[m] \/ (m = n /\ db'[m] = e)
  BY PutCases
<1>5. \A m \in Nodes : RunsSpawned(m)'
  <2> TAKE m \in Nodes
  <2>1. CASE db'[m] = db[m]
    BY <2>1 DEF OwnSlaves, RunsSpawned
  <2>2. CASE m = n /\ db'[m] = e
    <3>1. RunsSpawned(n) /\ reg'[h].node = n
      BY <1>2 DEF OwnSlaves
    <3>2. db'[n].running <=> n <= spawned'
      BY <2>2, <3>1 DEF RunsSpawned
    <3>3. db'[n].project # None
      BY <1>3, <2>2, <3>1 DEF RunsSpawned
    <3> QED  BY <2>2, <3>1, <3>2, <3>3 DEF RunsSpawned
  <2> QED  BY <1>4, <2>1, <2>2
<1>6. \A r \in Requests : Passed(r)'
  <2> TAKE r \in Requests
  <2>1. Passed(r)
    BY DEF OwnSlaves
  <2>2. CASE req[r].pc = "start"
    <3>1. created = spawned + 1 /\ req[r].node = created /\ created # n
      BY <1>1, <1>3, <2>1, <2>2 DEF Passed
    <3>2. created \in Nodes
      <4>1. req[r].node # None => req[r].node \in Nodes
        BY ReqFacts
      <4>2. req[r].node # None
        BY <2>2, ReqFacts DEF ReqSound
      <4> QED  BY <3>1, <4>1, <4>2
    <3>3. db'[created] = db[created]
      BY <1>4, <3>1, <3>2
    <3> QED  BY <2>1, <2>2, <3>1, <3>3 DEF Passed
  <2>3. CASE req[r].pc # "start"
    BY <2>1, <2>3 DEF Passed
  <2> QED  BY <2>2, <2>3
<1>7. Counts'
  BY DEF OwnSlaves, Counts
<1>8. \A p \in Procs : OwnRecord(p)'
  BY DEF OwnSlaves, OwnRecord
<1> QED  BY <1>5, <1>6, <1>7, <1>8 DEF OwnSlaves

\* No process has ended.
LEMMA NoneDead ==
  ASSUME IInv, OwnSlaves
  PROVE  /\ \A p \in Procs : proc[p].pc # "dead"
         /\ \A n : ~Ended(n)
<1>1. \A p \in Procs : proc[p].pc # "dead"
  <2> TAKE p \in Procs
  <2>1. ProcSound(p) /\ p \in Nat /\ spawned \in Nat
    BY ProcFacts
  <2>2. OwnRecord(p)
    BY DEF OwnSlaves
  <2>3. p <= spawned \/ p > spawned
    BY <2>1
  <2>4. CASE p <= spawned
    BY <2>2, <2>4 DEF OwnRecord
  <2>5. CASE p > spawned
    BY <2>1, <2>5 DEF ProcSound
  <2> QED  BY <2>3, <2>4, <2>5
<1> QED  BY <1>1 DEF Ended

\* Orders and polls change states only.
LEMMA ServeOwns ==
  ASSUME SerialInvariant, OwnSlaves, NEW r \in Requests, Serve(r)
  PROVE  OwnSlaves'
<1> DEFINE n == req[r].node
<1>1. /\ req \in [Requests -> ReqType] /\ db \in [Nodes -> Record] /\ req[r] \in ReqType /\ IInv
      /\ ReqSound(r) /\ (n # None => n \in Nodes)
  BY Types, ReqFacts DEF SerialInvariant
<1>2. /\ UNCHANGED <<created, proc, spawned, reg>>
      /\ \A s \in Requests : s # r => req'[s] = req[s]
      /\ req'[r].pc \in {req[r].pc, "told"} /\ req'[r].node = n
  BY <1>1, ServeMoves
<1>3. \A h \in Regs : reg'[h].node = reg[h].node /\ CopyRuns(h)'
  BY <1>2 DEF OwnSlaves, CopyRuns
<1>4. ASSUME n \in Nodes, NEW e, db' = db \/ db' = Put(n, e), Settled(n) # {},
             e.running = db[n].running, e.project = db[n].project, req[r].pc # "start"
      PROVE  OwnSlaves'
  <2>1. \E h \in Regs : reg[h].node = n
    BY <1>4 DEF Settled
  <2> HIDE DEF n
  <2>2. \A s \in Requests : req'[s].pc = req[s].pc \/ (req'[s].pc = "told" /\ req[s].pc # "start")
    <3> TAKE s \in Requests
    <3>1. CASE s = r
      BY <1>2, <1>4, <3>1
    <3>2. CASE s # r
      BY <1>2, <3>2
    <3> QED  BY <3>1, <3>2
  <2>3. \A s \in Requests : req'[s].node = req[s].node
    BY <1>2 DEF n
  <2> QED  BY <1>1, <1>2, <1>3, <1>4, <2>1, <2>2, <2>3, StateWritten
<1>5. CASE Poll(r)
  <2> DEFINE q == [req[r] EXCEPT !.pc = "told"]
  <2>1. req' = [req EXCEPT ![r] = q] /\ req[r].pc = "poll" /\ UNCHANGED db
    BY <1>1, <1>5 DEF Poll
  <2>2. q.pc = "told"
    BY <1>1 DEF ReqType
  <2> HIDE DEF q
  <2> QED  BY <1>1, <1>2, <2>1, <2>2, PassedOn
<1>6. CASE Work(r)
  <2> DEFINE i == IF Kind[r] = "order" THEN db[n].idleSince ELSE FALSE
             e == [db[n] EXCEPT !.state = "BUSY", !.idleSince = i]
  <2>1. n \in Nodes /\ req[r].order = "queued" /\ db[n].state = "IDLE"
    BY <1>1, <1>6 DEF Work, ReqSound
  <2>2. db' = [db EXCEPT ![n] = e]
    BY <1>1, <1>6, <2>1 DEF Work
  <2>3. db' = Put(n, e)
    BY <2>1, <2>2 DEF Put, Exists
  <2> HIDE DEF i
  <2>4. e.running = db[n].running /\ e.project = db[n].project
    BY <1>1, <2>1 DEF Record
  <2>5. Settled(n) # {}
    <3>1. NodeSound(n)
      BY <1>1, <2>1 DEF IInv, PoolInvariant
    <3>2. AddressOf(n, db[n].port)
      BY <1>1, <2>1, <3>1, NoneDead DEF NodeSound
    <3> QED  BY <3>2 DEF AddressOf
  <2>6. req[r].pc # "start"
    BY <1>1, <2>1 DEF ReqSound
  <2> HIDE DEF e
  <2> QED  BY <1>4, <2>1, <2>3, <2>4, <2>5, <2>6
<1>7. CASE Finish(r)
  <2> DEFINE e == [db[n] EXCEPT !.state = "IDLE", !.idleSince = TRUE]
  <2>1. n \in Nodes /\ req[r].order = "running" /\ (db' = db \/ db' = Put(n, e))
    BY <1>1, <1>7 DEF Finish, ReqSound
  <2>2. e.running = db[n].running /\ e.project = db[n].project
    BY <1>1, <2>1 DEF Record
  <2>3. Settled(n) # {}
    BY <1>1, <2>1, NoneDead DEF ReqSound
  <2>4. req[r].pc # "start"
    BY <1>1, <2>1 DEF ReqSound
  <2> HIDE DEF e
  <2> QED  BY <1>4, <2>1, <2>2, <2>3, <2>4
<1> QED  BY <1>5, <1>6, <1>7 DEF Serve

\* A process comes up or takes its name; none ends, because no port is taken.
LEMMA ProcOwns ==
  ASSUME QuotaApplies, SerialInvariant, OwnSlaves, NEW p \in Procs,
         ProcStep(p) \/ Die(p) \/ \E k \in 1..Tries : RegReply(p, k)
  PROVE  OwnSlaves'
<1>1. /\ proc \in [Procs -> ProcType] /\ IInv /\ Procs = 1..MaxProcs /\ MaxProcs \in Nat
  BY Types DEF SerialInvariant
<1>2. ASSUME NEW w \in ProcType, proc' = [proc EXCEPT ![p] = w],
             w.node = proc[p].node, w.pc \in {"starting", "up"},
             UNCHANGED <<db, created, spawned, req, reg>>
      PROVE  OwnSlaves'
  <2>1. proc'[p] = w /\ \A q \in Procs : q # p => proc'[q] = proc[q]
    BY <1>1, <1>2
  <2>2. \A q \in Procs : OwnRecord(q)'
    BY <1>2, <2>1 DEF OwnSlaves, OwnRecord
  <2>3. /\ \A n \in Nodes : RunsSpawned(n)'
        /\ \A g \in Regs : CopyRuns(g)'
        /\ \A r \in Requests : Passed(r)'
    BY <1>2 DEF OwnSlaves, RunsSpawned, CopyRuns, Passed
  <2>4. Counts'
    BY <1>2 DEF OwnSlaves, Counts
  <2> QED  BY <2>2, <2>3, <2>4 DEF OwnSlaves
<1>3. CASE Listen(p)
  <2> DEFINE w == [proc[p] EXCEPT !.pc = "up"]
  <2>1. proc' = [proc EXCEPT ![p] = w] /\ UNCHANGED <<db, created, spawned, req, reg>>
    BY <1>1, <1>3 DEF Listen
  <2>2. w \in ProcType /\ w.node = proc[p].node /\ w.pc = "up"
    BY <1>1 DEF ProcType, ProcPc
  <2> HIDE DEF w
  <2> QED  BY <1>2, <2>1, <2>2
<1>4. CASE PortInUse(p)
  <2>1. PICK q \in ServerAt(proc[p].port) : proc[p].pc = "starting"
    BY <1>4 DEF PortInUse
  <2>2. q \in Alive /\ p \in Alive /\ p # q /\ proc[p].port = proc[q].port
    BY <2>1 DEF ServerAt, Alive
  <2> QED  BY <2>2 DEF SerialInvariant, OwnPorts, PortsDistinct
<1>5. CASE Die(p)
  <2>1. IsFiniteSet({q \in Procs : proc[q].pc = "dead"})
    <3>1. IsFiniteSet(Procs)
      BY <1>1, FS_Interval
    <3> QED  BY <3>1, FS_Subset
  <2>2. Cardinality({q \in Procs : proc[q].pc = "dead"}) \in Nat
    BY <2>1, FS_CardinalityType
  <2> QED  BY <1>5, <2>2 DEF Die, QuotaApplies
<1>6. ASSUME NEW k \in 1..Tries, RegReply(p, k)
      PROVE  OwnSlaves'
  <2> DEFINE u == reg[<<p, k>>].node
             w == [proc[p] EXCEPT !.uuid = u]
  <2>1. /\ proc' = [proc EXCEPT ![p] = w] /\ UNCHANGED <<db, created, spawned, req, reg>>
        /\ proc[p].pc = "up"
    BY <1>1, <1>6 DEF RegReply
  <2>2. u \in Nodes \cup {None}
    <3>1. <<p, k>> \in Regs
      BY DEF Regs
    <3> QED  BY <1>1, <3>1, RegFacts DEF RegType
  <2> HIDE DEF u
  <2>3. w \in ProcType /\ w.node = proc[p].node /\ w.pc = "up"
    BY <1>1, <2>1, <2>2 DEF ProcType
  <2> HIDE DEF w
  <2> QED  BY <1>2, <2>1, <2>3
<1> QED  BY <1>3, <1>4, <1>5, <1>6 DEF ProcStep

\* A registration finds a record that waits, and writes copies of records that run.
LEMMA RegOwns ==
  ASSUME QuotaApplies, SerialInvariant, OwnSlaves, NEW p \in Procs, NEW k \in 1..Tries, RegStep(p, k)
  PROVE  OwnSlaves'
<1> DEFINE g == <<p, k>>
           n == reg[g].node
           c == reg[g].copy
<1>1. /\ reg \in [Regs -> RegType] /\ g \in Regs /\ reg[g] \in RegType /\ db \in [Nodes -> Record]
      /\ created \in Nat /\ spawned \in Nat /\ RegSound(g) /\ k = 1 /\ IInv /\ OneAtATime
      /\ Nodes = 1..MaxNodes /\ MaxNodes \in Nat /\ CopyRuns(g)
  <2>1. IInv /\ OneAtATime /\ g \in Regs /\ k = 1
    BY DEF SerialInvariant, Regs, QuotaApplies
  <2> QED  BY <2>1, Types, RegFacts DEF OwnSlaves
<1>2. CASE RegRead(p, k)
  <2>1. /\ UNCHANGED <<db, created, proc, spawned, req>> /\ Quiet /\ reg[g].pc = "off"
        /\ proc[p].pc = "up"
    BY <1>2 DEF RegRead, Asks, QuotaApplies
  <2>2. Waiting # {}
    BY <1>1, <2>1, SomeWaits DEF QuotaApplies
  <2> DEFINE x == MaxOf(Waiting)
             t == Tagged(x, p)
             y == [pc |-> "saveall", node |-> x, copy |-> t, free |-> FALSE]
  <2>3. x \in Waiting
    <3>1. Waiting \in SUBSET (0..MaxNodes)
      BY <1>1 DEF Waiting
    <3> QED  BY <1>1, <2>2, <3>1, GreatestOfSet, Zenon
  <2>4. reg' = [reg EXCEPT ![g] = y]
    BY <1>2, <2>2 DEF RegRead
  <2> HIDE DEF x
  <2>5. x \in Nodes /\ db[x].state = "QUEUED" /\ RunsSpawned(x) /\ NodeSound(x) /\ x \in Nat
    BY <1>1, <2>3 DEF Waiting, OwnSlaves, IInv, PoolInvariant
  <2>6. created = spawned
    BY <2>1 DEF Quiet, OwnSlaves, Counts, Searching
  <2>7. x <= spawned /\ db[x].project # None
    BY <1>1, <2>5, <2>6 DEF NodeSound, RunsSpawned
  <2>8. t.running = TRUE /\ t.project # None
    BY <1>1, <2>5, <2>7 DEF Tagged, Record
  <2> HIDE DEF t
  <2>9. /\ reg'[g].pc = "saveall" /\ reg'[g].node = x /\ reg'[g].copy = t
        /\ \A h \in Regs : h # g => reg'[h] = reg[h]
    BY <1>1, <2>4
  <2> HIDE DEF g
  <2>10. \A h \in Regs : CopyRuns(h)'
    BY <2>1, <2>7, <2>8, <2>9 DEF CopyRuns, OwnSlaves
  <2>11. \A m \in Nodes : RunsSpawned(m)'
    <3> TAKE m \in Nodes
    <3>1. (\A h \in Regs : reg'[h].node # m) => \A h \in Regs : reg[h].node # m
      <4>1. m # None
        BY NoneAssumption
      <4>2. n = None
        BY <1>1, <2>1 DEF RegSound
      <4> QED  BY <2>9, <4>1, <4>2
    <3> QED  BY <2>1, <3>1 DEF OwnSlaves, RunsSpawned
  <2>12. (\A q \in Procs : OwnRecord(q)') /\ (\A r \in Requests : Passed(r)')
    BY <2>1 DEF OwnSlaves, OwnRecord, Passed
  <2>13. Counts'
    BY <2>1 DEF OwnSlaves, Counts
  <2> QED  BY <2>10, <2>11, <2>12, <2>13 DEF OwnSlaves
<1>3. CASE RegCreate(p, k)
  BY <1>1, <1>3 DEF RegCreate, CopyRuns
<1>4. ASSUME reg[g].pc \in {"saveall", "state", "event", "update"},
             UNCHANGED <<created, proc, spawned, req>>,
             NEW e, db' = db \/ db' = Put(n, e),
             db' # db => e.running = TRUE /\ (e.project = db[n].project \/ e.project # None),
             NEW y, reg' = [reg EXCEPT ![g] = y], y.node = n, y.pc # "create",
             y.pc \in {"saveall", "state", "update"} => y.copy.running,
             y.pc \in {"saveall", "state"} => y.copy.project # None
      PROVE  OwnSlaves'
  <2>1. n \in Nodes /\ n # None /\ n <= spawned /\ RunsSpawned(n)
    <3>1. n \in Nodes /\ n # None
      BY <1>1, <1>4, DoneNode, NoneAssumption
    <3> QED  BY <1>1, <3>1 DEF CopyRuns, OwnSlaves
  <2>2. reg'[g] = y /\ \A h \in Regs : h # g => reg'[h] = reg[h]
    BY <1>1, <1>4
  <2>3. CopyRuns(g)'
    BY <1>1, <1>4, <2>1, <2>2 DEF CopyRuns
  <2> HIDE DEF g
  <2>4. \A h \in Regs : reg'[h].node = reg[h].node /\ CopyRuns(h)'
    BY <1>4, <2>2, <2>3 DEF CopyRuns, OwnSlaves
  <2>5. \E h \in Regs : reg[h].node = n
    BY <1>1
  <2>6. db[n].running = TRUE
    BY <1>1, <2>1 DEF RunsSpawned, Record
  <2> HIDE DEF n
  <2>9. \A s \in Requests : req'[s].node = req[s].node /\ req'[s].pc = req[s].pc
    BY <1>4
  <2>7. CASE db' = db
    <3> DEFINE d == db[n]
    <3>1. d.running = db[n].running /\ d.project = db[n].project
      OBVIOUS
    <3> HIDE DEF d
    <3>2. UNCHANGED <<created, proc, spawned>>
      BY <1>4
    <3> QED  BY <1>1, <2>1, <2>4, <2>5, <2>7, <2>9, <3>1, <3>2, StateWritten
  <2>8. CASE db' # db
    <3>1. /\ UNCHANGED <<created, proc, spawned>> /\ db' = Put(n, e)
          /\ e.running = db[n].running /\ (e.project = db[n].project \/ e.project # None)
      BY <1>4, <2>6, <2>8
    <3> QED  BY <1>1, <2>1, <2>4, <2>5, <2>9, <3>1, StateWritten
  <2> QED  BY <2>7, <2>8
<1>5. CASE RegSaveAll(p, k)
  <2> DEFINE pc == IF reg[g].free THEN "state" ELSE "event"
             y  == [reg[g] EXCEPT !.pc = pc]
  <2>1. /\ reg[g].pc = "saveall" /\ UNCHANGED <<created, proc, spawned, req>> /\ db' = Put(n, c)
        /\ reg' = [reg EXCEPT ![g] = y]
    BY <1>1, <1>5 DEF RegSaveAll
  <2>2. y.node = n /\ y.copy = c /\ y.pc \in {"state", "event"}
    BY <1>1 DEF RegType
  <2>3. c.running = TRUE /\ c.project # None
    BY <1>1, <2>1 DEF CopyRuns, RegType, Record
  <2> HIDE DEF y, c, n, g
  <2> QED  BY <1>4, <2>1, <2>2, <2>3
<1>6. CASE RegState(p, k)
  <2> DEFINE e == [c EXCEPT !.state = "REGISTERED"]
             y == [reg[g] EXCEPT !.pc = "event", !.free = FALSE]
  <2>1. /\ reg[g].pc = "state" /\ UNCHANGED <<created, proc, spawned, req>> /\ db' = Put(n, e)
        /\ reg' = [reg EXCEPT ![g] = y]
    BY <1>1, <1>6 DEF RegState
  <2>2. y.node = n /\ y.pc = "event"
    BY <1>1 DEF RegType
  <2>3. e.running = TRUE /\ e.project # None
    BY <1>1, <2>1 DEF CopyRuns, RegType, Record
  <2> HIDE DEF y, e, n, g
  <2> QED  BY <1>4, <2>1, <2>2, <2>3
<1>7. CASE RegEvent(p, k)
  <2> DEFINE pc == IF Exists(n) THEN "update" ELSE "done"
             d  == IF Exists(n) THEN [db[n] EXCEPT !.state = "IDLE"] ELSE Blank
             y  == [reg[g] EXCEPT !.pc = pc, !.copy = d]
  <2>1. /\ reg[g].pc = "event" /\ UNCHANGED <<created, proc, spawned, req, db>>
        /\ reg' = [reg EXCEPT ![g] = y]
    BY <1>1, <1>7 DEF RegEvent
  <2>2. n \in Nodes /\ n # None
    BY <1>1, <2>1, DoneNode, NoneAssumption
  <2>3. db[n].running = TRUE
    BY <1>1, <2>2 DEF OwnSlaves, RunsSpawned, CopyRuns, Record
  <2>4. pc = "update" => d.running = TRUE
    BY <1>1, <2>2, <2>3 DEF Record
  <2>5. pc \in {"update", "done"}
    OBVIOUS
  <2> HIDE DEF d, pc
  <2>6. y.node = n /\ y.pc = pc /\ y.copy = d
    BY <1>1 DEF RegType
  <2> HIDE DEF y, n, g
  <2> QED  BY <1>4, <2>1, <2>4, <2>5, <2>6
<1>8. CASE RegUpdate(p, k)
  <2> DEFINE e == [db[n] EXCEPT !.running = c.running, !.state = c.state, !.idleSince = c.idleSince]
             y == [reg[g] EXCEPT !.pc = "done", !.copy = Blank]
  <2>1. /\ reg[g].pc = "update" /\ UNCHANGED <<created, proc, spawned, req>> /\ db' = Put(n, e)
        /\ reg' = [reg EXCEPT ![g] = y]
    BY <1>1, <1>8 DEF RegUpdate
  <2>2. y.node = n /\ y.pc = "done"
    BY <1>1 DEF RegType
  <2>3. c.running = TRUE
    BY <1>1, <2>1 DEF CopyRuns, RegType, Record
  <2>4. n \in Nodes
    BY <1>1, <2>1, DoneNode, NoneAssumption
  <2> HIDE DEF c
  <2>5. e.running = TRUE /\ e.project = db[n].project
    BY <1>1, <2>3, <2>4 DEF Record
  <2> HIDE DEF y, e, n, g
  <2> QED  BY <1>4, <2>1, <2>2, <2>5
<1> QED  BY <1>2, <1>3, <1>5, <1>6, <1>7, <1>8 DEF RegStep

\* So the quota is kept.
LEMMA OwnSlavesInvariant ==
  ASSUME QuotaApplies
  PROVE  /\ Init => OwnSlaves
         /\ SerialInvariant /\ OwnSlaves /\ [Next]_vars => OwnSlaves'
         /\ SerialInvariant /\ OwnSlaves => QuotaKept
<1>1. Init => OwnSlaves
  <2> SUFFICES ASSUME Init  PROVE OwnSlaves
    OBVIOUS
  <2>1. \A p \in Procs : OwnRecord(p)
    BY DEF Init, OwnRecord, Procs, QuotaApplies
  <2>2. \A n \in Nodes : RunsSpawned(n)
    BY DEF Init, RunsSpawned, Nodes, Blank, QuotaApplies
  <2>3. \A g \in Regs : CopyRuns(g)
    BY DEF Init, CopyRuns
  <2>4. \A r \in Requests : Passed(r)
    BY DEF Init, Passed
  <2>5. Counts
    BY PoolAssumption DEF Init, Counts, QuotaApplies
  <2> QED  BY <2>1, <2>2, <2>3, <2>4, <2>5 DEF OwnSlaves
<1>2. ASSUME SerialInvariant, OwnSlaves, [Next]_vars
      PROVE  OwnSlaves'
  <2>1. ASSUME NEW r \in Requests, Search(r) \/ Serve(r)  PROVE OwnSlaves'
    BY <1>2, <2>1, SearchOwns, ServeOwns
  <2>2. ASSUME NEW p \in Procs, ProcStep(p) \/ Die(p)  PROVE OwnSlaves'
    BY <1>2, <2>2, ProcOwns
  <2>3. ASSUME NEW p \in Procs, NEW k \in 1..Tries, RegStep(p, k) \/ RegReply(p, k)
        PROVE  OwnSlaves'
    BY <1>2, <2>3, ProcOwns, RegOwns
  <2>4. CASE UNCHANGED vars
    <3>1. Counts'
      BY <1>2, <2>4 DEF vars, OwnSlaves, Counts
    <3> QED  BY <1>2, <2>4, <3>1 DEF vars, OwnSlaves, OwnRecord, RunsSpawned, CopyRuns, Passed
  <2> QED  BY <1>2, <2>1, <2>2, <2>3, <2>4 DEF Next
<1>3. SerialInvariant /\ OwnSlaves => QuotaKept
  BY RunningCount DEF SerialInvariant, OwnSlaves, Counts, QuotaKept
<1> QED  BY <1>1, <1>2, <1>3

\* getNextPorts(), createNode(), spawn(): if the master handled one request or
\* registration at a time, no two slave processes would have the same port.
THEOREM PortsDistinctHolds ==
  ASSUME Overlap = FALSE
  PROVE  Spec => []PortsDistinct
<1>1. Init => SerialInvariant
  BY SerialInit
<1>2. SerialInvariant /\ [Next]_vars => SerialInvariant'
  BY SerialStep
<1>3. SerialInvariant => PortsDistinct
  BY DEF SerialInvariant, OwnPorts
<1> QED  BY <1>1, <1>2, <1>3, PTL DEF Spec

\* registerNode(), _getNextNode(): if the master handled one request or registration
\* at a time, no two processes would be told that they are the same node, whatever
\* ends and whichever registrations are repeated.
THEOREM OneProcessPerNodeHolds ==
  ASSUME Overlap = FALSE
  PROVE  Spec => []OneProcessPerNode
<1>1. Init => SerialInvariant
  BY SerialInit
<1>2. SerialInvariant /\ [Next]_vars => SerialInvariant'
  BY SerialStep
<1>3. SerialInvariant => OneProcessPerNode
  BY OneProcess
<1> QED  BY <1>1, <1>2, <1>3, PTL DEF Spec

\* hasEnoughResources(): the master runs no more slaves than DXC_MAX_SLAVES if it handles
\* one request or registration at a time, all processes are its own, none ends, and
\* each registers once.
THEOREM QuotaKeptHolds ==
  ASSUME QuotaApplies
  PROVE  Spec => []QuotaKept
<1>1. Init => SerialInvariant /\ OwnSlaves
  BY SerialInit, OwnSlavesInvariant
<1>2. SerialInvariant /\ OwnSlaves /\ [Next]_vars => (SerialInvariant /\ OwnSlaves)'
  BY SerialStep, OwnSlavesInvariant DEF QuotaApplies
<1>3. SerialInvariant /\ OwnSlaves => QuotaKept
  BY OwnSlavesInvariant
<1> QED  BY <1>1, <1>2, <1>3, PTL DEF Spec
====
