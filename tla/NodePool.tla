------------------------------ MODULE NodePool ------------------------------
(***************************************************************************)
(* The slave nodes of a Dexcalibur master: how a request that needs a      *)
(* slave gets one, how slave processes are started on this host, and how   *)
(* they register themselves.                                               *)
(*                                                                         *)
(* The master keeps one record per node in the engine database.  A request *)
(* looks for a slave that is ready for its project, then for a free one    *)
(* which it assigns to its project, then creates a node and spawns a       *)
(* process for it.  A process does not know for which record it was        *)
(* spawned: when it is up it asks the master to register it, and is given  *)
(* the newest record that waits for a process.  One step is the code       *)
(* between two awaits.                                                     *)
(***************************************************************************)
EXTENDS Naturals, FiniteSets

CONSTANTS
  Requests,       \* requests that need a slave
  Kind,           \* Kind[r]: the code path of request r, see KindSet
  Proj,           \* Proj[r]: the project of request r
  MaxNodes,       \* bound: records created
  MaxProcs,       \* bound: slave processes started
  Outside,        \* the first processes, which were not spawned by this master
  Tries,          \* bound: how often a process sends its registration
  MaxSlaves,      \* DXC_MAX_SLAVES
  None,           \* "null"
  Overlap,        \* requests and registrations are handled concurrently
  MaxDeaths       \* bound: a process only dies while fewer than this are dead

(***************************************************************************)
(* "unit"   ProjectManager.open, the project belongs to an application     *)
(*          unit: the quotas are checked                                   *)
(* "plain"  ProjectManager.open, any other project                         *)
(* "order"  ProjectManager.newProjectOrder                                 *)
(***************************************************************************)
KindSet == {"unit", "plain", "order"}

ASSUME PoolAssumption ==
  /\ Kind \in [Requests -> KindSet]
  /\ MaxNodes \in Nat /\ MaxProcs \in Nat /\ MaxSlaves \in Nat
  /\ Outside \in 0..MaxProcs
  /\ Tries \in Nat \ {0}
  /\ Overlap \in BOOLEAN /\ MaxDeaths \in Nat

Nodes    == 1..MaxNodes   \* a record is the position of its creation
Procs    == 1..MaxProcs   \* a process is its process identifier
Regs     == Procs \X (1..Tries)
Ports    == 0..(MaxProcs + 1)
Projects == {Proj[r] : r \in Requests}

ASSUME NoneAssumption == None \notin Projects \cup Nodes \cup Procs

\* "none": not created yet.  "REMOVED": no longer in the database.
State  == {"none", "QUEUED", "REGISTERED", "IDLE", "BUSY", "STOPPED", "REMOVED"}
Record == [state: State, running: BOOLEAN, project: Projects \cup {None},
           port: Ports, pid: Procs \cup {None}, idleSince: BOOLEAN]

VARIABLES
  db,      \* db[n]: the record of node n
  created, \* how many records were created
  proc,    \* proc[p]: the slave process p
  spawned, \* how many processes were started
  req,     \* req[r]: where the code that serves request r is
  reg      \* reg[<<p, k>>]: the handler of the k-th registration of process p

vars == <<db, created, proc, spawned, req, reg>>

Blank == [state |-> "none", running |-> FALSE, project |-> None, port |-> 0,
          pid |-> None, idleSince |-> FALSE]

ProcPc == {"none", "starting", "up", "dead"}
ReqPc  == {"ready", "free", "claim", "assign", "quota", "ports", "insert", "start",
           "poll", "told", "ordered", "refused"}
RegPc  == {"off", "create", "saveall", "state", "event", "update", "done"}

TypeOK ==
  /\ db \in [Nodes -> Record]
  /\ created \in 0..MaxNodes
  /\ proc \in [Procs -> [pc: ProcPc, port: Ports, node: Nodes \cup {None},
                         uuid: Nodes \cup {None}]]
  /\ spawned \in 0..MaxProcs
  /\ req \in [Requests -> [pc: ReqPc, node: Nodes \cup {None}, copy: Record, port: Ports,
                          order: {"none", "queued", "running", "done"}]]
  /\ reg \in [Regs -> [pc: RegPc, node: Nodes \cup {None}, copy: Record,
                      free: BOOLEAN]]
  /\ \A r \in Requests : req[r].node # None => req[r].node \in 1..created
  /\ \A g \in Regs : reg[g].node # None => reg[g].node \in 1..created

Exists(n) == db[n].state \notin {"none", "REMOVED"}

\* An update of a record that is gone changes nothing.
Put(n, record) == IF Exists(n) THEN [db EXCEPT ![n] = record] ELSE db

\* listRunningNodeFromPs()
Alive == {p \in Procs : proc[p].pc \in {"starting", "up"}}

MaxOf(S) == CHOOSE m \in S : \A x \in S : x <= m

\* Mutant of NextPort: only the processes that answer count.
NextPortUp == MaxOf({0} \cup {proc[p].port : p \in {q \in Procs : proc[q].pc = "up"}}) + 1

\* getNextPorts(): the port after the highest one of the running processes.
NextPort == MaxOf({0} \cup {proc[p].port : p \in Alive}) + 1

\* The process that answers at a port, if any.
ServerAt(port) == {p \in Procs : proc[p].pc = "up" /\ proc[p].port = port}

-----------------------------------------------------------------------------
(* Requests.                                                               *)

Searching == {"free", "claim", "assign", "quota", "ports", "insert", "start"}

\* No request is between its search and the start of a process, and no record
\* between its choice by a registration and the update that ends its wait.
Quiet ==
  /\ \A r \in Requests : req[r].pc \notin Searching
  /\ \A g \in Regs : reg[g].pc \in {"off", "done"}

Idle(project) ==
  {n \in Nodes : /\ db[n].running /\ db[n].project = project
                /\ db[n].state \in {"IDLE", "REGISTERED"}}

\* The request has its node: its order is in the queue of the node.  open()
\* then polls the state of the node.
Got(r, order) == [req EXCEPT ![r].pc = IF Kind[r] = "order" THEN "ordered" ELSE "poll",
                             ![r].order = order,
                             ![r].copy = Blank, ![r].port = 0]

\* getReadySlave(): a slave that is ready for the project, which is open.
Ready(r) ==
  /\ req[r].pc = "ready"
  /\ Overlap \/ Quiet
  /\ IF Idle(Proj[r]) = {}
     THEN req' = [req EXCEPT ![r].pc = "free"]
     ELSE \E n \in Idle(Proj[r]) :
            req' = [Got(r, "done") EXCEPT ![r].node = n]
  /\ UNCHANGED <<db, created, proc, spawned, reg>>

\* getFreeSlave(): a slave without a project, assigned on its handle.
FreeFound(r) ==
  /\ req[r].pc = "free"
  /\ \E n \in Idle(None) :
       req' = [req EXCEPT ![r].node = n,
                          ![r].copy = [db[n] EXCEPT !.project = Proj[r]],
                          ![r].pc = IF Kind[r] = "order" THEN "claim" ELSE "assign"]
  /\ UNCHANGED <<db, created, proc, spawned, reg>>

FreeNone(r) ==
  /\ req[r].pc = "free"
  /\ Idle(None) = {}
  /\ req' = [req EXCEPT ![r].pc = IF Kind[r] = "unit" THEN "quota" ELSE "ports"]
  /\ UNCHANGED <<db, created, proc, spawned, reg>>

\* newProjectOrder(): save(['purpose', '_projectUID']).
Claim(r) ==
  /\ req[r].pc = "claim"
  /\ db' = Put(req[r].node, [db[req[r].node] EXCEPT !.project = Proj[r]])
  /\ req' = [req EXCEPT ![r].pc = "assign"]
  /\ UNCHANGED <<created, proc, spawned, reg>>

\* saveAll() of the handle.
Assign(r) ==
  /\ req[r].pc = "assign"
  /\ db' = Put(req[r].node, req[r].copy)
  /\ req' = Got(r, "queued")
  /\ UNCHANGED <<created, proc, spawned, reg>>

\* Mutant of Quota: off by one.
QuotaOffByOne(r) ==
  /\ req[r].pc = "quota"
  /\ req' = [req EXCEPT ![r].pc =
               IF Cardinality({n \in Nodes : db[n].running}) <= MaxSlaves
               THEN "ports" ELSE "refused"]
  /\ UNCHANGED <<db, created, proc, spawned, reg>>

\* canCreateNode(): hasEnoughResources() counts the running nodes.
Quota(r) ==
  /\ req[r].pc = "quota"
  /\ req' = [req EXCEPT ![r].pc =
               IF Cardinality({n \in Nodes : db[n].running}) < MaxSlaves
               THEN "ports" ELSE "refused"]
  /\ UNCHANGED <<db, created, proc, spawned, reg>>

\* createNode(): getNextPorts().
GetPorts(r) ==
  /\ req[r].pc = "ports"
  /\ req' = [req EXCEPT ![r].pc = "insert", ![r].port = NextPort]
  /\ UNCHANGED <<db, created, proc, spawned, reg>>

Queued(project, port) ==
  [Blank EXCEPT !.state = "QUEUED", !.project = project, !.port = port]

\* Mutant of Insert: the handle has the identifier of the next record.
InsertNextId(r) ==
  /\ req[r].pc = "insert"
  /\ created < MaxNodes
  /\ created' = created + 1
  /\ db' = [db EXCEPT ![created + 1] = Queued(Proj[r], req[r].port)]
  /\ req' = [req EXCEPT ![r].pc = "start", ![r].node = created + 2]
  /\ UNCHANGED <<proc, spawned, reg>>

\* createNode(): the record is inserted, and waits for a process.
Insert(r) ==
  /\ req[r].pc = "insert"
  /\ created < MaxNodes
  /\ created' = created + 1
  /\ db' = [db EXCEPT ![created + 1] = Queued(Proj[r], req[r].port)]
  /\ req' = [req EXCEPT ![r].pc = "start", ![r].node = created + 1]
  /\ UNCHANGED <<proc, spawned, reg>>

\* start() and spawn(): the process is started with the port of the handle,
\* then save(['_pid', 'spawnCmd', 'state', 'running']).
Start(r) ==
  /\ req[r].pc = "start"
  /\ spawned < MaxProcs
  /\ spawned' = spawned + 1
  /\ proc' = [proc EXCEPT ![spawned + 1] =
                [pc |-> "starting", port |-> req[r].port, node |-> req[r].node,
                 uuid |-> None]]
  /\ db' = Put(req[r].node, [db[req[r].node] EXCEPT !.state = "QUEUED", !.running = TRUE,
                                                    !.pid = spawned + 1])
  /\ req' = Got(r, "queued")
  /\ UNCHANGED <<created, reg>>

\* The /open route polls the state of the node and answers "ready".
Poll(r) ==
  /\ req[r].pc = "poll"
  /\ db[req[r].node].state \in {"IDLE", "STOPPED"}
  /\ req' = [req EXCEPT ![r].pc = "told"]
  /\ UNCHANGED <<db, created, proc, spawned, reg>>

\* The slave at the address of the node executes the order.  It saves that it
\* is BUSY: 'state' and 'idleSince' when it opens a project, else 'state'.
Work(r) ==
  LET n == req[r].node IN
  /\ req[r].order = "queued"
  /\ db[n].state = "IDLE"
  /\ ServerAt(db[n].port) # {}
  /\ db' = [db EXCEPT ![n].state = "BUSY",
                      ![n].idleSince = IF Kind[r] = "order" THEN @ ELSE FALSE]
  /\ req' = [req EXCEPT ![r].order = "running"]
  /\ UNCHANGED <<created, proc, spawned, reg>>

\* The order is executed.  After it opened a project the slave saves 'state'
\* and 'idleSince', after it created one it saves nothing.
Finish(r) ==
  LET n == req[r].node IN
  /\ req[r].order = "running"
  /\ ServerAt(db[n].port) # {}
  /\ db' = IF Kind[r] = "order" THEN db
           ELSE Put(n, [db[n] EXCEPT !.state = "IDLE", !.idleSince = TRUE])
  /\ req' = [req EXCEPT ![r].order = "done"]
  /\ UNCHANGED <<created, proc, spawned, reg>>

-----------------------------------------------------------------------------
(* Slave processes.                                                        *)

\* The "close" listener of a process that was spawned for a node writes back
\* the whole handle that createNode() returned, as STOPPED.
Closed(p) ==
  LET n == proc[p].node IN
  IF n = None THEN db
  ELSE Put(n, [Queued(db[n].project, proc[p].port) EXCEPT !.state = "STOPPED", !.pid = p])

\* The web server of the process listens at its port.
Listen(p) ==
  /\ proc[p].pc = "starting"
  /\ ServerAt(proc[p].port) = {}
  /\ proc' = [proc EXCEPT ![p].pc = "up"]
  /\ UNCHANGED <<db, created, spawned, req, reg>>

\* EADDRINUSE: the process ends.  Of the nodes with this port that do not run,
\* killNodes() archives one.
PortInUse(p) ==
  LET stale == {n \in Nodes : /\ Exists(n) /\ ~db[n].running
                              /\ n # proc[p].node /\ db[n].port = proc[p].port}
      after == Closed(p)
  IN
  /\ proc[p].pc = "starting"
  /\ ServerAt(proc[p].port) # {}
  /\ proc' = [proc EXCEPT ![p].pc = "dead"]
  /\ IF stale = {} THEN db' = after
     ELSE \E n \in stale : db' = [after EXCEPT ![n].state = "STOPPED"]
  /\ UNCHANGED <<created, spawned, req, reg>>

\* A slave process dies.
Die(p) ==
  /\ Cardinality({q \in Procs : proc[q].pc = "dead"}) < MaxDeaths
  /\ proc[p].pc = "up"
  /\ proc' = [proc EXCEPT ![p].pc = "dead"]
  /\ db' = Closed(p)
  /\ UNCHANGED <<created, spawned, req, reg>>

-----------------------------------------------------------------------------
(* Registration.                                                           *)

Waiting == {n \in Nodes : db[n].state = "QUEUED"}

\* Mutant of Tagged: the address of the process is not kept.
TaggedNoAddress(n, p) == [db[n] EXCEPT !.running = TRUE]

\* registerNode() tags its handle as running, at the address of the process.
Tagged(n, p) == [db[n] EXCEPT !.running = TRUE, !.port = proc[p].port]

\* Mutant of Asks: the process asks once.
AsksOnce(p, k) ==
  /\ proc[p].pc = "up" /\ proc[p].uuid = None
  /\ k = 1 /\ reg[<<p, k>>].pc = "off"
  /\ Overlap \/ Quiet

\* Every 30 seconds, until it is answered, the process asks to be registered.
Asks(p, k) ==
  /\ proc[p].pc = "up" /\ proc[p].uuid = None
  /\ reg[<<p, k>>].pc = "off"
  /\ k > 1 => reg[<<p, k - 1>>].pc # "off"
  /\ Overlap \/ Quiet

\* Mutant of RegRead: the oldest record is taken, whatever its state.
RegReadOldest(p, k) ==
  /\ Asks(p, k)
  /\ {n \in Nodes : Exists(n)} # {}
  /\ LET n == CHOOSE m \in Nodes : Exists(m) /\ \A x \in Nodes : Exists(x) => m <= x
     IN reg' = [reg EXCEPT ![<<p, k>>] =
                  [pc |-> "saveall", node |-> n, copy |-> Tagged(n, p),
                     free |-> FALSE]]
  /\ UNCHANGED <<db, created, proc, spawned, req>>

\* registerNode(): _getNextNode() is the newest record that waits.
RegRead(p, k) ==
  /\ Asks(p, k)
  /\ IF Waiting = {}
     THEN reg' = [reg EXCEPT ![<<p, k>>].pc = "create"]
     ELSE LET n == MaxOf(Waiting) IN
          reg' = [reg EXCEPT ![<<p, k>>] =
                    [pc |-> "saveall", node |-> n, copy |-> Tagged(n, p),
                     free |-> FALSE]]
  /\ UNCHANGED <<db, created, proc, spawned, req>>

\* Mutant of RegCreate: the record keeps the port of its creation.
RegCreateKeepsPort(p, k) ==
  LET free == Queued(None, NextPort) IN
  /\ reg[<<p, k>>].pc = "create"
  /\ created < MaxNodes
  /\ created' = created + 1
  /\ db' = [db EXCEPT ![created + 1] = free]
  /\ reg' = [reg EXCEPT ![<<p, k>>] =
               [pc |-> "saveall", node |-> created + 1,
                copy |-> [free EXCEPT !.running = TRUE], free |-> TRUE]]
  /\ UNCHANGED <<proc, spawned, req>>

\* createFreeNode(): nobody waits, a record without a project is inserted.
RegCreate(p, k) ==
  LET free == Queued(None, NextPort) IN
  /\ reg[<<p, k>>].pc = "create"
  /\ created < MaxNodes
  /\ created' = created + 1
  /\ db' = [db EXCEPT ![created + 1] = free]
  /\ reg' = [reg EXCEPT ![<<p, k>>] =
               [pc |-> "saveall", node |-> created + 1,
                copy |-> [free EXCEPT !.running = TRUE, !.port = proc[p].port],
                free |-> TRUE]]
  /\ UNCHANGED <<proc, spawned, req>>

\* saveAll() of the handle.
RegSaveAll(p, k) ==
  /\ reg[<<p, k>>].pc = "saveall"
  /\ db' = Put(reg[<<p, k>>].node, reg[<<p, k>>].copy)
  /\ reg' = [reg EXCEPT ![<<p, k>>].pc = IF reg[<<p, k>>].free THEN "state"
                                         ELSE "event"]
  /\ UNCHANGED <<created, proc, spawned, req>>

\* setState(REGISTERED): the handle of a node that was created here writes
\* itself on each change of its state, the handle of a node read does not.
RegState(p, k) ==
  /\ reg[<<p, k>>].pc = "state"
  /\ db' = Put(reg[<<p, k>>].node, [reg[<<p, k>>].copy EXCEPT !.state = "REGISTERED"])
  /\ reg' = [reg EXCEPT ![<<p, k>>].pc = "event", ![<<p, k>>].free = FALSE]
  /\ UNCHANGED <<created, proc, spawned, req>>

\* onNodeStateChanged(): the record is read again, REGISTERED becomes IDLE.
RegEvent(p, k) ==
  LET n == reg[<<p, k>>].node IN
  /\ reg[<<p, k>>].pc = "event"
  /\ reg' = [reg EXCEPT ![<<p, k>>].pc = IF Exists(n) THEN "update" ELSE "done",
                        ![<<p, k>>].copy = IF Exists(n) THEN [db[n] EXCEPT !.state = "IDLE"] ELSE Blank]
  /\ UNCHANGED <<db, created, proc, spawned, req>>

\* Mutant of RegUpdate: the whole handle is written, as saveAll() does, with
\* the state it had before the event.
RegUpdateQueued(p, k) ==
  LET n == reg[<<p, k>>].node IN
  /\ reg[<<p, k>>].pc = "update"
  /\ db' = Put(n, [reg[<<p, k>>].copy EXCEPT !.state = "QUEUED"])
  /\ reg' = [reg EXCEPT ![<<p, k>>].pc = "done", ![<<p, k>>].copy = Blank]
  /\ UNCHANGED <<created, proc, spawned, req>>

\* onNodeStateChanged(): 'running', 'state' and 'idleSince' are written.
RegUpdate(p, k) ==
  LET n == reg[<<p, k>>].node
      c == reg[<<p, k>>].copy IN
  /\ reg[<<p, k>>].pc = "update"
  /\ db' = Put(n, [db[n] EXCEPT !.running = c.running, !.state = c.state,
                                !.idleSince = c.idleSince])
  /\ reg' = [reg EXCEPT ![<<p, k>>].pc = "done", ![<<p, k>>].copy = Blank]
  /\ UNCHANGED <<created, proc, spawned, req>>

\* The reply reaches the process, which takes the identity of the node and
\* stops asking.
RegReply(p, k) ==
  /\ reg[<<p, k>>].pc \in {"state", "event", "update", "done"}
  /\ proc[p].pc = "up" /\ proc[p].uuid = None
  /\ proc' = [proc EXCEPT ![p].uuid = reg[<<p, k>>].node]
  /\ UNCHANGED <<db, created, spawned, req, reg>>

-----------------------------------------------------------------------------
\* No slave is known; processes started by hand are coming up.
Init ==
  /\ db = [n \in Nodes |-> Blank]
  /\ created = 0
  /\ proc = [p \in Procs |-> [pc |-> IF p <= Outside THEN "starting" ELSE "none",
                              port |-> IF p <= Outside THEN p ELSE 0,
                              node |-> None, uuid |-> None]]
  /\ spawned = Outside
  /\ req = [r \in Requests |-> [pc |-> "ready", node |-> None, copy |-> Blank, port |-> 0,
                            order |-> "none"]]
  /\ reg = [g \in Regs |-> [pc |-> "off", node |-> None, copy |-> Blank, free |-> FALSE]]

Search(r)   == \/ Ready(r) \/ FreeFound(r) \/ FreeNone(r) \/ Claim(r) \/ Assign(r)
               \/ Quota(r) \/ GetPorts(r) \/ Insert(r) \/ Start(r)
Serve(r)    == Poll(r) \/ Work(r) \/ Finish(r)
ProcStep(p) == Listen(p) \/ PortInUse(p)
RegStep(p, k) == \/ RegRead(p, k) \/ RegCreate(p, k) \/ RegSaveAll(p, k)
                 \/ RegState(p, k) \/ RegEvent(p, k) \/ RegUpdate(p, k)

Next ==
  \/ \E r \in Requests : Search(r) \/ Serve(r)
  \/ \E p \in Procs : ProcStep(p) \/ Die(p)
  \/ \E p \in Procs, k \in 1..Tries : RegStep(p, k) \/ RegReply(p, k)

\* The event loops go on.  A reply may be lost as long as the process asks
\* again.
Fairness ==
  /\ \A r \in Requests : /\ WF_vars(Search(r)) /\ WF_vars(Poll(r))
                           /\ WF_vars(Work(r)) /\ WF_vars(Finish(r))
  /\ \A p \in Procs : WF_vars(ProcStep(p)) /\ WF_vars(RegReply(p, Tries))
  /\ \A p \in Procs, k \in 1..Tries : WF_vars(RegStep(p, k))

Spec     == Init /\ [][Next]_vars
FairSpec == Spec /\ Fairness

-----------------------------------------------------------------------------
(* Properties.                                                             *)

\* The process that was spawned for a node, or one that registered as this
\* node, ended.
Ended(n) ==
  \E p \in Procs : /\ proc[p].pc = "dead"
                   /\ proc[p].node = n \/ \E k \in 1..Tries : reg[<<p, k>>].node = n

\* A node that is ready for orders can be reached: its record has the address
\* of a process that registered with it, whichever handles of the record the
\* requests and the registrations wrote back since.
ReachableWhenIdle ==
  \A n \in Nodes : db[n].state \in {"IDLE", "BUSY"} /\ ~Ended(n) =>
    \E g \in Regs : /\ reg[g].node = n
                    /\ reg[g].pc \in {"state", "event", "update", "done"}
                    /\ proc[g[1]].port = db[n].port

\* The user is told "ready" when a slave is ready.
ToldMeansReady ==
  [][\A r \in Requests : req[r].pc # "told" /\ req'[r].pc = "told" =>
       db[req[r].node].running /\ ServerAt(db[req[r].node].port) # {}]_vars

\* A node is archived as STOPPED when the slave that is registered as this node
\* is dead.
StoppedMeansDead ==
  \A n \in Nodes : db[n].state = "STOPPED" =>
    \A p \in Procs : proc[p].uuid = n => proc[p].pc = "dead"

\* registerNode() attributes a node of its own to each process.
OneProcessPerNode ==
  \A p, q \in Procs : p # q /\ proc[p].uuid # None => proc[p].uuid # proc[q].uuid

\* The master runs at most DXC_MAX_SLAVES slaves.
QuotaKept == Cardinality({n \in Nodes : db[n].running}) <= MaxSlaves

\* Two nodes that are ready for orders are two slaves: whatever registrations
\* and requests write back, no two such records have the same address.
AddressesDistinct ==
  \A m, n \in {x \in Nodes : db[x].state \in {"IDLE", "BUSY"} /\ ~Ended(x)} :
    m # n => db[m].port # db[n].port

\* getNextPorts() gives each process a port of its own.
PortsDistinct ==
  \A p, q \in Alive : p # q => proc[p].port # proc[q].port

\* A request that is not refused is served in the end, unless a process that was
\* spawned for its node, or registered as it, ends.
EveryRequestServed ==
  \A r \in Requests : <>(\/ req[r].order = "done" \/ req[r].pc = "refused"
                         \/ req[r].node # None /\ Ended(req[r].node))

\* A process that is up is registered in the end, unless it ends, whichever other
\* processes end.
EveryProcessRegistered ==
  \A p \in Procs : (proc[p].pc = "up") ~> (proc[p].uuid # None \/ proc[p].pc = "dead")
=============================================================================
