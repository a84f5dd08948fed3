----------------------------- MODULE OrderQueue -----------------------------
(***************************************************************************)
(* The waiting queue of one engine node of a Dexcalibur master, with       *)
(* self-registration of the slave processes.                               *)
(*                                                                         *)
(* The queue is a field of the node's record in the engine database.       *)
(* Nobody locks that record.  Each web request, each registration of a     *)
(* slave process and each state-change event reads it into an EngineNode   *)
(* object of its own (a "handle"), changes the handle, and writes whole    *)
(* fields back.  The code between two awaits runs to its end, so one step  *)
(* here is the code from one await to the next, with the database read it  *)
(* waited for or the database write it ends with.                          *)
(*                                                                         *)
(* An order is <<f, i>>: the i-th order appended by request flow f.        *)
(***************************************************************************)
EXTENDS Naturals, Sequences

CONSTANTS
  Flows,           \* requests handled by the master that append orders
  Regs,            \* registrations of a slave process with this node
  Kind,            \* Kind[f]: the code path of flow f, see KindSet
  Batch,           \* Batch[f]: how many orders flow f appends
  MaxBatch,        \* bound on Batch[f]
  Projects,
  Proj,            \* Proj[f]: the project the orders of flow f are about
  Creator,         \* the flow whose request created the node, or None
  Assigned,        \* the project the node is assigned to at first, or None
  None,            \* "null"
  SpawnsLocally,   \* start() spawns a process (else it scales a stateful set)
  OrmBindsEngine,  \* objects woken up by the ORM already hold their engine
  Spare,           \* slaves may register that no start() of this node spawned
  MayFail,         \* a request to the slave may fail, a reply may be lost
  MaxRuns          \* bound: executions of an order are counted up to MaxRuns

(***************************************************************************)
(* "open"    ProjectManager.open, on the node it created or on a slave     *)
(*           that is ready for the project                                 *)
(* "adopt"   ProjectManager.open on a free slave, which saveAll() assigns  *)
(* "project" ProjectManager.newProjectOrder, on the node it created or on  *)
(*           a free slave                                                  *)
(* "bundle"  ScanScheduler.newScanBundle / newScan on a running node       *)
(***************************************************************************)
KindSet == {"open", "adopt", "project", "bundle"}

ASSUME QueueAssumption ==
  /\ Flows \cap Regs = {}
  /\ MaxBatch \in Nat \ {0}
  /\ MaxRuns \in Nat \ {0}
  /\ Kind \in [Flows -> KindSet]
  /\ Batch \in [Flows -> 1..MaxBatch]
  /\ Proj \in [Flows -> Projects]
  /\ None \notin Flows \cup Regs \cup Projects \cup (Flows \X (1..MaxBatch))
  /\ Creator \in Flows \cup {None}
  /\ Assigned \in Projects \cup {None}
  /\ Creator # None => Kind[Creator] \in {"open", "project"}
                       /\ Assigned = Proj[Creator]
  /\ \A f \in Flows : Kind[f] = "project" => Batch[f] = 1
  /\ SpawnsLocally \in BOOLEAN
  /\ OrmBindsEngine \in BOOLEAN
  /\ Spare \in BOOLEAN
  /\ MayFail \in BOOLEAN

Handles == Flows \cup Regs
Order   == Flows \X (1..MaxBatch)
Chains  == Handles \X (1..MaxBatch)

\* STOPPED: the record was removed from the database when the node was killed.
NodeState == {"QUEUED", "IDLE", "BUSY", "STOPPED"}
Node      == [state: NodeState, running: BOOLEAN,
              project: Projects \cup {None}, queue: Seq(Order)]

VARIABLES
  db,      \* the node's record in the database
  node,    \* node[h]: the fields of handle h
  pc,      \* pc[h]: where the code that owns handle h is
  pushed,  \* pushed[f]: how many orders flow f has appended so far
  spawned, \* the creator has called start()
  chain,   \* chain[c]: a run of the operation$ handler and of its re-triggers
  slave,   \* slave[c]: the slave's side of the project opening of chain c
  opened,  \* the projects the slave process has open
  dying,   \* the master is killing the node
  taken,   \* history: orders shifted off the queue by some reader
  runs,    \* history: how often each order was executed
  dropped  \* history: orders the slave refused, their project being closed

vars == <<db, node, pc, pushed, spawned, chain, slave, opened, dying,
          taken, runs, dropped>>

Off      == [pc |-> "off", order |-> None]
SlaveOff == [pc |-> "off", order |-> None, rest |-> << >>, idle |-> FALSE]

Ready(h) == node[h].state = "IDLE"

Dead == db.state = "STOPPED"

\* An update of a record that is gone changes nothing.
Write(record) == IF Dead THEN db ELSE record

\* open() suspends the queue of its handle while it appends.
Suspends(f) == Kind[f] \in {"open", "adopt"}

IsOpen(o)    == Suspends(o[1]) /\ o[2] = 1
IsProject(o) == Kind[o[1]] = "project"
IsScan(o)    == ~IsOpen(o) /\ ~IsProject(o)

FlowPc  == {"load", "claim", "saveall", "push", "save", "resume", "start",
            "poll", "ready", "event", "update", "done"}
ChainPc == {"off", "pull", "save", "exec", "loading", "project", "reply",
            "waiting"}
SlavePc == {"off", "check", "ask", "save", "reply", "exec", "project"}
Chain   == [pc: ChainPc, order: Order \cup {None}]
Pull    == [pc: SlavePc, order: Order \cup {None}, rest: Seq(Order), idle: BOOLEAN]

TypeOK ==
  /\ db \in Node
  /\ node \in [Handles -> Node]
  /\ pc \in [Handles -> FlowPc]
  /\ pushed \in [Flows -> 0..MaxBatch]
  /\ spawned \in BOOLEAN
  /\ chain \in [Chains -> Chain]
  /\ slave \in [Chains -> Pull]
  /\ \A c \in Chains :
       /\ chain[c].pc \in {"save", "exec", "loading", "project"} => chain[c].order \in Order
       /\ slave[c].pc \in {"save", "reply", "exec", "project"} => slave[c].order \in Order
  /\ opened \in SUBSET (Projects \cup {None})
  /\ dying \in BOOLEAN
  /\ taken \in SUBSET Order
  /\ runs \in [Order -> 0..MaxRuns]
  /\ dropped \in SUBSET Order

-----------------------------------------------------------------------------
(* The master: request flows.                                              *)

Trigger(h, i) ==
  chain' = IF Ready(h) THEN [chain EXCEPT ![<<h, i>>].pc = "pull"] ELSE chain

\* The record a flow may pick: getReadySlave(), getFreeSlave() or, for scans,
\* any running node of the project.
Eligible(f) ==
  /\ db.running
  /\ \/ Kind[f] = "bundle" /\ db.project = Proj[f]
     \/ Kind[f] = "open" /\ db.state = "IDLE" /\ db.project = Proj[f]
     \/ Kind[f] \in {"adopt", "project"} /\ db.state = "IDLE" /\ db.project = None

\* A free slave is assigned to the project on the handle first.
Load(f) ==
  /\ pc[f] = "load"
  /\ Eligible(f)
  /\ node' = [node EXCEPT ![f] = [db EXCEPT !.project = Proj[f]]]
  /\ pc' = [pc EXCEPT ![f] = CASE Kind[f] = "project" -> "claim"
                               [] Kind[f] = "adopt"   -> "saveall"
                               [] OTHER               -> "push"]
  /\ UNCHANGED <<db, pushed, spawned, chain, slave, opened, dying, taken, runs,
                 dropped>>

\* newProjectOrder(): save(['purpose', '_projectUID']).
Claim(f) ==
  /\ pc[f] = "claim"
  /\ db' = Write([db EXCEPT !.project = node[f].project])
  /\ pc' = [pc EXCEPT ![f] = "saveall"]
  /\ UNCHANGED <<node, pushed, spawned, chain, slave, opened, dying, taken,
                 runs, dropped>>

\* saveAll() writes every field of the handle, the queue included.
SaveAll(f) ==
  /\ pc[f] = "saveall"
  /\ db' = Write(node[f])
  /\ pc' = [pc EXCEPT ![f] = "push"]
  /\ UNCHANGED <<node, pushed, spawned, chain, slave, opened, dying, taken,
                 runs, dropped>>

\* Mutant of Push: the ticket is put in front.
PushInFront(f) ==
  /\ pc[f] = "push"
  /\ pushed[f] < Batch[f]
  /\ pushed' = [pushed EXCEPT ![f] = @ + 1]
  /\ node' = [node EXCEPT ![f].queue = <<<<f, pushed[f] + 1>>>> \o @]
  /\ pc' = [pc EXCEPT ![f] = "save"]
  /\ UNCHANGED <<db, spawned, chain, slave, opened, dying, taken, runs, dropped>>

\* Mutant of Push: the queue of the record is read again before it is changed.
PushOnFresh(f) ==
  /\ pc[f] = "push"
  /\ pushed[f] < Batch[f]
  /\ pushed' = [pushed EXCEPT ![f] = @ + 1]
  /\ node' = [node EXCEPT ![f].queue = Append(db.queue, <<f, pushed[f] + 1>>)]
  /\ pc' = [pc EXCEPT ![f] = "save"]
  /\ UNCHANGED <<db, spawned, chain, slave, opened, dying, taken, runs, dropped>>

\* appendToQueue() up to its first await: the ticket is pushed on the handle.
Push(f) ==
  /\ pc[f] = "push"
  /\ pushed[f] < Batch[f]
  /\ pushed' = [pushed EXCEPT ![f] = @ + 1]
  /\ node' = [node EXCEPT ![f].queue = Append(@, <<f, pushed[f] + 1>>)]
  /\ pc' = [pc EXCEPT ![f] = "save"]
  /\ UNCHANGED <<db, spawned, chain, slave, opened, dying, taken, runs, dropped>>

\* Mutant of SaveQueue: the queue is not saved.
SaveQueueForgotten(f) ==
  /\ pc[f] = "save"
  /\ db' = db
  /\ IF Suspends(f) THEN chain' = chain ELSE Trigger(f, pushed[f])
  /\ pc' = [pc EXCEPT ![f] = IF pushed[f] < Batch[f] THEN "push"
                             ELSE IF Suspends(f) THEN "resume" ELSE "done"]
  /\ UNCHANGED <<node, pushed, spawned, slave, opened, dying, taken, runs,
                 dropped>>

\* The rest of appendToQueue(): save(['waitingQueue']), then the trigger
\* unless the queue of the handle is suspended.
SaveQueue(f) ==
  /\ pc[f] = "save"
  /\ db' = Write([db EXCEPT !.queue = node[f].queue])
  /\ IF Suspends(f) THEN chain' = chain ELSE Trigger(f, pushed[f])
  /\ pc' = [pc EXCEPT ![f] = IF pushed[f] < Batch[f] THEN "push"
                             ELSE IF Suspends(f) THEN "resume" ELSE "done"]
  /\ UNCHANGED <<node, pushed, spawned, slave, opened, dying, taken, runs,
                 dropped>>

\* open(): suspendQueue(false); resumeQueue().
Resume(f) ==
  /\ pc[f] = "resume"
  /\ Trigger(f, 1)
  /\ pc' = [pc EXCEPT ![f] = IF f = Creator THEN "start" ELSE "poll"]
  /\ UNCHANGED <<db, node, pushed, spawned, slave, opened, dying, taken, runs,
                 dropped>>

\* start(): open() calls it last, newProjectOrder() does not wait for the
\* order to be appended.  spawn() writes the state its handle was created with.
Start(f) ==
  /\ f = Creator
  /\ ~spawned
  /\ pc[f] = "start" \/ (Kind[f] = "project" /\ pc[f] \in {"save", "done"})
  /\ spawned' = TRUE
  /\ db' = IF SpawnsLocally
           THEN Write([db EXCEPT !.state = node[f].state, !.running = TRUE])
           ELSE db
  /\ pc' = [pc EXCEPT ![f] = IF @ = "start" THEN "poll" ELSE @]
  /\ UNCHANGED <<node, pushed, chain, slave, opened, dying, taken, runs, dropped>>

\* The /open route polls the state and answers "ready" to the user.
Poll(f) ==
  /\ pc[f] = "poll"
  /\ db.state = "IDLE"
  /\ pc' = [pc EXCEPT ![f] = "ready"]
  /\ UNCHANGED <<db, node, pushed, spawned, chain, slave, opened, dying, taken,
                 runs, dropped>>

-----------------------------------------------------------------------------
(* The master: registration of a slave process.                            *)

\* registerNode(): _getNextNode() returns a queued node, tagged as running.
RegRead(r) ==
  /\ pc[r] = "load"
  /\ Spare \/ spawned
  /\ db.state = "QUEUED"
  /\ node' = [node EXCEPT ![r] = [db EXCEPT !.running = TRUE]]
  /\ pc' = [pc EXCEPT ![r] = "saveall"]
  /\ UNCHANGED <<db, pushed, spawned, chain, slave, opened, dying, taken, runs,
                 dropped>>

\* registerNode(): saveAll(), then setState(REGISTERED), which broadcasts.
RegSaveAll(r) ==
  /\ pc[r] = "saveall"
  /\ db' = Write(node[r])
  /\ pc' = [pc EXCEPT ![r] = "event"]
  /\ UNCHANGED <<node, pushed, spawned, chain, slave, opened, dying, taken,
                 runs, dropped>>

\* Mutant of RegEvent: the state stays REGISTERED.
RegEventRegistered(r) ==
  /\ pc[r] = "event"
  /\ node' = [node EXCEPT ![r] = [db EXCEPT !.state = "REGISTERED"]]
  /\ pc' = [pc EXCEPT ![r] = IF Dead THEN "done" ELSE "update"]
  /\ UNCHANGED <<db, pushed, spawned, chain, slave, opened, dying, taken, runs,
                 dropped>>

\* onNodeStateChanged(): a new handle is read, its state becomes IDLE.
RegEvent(r) ==
  /\ pc[r] = "event"
  /\ node' = [node EXCEPT ![r] = [db EXCEPT !.state = "IDLE"]]
  /\ pc' = [pc EXCEPT ![r] = IF Dead THEN "done" ELSE "update"]
  /\ UNCHANGED <<db, pushed, spawned, chain, slave, opened, dying, taken, runs,
                 dropped>>

\* onNodeStateChanged(): the state is written, then operation$.next(null).
RegUpdate(r) ==
  /\ pc[r] = "update"
  /\ db' = Write([db EXCEPT !.state = node[r].state, !.running = node[r].running])
  /\ Trigger(r, 1)
  /\ pc' = [pc EXCEPT ![r] = "done"]
  /\ UNCHANGED <<node, pushed, spawned, slave, opened, dying, taken, runs,
                 dropped>>

-----------------------------------------------------------------------------
(* The master: the operation$ handler draining the queue through a handle. *)

\* nextWaitingOpe() found nothing: the handler ends.
DrainEmpty(c) ==
  /\ chain[c].pc = "pull"
  /\ db.queue = << >>
  /\ node' = [node EXCEPT ![c[1]].queue = << >>]
  /\ chain' = [chain EXCEPT ![c] = Off]
  /\ UNCHANGED <<db, pc, pushed, spawned, slave, opened, dying, taken, runs,
                 dropped>>

\* nextWaitingOpe() up to its save: the head of the queue just read.
Shift(c) ==
  /\ chain[c].pc = "pull"
  /\ db.queue # << >>
  /\ node' = [node EXCEPT ![c[1]].queue = Tail(db.queue)]
  /\ chain' = [chain EXCEPT ![c] = [pc |-> "save", order |-> Head(db.queue)]]
  /\ taken' = taken \cup {Head(db.queue)}
  /\ UNCHANGED <<db, pc, pushed, spawned, slave, opened, dying, runs, dropped>>

\* Mutant of SaveShift: the shortened queue is not saved.
SaveShiftForgotten(c) ==
  /\ chain[c].pc = "save"
  /\ chain' = [chain EXCEPT ![c].pc = "exec"]
  /\ UNCHANGED <<db, node, pc, pushed, spawned, slave, opened, dying, taken,
                 runs, dropped>>

\* save(["activeOpe","waitingQueue"]) writes what the handle holds by then.
SaveShift(c) ==
  /\ chain[c].pc = "save"
  /\ db' = Write([db EXCEPT !.queue = node[c[1]].queue])
  /\ chain' = [chain EXCEPT ![c].pc = "exec"]
  /\ UNCHANGED <<node, pc, pushed, spawned, slave, opened, dying, taken, runs,
                 dropped>>

Counted(o) == [runs EXCEPT ![o] = IF @ < MaxRuns THEN @ + 1 ELSE @]

Busy == Write([db EXCEPT !.state = "BUSY"])

\* Mutant of ExecOpen: the handler does not wait for the answer of the slave.
ExecOpenNoWait(c) ==
  /\ chain[c].pc = "exec" /\ ~Dead
  /\ IsOpen(chain[c].order)
  /\ runs' = Counted(chain[c].order)
  /\ db' = Busy
  /\ chain' = [chain EXCEPT ![c].pc = "reply"]
  /\ UNCHANGED <<node, pc, pushed, spawned, slave, opened, dying, taken, dropped>>

\* open(): the slave opens the project of the handle and marks itself BUSY.
\* When the project is open already nobody answers the request.
ExecOpen(c) ==
  /\ chain[c].pc = "exec" /\ ~Dead
  /\ IsOpen(chain[c].order)
  /\ runs' = Counted(chain[c].order)
  /\ IF node[c[1]].project \in opened
     THEN /\ db' = db
          /\ chain' = [chain EXCEPT ![c].pc = "waiting"]
     ELSE /\ db' = Busy
          /\ chain' = [chain EXCEPT ![c].pc = "loading"]
  /\ UNCHANGED <<node, pc, pushed, spawned, slave, opened, dying, taken, dropped>>

\* startProject(): executeProjectOrder() of the slave first saves BUSY.
ExecProject(c) ==
  /\ chain[c].pc = "exec" /\ ~Dead
  /\ IsProject(chain[c].order)
  /\ runs' = Counted(chain[c].order)
  /\ db' = IF OrmBindsEngine THEN Busy ELSE db
  /\ chain' = [chain EXCEPT ![c].pc = "project"]
  /\ UNCHANGED <<node, pc, pushed, spawned, slave, opened, dying, taken, dropped>>

\* startScan(): the slave scans the project of the handle, or answers with a
\* failure that startScan() takes for a success.
ExecScan(c) ==
  LET o == chain[c].order IN
  /\ chain[c].pc = "exec" /\ ~Dead
  /\ IsScan(o)
  /\ IF node[c[1]].project \in opened
     THEN runs' = Counted(o) /\ dropped' = dropped
     ELSE runs' = runs /\ dropped' = dropped \cup {o}
  /\ chain' = [chain EXCEPT ![c].pc = "reply"]
  /\ UNCHANGED <<db, node, pc, pushed, spawned, slave, opened, dying, taken>>

\* The slave answered: the handler triggers itself for the next order.
ExecDone(c) ==
  /\ chain[c].pc = "reply"
  /\ chain' = [chain EXCEPT ![c] = [pc |-> "pull", order |-> None]]
  /\ UNCHANGED <<db, node, pc, pushed, spawned, slave, opened, dying, taken,
                 runs, dropped>>

\* The request or its reply was lost: the handler only logs the error.
ExecFailed(c) ==
  /\ MayFail
  /\ chain[c].pc \in {"exec", "reply"}
  /\ chain' = [chain EXCEPT ![c] = Off]
  /\ UNCHANGED <<db, node, pc, pushed, spawned, slave, opened, dying, taken,
                 runs, dropped>>

\* kill(): the slave exits with all it was doing, the record is archived as
\* STOPPED and removed.
Killed ==
  /\ dying /\ ~Dead
  /\ db' = [db EXCEPT !.state = "STOPPED", !.running = FALSE, !.queue = << >>]
  /\ chain' = [c \in Chains |->
                 IF chain[c].pc \in {"loading", "project", "waiting"} THEN Off
                                                                    ELSE chain[c]]
  /\ slave' = [c \in Chains |-> SlaveOff]
  /\ opened' = {}
  /\ UNCHANGED <<node, pc, pushed, spawned, dying, taken, runs, dropped>>

-----------------------------------------------------------------------------
(* The slave.                                                              *)

\* Mutant of SlaveOpened: the state IDLE is not saved.
SlaveOpenedUnsaved(c) ==
  /\ chain[c].pc = "loading"
  /\ opened' = opened \cup {node[c[1]].project}
  /\ chain' = [chain EXCEPT ![c].pc = "waiting"]
  /\ slave' = [slave EXCEPT ![c] = [SlaveOff EXCEPT !.pc = "check"]]
  /\ UNCHANGED <<db, node, pc, pushed, spawned, dying, taken, runs, dropped>>

\* _openLocally() loaded the project.  Its setState(IDLE) tells the listener
\* of open_slave, which goes and looks at the queue.
SlaveOpened(c) ==
  /\ chain[c].pc = "loading"
  /\ opened' = opened \cup {node[c[1]].project}
  /\ chain' = [chain EXCEPT ![c].pc = "waiting"]
  /\ slave' = [slave EXCEPT ![c] = [SlaveOff EXCEPT !.pc = "check", !.idle = TRUE]]
  /\ UNCHANGED <<db, node, pc, pushed, spawned, dying, taken, runs, dropped>>

\* _openLocally(): save(['state', 'idleSince']).
SlaveIdle(c) ==
  /\ slave[c].idle
  /\ db' = Write([db EXCEPT !.state = "IDLE"])
  /\ slave' = [slave EXCEPT ![c].idle = FALSE]
  /\ UNCHANGED <<node, pc, pushed, spawned, chain, opened, dying, taken, runs,
                 dropped>>

\* The project cannot be loaded or created: the slave stays BUSY and the
\* master kills the node, then goes on with the queue.
SlaveFailed(c) ==
  /\ MayFail
  /\ chain[c].pc \in {"loading", "project"}
  /\ dying' = TRUE
  /\ chain' = [chain EXCEPT ![c].pc = "reply"]
  /\ UNCHANGED <<db, node, pc, pushed, spawned, slave, opened, taken, runs,
                 dropped>>

\* executeProjectOrder() ends: the state IDLE of its handle is not saved.
SlaveProjectDone(c) ==
  /\ chain[c].pc = "project"
  /\ opened' = opened \cup {Proj[chain[c].order[1]]}
  /\ chain' = [chain EXCEPT ![c].pc = "reply"]
  /\ UNCHANGED <<db, node, pc, pushed, spawned, slave, dying, taken, runs,
                 dropped>>

\* Mutant of SlaveCheck: the slave leaves the queue to others.
SlaveCheckOnly(c) ==
  /\ slave[c].pc = "check"
  /\ chain' = IF db.queue = << >> THEN [chain EXCEPT ![c].pc = "reply"] ELSE chain
  /\ slave' = [slave EXCEPT ![c].pc = "off"]
  /\ UNCHANGED <<db, node, pc, pushed, spawned, opened, dying, taken, runs,
                 dropped>>

\* The listener of open_slave answers when the queue is empty; else the slave
\* triggers its own operation$ handler, and does not answer.
SlaveCheck(c) ==
  /\ slave[c].pc = "check"
  /\ IF db.queue = << >>
     THEN /\ chain' = [chain EXCEPT ![c].pc = "reply"]
          /\ slave' = [slave EXCEPT ![c].pc = "off"]
     ELSE /\ chain' = chain
          /\ slave' = [slave EXCEPT ![c].pc = "ask"]
  /\ UNCHANGED <<db, node, pc, pushed, spawned, opened, dying, taken, runs,
                 dropped>>

\* nextGloballyWaitingOpe() of the master found nothing: the loop ends.
SlaveAskEmpty(c) ==
  /\ slave[c].pc = "ask"
  /\ db.queue = << >>
  /\ slave' = [slave EXCEPT ![c].pc = "off"]
  /\ UNCHANGED <<db, node, pc, pushed, spawned, chain, opened, dying, taken,
                 runs, dropped>>

\* nextGloballyWaitingOpe() of the master, up to its save.
SlaveAsk(c) ==
  /\ slave[c].pc = "ask"
  /\ db.queue # << >>
  /\ slave' = [slave EXCEPT ![c].pc = "save", ![c].order = Head(db.queue),
                            ![c].rest = Tail(db.queue)]
  /\ taken' = taken \cup {Head(db.queue)}
  /\ UNCHANGED <<db, node, pc, pushed, spawned, chain, opened, dying, runs,
                 dropped>>

\* Mutant of SlaveSave: the shortened queue is not saved.
SlaveSaveForgotten(c) ==
  /\ slave[c].pc = "save"
  /\ slave' = [slave EXCEPT ![c].pc = "reply", ![c].rest = << >>]
  /\ UNCHANGED <<db, node, pc, pushed, spawned, chain, opened, dying, taken,
                 runs, dropped>>

\* nextGloballyWaitingOpe(): save() writes nothing without an engine.
SlaveSave(c) ==
  /\ slave[c].pc = "save"
  /\ db' = IF OrmBindsEngine THEN Write([db EXCEPT !.queue = slave[c].rest]) ELSE db
  /\ slave' = [slave EXCEPT ![c].pc = "reply", ![c].rest = << >>]
  /\ UNCHANGED <<node, pc, pushed, spawned, chain, opened, dying, taken, runs,
                 dropped>>

\* The reply of the master reaches the slave, or is lost and ends the loop.
SlaveReply(c) ==
  /\ slave[c].pc = "reply"
  /\ slave' = [slave EXCEPT ![c].pc = "exec"]
  /\ UNCHANGED <<db, node, pc, pushed, spawned, chain, opened, dying, taken,
                 runs, dropped>>

SlaveReplyLost(c) ==
  /\ MayFail
  /\ slave[c].pc = "reply"
  /\ slave' = [slave EXCEPT ![c].pc = "off", ![c].order = None]
  /\ UNCHANGED <<db, node, pc, pushed, spawned, chain, opened, dying, taken,
                 runs, dropped>>

\* execOperation2() on the slave.  A scan runs on its own project; opening a
\* project asks the slave itself for a project that is open, and never ends.
SlaveExec(c) ==
  LET o == slave[c].order IN
  /\ slave[c].pc = "exec"
  /\ IF IsScan(o) /\ Proj[o[1]] \notin opened
     THEN runs' = runs /\ dropped' = dropped \cup {o}
     ELSE runs' = Counted(o) /\ dropped' = dropped
  /\ db' = IF IsProject(o) /\ OrmBindsEngine THEN Busy ELSE db
  /\ slave' = [slave EXCEPT ![c].order = IF IsProject(o) THEN o ELSE None,
                            ![c].pc = IF IsScan(o) THEN "ask"
                                      ELSE IF IsProject(o) THEN "project" ELSE "off"]
  /\ UNCHANGED <<node, pc, pushed, spawned, chain, opened, dying, taken>>

\* executeProjectOrder(), ordered by the slave to itself, ends.
SlaveProject(c) ==
  /\ slave[c].pc = "project"
  /\ opened' = opened \cup {Proj[slave[c].order[1]]}
  /\ slave' = [slave EXCEPT ![c].pc = "ask", ![c].order = None]
  /\ UNCHANGED <<db, node, pc, pushed, spawned, chain, dying, taken, runs, dropped>>

-----------------------------------------------------------------------------
\* The node exists, with an empty queue.  Its creator holds the handle that
\* createNode() returned; without a creator the node is registered and idle.
Init ==
  /\ db = [state |-> IF Creator = None THEN "IDLE" ELSE "QUEUED",
           running |-> Creator = None, project |-> Assigned, queue |-> << >>]
  /\ node = [h \in Handles |-> db]
  /\ pc = [h \in Handles |-> IF h = Creator THEN "push" ELSE "load"]
  /\ pushed = [f \in Flows |-> 0]
  /\ spawned = FALSE
  /\ chain = [c \in Chains |-> Off]
  /\ slave = [c \in Chains |-> SlaveOff]
  /\ opened = IF Creator = None /\ Assigned # None THEN {Assigned} ELSE {}
  /\ dying = FALSE
  /\ taken = {}
  /\ runs = [o \in Order |-> 0]
  /\ dropped = {}

FlowStep(f)  == \/ Load(f) \/ Claim(f) \/ SaveAll(f) \/ Push(f) \/ SaveQueue(f)
                \/ Resume(f) \/ Start(f) \/ Poll(f)
RegStep(r)   == RegRead(r) \/ RegSaveAll(r) \/ RegEvent(r) \/ RegUpdate(r)
ChainStep(c) == \/ DrainEmpty(c) \/ Shift(c) \/ SaveShift(c) \/ ExecOpen(c)
                \/ ExecProject(c) \/ ExecScan(c) \/ ExecDone(c)
                \/ SlaveOpened(c) \/ SlaveProjectDone(c)
SlaveStep(c) == \/ SlaveCheck(c) \/ SlaveAskEmpty(c) \/ SlaveAsk(c)
                \/ SlaveSave(c) \/ SlaveReply(c) \/ SlaveExec(c) \/ SlaveProject(c)
Fault(c)     == ExecFailed(c) \/ SlaveFailed(c) \/ SlaveReplyLost(c)

Next ==
  \/ \E f \in Flows : FlowStep(f)
  \/ \E r \in Regs : RegStep(r)
  \/ \E c \in Chains : ChainStep(c) \/ SlaveStep(c) \/ SlaveIdle(c) \/ Fault(c)
  \/ Killed

\* The event loops run every pending continuation, and the database, the
\* master and the slave answer; a failure never has to happen.
Fairness ==
  /\ \A f \in Flows : WF_vars(FlowStep(f))
  /\ \A r \in Regs : WF_vars(RegStep(r))
  /\ \A c \in Chains : /\ WF_vars(ChainStep(c))
                       /\ WF_vars(SlaveStep(c))
                       /\ WF_vars(SlaveIdle(c))
  /\ WF_vars(Killed)

Spec     == Init /\ [][Next]_vars
FairSpec == Spec /\ Fairness

-----------------------------------------------------------------------------
(* Properties.                                                             *)

Increasing(s) ==
  \A j, k \in DOMAIN s : j < k /\ s[j][1] = s[k][1] => s[j][2] < s[k][2]

Elements(s) == {s[j] : j \in DOMAIN s}

\* Every copy of the queue that exists: the record, the handles, and what the
\* master keeps while it answers the slave.
Copies == {db.queue} \cup {node[h].queue : h \in Handles}
          \cup {slave[c].rest : c \in Chains}

\* However handles overwrite each other's queue (saveAll, appendToQueue,
\* nextWaitingOpe), no copy of the queue ever holds the orders of one request
\* out of the order they were appended in, or one of them twice.
QueueOrdered == \A s \in Copies : Increasing(s)

\* ProjectManager.open suspends its handle while it appends, so that whatever
\* other handles do to the record meanwhile, nobody is handed a scan of the
\* request before the order to open the project was handed out.
TakenInOrder ==
  \A f \in Flows : Suspends(f) =>
    \A i \in 2..MaxBatch : <<f, i>> \in taken => <<f, i - 1>> \in taken

\* Every copy of the queue is in order, and where it holds an order of an
\* open(), the order before was handed out already or stands in front of it.
Good(s, p, t) ==
  /\ Increasing(s)
  /\ \A j \in DOMAIN s :
       /\ s[j][2] <= p[s[j][1]]
       /\ Suspends(s[j][1]) /\ s[j][2] > 1 =>
            LET before == <<s[j][1], s[j][2] - 1>>
            IN  before \in t \/ \E k \in 1..(j - 1) : s[k] = before

Appending == {"load", "claim", "saveall", "push", "save", "resume"}

\* Until open() resumes its queue nobody drains its handle, which still holds
\* the last order it appended.
Held(f) ==
  Suspends(f) /\ pc[f] \in Appending =>
    /\ \A i \in 1..MaxBatch : chain[<<f, i>>].pc = "off" /\ slave[<<f, i>>].pc = "off"
    /\ pushed[f] > 0 => <<f, pushed[f]>> \in Elements(node[f].queue)
    /\ pc[f] \in {"load", "claim", "saveall"} => pushed[f] = 0

QueueInvariant ==
  /\ \A s \in Copies : Good(s, pushed, taken)
  /\ \A f \in Flows : Held(f)
  /\ TakenInOrder

\* The order is handed out once to be executed: nextWaitingOpe() and
\* nextGloballyWaitingOpe() pop it from the queue.
ExecutedOnce == \A o \in Order : runs[o] <= 1

\* An order is in the queue of the record once appendToQueue() saved it, until
\* somebody is handed it.
NothingLost ==
  \A f \in Flows : \A i \in 1..pushed[f] :
    \/ <<f, i>> \in taken \cup Elements(db.queue)
    \/ pc[f] = "save"

\* execOperation2() sends a scan to a slave that has its project open.
NoneRefused == dropped = {}

\* The order in hand of a handle is about the project of the handle, which is
\* what the slave is asked to open or to scan.
RightProject ==
  \A c \in Chains : chain[c].pc = "exec" /\ ~IsProject(chain[c].order) =>
    node[c[1]].project = Proj[chain[c].order[1]]

\* The /open route answers "ready" when the project has been opened.
ReadyMeansOpened ==
  [][\A f \in Flows : pc[f] = "poll" /\ pc'[f] = "ready" => Proj[f] \in opened]_vars

\* Every order that was appended is executed in the end, even when it was
\* appended while the slave was busy.
EveryOrderExecuted ==
  \A f \in Flows : \A i \in 1..MaxBatch :
    (pushed[f] >= i) ~> (runs[<<f, i>>] > 0)

\* A user who opened a project on a node that slaves register with is answered.
OpenAnswered == \A f \in Flows : (pc[f] = "poll") ~> (pc[f] = "ready")

\* The slave answers the request to open a project.
SlaveAnswers == \A c \in Chains : (chain[c].pc = "waiting") ~> (chain[c].pc # "waiting")

\* Although an outdated save may put orders back that were handed out, the
\* drains of a finite number of requests come to an end.
DrainsEnd ==
  <>[](\A c \in Chains : chain[c].pc \in {"off", "waiting"} /\ slave[c].pc = "off")

\* A single request on a slave nobody else uses keeps the promise of OrderBook.
Book == INSTANCE OrderBook WITH
  waiting <- db.queue,
  inHand  <- {chain[c].order : c \in {d \in Chains : chain[d].pc = "exec"}}
             \cup {slave[c].order : c \in {d \in Chains : slave[d].pc \in {"reply", "exec"}}},
  started <- {o \in Order : runs[o] > 0}

KeepsBook == Book!Spec
=============================================================================
