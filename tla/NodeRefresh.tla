----------------------------- MODULE NodeRefresh -----------------------------
(***************************************************************************)
(* The end of slave nodes.  A controller process refreshes the pool of     *)
(* NodePool for ever: it reads all records, then the list of processes,    *)
(* then visits the records.  A record that says IDLE has its slave probed; *)
(* a slave that does not answer is archived, one that idles for too long   *)
(* is killed, without waiting for the end of the kill.  At the end, when   *)
(* the host runs more processes than records were kept, every process that *)
(* no kept record names is sent a signal.  Users may stop a slave too,     *)
(* through the same kill().                                                *)
(*                                                                         *)
(* Everything the refresh decides, it decides on the records as it read    *)
(* them at its beginning.  Clocks are not modelled: whether a node is old, *)
(* or idle for too long, is a choice made when the code asks.              *)
(***************************************************************************)
EXTENDS NodePool

CONSTANTS
  Stoppable, \* bound: the nodes that users may stop
  Aging,     \* bound: the nodes that may live for more than 24 hours
  Known      \* the first Outside processes, which have registered already

ASSUME RefreshAssumption == Stoppable \subseteq Nodes /\ Aging \subseteq Nodes /\ Known \in 0..Outside /\ Known <= MaxNodes

\* What the refresh uses of a record.
Entry == [state: State, running: BOOLEAN, port: Ports, pid: Procs \cup {None},
          idleSince: BOOLEAN]

Unread == [state |-> "none", running |-> FALSE, port |-> 0, pid |-> None,
           idleSince |-> FALSE]

VARIABLES
  ref,   \* the refresh: where it is, what it read, what it keeps
  kill,  \* kill[n]: how far a kill() of node n is
  hup    \* the processes that were sent SIGHUP

refreshVars == <<ref, kill, hup>>
allVars     == <<vars, refreshVars>>

RefPc  == {"off", "ps", "visit", "down", "flush"}
KillPc == {"none", "asked", "exits", "answered", "archived"}
NoKill == [pc |-> "none", port |-> 0, slave |-> None]
Rest   == [pc |-> "off", list |-> [n \in Nodes |-> Unread], ps |-> {},
           todo |-> {}, kept |-> {}]

RefreshTypeOK ==
  /\ ref \in [pc: RefPc, list: [Nodes -> Entry], ps: SUBSET Procs,
              todo: SUBSET Nodes, kept: SUBSET Nodes]
  /\ kill \in [Nodes -> [pc: KillPc, port: Ports, slave: Procs \cup {None}]]
  /\ hup \in SUBSET Procs
  /\ ref.todo \cap ref.kept = {}
  /\ \A n \in Nodes : kill[n].pc # "none" => n \in 1..created

\* stopped(): 'running', 'state', 'stoppedAt' and 'startedAt' are written.
Stopped(n) == Put(n, [db[n] EXCEPT !.running = FALSE, !.state = "STOPPED"])

Removed(n) == Put(n, [db[n] EXCEPT !.state = "REMOVED"])

\* A process ends; if the master spawned it, its listener writes.
Ends(p) ==
  /\ proc' = [proc EXCEPT ![p].pc = "dead"]
  /\ db' = Closed(p)
  /\ UNCHANGED <<created, spawned, req, reg>>

-----------------------------------------------------------------------------
(* kill() of a node that registers itself.                                 *)

\* POST /api/node/stop is on its way to the address of the handle.
\* One kill per node at a time.
Asked(n, port) ==
  IF kill[n].pc = "none"
  THEN [kill EXCEPT ![n] = [NoKill EXCEPT !.pc = "asked", !.port = port]] ELSE kill

\* A user stops a runner, through a handle that was just read.
StopRunner(n) ==
  /\ n \in Stoppable
  /\ Exists(n) /\ kill[n].pc = "none"
  /\ kill' = Asked(n, db[n].port)
  /\ UNCHANGED <<vars, ref, hup>>

\* exit(): the slave archives the node it is registered as.
SlaveStops(n) ==
  /\ kill[n].pc = "asked"
  /\ \E p \in ServerAt(kill[n].port) :
       /\ db' = IF proc[p].uuid = None THEN db ELSE Stopped(proc[p].uuid)
       /\ kill' = [kill EXCEPT ![n].pc = "exits", ![n].slave = p]
  /\ UNCHANGED <<created, proc, spawned, req, reg, ref, hup>>

\* process.exit(), before the route answers.
SlaveExits(n) ==
  /\ kill[n].pc = "exits"
  /\ proc[kill[n].slave].pc = "up"
  /\ Ends(kill[n].slave)
  /\ kill' = [kill EXCEPT ![n].pc = "answered", ![n].slave = None]
  /\ UNCHANGED <<ref, hup>>

\* Nobody answers: stop() catches the error, kill() goes on.
NoAnswer(n) ==
  /\ \/ kill[n].pc = "asked" /\ ServerAt(kill[n].port) = {}
     \/ kill[n].pc = "exits" /\ proc[kill[n].slave].pc = "dead"
  /\ kill' = [kill EXCEPT ![n].pc = "answered", ![n].slave = None]
  /\ UNCHANGED <<vars, ref, hup>>

KillArchives(n) ==
  /\ kill[n].pc = "answered"
  /\ db' = Stopped(n)
  /\ kill' = [kill EXCEPT ![n].pc = "archived"]
  /\ UNCHANGED <<created, proc, spawned, req, reg, ref, hup>>

KillRemoves(n) ==
  /\ kill[n].pc = "archived"
  /\ db' = Removed(n)
  /\ kill' = [kill EXCEPT ![n] = NoKill]
  /\ UNCHANGED <<created, proc, spawned, req, reg, ref, hup>>

-----------------------------------------------------------------------------
(* refreshPool().                                                          *)

\* getAsList().
ReadList ==
  /\ ref.pc = "off"
  /\ ref' = [ref EXCEPT !.pc = "ps",
               !.list = [n \in Nodes |->
                 IF Exists(n) THEN [f \in DOMAIN Unread |-> db[n][f]] ELSE Unread]]
  /\ UNCHANGED <<vars, kill, hup>>

\* Mutant of GoesOn: off by one.
GoesOnLate(r) ==
  IF r.todo # {} THEN ref' = r /\ hup' = hup
  ELSE /\ ref' = Rest
       /\ hup' = IF Cardinality(r.ps) > Cardinality(r.kept) + 1
                 THEN hup \cup (r.ps \ {r.list[n].pid : n \in r.kept}) ELSE hup

\* The refresh goes on as r, or ends when r has nothing left to visit: when
\* there are more processes than records, those that no record names are killed.
GoesOn(r) ==
  IF r.todo # {} THEN ref' = r /\ hup' = hup
  ELSE /\ ref' = Rest
       /\ hup' = IF Cardinality(r.ps) > Cardinality(r.kept)
                 THEN hup \cup (r.ps \ {r.list[n].pid : n \in r.kept}) ELSE hup

\* Mutant of Kept: a node that was kept is visited again.
KeptAgain(r, K) ==
  [r EXCEPT !.kept = @ \cup K,
            !.list = [n \in Nodes |->
              IF n \in K THEN [Unread EXCEPT !.pid = r.list[n].pid]
              ELSE IF n \in r.todo \cup r.kept THEN r.list[n] ELSE Unread]]

\* The nodes of K are kept, with the identifiers of their processes.
Kept(r, K) ==
  [r EXCEPT !.kept = @ \cup K, !.todo = @ \ K,
            !.list = [n \in Nodes |->
              IF n \in K THEN [Unread EXCEPT !.pid = r.list[n].pid]
              ELSE IF n \in r.todo \cup r.kept THEN r.list[n] ELSE Unread]]

Dropped(r, n) == [r EXCEPT !.pc = "visit", !.todo = @ \ {n}, !.list[n] = Unread]

\* getHcStatus(): only a node that says IDLE is probed.
Probed   == {n \in Nodes : ref.list[n].running /\ ref.list[n].state = "IDLE"}
Unprobed == {n \in Nodes : ref.list[n].running /\ ref.list[n].state # "IDLE"}
Waits    == {n \in Nodes : ~ref.list[n].running /\ ref.list[n].state = "QUEUED"}

\* listRunningNodeFromPs(), and the visits that need no await.  A node that was
\* not probed is kept unless it is STOPPED, or was created or started more than
\* 24 hours ago; kept, it is killed if its record says that it idles for too
\* long.  A record that waits for its slave is kept.
ReadPs ==
  /\ ref.pc = "ps"
  /\ \E old \in SUBSET (Unprobed \cap Aging) :
       LET out  == old \cup {n \in Unprobed : ref.list[n].state = "STOPPED"}
           kept == Waits \cup (Unprobed \ out)
       IN
       /\ \E late \in SUBSET {n \in Unprobed \ out : ref.list[n].idleSince} :
            kill' = [n \in Nodes |-> IF n \in late THEN Asked(n, ref.list[n].port)[n]
                                     ELSE kill[n]]
       /\ GoesOn(Kept([ref EXCEPT !.pc = "visit", !.ps = Alive, !.todo = Probed \cup out],
                      kept))
  /\ UNCHANGED vars

\* An order is executed by the slave at this port.
Working(port) ==
  \E r \in Requests : req[r].order = "running" /\ db[req[r].node].port = port

Visits(n) == ref.pc = "visit" /\ n \in ref.todo /\ \A m \in ref.todo : n <= m

\* Mutant of Keep: a node is kept without an answer.
KeepUnprobed(n) ==
  /\ Visits(n) /\ ref.list[n].state = "IDLE"
  /\ GoesOn(Kept(ref, {n}))
  /\ UNCHANGED <<vars, kill>>

\* The slave answers, and its node is kept.
Keep(n) ==
  /\ Visits(n) /\ ref.list[n].state = "IDLE"
  /\ ServerAt(ref.list[n].port) # {}
  /\ GoesOn(Kept(ref, {n}))
  /\ UNCHANGED <<vars, kill>>

\* Mutant of Free: the meaning of "no idle time" is reversed.
FreeUnused(n) ==
  /\ Visits(n) /\ ref.list[n].state = "IDLE" /\ ~ref.list[n].idleSince
  /\ ServerAt(ref.list[n].port) # {}
  /\ kill' = Asked(n, ref.list[n].port)
  /\ GoesOn(Kept(ref, {n}))
  /\ UNCHANGED vars

\* _shouldBeFreed(): it idles for too long.  The kill is not awaited, and the
\* node is kept in the list.
Free(n) ==
  /\ Visits(n) /\ ref.list[n].state = "IDLE" /\ ref.list[n].idleSince
  /\ ServerAt(ref.list[n].port) # {}
  /\ kill' = Asked(n, ref.list[n].port)
  /\ GoesOn(Kept(ref, {n}))
  /\ UNCHANGED vars

\* No slave answers, or one at work answers too late.
Unhealthy(n) ==
  /\ Visits(n) /\ ref.list[n].state = "IDLE"
  /\ ServerAt(ref.list[n].port) = {} \/ Working(ref.list[n].port)
  /\ ref' = [ref EXCEPT !.pc = "down"]
  /\ UNCHANGED <<vars, kill, hup>>

\* The record of a slave that does not answer is archived.
Down(n) ==
  /\ ref.pc = "down" /\ n \in ref.todo /\ \A m \in ref.todo : n <= m
  /\ db' = Stopped(n)
  /\ GoesOn(Dropped(ref, n))
  /\ UNCHANGED <<created, proc, spawned, req, reg, kill>>

\* The record of an old node is archived, then removed.
Flush(n) ==
  /\ Visits(n) /\ ref.list[n].state # "IDLE"
  /\ db' = Stopped(n)
  /\ ref' = [ref EXCEPT !.pc = "flush"]
  /\ UNCHANGED <<created, proc, spawned, req, reg, kill, hup>>

FlushRemoves(n) ==
  /\ ref.pc = "flush" /\ n \in ref.todo /\ \A m \in ref.todo : n <= m
  /\ db' = Removed(n)
  /\ GoesOn(Dropped(ref, n))
  /\ UNCHANGED <<created, proc, spawned, req, reg, kill>>

\* SIGHUP reaches a process.
Hangup(p) ==
  /\ p \in hup
  /\ hup' = hup \ {p}
  /\ IF p \in Alive THEN Ends(p) ELSE UNCHANGED vars
  /\ UNCHANGED <<ref, kill>>

-----------------------------------------------------------------------------
\* The master starts while some slaves of an earlier run are there: each is
\* free and registered as a node of its own, some after they had worked.
RefreshInit ==
  /\ \E used \in SUBSET (1..Known) :
       db = [n \in Nodes |->
              IF n > Known THEN Blank
              ELSE [Blank EXCEPT !.state = "IDLE", !.running = TRUE, !.port = n,
                                 !.idleSince = n \in used]]
  /\ created = Known
  /\ proc = [p \in Procs |-> [pc |-> IF p <= Known THEN "up"
                                     ELSE IF p <= Outside THEN "starting" ELSE "none",
                              port |-> IF p <= Outside THEN p ELSE 0,
                              node |-> None, uuid |-> IF p <= Known THEN p ELSE None]]
  /\ spawned = Outside
  /\ req = [r \in Requests |-> [pc |-> "ready", node |-> None, copy |-> Blank, port |-> 0,
                                order |-> "none"]]
  /\ reg = [g \in Regs |-> [pc |-> IF g[1] <= Known THEN "done" ELSE "off",
                            node |-> IF g[1] <= Known THEN g[1] ELSE None,
                            copy |-> Blank, free |-> FALSE]]
  /\ ref = Rest
  /\ kill = [n \in Nodes |-> NoKill]
  /\ hup = {}

Visit(n)    == Keep(n) \/ Unhealthy(n) \/ Down(n) \/ Flush(n) \/ FlushRemoves(n)
Refresh     == ReadList \/ ReadPs \/ \E n \in Nodes : Visit(n) \/ Free(n)
KillStep(n) == \/ SlaveStops(n) \/ SlaveExits(n) \/ NoAnswer(n)
               \/ KillArchives(n) \/ KillRemoves(n)

RefreshNext ==
  \/ Next /\ UNCHANGED refreshVars
  \/ Refresh
  \/ \E n \in Nodes : StopRunner(n) \/ KillStep(n)
  \/ \E p \in Procs : Hangup(p)

\* The controller goes on for ever.  A node that idles in every refresh idles
\* for too long in one of them.
RefreshFairness ==
  /\ WF_allVars(Refresh)
  /\ \A n \in Nodes : SF_allVars(Free(n)) /\ WF_allVars(KillStep(n))
  /\ \A p \in Procs : WF_allVars(Hangup(p))

RefreshSpec     == RefreshInit /\ [][RefreshNext]_allVars
FairRefreshSpec == RefreshSpec /\ RefreshFairness

-----------------------------------------------------------------------------
(* Properties.                                                             *)

\* The master gives orders to a node that runs and is IDLE.
Usable(n) == db[n].running /\ db[n].state = "IDLE"

\* No request is sent for ever to a slave that is gone: of a usable node whose
\* slave does not listen any more the record is archived, or another slave takes
\* its port.  Requests and registrations write back older records meanwhile.
DeadArchived ==
  \A n \in Nodes : (Usable(n) /\ ServerAt(db[n].port) = {})
                     ~> (~Usable(n) \/ ServerAt(db[n].port) # {})

\* A slave that worked and idles since is not kept for ever: it gets an order,
\* or is stopped and its record leaves the pool.
IdleFreed ==
  \A n \in Nodes : (Usable(n) /\ db[n].idleSince) ~> ~(Usable(n) /\ db[n].idleSince)

\* In the end the host runs no more slave processes than there are records that
\* run or wait, whatever records were lost while their slaves were starting,
\* working or stopping.
GhostsKilled ==
  <>[](Cardinality(Alive) <=
         Cardinality({n \in Nodes : db[n].running \/ db[n].state = "QUEUED"}))

\* The refresh stops no slave that has an order.
WorkSpared ==
  \A n \in Nodes : kill[n].pc = "exits" =>
    \A r \in Requests : req[r].node = n => req[r].order \notin {"queued", "running"}

\* A kill() of a node stops the slave that is registered as this node.
StopsOwnSlave ==
  \A n \in Nodes : kill[n].pc = "exits" => proc[kill[n].slave].uuid = n

\* A slave that executes an order is not taken for an untracked process.
HangupSparesWork ==
  \A p \in hup : \A r \in Requests :
    req[r].order = "running" => db[req[r].node].port # proc[p].port

\* A slave does not work when its record says how long it idles.
IdleStampMeansIdle ==
  \A n \in Nodes : db[n].running /\ db[n].idleSince => db[n].state = "IDLE"
=============================================================================
