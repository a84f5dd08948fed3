# A verification of Dexcalibur

Dexcalibur is an analysis platform for applications.  A *master* serves users
over HTTP; the work on a project (opening it, scanning it, creating it) is done
by *slave* engines, processes that the master starts and hands orders to.  Inside
an engine, format detection is spread over worker threads.  Everything is
written for an event loop: code between two `await`s is atomic, code across an
`await` is not, and nothing is locked.  That is what this project is about: the
state that several requests, processes and threads change together.

Paths below are relative to `src/src/` of the repository.

## 1. Inventory

### 1.1 The waiting queue of a node (`core/EngineNode.ts`, `core/EngineNodeManager.ts`)

*State.* One record per node in the engine database: state, running flag,
project, address, and the `waitingQueue` of orders.  The record is read into
`EngineNode` objects (*handles*), a new one per request and per event; a handle
has its own copy of all the fields, a suspension flag, and an `operation$`
subject whose handler drains the queue.

*Operations.* `appendToQueue`, `suspendQueue`, `resumeQueue`, `saveAll`, `save`,
`nextWaitingOpe` (the master takes an order), `nextGloballyWaitingOpe` (the slave
asks for one over the webhook), `open`, `startProject`, `startScan` (the order is
sent to the slave), and the requests that use them: `ProjectManager.open`,
`ProjectManager.newProjectOrder`, `ScanScheduler.newScanBundle`.

*Hard.* Two handles write back whole fields; two readers pop one queue; the
answer of the slave and its own pull loop overtake each other; the queue is
suspended on one handle only.

*Correct when.* Orders are executed in the order of each request, each once;
none is lost, refused, or executed for another project; drains end; users are
answered.

### 1.2 The pool of slaves (same files, `project/ProjectManager.ts`, `webapi/`)

*State.* The node records again (state, running, project, port, pid), the slave
processes of the host, and for each process the node it registered as.

*Operations.* `getReadySlave`, `getFreeSlave`, `canCreateNode`, `createNode`,
`getNextPorts`, `start`/`spawn`; `registerMasterRunner` on the slave,
`registerNode`, `createFreeNode`, `onNodeStateChanged` on the master; the
`close` and `EADDRINUSE` listeners of a process; the poll of `/open`; `refreshPool`,
`refreshRunningStatus`, `kill`, `stopped`, the webhook `/stop` and `stopRunner`.

*Hard.* Search, check, creation and start are separate awaits; the slave does not
say for which record it was started; registrations are retried; processes die;
a handle kept by a listener is written back minutes later; the refresh decides on a
list it read before one health check per node, and signals every process it cannot
name when there are more processes than records.

*Correct when.* Ready records lead to living slaves, one record per slave and
one slave per record; limits are kept; every request that is not refused gets a
slave and every slave a record; what users are told is so; dead slaves leave the
pool, idle ones are freed, no process outlives its record, and work is spared.

### 1.3 Format detection (`formats/identifier/`)

*State.* In the scheduler thread: the stack of free workers, a counter, the files
that wait in timers, the timer of the end.  In the engine: the list of results.

*Operations.* `queueScheduler`, the setup loop, `queue.next`, the listeners of
messages and of the exit of a thread, the handler of a worker.

*Hard.* Ten threads answer in any order; the end is inferred from a counter and
from the stack; workers and files fail.

*Correct when.* Every file is reported once and the observer is told once all are.

### 1.4 Credits and subscriptions (`billing/`, `marketplace/`, `organization/`, `audit/AuditManager.ts`)

*State.* The field `businessPlan` of an organization's record: credits per product
and type, the purchases behind them, the wallet of subscriptions with their dates.
Each request works on an object of its own.

*Operations.* `MarketplaceManager.buyProduct`, `AuditManager.activateLicense` (with
`addSubscription`), `OrganizationManager.verifyScanBalance` called by
`ScanScheduler.newStandaloneScan`, which creates a missing plan.

*Hard.* Each request reads the whole plan, awaits, and writes the whole plan; the
result of a write is ignored or tested on the object; the check of a scan is not
awaited; subscriptions expire in between; the quantity of a purchase is what the body
of the request says (`webapi/mkplace.web.api.ts:178`), below zero or a fraction included.

*Correct when.* Credits are neither spent twice nor made from nothing, and a balance at
or below zero pays nothing; no application pays twice; what was saved stays.

### 1.5 Members of an organization (`organization/`, `user/`)

*State.* Who is a member stands in two places: the list `members` of the
organization's record, and the membership (activation, lock, groups, roles) in each
account's record, which also holds the links that were mailed to its user.

*Operations.* `createUser`, `inviteUsers`, `activateMember`, `dropMember`,
`lockMember` and `unlockMember`, `updateMemberRoles`, `updateOrgGrpMembers`,
`sendUnlockMail`, and `activateAccount` when a user follows a link.

*Hard.* Each writes two records or one record twice, with awaits between; some
save one field of a copy, some the whole copy; the engine may stop in between; an
account that cannot be used and has no link is lost to its user.

*Correct when.* Created members are listed until dropped; locks and drops stand; a
member who is not active can become active; a drop detaches.

### 1.6 Analysis of executable files (`NativeAnalyzer.ts`, `R2Helper.ts`, `external/R2Pipe.ts`)

*State.* One helper per file: the radare2 process it started last and a flag for each
list it has read.  A pipe per process: the command that was sent and a stack of those
that wait.  In the project's database: the list of processed files, the record of each
file with its sections, the key points.

*Operations.* `start`, `initDataTypes`, `runCmd` of the helper; `runCmd`, `onres` and
the listeners of the pipe; `discover`, `scan`, `analyzeFunction`, `markAsProcessed`,
`restoreState`; the loop over the executable files while a project opens; the routes
`/analyze`, `/func`, `/funcs`.

*Hard.* The loop is run by two events; every flow that asks for a file shares its
helper, and a discovery replaces the process of the helper under the others; waiting
commands are served last in, first out; the flag of a list is not the list; answers are
cut by a parser of chunks, or wrong; processes die.

*Correct when.* A command is sent to a process that has analysed its file, one at a
time, and its answer reaches who asked; flows end; what is saved of a file was read.

### 1.7 Parts that are not modelled

| part | why |
|---|---|
| sessions (`user/session`) | left out: one session object per request; no component that is modelled shares its state |
| workflows, bus | sequential in one event loop; progress is reported and not read back, and an event that starts something that is modelled is an action there |
| what a scan does (`audit/common`, after the queue) | data analysis of one project; that its balance check is not awaited is in `Credits` |
| parsers, disassembly, search, hooks, devices, fuzzing | sequential processing of one application, or driven by Frida and adb, whose state is elsewhere |
| authentication, access control | decision functions over large configurations; the models assume a caller who may call the route |
| web servers, terminals, uploads, installation, external tools, connectors | input and output |
| the object mapper | a package outside the repository, taken as a store of records whose single reads and updates are atomic and whose `$set` updates change the named fields of an existing record |

The analysis code is by far the larger part of the repository: of its more than 200,000
lines the modules stand for a few thousand, those in which several requests, processes
or threads change shared state.  `PROJECT.json` lists each part with its reason.

## 2. Plan

Done, in this order: the waiting queue with its proofs; format detection, with its
proofs; allocation, start and registration of slaves, with proofs; their refresh and end;
credits, with proofs; members of organizations, with proofs; the analysis of executable files, with
proofs.

Left, in this order:

1. Proofs about `NodeRefresh`: what a signal of the refresh may hit.
2. `ScanAdmission`: balance, order and node in front of `OrderQueue`, composing
   `Credits` with it.
3. Dynamic analysis: the sessions of Frida over `NativeDiscovery`'s files, once the
   bridge to a device has a model.

## 3. Modules

| module | models | abstracts |
|---|---|---|
| `OrderBook` | what a queue promises: orders are handed out first in first out, one at a time, once each | - |
| `OrderQueue` | the queue of one node, with all handles of its record | what an order contains; one node |
| `MCOrderQueue` | values of its constants | |
| `OrderQueueProofs` | theorems about `OrderQueue`, the refinement of `OrderBook` among them | |
| `FileSurvey` | what a detection promises | - |
| `DetectorPool` | detector, scheduler, workers | what binwalk finds: success or failure |
| `MCDetectorPool` | extends it for its runs | |
| `DetectorPoolProofs` | theorems about `DetectorPool`, the refinement of `FileSurvey` among them | |
| `NodePool` | allocation, start, registration, end of slaves | purposes, owners, organization limits, times; pairs of ports are one port |
| `MCNodePool` | values of its constants | |
| `NodePoolProofs` | theorems about `NodePool` | |
| `NodePoolSerialProofs` | theorems about `NodePool` when nothing overlaps | |
| `NodeRefresh` | EXTENDS `NodePool`: refresh of the pool, kill and stop of slaves, restart of the master | clocks: whether a node is old or idles for too long is a choice |
| `MCNodeRefresh` | values of its constants | |
| `NodeRefreshProofs` | theorems about `NodeRefresh`, from those about `NodePool` | |
| `Credits` | the plan of one organization, purchases, activations, the check of a scan | prices and products: a credit is a product and a type |
| `MCCredits` | values of its constants | |
| `CreditsProofs` | theorems about `Credits` | |
| `OrgMembers` | one organization, its list and the memberships of accounts | roles, which groups, mails; of links, whether one works |
| `MCOrgMembers` | values of its constants | |
| `OrgMembersProofs` | theorems about `OrgMembers` | |
| `NativeDiscovery` | pipes, helpers, discoveries and requests about executable files | what radare2 answers: whole, empty, a text that is resolved, or a rejection; of a list, whether it is empty |
| `MCNativeDiscovery` | values of its constants | |
| `NativeDiscoveryProofs` | theorems about `NativeDiscovery` | |

Operators whose comment begins with "Mutant of" are deliberate mistakes, used to
test that a property can fail; no specification uses them.

### 3.1 OrderQueue

`db` is the record, `node[h]` the handle of request or registration `h`.
`pc` is the position of a request: `Load` (search of a node), `Claim`, `SaveAll`
(assignment), `Push` and `SaveQueue` (the two halves of `appendToQueue`, with an
await between), `Resume`, `Start`, `Poll`.  A registration is `RegRead`,
`RegSaveAll`, `RegEvent`, `RegUpdate`.  Each time `operation$` is triggered on a
handle that is ready a *chain* starts: `DrainEmpty`, `Shift`, `SaveShift`, then
one of `ExecOpen`, `ExecProject`, `ExecScan` and its end.  The `Slave...` actions
are the slave's side: opening the project, then its own loop over the webhook.
`SpawnsLocally` chooses between spawning a process and scaling a stateful set;
`OrmBindsEngine` chooses whether an object read from the database already holds
its engine, which the mapper, not the repository, decides.

### 3.2 DetectorPool

One action per turn of an event loop: `Spawn` (an iteration of the setup loop,
the last one queues all the files), `Retry` (a timer of a delayed file), `Listen`
(a result reaches the scheduler), `End` (the timer of the end), `Analyse` (a
worker), `Crash`, and in the engine `Hear` and `Exit`.  A retry that finds no free
worker changes nothing and is a stutter.

### 3.3 NodePool

`req[r]` is the position and the handle of a request, one action per await:
`Ready`, `FreeFound`, `FreeNone`, `Claim`, `Assign`, `Quota`, `GetPorts`, `Insert`,
`Start`; then `Poll` (the `/open` route) and the execution of its order, `Work` and
`Finish`, which here only move the state of the record.  `proc[p]` is a process:
`Listen`, `PortInUse`, `Die`, with `Closed`, what the listener of the parent writes
back.  `reg[<<p, k>>]` is the handler of the k-th registration of `p`.  The handle
of a node that `createFreeNode()` made writes itself on each change of its state
(`RegState`); the handle of a record that was read does not.  `Overlap = FALSE`
restricts requests and registrations to one at a time: these runs show what the
pool promises, and the others which promises do not survive interleaving.

### 3.4 NodeRefresh

The refresh is one process, `ref`: it reads all records (`ReadList`), then the list of
processes (`ReadPs`, which also visits all records that need no await), then visits
the records that need one in order: `Keep`, `Free` (the kill is started and not
awaited), `Unhealthy` and `Down`, `Flush` and `FlushRemoves`.  `GoesOn` is what stands
after the last visit: the comparison of the two numbers, and the signals.  What it
knows of a record is `ref.list[n]`, as it was at the beginning.  `kill[n]` is one
`kill()` of a node, whoever asked: `SlaveStops` and `SlaveExits` are the slave's
`exit()`, which ends the process before the route has answered, so that `kill()`
always goes on through the error (`NoAnswer`, or an answer that never comes), then
`KillArchives`, `KillRemoves`.  `RefreshInit` is a master that starts again while
slaves of an earlier run are there.

### 3.5 Credits

`db` is the field in the record, `plan[f]` the one in the object of request `f`.  A
request is `Read`, a change of its object (`BuyChange`, `SubChange`, `ScanChange`), and a
write of the whole field (`BuyUpdate`, `ActUpdate`) that may fail.  A scan starts and
ends by itself (`ScanStart`, `ScanEnd`) while its check goes on (`VerifyRead`,
`VerifyCreate`, `VerifyPass`, `VerifyRefuse`).  `Tick` is time.  `overlap` is a history
variable: the requests that were not alone between read and write.  Quantities are whole
numbers of any sign, in a unit of which a subscription costs `Credit`: with `Credit` 2,
a quantity of 3 is one and a half.

### 3.6 OrgMembers

`members` is the list, `acc[a]` an account with its membership, `req[r]` a running
request with its position, its copy of the account and its copy of the list.  Creation
is `SaveAccount`, `AddMembership`, `ListMember`, `MailLink`; an invitation skips the two
in the middle; a link is `Read`, `UseLink`, `ActivateByLink`; a drop is `Read`,
`DropMembership`, `DropMember`; the others read and save.  `Accepts` is what each asks
of the account it reads.  `Stop` is the end of the engine: no request goes on.  `past`
remembers which creations and drops ended and which accounts a stop or a change of
groups left half done.  `inviteUsers()` makes a membership without a list of groups,
so that `updateOrgGrpMembers()` throws about it in a promise nobody waits for: the
guard `x.ms.groups`.

### 3.7 NativeDiscovery

`pipe[i]` is the i-th process: `cur` the command that was sent, `wait` the stack,
`up` and `ready` (it analysed the file).  `helper[f]` names the process the helper of
`f` started last, and its flags.  `flow[x]` is a flow with the steps it has left: a
list of commands and writes, made when it begins (`Script`) and changed by what the
answers say (`After`).  `Resume` is what runs between two awaits: it skips what the
flags and a dead process make the code skip, and ends with the next command sent or
kept, with a write, or with the end of the flow.  `Answer(i)` is the listener of the
pipe: the next command is sent before the flow that was answered goes on.  A flow in a
loop then goes on with `LookUpKey` and `MakeKey`.  `Stop` ends the engine: the helpers
are gone, the database stays.  `DueEnabled` says that the two conditions that stand
for ENABLED in the fairness are what they stand for; TLC checked it on two flows.

What becomes of an answer is one of four outcomes.  JSON is resolved ("whole"), and so
is the empty text that is left when a chunk starts with the bytes that end an answer
("cut") and a text of several lines without an error ("text"); any other text is a
rejection ("bad").  JSON that is no list behaves as one of these, command by command.
A rejection ends the flow and sets no flag.  A resolved answer sets the flag of its list
before it is looked at (`Flagged`); then the flow fails on a text, unless it asked for
the functions, which are none then, or for something that is not looked into (`Fails`).
`past.told` and `past.misread` are history: the files whose helper was given the
sections since the project was opened, and those whose helper took something else for
them.

## 4. Runs

All runs allow the system to stop (`CHECK_DEADLOCK FALSE`): requests are finite and
the last state of a served system has no step.

### 4.1 What holds

| run | bounds | shows |
|---|---|---|
| `FreeSlave` | two requests that adopt one free slave, 2 projects, saves that do nothing | order of every copy of the queue, a scan never before its open, also when orders come back |
| `DrainsEnd` | an open with 2 orders that created the node, a scan bundle, 1 registration, fair | types; drains end, the opener is answered |
| `OneRequest` | one open with 6 orders, fair | the queue refines `OrderBook`; nothing lost, refused or forgotten |
| `Detect` | 4 files, 3 workers, failures of start, file and worker, fair | no file twice or lost, no early end; the threads refine `FileSurvey`; when all workers started and none dies the observer is told |
| `Pool` | 2 requests, 3 processes (1 started by hand), 4 records, limit 2 | records that are ready have the address of a process that registered as them, and no two the same one |
| `PoolSerial` | 3 requests, limit 2, one at a time | one slave per record, limit, ports |
| `PoolRetry` | 1 request, 2 processes (1 started by hand) that ask twice, 1 death, 5 records, fair | every process registered unless it ends, the request served unless its slave ends |
| `Refresh` | 1 slave of an earlier run, 1 request with its slave, 1 death, 1 node that users stop and that grows old, fair | records of dead slaves are archived, idle slaves freed, untracked processes killed |
| `Credits` | 2 purchases (1.5 credits and -0.5 credits), 3 activations, 1 scan, one application, 3 moments, failing writes | no copy of the plan out of balance, paid with what nobody added, or with two valid subscriptions; without overlap each request is one atomic step whose effect stays |
| `Members` | 6 requests, 2 at a time, 2 accounts (1 a member), 1 stop of the engine | created members stay listed, inactive ones have a link, locks and drops are undone only by what had read the account before |
| `Native` | 1 file, the 2 loops and a user who disassembles a function, every kind of wrong answer, 1 process that dies or 1 stop, fair | pipes consistent, sections lost only to who was overtaken or whose helper took something else for them, flows end |

Why the bounds are enough.  The interferences of the queue need two handles and
two orders: three handles are there, and the six orders of `OneRequest` let the queue
grow and shrink.  A worker pool needs one more file than workers for the timers,
and two workers for a race; 4 and 3 give both.  In the pool of nodes, an
interference is between two requests, two registrations, or a request and a
registration, and the third process of `Pool` is one nobody asked for.
`ReachableWhenIdle` and `AddressesDistinct` except nodes whose own process ended, or a
process that registered as them: the `close` listener writes the port of the creation
back, over the address of another process that may have registered as this node (the
write back itself is `Closed`).

The refresh errs about a node that changed after the list was read: one node of an
earlier run that dies, stops or grows old, and one that is being started, give each
such change, and 2 processes on 2 records each way for the two numbers to differ.
An activation can be undone by a purchase or pay what another one pays: three
activations (two alike, one of another type) and two purchases hold both, over a clock
that lets the first subscription expire; one and a half credits and half a credit less
have the balance drop below zero both ways, by a purchase and by the last subscription;
1.1 million states.  Two members' requests at
a time give each pair of reads and writes; six in all let an account be created,
linked, locked, dropped and brought back; 1.1 million states.  In `Members` one request
slot creates members, the other does not (`OneCreator`): see `ListedStays` below.
Flows of two files share nothing but the database, so one file is enough in `Native`,
and three flows on it put two commands on the stack of a process, one of them about a
process that another flow has replaced; 510,000 states.  `MaxFaults` bounds the deaths
and stops together.

`Stoppable`, `Aging`, `Known` and `MaxDeaths` bound the nodes that users stop, that
grow old, and that the restarted master knows; `MaxTime` bounds the clock of `Credits`,
`MaxStarts` and `MaxStops` the requests and the stops in `OrgMembers`.
`MaxNodes`, `MaxProcs`, `Tries` and `MaxDeaths` bound the records, processes,
registrations and deaths of `NodePool`, in the guards of `Insert`, `RegCreate`, `Start`,
`Asks` and `Die`.  `MaxRuns` is where `OrderQueue` stops counting the executions of an
order; no property looks above 2.

### 4.2 What does not hold

One run checks a statement of the code's own comments against the model of the
code; TLC's trace is the schedule that breaks it.  `PROJECT.json` quotes the
statement under "findings".

| run | schedule |
|---|---|
| `DropDetaches` | a drop takes the account off the list of its handle, and saves `_members`, a property that organizations do not have |

The modules state more properties that the code does not keep.  They have no run of
their own; the constants below give one.  The constants that are not named are

* in `OrderQueue` those of `DrainsEnd`, with `SameProject` unless stated;
* in `DetectorPool` `FileCount` 2, `PoolSize` 2, `MaySpawnFail` and `MayCrash` FALSE;
* in `NodePool` two "plain" requests for two projects, `MaxNodes` 2, `MaxProcs` 2,
  `Outside` 0, `Tries` 1, `MaxSlaves` 2, `Overlap` TRUE, `MaxDeaths` 0;
* in `NodeRefresh` `PlainOne`, `MaxNodes` 3, `MaxProcs` 2, `Outside` 1, `Known` 1,
  `Tries` 1, `MaxSlaves` 2, `Overlap` TRUE, `MaxDeaths` 1, `Stoppable` {}, `Aging` {2};
* in `Credits` those of `Credits`, in `OrgMembers` those of `DropDetaches`;
* in `NativeDiscovery` those of `Native`, with `MaxFaults` 0 unless stated.

| property | constants | schedule |
|---|---|---|
| `NothingLost` | one `"open"` of 2 orders that created the node, 1 registration, `Spare` TRUE | the registration writes back the queue it read before an order was appended |
| `ExecutedOnce` | `DrainsEnd` | master and slave both read the queue, then both shift it |
| `NoneRefused` | `DrainsEnd` | a scan is drained from a handle that says IDLE before the project is open; the refusal comes with status 200 and counts as success |
| `EveryOrderExecuted` | `AdoptBundleKind`, `BatchOneOne`, no `Regs`, `Creator` and `Assigned` None | an order is saved after the slave last asked, through a handle that says BUSY: nobody drains the queue |
| `ReadyMeansOpened` | as for `NothingLost`, `Spare` FALSE | `/open` sees the IDLE of the registration |
| `SlaveAnswers` | `AdoptOpenKind`, else as `EveryOrderExecuted` | a second open of an open project waits for a listener that was not installed |
| `RightProject` | `AdoptAdoptKind`, `TwoProjects`, else as `EveryOrderExecuted` | two requests read one free slave |
| `DrainsEnd` | `AdoptKind`, one request, `OrmBindsEngine` FALSE | the order handed to the slave is not removed when the mapper does not set the private engine field |
| `ObserverTold` | `FileCount` 0, fair | no file: no result ever triggers the test for the end |
| `ObserverTold` | `MaySpawnFail` TRUE, fair | 1 of 2 workers starts: the free workers never number 2 |
| `ObserverToldAll` | `MaySpawnFail` TRUE | no worker: exit code 0 and an empty list |
| `QuotaKept` | both "unit", `MaxSlaves` 1 | two requests check the limit before either slave is saved as running |
| `QuotaKept` | both "order", `MaxSlaves` 1, no `Overlap` | requests that create projects are never checked |
| `OneProcessPerNode` | as above | two registrations read the newest waiting record before either has taken it |
| `PortsDistinct` | as above | two requests read the process list before either starts its process |
| `EveryRequestServed` | as above, fair | two requests got one port; the process that is left registered as the record of the other one, the own record waits forever |
| `EveryRequestServed` | those of `PoolSerial`, `MaxDeaths` 1, fair | process 1 registers as node 2 and dies: its listener stops node 1, and the process of node 2 finds no record that waits when it asks |
| `AddressesDistinct` | `PlainOne`, 3 records, `Outside` 1, `Tries` 2, no `Overlap` | the second registration of a slave creates a second record with its address |
| `ToldMeansReady` | as above | the process ends with EADDRINUSE, the record is STOPPED, the poll answers ready |
| `StoppedMeansDead` | `MaxDeaths` 1, no `Overlap` | process 1 registered as node 2 and the reverse; process 1 dies, node 1 is stopped |
| `WorkSpared` | as above | the list says that a slave idles; it gets an order; it is killed for idling |
| `StopsOwnSlave` | as above | the port of the record is the address of another slave by now |
| `HangupSparesWork` | `OrderOne` | a slave that works answers its health check too late; its record is archived, and it is signalled as a process that no kept record names |
| `IdleStampMeansIdle` | `OrderOne` | a slave that creates a project saves its state without the time since which it idles |
| `NoDebt` | as above | a purchase of a negative quantity: the route of the web interface passes it on, although the schema next to it (`webapi/mkplace.web.api.ts:214`) has a minimum of 1 |
| `NoDebt` | as above, quantities 3 and 1 | half a credit is left, and more than zero is enough for a subscription |
| `SavedStays` | as above | two requests read the plan, the second write erases what the first one saved |
| `SuccessMeansSaved` | as above | the update fails, and `buyProduct()` does not look at its result |
| `ScanPaid` | as above | a scan ends before its check has an answer |
| `BuyMakesPlan` | as above | without a plan a purchase throws; only the check of a scan makes one |
| `MembersListed` | as above | a user who was invited has a membership and is never put on the list, so that nobody can lock or drop him |
| `UnlockWorks` | as above | `getAccount()` shows a member to a manager only while the member is not locked |
| `LockHolds` | as above | what read the account before the lock saves it afterwards |
| `DropHolds` | as above | a lock that read the account before the drop writes its membership back |
| `ListedStays` | `TwoCreators`, 3 accounts | two creations each write the list they read |
| `Activatable`, `DropStands`, `LockStands` | `ServerAdmin` TRUE | a member who was dropped is still listed; a lock by an administrator makes a new membership for him |
| `SectionsStay` | two loops | both discover the file; the second one is given an empty list of sections, because the first one set the flag, and saves it |
| `EmptyIfToldAnother` | a loop and a scan of the segments | the list of segments sets the flag of the sections |
| `EmptyMeansTold` | two loops, an outcome "text" | the flag is set before the text is looked at: the flow that asked fails, the other one is given an empty list and saves it, and nobody read the sections |
| `EmptyMeansTold` | an outcome "cut" | a chunk that starts with the bytes that end an answer is taken for an empty list |
| `ReadyMeansRead` | a loop and a scan of the segments, or an outcome "text" or "cut" | the same: `isReadyFor()` says that the sections were listed |
| `ProcessedSaved` | `MaxFaults` 1 | the engine stops between the mark and the record of a file |
| `NoneLeft` | as above | `start()` replaces the process of a helper, and nobody ends the old one |
| `LoopsEnd` | two loops, fair | both discover the file; the second one looks for a key point name that is not taken, asks for the same name each time and never ends |
| `AllEnd` | `MaxFaults` 1, fair | a process dies: the commands it had are never settled |

`ListedStays` and `DropDetaches` explain each other: `ListedStays` holds with one creator only
because a drop does *not* write its list.  Saving `members` instead of `_members`
repairs `DropDetaches` and breaks `ListedStays`, since the list of the drop's handle
may be older than a creation; that repair is the mutant of `ListedStays`.

`Activatable` makes exceptions of accounts that a stop left half done (the link is
spent before the membership is activated) and of those to which a change of groups
wrote an inactive membership back.

## 5. Fairness

Weak fairness of every step of a request, a handler, a thread or a timer: the event
loops go on, `await`ed database operations return, timers fire.  Failures (a lost
request, a crash, a death) are never forced.  In `NodePool` the *last* registration
of a process is answered in the end, earlier answers may be late forever; a process
in the code asks without limit, `Tries` bounds that.  In `OrderQueue` the handler that
waits for a slave's answer has no fairness of its own: whether an answer comes is what
`SlaveAnswers` asks.  In `NodeRefresh` the controller goes on for ever, kills that were
asked for go on, signals arrive; whether a node idles for too long is asked in each
refresh, and a node of which the refresh finds again and again that it idles does so
for too long in one of them: strong fairness of `Free(n)`, since the question is only
asked while the refresh visits the node.  In `NativeDiscovery` a process
that lives answers, and the database goes on; every flow is finite, so that no flow needs
a fairness of its own.  Nothing is fair in `Credits` and `OrgMembers`.  Fairness is stated per request, process or worker, so that one
actor cannot be starved by another, as the queue of an event loop guarantees.

## 6. Proofs

`OrderQueueProofs` proves, for all sets of requests, registrations and projects, all
batch sizes and both values of every switch, from the assumptions in `OrderQueue` only:

* `TypeCorrect`: `Spec => []TypeOK`.
* `QueueInvariantHolds`: `Spec => []QueueInvariant`.
* `QueueStaysOrdered`, `HandedOutInOrder`: the two properties users care about follow.

`QueueOrdered` is not inductive: that a save leaves the record ordered depends on the
handle that is saved, and that a handle stays ordered when it appends depends on its
having no later order already.  `TakenInOrder` is not inductive either: that the head
of a queue may be handed out depends on what stood in front of it.  The invariant
therefore speaks about every copy of the queue that exists (the record, each handle,
and what the master keeps while it answers a slave): it is increasing per request, it
holds nothing that was not appended, and before an order of an `open()` its predecessor
stands in the same copy or was handed out (`Good`).  `Held` adds what suspension gives:
until an `open()` resumes its queue, nothing runs on its handle, which still holds its
last order.  The proof has one lemma per action for the types (`FlowType`, `RegType`,
`DrainType`, `ExecType`, `SlaveType`, ...) and, for the invariant, first shows that each
new copy of the queue is an old copy, the tail of one whose head was taken, or an old
copy with one appended order (`CopiesDerived`), then that `Good` survives these three
(`GoodLater`, `GoodTail`, `GoodAppend`), then `Held`.  TLC checks its two
consequences in `FreeSlave`.

Its last part is about one `open()` that is `Alone` on its node: it created the node, or
found a slave that is free or ready for its project; the process registers once; nothing
fails; and the mapper binds the engine.  The tables above show what happens when one of
these is given up.  It proves `NothingLostHolds`, `NoneRefusedHolds` and the refinement
`KeepsBookHolds`, for any number of orders.  `AloneInvariant` describes the whole course
of such a request.  Of the orders that were saved, some first part was handed out and the
rest waits in order (`QueueSound`).  Until the last one was appended, and the process has
registered, nothing drains, so that whatever writes back a whole record writes the
queue that is there (`FlowSound`, `RegSound`, `Quiet`).  Then one chain runs, and no other
(`Drainer`, `OthersOff`): it hands out the first order, which opens the project, and waits
while the slave takes the others (`ChainSound`, `SlaveSound`).  Each step is then one of
`OrderBook` or invisible (`FlowBook`, `RegBook`, `ChainBook`, `SlaveBook`): saving an
appended order submits it, saving a shortened queue hands an order out, and
`ExecOpen` or `SlaveExec` starts it.

`DetectorPoolProofs` proves, for every number of files and workers and with every
failure, `TypeCorrect`, `PoolConservedHolds`, `FileOnceHolds`, `CountedHolds`,
`ListCompleteHolds` and `KeepsSurveyHolds`.  That a file is reported once is not
inductive: a file may stand in a timer, at a worker, in a message to the scheduler or in
one to the engine.  `PoolInvariant` says that these places are disjoint, that a worker is
on the stack of free workers or busy but not both, that nothing is handed out before
the last worker was started, and that the counter is the number of results that left
the scheduler.  That the counter never passes the number of files
is then a pigeonhole argument (`Pigeons`), and that the list is complete when the end is
detected follows because a counter equal to the number of files leaves no place for
another file (`AllHeard`).  The refinement maps each step to a step of `FileSurvey` or a
stutter, from the same invariant.

`CreditsProofs` proves, for all sets of requests, products, applications and
quantities of any sign, `TypeCorrect`, `PaidOnceHolds`,
`AloneInvariantHolds`, `NoLossHolds` and `AtomicWhenAloneHolds`.  `PaidOnce` is inductive
because it speaks about every copy of the plan: a copy only changes by a subscription
that its own request found missing (`CopiesGrow`), and time only makes subscriptions
expire (`ExpiredStays`).  `NoLoss` needs `AloneInvariant`: two requests between read and
write know of each other, one that is alone there holds what the record holds, and each
holds what was saved before it read.  `BalancedHolds` says that in every copy of the plan
what was bought is what was spent and what is left, which may be less than nothing;
`FundedHolds` that subscriptions cost less than one credit more than purchases added, so
that only a purchase takes a balance below what a fraction of a credit explains.
`BalanceInvariant` adds that what was bought is at most what was added, and that a copy
names only requests that changed one.  The sums of `Balanced` are defined by recursion on
a set from which an element is chosen: that such a sum is well defined, and does not
depend on the choice, is shown from a least counterexample in the natural numbers.

`OrgMembersProofs` proves, for all accounts and requests and any number of stops,
`Strengthening`, `TypeCorrect`, `DropStandsHolds`, `LockStandsHolds`; `ListedStaysHolds`
when one request slot creates members; `ActivatableHolds` when the managers do not
administrate the server.  `MembersInv` says that an account that does not exist is
named by its creation only, that a new account belongs to its creation until that
ends, and that a manager who saves holds the copy of an active member.  `Effect(r)`
states what any step of a request that runs does to the variables, so that each proof
has four cases (a request begins, goes on, the engine stops, nothing) instead of one per
action.  `ListedStays` rests on `ListInv` (the list that the running creation read
is the list of the record), `Activatable` on `LinkInv` (an inactive
membership has a link or a request that will mail one or activate it).

`NativeDiscoveryProofs` proves, for any files, flows, answers and number of faults,
`TypeCorrect` and `PipesConsistentHolds`; `EmptyIfToldAnotherHolds`, for any answers too,
when only discoveries ask for the segments of a file (`OnlyDiscoveries`); and
`ReadyMeansReadHolds` when moreover each answer that is no list is rejected
(`WholeAnswers`).  The table in section 4 shows how each of the two properties fails
without its conditions.  `PipesConsistent` is not inductive: that the
flow whose answer arrives is still the one the process was sent depends on no other
pipe holding it, and that a fresh process is sent nothing before its analysis depends on
what the flow it holds does next.  `PipeInvariant` adds that the commands a pipe
keeps are of different flows, that a pipe holds only flows that await it, that a flow
that writes or looks awaits none, and that a process which has not analysed its file
holds the flow that has it do so.  Nearly every action ends with its flow going on to
its next await: `ResumeSound` shows once that this keeps the invariant for a flow that no
pipe holds, `AnsweredSound` that the flow which was just answered is such a flow.
`ReadInvariant` follows what a discovery has read: the flag of the sections is set by an
answer to the command that lists them only, whether it was a list or was taken for one
(`Known`); a flow that is past that command got such an answer or was told that another
flow did; and an empty list is saved in these cases only.

`NodePoolProofs` proves, for all requests, processes, registrations and deaths,
`TypeCorrect` and `ReachableWhenIdleHolds`; and `AddressesDistinctHolds` when each process
registers once (`Tries = 1`): a process that asks again may become two nodes at one
address.  Any handler may write back a copy of a record that it read long ago, address
included.  `PoolInvariant` therefore says of every copy that may be saved (the record, the
handle of a request, the handle of a registration) that its address belongs to a
process that registered as this node, unless such a process ended (`NodeSound`,
`ReqSound`, `RegSound`); and of processes that one listens at a port and that the port of
a process is at most its position (`ProcSound`), which bounds the port that the
next one is given.  `RegWrites` shows once that a registration which saves its copy keeps
the invariant; `LeastOfSet` and `GreatestOfSet` give the highest port, from the
well-foundedness of the natural numbers.  The invariant allows for records that were
removed, so that `NodeRefreshProofs` can rest on it.

`NodePoolSerialProofs` proves what the pool would keep if requests and registrations were
handled one after the other (`Overlap` FALSE): `PortsDistinctHolds`,
`OneProcessPerNodeHolds`, and `QuotaKeptHolds` when moreover no process registers from
outside (`Outside = 0`) or twice (`Tries = 1`), none dies (`MaxDeaths = 0`), and each
request is one that the limit is checked for (`QuotaApplies`).  `SerialInvariant` adds to
the one above that at most one search or registration is under way (`OneAtATime`), that a
port which was given away is still free when its process starts (`OwnPorts`), and that
a registration has a node of its own (`OwnNodes`).  For the quota `OwnSlaves`
says that the slaves which count are those that were started: the records that run are
those for which a process was spawned, and as long as a process has not asked, one of them
waits, so that no registration makes a record of its own (`SomeWaits`, a pigeonhole
argument).

`NodeRefreshProofs` proves, for all choices of which nodes are old, idle or stopped and
whatever slaves an earlier run of the master left, `RefreshTypeCorrect`, `ReachableWhenIdleKept`, and
`AddressesDistinctKept` when `Tries = 1`: refreshing, killing and hanging up breaks none of
what `NodePoolProofs` establishes.  `RInv` is the invariant of the pool and
`RefreshInvariant`, which says that a list was read from records that exist, that
what is kept of it is not visited again, and that a kill is one of a node that was
created.  `RecordLeaves` shows once that archiving or removing a record keeps the
invariant of the pool, `EndsSound` that the end of any process does, `PoolKept` that a
step which touches neither does; a step of `NodePool` keeps it by `NodePoolProofs`.

Model-checked only is liveness, which TLAPS cannot prove: `DrainsEnd`, `OpenAnswered`,
`EveryOrderExecuted`, `ToldWhenPoolFull`, `EveryRequestServed`, `EveryProcessRegistered`,
`DeadArchived`, `IdleFreed`, `GhostsKilled` and `EveryFlowEnds`.  Every other property of a
run that passes is a theorem, under the conditions given here where there are any.

## 7. Left out of the modelled parts

* `OrderQueue`: web requests forwarded through the queue, and the branch of `startScan`
  for a node that is not ready, which its caller excludes.
* `NodePool`, `NodeRefresh`: purposes, owners, the quota of an organization, Kubernetes,
  nodes that do not register themselves, and two refreshes at the same time, which
  `setInterval` allows when one takes longer than the interval.
* `Credits`: the quota of nodes that a plan carries, the deprecated routes, an
  organization that an administrator creates with a plan, and quantities that are no
  number (after which no balance of that product is above zero any more).
* `OrgMembers`: what roles and groups contain, the uniqueness of a username (checked,
  then written), passwords, the expiry of a link, a mail that fails, other
  organizations of the same account.
* `NativeDiscovery`: pipes to a remote radare2, emulation, cross references, tags, what the
  application analyzer does with strings and system calls, and the chunk of a single zero
  byte, after which a command is never answered (as if its process had died).
* Read on the way and not modelled: `updateOrganization()` never copies the changes it is
  given; `updateApplication()` (`organization/OrganizationManager.ts:718`) puts the list of
  names into a list; `_isUnitFree()` is not awaited
  (`organization/OrganizationManager.ts:534`, `651`), so that its test always succeeds.
