---------------------------- MODULE DetectorPool ----------------------------
(***************************************************************************)
(* Detection of the format of a list of files by a pool of binwalk         *)
(* workers.  Three kinds of threads exchange messages and share nothing:   *)
(*                                                                         *)
(*   detector   FileFormatDetector.analyzeFolder() / analyzeFiles(), in    *)
(*              the main thread of the engine: starts the scheduler,       *)
(*              collects the results, gives the list to its observer       *)
(*   scheduler  workers/scheduler.ts: starts the workers, hands the files  *)
(*              out, detects the end and exits                             *)
(*   worker     workers/binwalkDetect.ts: analyses the files it is posted  *)
(*                                                                         *)
(* A step is one turn of the event loop of one of them.                    *)
(***************************************************************************)
EXTENDS Naturals, Sequences, FiniteSets

CONSTANTS
  FileCount,    \* the length of the list of files
  PoolSize,     \* the number of workers the scheduler tries to start
  None,         \* "null"
  MaySpawnFail, \* a worker thread may not start
  MayCrash      \* a worker thread may die of an uncaught error

ASSUME PoolAssumption ==
  /\ FileCount \in Nat
  /\ PoolSize \in Nat \ {0}
  /\ MaySpawnFail \in BOOLEAN
  /\ MayCrash \in BOOLEAN

Files   == 1..FileCount      \* a file is its position in the list
Workers == 1..PoolSize       \* a worker is its position in the pool
Result  == [file: Files, success: BOOLEAN]

ASSUME NoneAssumption == None \notin Files \cup Result \cup {0, 1}

VARIABLES
  setup,     \* how many workers the scheduler has tried to start
  free,      \* freeWorker: the stack of the workers without a file
  hand,      \* hand[w]: the file posted to w that it has not analysed
  result,    \* result[w]: the result of w the scheduler has not read
  delayed,   \* the files that wait for setTimeout() to be queued again
  processed, \* fileProcessed
  ending,    \* the timer of the end detection is set
  outbox,    \* results the detector has not read
  exit,      \* how the scheduler thread ended: 0, 1, or None
  heard,     \* the results the detector read, in order
  told,      \* the observer was given the list of the files
  up         \* the process of the engine runs

vars == <<setup, free, hand, result, delayed, processed, ending, outbox, exit,
          heard, told, up>>

TypeOK ==
  /\ setup \in 0..PoolSize
  /\ free \in Seq(Workers)
  /\ hand \in [Workers -> Files \cup {None}]
  /\ result \in [Workers -> Result \cup {None}]
  /\ delayed \in SUBSET Files
  /\ processed \in Nat
  /\ ending \in BOOLEAN
  /\ outbox \in Seq(Result)
  /\ exit \in {0, 1, None}
  /\ heard \in Seq(Result)
  /\ told \in BOOLEAN
  /\ up \in BOOLEAN

Last(s) == s[Len(s)]
Front(s) == SubSeq(s, 1, Len(s) - 1)

Running == up /\ exit = None

InHand     == {w \in Workers : hand[w] # None}
WithResult == {w \in Workers : result[w] # None}
OnStack    == {free[i] : i \in DOMAIN free}
Started    == OnStack \cup InHand \cup WithResult

-----------------------------------------------------------------------------
(* The scheduler.                                                          *)

\* Mutant of HandOutAll: off by one.
HandOutAllOffByOne(stack) ==
  LET n == Len(stack) IN
  /\ free' = SubSeq(stack, 1, IF n > FileCount THEN n - FileCount ELSE 0)
  /\ hand' = [w \in Workers |->
                IF \E i \in 1..n : stack[i] = w /\ n + 1 - i <= FileCount
                THEN n - CHOOSE i \in 1..n : stack[i] = w
                ELSE None]
  /\ delayed' = {f \in Files : f > n}

\* queue.next() of all the files in one turn: the first ones go to the workers
\* on the stack, from its top, the others wait for a timer.
HandOutAll(stack) ==
  LET n == Len(stack) IN
  /\ free' = SubSeq(stack, 1, IF n > FileCount THEN n - FileCount ELSE 0)
  /\ hand' = [w \in Workers |->
                IF \E i \in 1..n : stack[i] = w /\ n + 1 - i <= FileCount
                THEN n + 1 - CHOOSE i \in 1..n : stack[i] = w
                ELSE None]
  /\ delayed' = {f \in Files : f > n}

\* Mutant of Spawn: the files are queued after each worker that starts.
SpawnEachQueues ==
  /\ Running
  /\ setup < PoolSize
  /\ setup' = setup + 1
  /\ HandOutAll(Append(free, setup + 1))
  /\ UNCHANGED <<result, processed, ending, outbox, exit, heard, told, up>>

\* The loop that fills the pool: workers are started one after the other, the
\* files are queued with the last one.
Spawn ==
  /\ Running
  /\ setup < PoolSize
  /\ setup' = setup + 1
  /\ \E started \in IF MaySpawnFail THEN BOOLEAN ELSE {TRUE} :
       LET stack == IF started THEN Append(free, setup + 1) ELSE free IN
       IF setup + 1 = PoolSize /\ stack # << >>
       THEN HandOutAll(stack)
       ELSE free' = stack /\ UNCHANGED <<hand, delayed>>
  /\ UNCHANGED <<result, processed, ending, outbox, exit, heard, told, up>>

\* No worker could be started: nothing keeps the scheduler thread alive.
NothingLeft ==
  /\ Running
  /\ setup = PoolSize
  /\ Started = {}
  /\ exit' = 0
  /\ UNCHANGED <<setup, free, hand, result, delayed, processed, ending, outbox,
                 heard, told, up>>

\* Mutant of Retry: the worker is not taken off the stack.
RetryKeepsFree(f) ==
  /\ Running
  /\ f \in delayed
  /\ free # << >>
  /\ hand' = [hand EXCEPT ![Last(free)] = f]
  /\ delayed' = delayed \ {f}
  /\ UNCHANGED <<setup, free, result, processed, ending, outbox, exit, heard,
                 told, up>>

\* The timer of a delayed file queues it again.  Without a free worker it is
\* delayed again, which changes nothing.
Retry(f) ==
  /\ Running
  /\ f \in delayed
  /\ free # << >>
  /\ hand' = [hand EXCEPT ![Last(free)] = f]
  /\ free' = Front(free)
  /\ delayed' = delayed \ {f}
  /\ UNCHANGED <<setup, result, processed, ending, outbox, exit, heard, told, up>>

\* Mutant of Listen: the end is detected when all files were handed out.
ListenEarlyEnd(w) ==
  /\ Running
  /\ result[w] # None
  /\ processed' = processed + 1
  /\ outbox' = Append(outbox, result[w])
  /\ free' = Append(free, w)
  /\ result' = [result EXCEPT ![w] = None]
  /\ ending' = (ending \/ delayed = {})
  /\ UNCHANGED <<setup, hand, delayed, exit, heard, told, up>>

\* Mutant of Listen: only successes are counted.
ListenCountsSuccess(w) ==
  /\ Running
  /\ result[w] # None
  /\ processed' = IF result[w].success THEN processed + 1 ELSE processed
  /\ outbox' = Append(outbox, result[w])
  /\ free' = Append(free, w)
  /\ result' = [result EXCEPT ![w] = None]
  /\ ending' = (ending \/ (Len(free') = PoolSize /\ processed' = FileCount))
  /\ UNCHANGED <<setup, hand, delayed, exit, heard, told, up>>

\* binwalkMessageListener(): the result is counted and forwarded, the worker is
\* freed, and the end is detected.
Listen(w) ==
  /\ Running
  /\ result[w] # None
  /\ processed' = processed + 1
  /\ outbox' = Append(outbox, result[w])
  /\ free' = Append(free, w)
  /\ result' = [result EXCEPT ![w] = None]
  /\ ending' = (ending \/ (Len(free') = PoolSize /\ processed' = FileCount))
  /\ UNCHANGED <<setup, hand, delayed, exit, heard, told, up>>

\* The timer of the end detection: it lasts longer than what it tests for, so
\* that its test holds.  "complete", which the detector ignores, then exit(0).
End ==
  /\ Running
  /\ ending
  /\ exit' = 0
  /\ UNCHANGED <<setup, free, hand, result, delayed, processed, ending, outbox,
                 heard, told, up>>

-----------------------------------------------------------------------------
(* The workers.                                                            *)

\* The handler of "exec" posts the format of the file, or an error.
Analyse(w) ==
  /\ Running
  /\ hand[w] # None
  /\ hand' = [hand EXCEPT ![w] = None]
  /\ \E ok \in BOOLEAN :
       result' = [result EXCEPT ![w] = [file |-> hand[w], success |-> ok]]
  /\ UNCHANGED <<setup, free, delayed, processed, ending, outbox, exit, heard,
                 told, up>>

\* An uncaught error ends the worker.  Nobody listens to "error": the error is
\* uncaught in the scheduler too, which ends with code 1.
Crash(w) ==
  /\ MayCrash
  /\ Running
  /\ w <= setup
  /\ exit' = 1
  /\ UNCHANGED <<setup, free, hand, result, delayed, processed, ending, outbox,
                 heard, told, up>>

-----------------------------------------------------------------------------
(* The detector.                                                           *)

\* The "message" listener: a success is a ModelFile of the list and an event
\* on the bus, a failure is logged.
Hear ==
  /\ up
  /\ outbox # << >>
  /\ heard' = Append(heard, Head(outbox))
  /\ outbox' = Tail(outbox)
  /\ UNCHANGED <<setup, free, hand, result, delayed, processed, ending, exit,
                 told, up>>

\* The "exit" listener, once all messages were read: the observer is given the
\* list.  The "error" before an exit with code 1 has no listener: the process
\* of the engine ends.
Exit ==
  /\ up /\ ~told
  /\ exit # None
  /\ outbox = << >>
  /\ told' = (exit = 0)
  /\ up' = (exit = 0)
  /\ UNCHANGED <<setup, free, hand, result, delayed, processed, ending, outbox,
                 exit, heard>>

-----------------------------------------------------------------------------
\* queueScheduler() started the scheduler thread.
Init ==
  /\ setup = 0
  /\ free = << >>
  /\ hand = [w \in Workers |-> None]
  /\ result = [w \in Workers |-> None]
  /\ delayed = {}
  /\ processed = 0
  /\ ending = FALSE
  /\ outbox = << >>
  /\ exit = None
  /\ heard = << >>
  /\ told = FALSE
  /\ up = TRUE

Next ==
  \/ Spawn \/ NothingLeft \/ End \/ Hear \/ Exit
  \/ \E f \in Files : Retry(f)
  \/ \E w \in Workers : Analyse(w) \/ Listen(w) \/ Crash(w)

\* Every thread goes on with its event loop and timers fire; a worker never
\* has to crash.
Fairness ==
  /\ WF_vars(Spawn) /\ WF_vars(NothingLeft) /\ WF_vars(End)
  /\ WF_vars(Hear) /\ WF_vars(Exit)
  /\ WF_vars(\E f \in Files : Retry(f))
  /\ \A w \in Workers : WF_vars(Analyse(w)) /\ WF_vars(Listen(w))

Spec     == Init /\ [][Next]_vars
FairSpec == Spec /\ Fairness

-----------------------------------------------------------------------------
(* Properties.                                                             *)

Distinct(s) == \A i, j \in DOMAIN s : i # j => s[i] # s[j]

\* All results that left the scheduler.
Sent        == heard \o outbox
FilesOf(s)  == {s[i].file : i \in DOMAIN s}

\* A worker is on the stack, or has a file, or has a result nobody read, and
\* is never on the stack twice: no file is posted to a worker that is busy.
PoolConserved ==
  /\ Distinct(free)
  /\ OnStack \cap InHand = {}
  /\ OnStack \cap WithResult = {}
  /\ InHand \cap WithResult = {}

\* No file is in two places at once, or twice on its way to the detector: it is
\* delayed, or posted to one worker, or the subject of one result.
FileOnce ==
  /\ \A w \in InHand : hand[w] \notin delayed
  /\ \A w \in WithResult : result[w].file \notin delayed
  /\ FilesOf(Sent) \cap delayed = {}
  /\ \A v, w \in InHand : hand[v] = hand[w] => v = w
  /\ \A v, w \in WithResult : result[v].file = result[w].file => v = w
  /\ \A v \in InHand, w \in WithResult : hand[v] # result[w].file
  /\ \A w \in InHand : hand[w] \notin FilesOf(Sent)
  /\ \A w \in WithResult : result[w].file \notin FilesOf(Sent)
  /\ \A i, j \in DOMAIN Sent : Sent[i].file = Sent[j].file => i = j

\* The counter the end is detected with counts the results that left the
\* scheduler, failures included, so that it never passes the number of files.
Counted == processed = Len(Sent) /\ processed <= FileCount

\* The list the observer is given tells of every file, and of each one once,
\* when a worker could be started: the test of the counter and of the free
\* workers never detects an end that was not reached.
ListComplete ==
  told /\ Started # {} => FilesOf(heard) = Files /\ Len(heard) = FileCount

\* What these properties rest on: workers are used once all were started, a
\* file is counted when its result leaves the scheduler, and the scheduler ends
\* with success when it counted all files or has no worker.
SetUpFirst ==
  /\ Started \subseteq 1..setup
  /\ setup < PoolSize => InHand = {} /\ WithResult = {} /\ delayed = {} /\ Sent = << >>

EndCounted ==
  /\ processed = Len(Sent)
  /\ ending => processed >= FileCount
  /\ exit = 0 => ending \/ Started = {}
  /\ told => exit = 0 /\ outbox = << >>

PoolInvariant == PoolConserved /\ FileOnce /\ SetUpFirst /\ EndCounted

\* The threads together keep the promise of FileSurvey.
Survey == INSTANCE FileSurvey WITH
  report <- [i \in DOMAIN heard |-> heard[i].file],
  closed <- told /\ Started # {}

KeepsSurvey == Survey!Spec

\* The observer is given the format of each file that was to be analysed.
ObserverToldAll == told => FilesOf(heard) = Files

\* When all workers of the pool could be started the end is detected and the
\* observer is told, whatever files fail, unless a worker dies.
ToldWhenPoolFull ==
  (setup = PoolSize /\ Started = Workers) ~> (told \/ ~up)

\* analyzeFolder() tells its observer.
ObserverTold == <>told
=============================================================================
