--------------------------- MODULE NativeDiscovery ---------------------------
(***************************************************************************)
(* The analysis of the executable files of a project with radare2.  The    *)
(* engine keeps one helper per file; a helper talks to the radare2 process *)
(* it started last, through a pipe that sends one command at a time and    *)
(* stacks the others.  The flows that use helpers overlap: the loop over   *)
(* the files that is run by each of two events while a project opens,      *)
(* requests of users that discover a file, scan it or disassemble a        *)
(* function.                                                               *)
(*                                                                         *)
(* A flow goes through a list of steps: commands, that radare2 answers,    *)
(* and writes to the database.  What runs between two awaits is one step.  *)
(* Of a list that radare2 returns the model keeps whether it is empty.     *)
(***************************************************************************)
EXTENDS Integers, FiniteSets, SequencesExt

CONSTANTS
  Files,      \* the executable files of the project
  Order,      \* the order in which they are in the database
  Name,       \* Name[f]: the name its key point is given
  Flows,
  Kind,       \* Kind[x]: what flow x is
  Cmds,       \* Cmds[x]: the commands it runs, unless it discovers
  None,       \* no flow, no file
  Outcomes,   \* what may become of the text that answers a command
  MaxFaults   \* bound: the processes that die, and the times the engine stops

ASSUME OrderAssumption    == Order \in Seq(Files)
ASSUME KindAssumption     == Kind \in [Flows -> {"loop", "web", "func", "scan"}]
ASSUME NoneAssumption     == None \notin Flows \cup Files
ASSUME OutcomesAssumption == Outcomes \subseteq {"whole", "cut", "text", "bad"}
ASSUME BoundsAssumption   == MaxFaults \in Nat

\* "aa" analyses the file, "tj" and "ts" list types; the others list what
\* their name says, or are about one function ("pdf", "afv", "pdc").
Commands == {"aa", "tj", "ts", "f_list", "sections", "segments", "str", "sysc", "pdf", "afv", "pdc"}
Writes   == {"saveFuncs", "mark", "save", "saveStr"}
Lists    == {"f_list", "sections"}

ASSUME CmdsAssumption == Cmds \in [Flows -> Seq(Commands \ {"aa"})]

VARIABLES
  flow,     \* flow[x]: where flow x is
  helper,   \* helper[f]: the process of the helper of file f, and its flags
  pipe,     \* the processes that were started, with their commands
  targets,  \* the files for which no analysis is required
  db,       \* the database of the project
  past      \* history: what helpers were answered about sections; faults

vars == <<flow, helper, pipe, targets, db, past>>

Flow   == [st: {"idle", "look", "work", "key", "make", "done"}, at: Nat,
           file: Files \cup {None}, todo: Seq(Commands \cup Writes),
           secs: {"none", "full", "empty"}, on: Nat]
Pipe   == [cur: Flows \cup {None}, wait: Seq(Flows), up: BOOLEAN, ready: BOOLEAN]
Helper == [pipe: Nat, has: SUBSET Lists]
Db     == [processed: SUBSET Files, secs: [Files -> {"none", "full", "empty"}],
           keys: SUBSET {Name[f] : f \in Files}]
Past   == [told: SUBSET Files, misread: SUBSET Files, faults: Nat]

Idle     == [st |-> "idle", at |-> 0, file |-> None, todo |-> <<>>, secs |-> "none", on |-> 0]
NoHelper == [pipe |-> 0, has |-> {}]

TypeOK ==
  /\ flow \in [Flows -> Flow]
  /\ helper \in [Files -> Helper]
  /\ pipe \in Seq(Pipe)
  /\ targets \in SUBSET Files
  /\ db \in Db
  /\ past \in Past

Init ==
  /\ flow = [x \in Flows |-> Idle]
  /\ helper = [f \in Files |-> NoHelper]
  /\ pipe = <<>>
  /\ targets = {}
  /\ db = [processed |-> {}, secs |-> [f \in Files |-> "none"], keys |-> {}]
  /\ past = [told |-> {}, misread |-> {}, faults |-> 0]

Step(x)      == IF flow[x].todo = <<>> THEN "none" ELSE Head(flow[x].todo)
Discovers(x) == Kind[x] \in {"loop", "web"}

(***************************************************************************)
(* The steps of a flow                                                     *)
(***************************************************************************)

\* start(): a process that analyses the file, and the types of radare2, which
\* are never marked as imported.
Boot == <<"aa", "tj", "ts">>

Discovery == <<"f_list", "sections", "segments", "mark", "save", "str", "sysc">>

\* A file without a helper is started twice: when the helper is made, and by who
\* asked for it.  A discovery starts the helper it finds again.
Script(x, f) ==
  (IF helper[f].pipe = 0 THEN Boot ELSE <<>>)
  \o (IF helper[f].pipe = 0 \/ Discovers(x) THEN Boot ELSE <<>>)
  \o (IF Discovers(x) THEN Discovery ELSE Cmds[x])

\* A list that the helper is flagged to have is not read again: the caller is
\* given an empty one.
Skip(t, has) == IF t # <<>> /\ Head(t) \in has THEN Tail(t) ELSE t

\* initDataTypes() catches what goes wrong, and the start goes on.
SkipTypes(t) ==
  IF t # <<>> /\ Head(t) = "tj" THEN SubSeq(t, 3, Len(t))
  ELSE IF t # <<>> /\ Head(t) = "ts" THEN Tail(t) ELSE t

\* The steps that are left at the next await.  Without a process, runCmd() throws
\* and everybody but initDataTypes() and start() gives up.
Left(t, has, up) ==
  LET u == Skip(Skip(IF up THEN t ELSE SkipTypes(t), has), has)
  IN  IF u # <<>> /\ ~up /\ Head(u) \in Commands \ {"aa"} THEN <<>> ELSE u

\* Mutant of Send: the command is written to the process at once.
SendAtOnce(p, x) == [p EXCEPT !.cur = x]

\* runCmd(): a command is sent when there is no other, else it is kept.
Send(p, x) ==
  IF p.cur = None THEN [p EXCEPT !.cur = x] ELSE [p EXCEPT !.wait = Append(@, x)]

\* open() and the first command, which is sent at once.
Started(x) == [cur |-> x, wait |-> <<>>, up |-> TRUE, ready |-> FALSE]

\* Flow x, whose record is now r, goes on to its next await.  t are the steps it
\* has left, has the flags of the helper, ps the processes.  What it was given of the
\* sections is kept until the record is saved.  (A quantifier over one value has TLC
\* compute the value once.)
Resume(x, r, t, has, ps) ==
  LET f == r.file
      h == helper[f].pipe
  IN  \E left \in {Left(t, has, h # 0 /\ ps[h].up)} :
        LET sent == left # <<>> /\ Head(left) \in Commands
            new  == sent /\ Head(left) = "aa"
            on   == IF new THEN Len(ps) + 1 ELSE IF sent THEN h ELSE 0
            skip == Contains(t, "sections") /\ ~Contains(left, "sections")
        IN  /\ flow' = [flow EXCEPT ![x] =
                 [r EXCEPT !.todo = left, !.on = on,
                           !.secs = IF ~Contains(left, "save") THEN "none"
                                    ELSE IF skip THEN "empty" ELSE @,
                           !.st = IF left # <<>> THEN "work"
                                  ELSE IF Kind[x] = "loop" THEN "key" ELSE "done"]]
            /\ pipe' = IF new THEN Append(ps, Started(x))
                       ELSE IF sent THEN [ps EXCEPT ![h] = Send(@, x)] ELSE ps
            /\ helper' = [helper EXCEPT ![f] = [pipe |-> IF new THEN on ELSE h, has |-> has]]

(***************************************************************************)
(* The loops over the files                                                *)
(***************************************************************************)

\* An event starts a loop.  The list it reads has the files, or they are not in
\* the database yet.
Event(x) ==
  /\ Kind[x] = "loop" /\ flow[x].st = "idle"
  /\ \E st \in {"look", "done"} : flow' = [flow EXCEPT ![x].st = st, ![x].at = 1]
  /\ UNCHANGED <<helper, pipe, targets, db, past>>

\* markAsProcessed() puts the file on the list in memory before it saves it.
Analyzed(f) ==
  f \in db.processed \/ \E y \in Flows : flow[y].file = f /\ Step(y) = "mark"

\* The next file: it is skipped if it has been analysed, else discovered.
Look(x) ==
  /\ flow[x].st = "look"
  /\ IF flow[x].at > Len(Order)
       THEN /\ flow' = [flow EXCEPT ![x].st = "done"]
            /\ UNCHANGED <<helper, pipe>>
       ELSE LET f == Order[flow[x].at]
            IN  IF Analyzed(f)
                  THEN /\ flow' = [flow EXCEPT ![x].at = @ + 1]
                       /\ UNCHANGED <<helper, pipe>>
                  ELSE Resume(x, [flow[x] EXCEPT !.file = f, !.secs = "none"],
                              Script(x, f), helper[f].has, pipe)
  /\ UNCHANGED <<targets, db, past>>

\* The name of the key point is looked up, the same one again as long as there is
\* a key point of this name.
LookUpKey(x) ==
  /\ flow[x].st = "key"
  /\ Name[flow[x].file] \notin db.keys
  /\ flow' = [flow EXCEPT ![x].st = "make"]
  /\ UNCHANGED <<helper, pipe, targets, db, past>>

MakeKey(x) ==
  /\ flow[x].st = "make"
  /\ db' = [db EXCEPT !.keys = @ \cup {Name[flow[x].file]}]
  /\ flow' = [flow EXCEPT ![x].st = "look", ![x].at = @ + 1, ![x].file = None]
  /\ UNCHANGED <<helper, pipe, targets, past>>

(***************************************************************************)
(* The requests of users                                                   *)
(***************************************************************************)

\* A request for a discovery may be forced, a function is always disassembled;
\* a scan is made when it is required.
Request(x, f) ==
  /\ Kind[x] # "loop" /\ flow[x].st = "idle"
  /\ Kind[x] = "scan" => f \notin targets
  /\ Resume(x, [flow[x] EXCEPT !.file = f], Script(x, f), helper[f].has, pipe)
  /\ UNCHANGED <<targets, db, past>>

(***************************************************************************)
(* The answers of radare2                                                  *)
(***************************************************************************)

\* An answer is handed over whole; or, when a chunk of it starts with the bytes that
\* end it, as an empty text; or it is not JSON: a text of several lines without an
\* error is handed over as it is ("text"), any other one is a rejection ("bad").
\* What is JSON and no list does what one of these does.  Nobody reads what "aa" says.
Outcome(c) == IF c = "aa" THEN {"whole"} ELSE Outcomes

\* An empty text is no list of types and no function, but it is an empty list.  Who
\* goes through the elements of a text throws, except for the list of functions,
\* which is empty then; the others do not look at it, or find nothing in it.
Fails(c, o) == \/ o = "bad"
               \/ o = "cut" /\ c \in {"tj", "pdf"}
               \/ o = "text" /\ c \in {"tj", "sections", "segments", "str", "pdf"}

\* Mutant of Flags: the list of functions sets the flag of the sections too.
FlagsBoth(c) == IF c \in {"f_list", "sections", "segments"} THEN Lists ELSE {}

\* The flag a list sets.  The segments set the one of the sections.
Flags(c) == {l \in Lists : c = l \/ (c = "segments" /\ l = "sections")}

\* A discovery saves the functions and the strings, if there are any.
Saves(x, c, o) ==
  IF Discovers(x) /\ o = "whole" /\ c \in {"f_list", "str"}
    THEN <<IF c = "f_list" THEN "saveFuncs" ELSE "saveStr">> ELSE <<>>

\* What an answer leaves to do: nothing if it fails, except for the types.
After(x, c, o) ==
  IF ~Fails(c, o) THEN Saves(x, c, o) \o Tail(flow[x].todo)
  ELSE IF c \in {"tj", "ts"} THEN SkipTypes(flow[x].todo) ELSE <<>>

\* Mutant of Next1: the commands that were kept stay where they are.
Next1Forgets(p) == [p EXCEPT !.cur = None]

\* The command that was kept last is sent next.
Next1(p) ==
  IF p.wait = <<>> THEN [p EXCEPT !.cur = None]
                   ELSE [p EXCEPT !.cur = Last(p.wait), !.wait = Front(@)]

\* The flow and the helper once they have the answer o to command c.
Given(x, c, o) ==
  IF c = "sections" /\ ~Fails(c, o)
    THEN [flow[x] EXCEPT !.secs = IF o = "whole" THEN "full" ELSE "empty"] ELSE flow[x]

\* The flag is set before the list is looked at.
Flagged(x, c, o) ==
  helper[flow[x].file].has \cup IF o = "bad" THEN {} ELSE Flags(c)

\* History: the sections were read, or something else was taken for them.
Heard(x, c, o) ==
  IF c # "sections" \/ o = "bad" THEN past
  ELSE IF o = "whole" THEN [past EXCEPT !.told = @ \cup {flow[x].file}]
  ELSE [past EXCEPT !.misread = @ \cup {flow[x].file}]

\* Process i answers the command that was sent to it; the one that is next is
\* sent, and the flow goes on.
Answer(i) ==
  LET x == pipe[i].cur
      c == Step(x)
  IN  /\ pipe[i].up /\ x # None
      /\ \E o \in Outcome(c) :
           /\ \E r \in {Given(x, c, o)}, t \in {After(x, c, o)}, has \in {Flagged(x, c, o)},
                 ps \in {[pipe EXCEPT ![i] = [Next1(pipe[i]) EXCEPT !.ready = @ \/ c = "aa"]]} :
                Resume(x, r, t, has, ps)
           /\ past' = Heard(x, c, o)
      /\ UNCHANGED <<targets, db>>

\* A process ends.  The commands it had are not answered any more.
Die(i) ==
  /\ past.faults < MaxFaults /\ pipe[i].up
  /\ pipe' = [pipe EXCEPT ![i].up = FALSE]
  /\ past' = [past EXCEPT !.faults = @ + 1]
  /\ UNCHANGED <<flow, helper, targets, db>>

(***************************************************************************)
(* The writes of a discovery                                               *)
(***************************************************************************)

GoesOn(x) == Resume(x, flow[x], Tail(flow[x].todo), helper[flow[x].file].has, pipe)

\* Functions and strings are saved.
Store(x) ==
  /\ Step(x) \in {"saveFuncs", "saveStr"}
  /\ GoesOn(x)
  /\ UNCHANGED <<targets, db, past>>

Mark(x) ==
  /\ Step(x) = "mark"
  /\ db' = [db EXCEPT !.processed = @ \cup {flow[x].file}]
  /\ GoesOn(x)
  /\ UNCHANGED <<targets, past>>

\* The record of the file is saved with the sections this flow was given.
Save(x) ==
  /\ Step(x) = "save"
  /\ db' = [db EXCEPT !.secs[flow[x].file] = flow[x].secs]
  /\ GoesOn(x)
  /\ UNCHANGED <<targets, past>>

\* The engine stops and the project is opened again: analysis is not required for
\* the files that were processed.
Stop ==
  /\ past.faults < MaxFaults
  /\ flow' = [x \in Flows |-> Idle]
  /\ helper' = [f \in Files |-> NoHelper]
  /\ pipe' = <<>>
  /\ targets' = db.processed
  /\ past' = [told |-> {}, misread |-> {}, faults |-> past.faults + 1]
  /\ UNCHANGED db

LoopStep(x) == Event(x) \/ Look(x) \/ LookUpKey(x) \/ MakeKey(x)
WriteStep(x) == Store(x) \/ Mark(x) \/ Save(x)

Next ==
  \/ \E x \in Flows :
       LoopStep(x) \/ WriteStep(x) \/ \E f \in Files : Request(x, f)
  \/ \E i \in DOMAIN pipe : Answer(i) \/ Die(i)
  \/ Stop

Spec == Init /\ [][Next]_vars

AnswerDue == \E i \in DOMAIN pipe : pipe[i].up /\ pipe[i].cur # None
StepDue ==
  \E x \in Flows :
    \/ Step(x) \in Writes
    \/ flow[x].st \in {"look", "make"}
    \/ flow[x].st = "idle" /\ Kind[x] = "loop"
    \/ flow[x].st = "key" /\ Name[flow[x].file] \notin db.keys

\* As long as a process that lives has a command, some process answers; as long as
\* the database is asked, or an event is to come, something goes on.  This is weak
\* fairness with its ENABLED written out (DueEnabled), which TLC checks much faster.
FairSpec ==
  /\ Spec
  /\ []<>(~AnswerDue) \/ []<><<\E i \in DOMAIN pipe : Answer(i)>>_vars
  /\ []<>(~StepDue) \/ []<><<\E x \in Flows : LoopStep(x) \/ WriteStep(x)>>_vars

\* What is due can be done.
DueEnabled ==
  /\ AnswerDue <=> ENABLED (\E i \in DOMAIN pipe : Answer(i))
  /\ StepDue <=> ENABLED (\E x \in Flows : LoopStep(x) \/ WriteStep(x))

(***************************************************************************)
(* Properties                                                              *)
(***************************************************************************)

\* A process is sent a command only after it has analysed the file, although
\* other flows find the helper, and use it, as soon as it exists.
AnalysedFirst ==
  \A i \in DOMAIN pipe :
    pipe[i].cur # None /\ Step(pipe[i].cur) # "aa" => pipe[i].ready

\* A command is kept only while another one is not answered: none is left behind
\* in a pipe that is idle.
KeptWhileBusy == \A i \in DOMAIN pipe : pipe[i].wait # <<>> => pipe[i].cur # None

\* Every flow that awaits an answer is known to the pipe it awaits it from, once.
Holds(i, x) == pipe[i].cur = x \/ x \in Range(pipe[i].wait)
AwaitedOnce ==
  \A x \in Flows : flow[x].on # 0 =>
    /\ flow[x].on \in DOMAIN pipe /\ Holds(flow[x].on, x)
    /\ \A i \in DOMAIN pipe : Holds(i, x) => i = flow[x].on

PipesConsistent == TypeOK /\ AnalysedFirst /\ KeptWhileBusy /\ AwaitedOnce

\* The record of a file loses its sections, or gets none, only after this helper was
\* given them for another flow, or took something else for them: no other command, and
\* no answer that was rejected, makes it say that it has them.
EmptyIfToldAnother ==
  [][\A f \in Files :
       db'.secs[f] = "empty" /\ db.secs[f] # "empty" => f \in past.told \cup past.misread]_vars

\* A flow that began ends, although its commands wait behind those of other flows
\* that came later: unless its process died, or a key point has the name that the
\* loop looks for.
Spins(x)     == flow[x].st = "key" /\ Name[flow[x].file] \in db.keys
Stranded(x)  == flow[x].on # 0 /\ ~pipe[flow[x].on].up
EveryFlowEnds ==
  \A x \in Flows : []<>(flow[x].st \in {"idle", "done"} \/ Spins(x) \/ Stranded(x))

(***************************************************************************)
(* What does not hold                                                      *)
(***************************************************************************)

\* A file that is marked as processed, and is skipped from then on, has its record
\* saved, or a flow is about to.
ProcessedSaved ==
  \A f \in db.processed :
    db.secs[f] # "none" \/ \E x \in Flows : flow[x].file = f /\ Step(x) = "save"

\* The sections of a file, once saved, stay.
SectionsStay == [][\A f \in Files : db.secs[f] = "full" => db'.secs[f] = "full"]_vars

\* A record loses its sections, or gets none, only after another flow was given them.
EmptyMeansTold ==
  [][\A f \in Files : db'.secs[f] = "empty" /\ db.secs[f] # "empty" => f \in past.told]_vars

\* The helper says that it has the sections only if they were read.
ReadyMeansRead ==
  \A f \in Files : "sections" \in helper[f].has => f \in past.told

\* The loops over the files end.
LoopsEnd == \A x \in Flows : Kind[x] = "loop" => <>(flow[x].st = "done")

\* Every process that lives is the one of a helper.
NoneLeft == \A i \in DOMAIN pipe : pipe[i].up => \E f \in Files : helper[f].pipe = i

\* A flow that began ends.
AllEnd == \A x \in Flows : []<>(flow[x].st \in {"idle", "done"})
=============================================================================
