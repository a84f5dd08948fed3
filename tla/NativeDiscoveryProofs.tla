------------------------ MODULE NativeDiscoveryProofs ------------------------
(***************************************************************************)
(* Theorems about NativeDiscovery: types, and the consistency of the pipes *)
(* to the radare2 processes.                                               *)
(***************************************************************************)
EXTENDS NativeDiscovery, SequenceTheorems, TLAPS

Steps == Seq(Commands \cup Writes)

(***************************************************************************)
(* The inductive invariant                                                 *)
(***************************************************************************)

\* A flow has steps only while it works, has a file while one is needed, has a
\* place in the list of files while it looks for one, and awaits only commands.
FlowSound(x) ==
  /\ flow[x].todo # <<>> => flow[x].st = "work"
  /\ flow[x].st \in {"work", "key", "make"} => flow[x].file \in Files
  /\ flow[x].st = "look" => flow[x].at >= 1
  /\ flow[x].on # 0 => flow[x].todo # <<>> /\ Head(flow[x].todo) \in Commands

\* Process p, number i, holds each flow once, and only flows of fl that await it;
\* before it has analysed the file it was sent the command that does.
PipeSound(i, p, fl) ==
  /\ p.cur \notin Range(p.wait)
  /\ \A j, k \in 1..Len(p.wait) : p.wait[j] = p.wait[k] => j = k
  /\ p.wait # <<>> => p.cur # None
  /\ p.ready \/ (p.cur # None /\ Head(fl[p.cur].todo) = "aa")
  /\ \A y \in Flows : p.cur = y \/ y \in Range(p.wait) => fl[y].on = i

\* Flow y, that awaits process i, is held by it.
Placed(y, i, ps) == i # 0 => i \in 1..Len(ps) /\ (ps[i].cur = y \/ y \in Range(ps[i].wait))

PipeInvariant ==
  /\ \A x \in Flows : FlowSound(x) /\ Placed(x, flow[x].on, pipe)
  /\ \A f \in Files : helper[f].pipe \in 0..Len(pipe)
  /\ \A i \in 1..Len(pipe) : PipeSound(i, pipe[i], flow)

(***************************************************************************)
(* The steps of a flow                                                     *)
(***************************************************************************)

\* The steps a flow is given when it begins to work are steps.
LEMMA ScriptType ==
  ASSUME NEW x \in Flows, NEW f \in Files
  PROVE  Script(x, f) \in Steps
<1>1. Boot \in Steps
  BY DEF Boot, Steps, Commands, Writes
<1>2. Discovery \in Steps
  BY DEF Discovery, Steps, Commands, Writes
<1>3. Cmds[x] \in Steps
  <2>1. Cmds[x] \in Seq(Commands \ {"aa"})
    BY CmdsAssumption
  <2> QED  BY <2>1 DEF Steps
<1> QED  BY <1>1, <1>2, <1>3 DEF Script, Steps

\* What is left at the next await is a list of steps.
LEMMA LeftType ==
  ASSUME NEW t \in Steps, NEW has, NEW up
  PROVE  Left(t, has, up) \in Steps
<1>1. \A s \in Steps : Skip(s, has) \in Steps
  BY DEF Skip, Steps
<1>2. SkipTypes(t) \in Steps
  BY DEF SkipTypes, Steps
<1> QED  BY <1>1, <1>2 DEF Left, Steps

\* Without a process only the first command of a process is left to send.
LEMMA LeftNeedsProcess ==
  ASSUME NEW t \in Steps, NEW has, NEW up \in BOOLEAN,
         Left(t, has, up) # <<>>, Head(Left(t, has, up)) \in Commands \ {"aa"}
  PROVE  up
BY LeftType DEF Left, Steps

(***************************************************************************)
(* A process                                                               *)
(***************************************************************************)

\* The members of a sequence with one more element.
LEMMA RangeAppend ==
  ASSUME NEW w \in Seq(Flows), NEW x \in Flows
  PROVE  Range(Append(w, x)) = Range(w) \cup {x}
<1>1. Len(Append(w, x)) = Len(w) + 1
  BY AppendProperties
<1>2. \A k \in 1..Len(w) : Append(w, x)[k] = w[k]
  BY AppendProperties
<1>3. Append(w, x)[Len(w) + 1] = x
  BY AppendProperties
<1>4. Len(w) \in Nat /\ DOMAIN w = 1..Len(w) /\ DOMAIN Append(w, x) = 1..(Len(w) + 1)
  BY <1>1, AppendProperties
<1> QED  BY <1>2, <1>3, <1>4 DEF Range

\* A flow that a process does not hold is sent or kept by it.
LEMMA SendSound ==
  ASSUME NEW p \in Pipe, NEW x \in Flows, p.cur # x, x \notin Range(p.wait),
         p.cur \notin Range(p.wait),
         \A j, k \in 1..Len(p.wait) : p.wait[j] = p.wait[k] => j = k,
         p.wait # <<>> => p.cur # None
  PROVE  LET q == Send(p, x)
         IN  /\ q \in Pipe
             /\ q.up = p.up /\ q.ready = p.ready
             /\ q.cur = IF p.cur = None THEN x ELSE p.cur
             /\ q.cur \notin Range(q.wait)
             /\ \A j, k \in 1..Len(q.wait) : q.wait[j] = q.wait[k] => j = k
             /\ q.wait # <<>> => q.cur # None
             /\ \A y \in Flows : (q.cur = y \/ y \in Range(q.wait))
                                  <=> (p.cur = y \/ y \in Range(p.wait) \/ y = x)
<1>1. CASE p.cur = None
  <2>1. Send(p, x) = [p EXCEPT !.cur = x]
    BY <1>1 DEF Send
  <2>2. p.wait = <<>>
    BY <1>1
  <2> QED  BY <1>1, <2>1, <2>2, NoneAssumption DEF Pipe
<1>2. CASE p.cur # None
  <2>1. Send(p, x) = [p EXCEPT !.wait = Append(@, x)]
    BY <1>2 DEF Send
  <2>2. p.wait \in Seq(Flows) /\ p.cur \in Flows
    BY <1>2 DEF Pipe
  <2>3. Range(Append(p.wait, x)) = Range(p.wait) \cup {x}
    BY <2>2, RangeAppend
  <2>4. Append(p.wait, x) \in Seq(Flows) /\ Len(Append(p.wait, x)) = Len(p.wait) + 1
    BY <2>2, AppendProperties
  <2>5. \A k \in 1..Len(p.wait) : Append(p.wait, x)[k] = p.wait[k] /\ p.wait[k] # x
    <3>1. DOMAIN p.wait = 1..Len(p.wait)
      BY <2>2
    <3> QED  BY <2>2, <3>1, AppendProperties DEF Range
  <2>6. Append(p.wait, x)[Len(p.wait) + 1] = x
    BY <2>2, AppendProperties
  <2>7. \A j, k \in 1..(Len(p.wait) + 1) :
          Append(p.wait, x)[j] = Append(p.wait, x)[k] => j = k
    <3> SUFFICES ASSUME NEW j \in 1..(Len(p.wait) + 1), NEW k \in 1..(Len(p.wait) + 1),
                        Append(p.wait, x)[j] = Append(p.wait, x)[k]
                 PROVE  j = k
      OBVIOUS
    <3>1. Len(p.wait) \in Nat
      BY <2>2
    <3>2. CASE j = Len(p.wait) + 1
      BY <3>1, <3>2, <2>5, <2>6
    <3>3. CASE k = Len(p.wait) + 1
      BY <3>1, <3>3, <2>5, <2>6
    <3>4. CASE j \in 1..Len(p.wait) /\ k \in 1..Len(p.wait)
      BY <3>4, <2>5
    <3> QED  BY <3>1, <3>2, <3>3, <3>4
  <2> QED  BY <1>2, <2>1, <2>2, <2>3, <2>4, <2>7, NoneAssumption DEF Pipe
<1> QED  BY <1>1, <1>2

\* The flow that was answered is not held any more, and the one kept last is sent.
LEMMA Next1Sound ==
  ASSUME NEW p \in Pipe, p.cur # None, p.cur \notin Range(p.wait),
         \A j, k \in 1..Len(p.wait) : p.wait[j] = p.wait[k] => j = k
  PROVE  LET q == Next1(p)
         IN  /\ q \in Pipe
             /\ q.up = p.up /\ q.ready = p.ready
             /\ q.cur \notin Range(q.wait)
             /\ \A j, k \in 1..Len(q.wait) : q.wait[j] = q.wait[k] => j = k
             /\ q.wait # <<>> => q.cur # None
             /\ \A y \in Flows : (q.cur = y \/ y \in Range(q.wait)) <=> y \in Range(p.wait)
             /\ q.cur # p.cur /\ p.cur \notin Range(q.wait)
<1> DEFINE w == p.wait
<1>1. w \in Seq(Flows) /\ Len(w) \in Nat /\ DOMAIN w = 1..Len(w) /\ p.cur \in Flows
  BY DEF Pipe
<1>2. CASE w = <<>>
  <2>1. Next1(p) = [p EXCEPT !.cur = None]
    BY <1>2 DEF Next1
  <2>2. Range(w) = {}
    BY <1>2 DEF Range
  <2> QED  BY <1>1, <1>2, <2>1, <2>2, NoneAssumption DEF Pipe
<1>3. CASE w # <<>>
  <2> DEFINE v == SubSeq(w, 1, Len(w) - 1)
             z == w[Len(w)]
  <2>1. Next1(p) = [p EXCEPT !.cur = z, !.wait = v]
    BY <1>3 DEF Next1, Last, Front
  <2>2. Len(w) \in 1..Len(w) /\ z \in Flows
    BY <1>1, <1>3
  <2>3. /\ v \in Seq(Flows) /\ Len(v) = Len(w) - 1
        /\ \A k \in 1..Len(v) : v[k] = w[k]
    BY <1>1, <2>2
  <2>4. z \notin Range(v)
    BY <1>1, <2>2, <2>3 DEF Range
  <2>5. \A y : y \in Range(w) <=> (y = z \/ y \in Range(v))
    <3>1. \A k \in 1..Len(w) : k = Len(w) \/ k \in 1..Len(v)
      BY <1>1, <2>3
    <3>2. DOMAIN v = 1..Len(v)
      BY <2>3
    <3> QED  BY <1>1, <2>2, <2>3, <3>1, <3>2 DEF Range
  <2>6. \A j, k \in 1..Len(v) : v[j] = v[k] => j = k
    BY <1>1, <2>3
  <2> HIDE DEF v, z
  <2>7. /\ Next1(p) \in Pipe
        /\ Next1(p).up = p.up /\ Next1(p).ready = p.ready
        /\ Next1(p).cur = z /\ Next1(p).wait = v
    BY <2>1, <2>2, <2>3 DEF Pipe
  <2> QED  BY <2>2, <2>4, <2>5, <2>6, <2>7, NoneAssumption
<1> QED  BY <1>2, <1>3

(***************************************************************************)
(* A flow goes on                                                          *)
(***************************************************************************)

\* A process that the flow does not concern.
LEMMA OtherSound ==
  ASSUME NEW x \in Flows, NEW i \in Nat, NEW p \in Pipe, NEW fl, NEW gl,
         PipeSound(i, p, fl), p.cur # x, x \notin Range(p.wait),
         \A y \in Flows \ {x} : gl[y] = fl[y]
  PROVE  PipeSound(i, p, gl)
BY DEF PipeSound, Pipe

\* The flow x of fl becomes that of gl, which awaits process i: p holds it.
LEMMA SentSound ==
  ASSUME NEW x \in Flows, NEW i \in Nat, NEW p \in Pipe, NEW fl, NEW gl,
         PipeSound(i, p, fl), p.cur # x, x \notin Range(p.wait),
         \A y \in Flows \ {x} : gl[y] = fl[y],
         gl[x].on = i
  PROVE  /\ Send(p, x) \in Pipe
         /\ PipeSound(i, Send(p, x), gl)
         /\ Send(p, x).up = p.up
         /\ \A y \in Flows : (p.cur = y \/ y \in Range(p.wait) \/ y = x)
                               => (Send(p, x).cur = y \/ y \in Range(Send(p, x).wait))
<1> DEFINE q == Send(p, x)
<1>1. /\ q \in Pipe
      /\ q.up = p.up /\ q.ready = p.ready
      /\ q.cur = IF p.cur = None THEN x ELSE p.cur
      /\ q.cur \notin Range(q.wait)
      /\ \A j, k \in 1..Len(q.wait) : q.wait[j] = q.wait[k] => j = k
      /\ q.wait # <<>> => q.cur # None
      /\ \A y \in Flows : (q.cur = y \/ y \in Range(q.wait))
                           <=> (p.cur = y \/ y \in Range(p.wait) \/ y = x)
  BY SendSound DEF PipeSound
<1> HIDE DEF q
<1>2. q.ready \/ (q.cur # None /\ Head(gl[q.cur].todo) = "aa")
  BY <1>1 DEF PipeSound, Pipe
<1>3. \A y \in Flows : q.cur = y \/ y \in Range(q.wait) => gl[y].on = i
  BY <1>1 DEF PipeSound
<1>4. PipeSound(i, q, gl)
  BY <1>1, <1>2, <1>3 DEF PipeSound
<1> QED  BY <1>1, <1>4 DEF q

\* A process that was just started holds the flow that started it.
LEMMA StartedSound ==
  ASSUME NEW x \in Flows, NEW i \in Nat, NEW gl,
         gl[x].on = i, Head(gl[x].todo) = "aa"
  PROVE  /\ Started(x) \in Pipe /\ PipeSound(i, Started(x), gl) /\ Started(x).cur = x
<1>1. Started(x).wait = <<>> /\ Started(x).cur = x /\ Started(x) \in Pipe
  BY DEF Started, Pipe
<1>2. Range(<<>>) = {}
  BY DEF Range
<1> QED  BY <1>1, <1>2, NoneAssumption DEF PipeSound

\* Whatever a flow that no process holds has left to do, and whatever it knows by
\* now, going on keeps the types and the invariant.
LEMMA ResumeSound ==
  ASSUME TypeOK, PipeInvariant,
         NEW x \in Flows, NEW r \in Flow, r.file \in Files,
         NEW t \in Steps, NEW has \in SUBSET Lists,
         NEW ps \in Seq(Pipe), Len(ps) = Len(pipe),
         \A i \in 1..Len(ps) :
           PipeSound(i, ps[i], flow) /\ ps[i].cur # x /\ x \notin Range(ps[i].wait),
         \A y \in Flows \ {x} : Placed(y, flow[y].on, ps),
         Resume(x, r, t, has, ps)
  PROVE  /\ flow' \in [Flows -> Flow] /\ helper' \in [Files -> Helper] /\ pipe' \in Seq(Pipe)
         /\ PipeInvariant'
<1> DEFINE f    == r.file
           h    == helper[f].pipe
           up   == h # 0 /\ ps[h].up
           left == Left(t, has, up)
           sent == left # <<>> /\ Head(left) \in Commands
           new  == sent /\ Head(left) = "aa"
           on   == IF new THEN Len(ps) + 1 ELSE IF sent THEN h ELSE 0
           skip == Contains(t, "sections") /\ ~Contains(left, "sections")
           secs == IF ~Contains(left, "save") THEN "none"
                   ELSE IF skip THEN "empty" ELSE r.secs
           st   == IF left # <<>> THEN "work" ELSE IF Kind[x] = "loop" THEN "key" ELSE "done"
<1>1. /\ flow' = [flow EXCEPT ![x] =
                    [r EXCEPT !.todo = left, !.on = on, !.secs = secs, !.st = st]]
      /\ pipe' = IF new THEN Append(ps, Started(x))
                 ELSE IF sent THEN [ps EXCEPT ![h] = Send(@, x)] ELSE ps
      /\ helper' = [helper EXCEPT ![f] = [pipe |-> IF new THEN on ELSE h, has |-> has]]
  BY DEF Resume, Flow
<1>2. left \in Steps
  BY LeftType
<1>3. h \in 0..Len(ps) /\ Len(ps) \in Nat /\ f \in Files
  BY DEF PipeInvariant
<1>4. on \in Nat
  BY <1>3
<1>5. secs \in {"none", "full", "empty"} /\ st \in {"work", "key", "done"}
  BY DEF Flow
<1>6. sent /\ ~new => h \in 1..Len(ps)
  <2>1. up \in BOOLEAN
    OBVIOUS
  <2>2. up => h # 0
    OBVIOUS
  <2> HIDE DEF up
  <2>3. left # <<>> /\ Head(left) \in Commands \ {"aa"} => up
    BY <2>1, LeftNeedsProcess
  <2> QED  BY <1>3, <2>2, <2>3
<1> DEFINE rec == [r EXCEPT !.todo = left, !.on = on, !.secs = secs, !.st = st]
<1> HIDE DEF left, secs, st, on
<1>7. /\ flow' \in [Flows -> Flow]
      /\ \A y \in Flows \ {x} : flow'[y] = flow[y]
      /\ flow'[x].todo = left /\ flow'[x].on = on /\ flow'[x].st = st
      /\ flow'[x].file = r.file /\ flow'[x].at = r.at
  <2>1. /\ rec \in Flow
        /\ rec.todo = left /\ rec.on = on /\ rec.st = st /\ rec.file = r.file /\ rec.at = r.at
    BY <1>2, <1>4, <1>5 DEF Flow, Steps
  <2>2. flow' = [flow EXCEPT ![x] = rec] /\ flow \in [Flows -> Flow]
    BY <1>1 DEF TypeOK
  <2> HIDE DEF rec
  <2> QED  BY <2>1, <2>2
<1>8. on = IF new THEN Len(ps) + 1 ELSE IF sent THEN h ELSE 0
  BY DEF on
<1>9. \A y \in Flows : FlowSound(y)'
  <2>1. FlowSound(x)'
    BY <1>7, <1>8 DEF FlowSound, st
  <2>2. \A y \in Flows \ {x} : FlowSound(y)'
    BY <1>7 DEF FlowSound, PipeInvariant
  <2> QED  BY <2>1, <2>2
<1>12. \A i \in 1..Len(ps) : PipeSound(i, ps[i], flow')
  <2> TAKE i \in 1..Len(ps)
  <2>1. i \in Nat /\ ps[i] \in Pipe
    BY <1>3
  <2> QED  BY <1>7, <2>1, OtherSound
<1>10. /\ pipe' \in Seq(Pipe) /\ Len(pipe') >= Len(ps)
       /\ \A i \in 1..Len(pipe') : PipeSound(i, pipe'[i], flow')
       /\ \A y \in Flows : Placed(y, flow'[y].on, pipe')
       /\ on \in 0..Len(pipe')
  <2>1. CASE new
    <3>1. pipe' = Append(ps, Started(x)) /\ on = Len(ps) + 1
      BY <1>1, <1>8, <2>1
    <3>2. /\ Started(x) \in Pipe /\ PipeSound(on, Started(x), flow') /\ Started(x).cur = x
      BY <1>4, <1>7, <2>1, StartedSound
    <3>3. /\ pipe' \in Seq(Pipe) /\ Len(pipe') = Len(ps) + 1
          /\ \A i \in 1..Len(ps) : pipe'[i] = ps[i]
          /\ pipe'[Len(ps) + 1] = Started(x)
      BY <3>1, <3>2, AppendProperties
    <3>5. \A i \in 1..Len(pipe') : PipeSound(i, pipe'[i], flow')
      BY <1>3, <1>12, <3>1, <3>2, <3>3
    <3>6. \A y \in Flows \ {x} : Placed(y, flow'[y].on, pipe')
      BY <1>3, <1>7, <3>3 DEF Placed
    <3>7. Placed(x, flow'[x].on, pipe')
      BY <1>3, <1>7, <3>1, <3>2, <3>3 DEF Placed
    <3>8. Len(pipe') >= Len(ps) /\ on \in 0..Len(pipe')
      BY <1>3, <3>1, <3>3
    <3>9. \A y \in Flows : Placed(y, flow'[y].on, pipe')
      BY <3>6, <3>7, Zenon
    <3> QED  BY <3>3, <3>5, <3>8, <3>9
  <2>2. CASE sent /\ ~new
    <3>1. pipe' = [ps EXCEPT ![h] = Send(ps[h], x)] /\ on = h /\ h \in 1..Len(ps)
      BY <1>1, <1>6, <1>8, <2>2
    <3> DEFINE q == Send(ps[h], x)
    <3>2. /\ q \in Pipe /\ PipeSound(h, q, flow')
          /\ \A y \in Flows : (ps[h].cur = y \/ y \in Range(ps[h].wait) \/ y = x)
                                => (q.cur = y \/ y \in Range(q.wait))
      <4>1. ps[h] \in Pipe /\ h \in Nat
        BY <1>3, <3>1
      <4>2. PipeSound(h, ps[h], flow) /\ ps[h].cur # x /\ x \notin Range(ps[h].wait)
        BY <3>1
      <4>3. flow'[x].on = h
        BY <1>7, <3>1
      <4> HIDE DEF h
      <4> QED  BY <1>7, <4>1, <4>2, <4>3, SentSound
    <3> HIDE DEF q
    <3>3. /\ pipe' \in Seq(Pipe) /\ Len(pipe') = Len(ps)
          /\ \A i \in 1..Len(ps) : pipe'[i] = IF i = h THEN q ELSE ps[i]
      BY <3>1, <3>2, ExceptSeq DEF q
    <3>5. \A i \in 1..Len(pipe') : PipeSound(i, pipe'[i], flow')
      BY <1>12, <3>2, <3>3
    <3>6. \A y \in Flows \ {x} : Placed(y, flow'[y].on, pipe')
      BY <1>3, <1>7, <3>2, <3>3 DEF Placed
    <3>7. Placed(x, flow'[x].on, pipe')
      BY <1>3, <1>7, <3>1, <3>2, <3>3 DEF Placed
    <3>8. Len(pipe') >= Len(ps) /\ on \in 0..Len(pipe')
      BY <1>3, <3>1, <3>3
    <3>9. \A y \in Flows : Placed(y, flow'[y].on, pipe')
      BY <3>6, <3>7, Zenon
    <3> QED  BY <3>3, <3>5, <3>8, <3>9
  <2>3. CASE ~sent
    <3>1. pipe' = ps /\ on = 0
      BY <1>1, <1>8, <2>3
    <3>3. \A y \in Flows : Placed(y, flow'[y].on, pipe')
      BY <1>7, <3>1 DEF Placed
    <3> QED  BY <1>3, <1>12, <3>1, <3>3
  <2> QED  BY <2>1, <2>2, <2>3
<1>11. /\ helper' \in [Files -> Helper]
       /\ \A g \in Files : helper'[g].pipe \in 0..Len(pipe')
  <2>1. \A g \in Files : helper[g].pipe \in 0..Len(ps) /\ helper[g] \in Helper
    BY DEF PipeInvariant, TypeOK
  <2>2. [pipe |-> IF new THEN on ELSE h, has |-> has] \in Helper
    BY <1>3, <1>4 DEF Helper
  <2>3. (IF new THEN on ELSE h) \in 0..Len(pipe')
    BY <1>3, <1>10
  <2> QED  BY <1>1, <1>3, <1>10, <2>1, <2>2, <2>3 DEF TypeOK
<1> QED  BY <1>7, <1>9, <1>10, <1>11 DEF PipeInvariant

(***************************************************************************)
(* The actions                                                             *)
(***************************************************************************)

\* A flow that awaits no process is held by none.
LEMMA FreeNotHeld ==
  ASSUME PipeInvariant, NEW x \in Flows, flow[x].on = 0
  PROVE  \A i \in 1..Len(pipe) :
           PipeSound(i, pipe[i], flow) /\ pipe[i].cur # x /\ x \notin Range(pipe[i].wait)
<1> TAKE i \in 1..Len(pipe)
<1>1. PipeSound(i, pipe[i], flow) /\ i # 0
  BY DEF PipeInvariant
<1> QED  BY <1>1 DEF PipeSound

\* A flow that awaits no process goes on.
LEMMA FreeGoesOn ==
  ASSUME TypeOK, PipeInvariant, NEW x \in Flows, flow[x].on = 0,
         NEW r \in Flow, r.file \in Files, NEW t \in Steps, NEW has \in SUBSET Lists,
         Resume(x, r, t, has, pipe)
  PROVE  /\ flow' \in [Flows -> Flow] /\ helper' \in [Files -> Helper] /\ pipe' \in Seq(Pipe)
         /\ PipeInvariant'
<1>1. pipe \in Seq(Pipe)
  BY DEF TypeOK
<1>2. \A y \in Flows \ {x} : Placed(y, flow[y].on, pipe)
  BY DEF PipeInvariant
<1> QED  BY <1>1, <1>2, FreeNotHeld, ResumeSound

\* A flow that has no steps and is given none does not concern the processes.
LEMMA QuietSound ==
  ASSUME TypeOK, PipeInvariant, NEW x \in Flows, flow[x].todo = <<>>, NEW r \in Flow,
         r.todo = <<>>, r.on = flow[x].on,
         r.st \in {"work", "key", "make"} => r.file \in Files,
         r.st = "look" => r.at >= 1,
         flow' = [flow EXCEPT ![x] = r], UNCHANGED <<helper, pipe>>
  PROVE  flow' \in [Flows -> Flow] /\ PipeInvariant'
<1>1. flow' \in [Flows -> Flow] /\ flow'[x] = r /\ \A y \in Flows \ {x} : flow'[y] = flow[y]
  BY DEF TypeOK
<1>2. flow[x].on = 0
  BY DEF PipeInvariant, FlowSound
<1>3. \A y \in Flows : FlowSound(y)'
  <2>1. FlowSound(x)'
    BY <1>1, <1>2 DEF FlowSound
  <2>2. \A y \in Flows \ {x} : FlowSound(y)'
    BY <1>1 DEF FlowSound, PipeInvariant
  <2> QED  BY <2>1, <2>2
<1>4. \A y \in Flows : Placed(y, flow'[y].on, pipe')
  <2>1. \A y \in Flows : flow'[y].on = flow[y].on
    BY <1>1
  <2> QED  BY <2>1 DEF PipeInvariant
<1>5. \A i \in 1..Len(pipe) : PipeSound(i, pipe[i], flow')
  <2> TAKE i \in 1..Len(pipe)
  <2>1. i \in Nat /\ pipe[i] \in Pipe
    BY DEF TypeOK
  <2>2. PipeSound(i, pipe[i], flow) /\ pipe[i].cur # x /\ x \notin Range(pipe[i].wait)
    BY <1>2, FreeNotHeld
  <2> QED  BY <1>1, <2>1, <2>2, OtherSound
<1> QED  BY <1>1, <1>3, <1>4, <1>5 DEF PipeInvariant

\* What is proved to be inductive.
IInv == TypeOK /\ PipeInvariant

\* What is known of a process.
LEMMA PipeAt ==
  ASSUME IInv, NEW i \in DOMAIN pipe
  PROVE  /\ pipe \in Seq(Pipe) /\ Len(pipe) \in Nat /\ i \in 1..Len(pipe) /\ i \in Nat /\ i # 0
         /\ pipe[i] \in Pipe /\ PipeSound(i, pipe[i], flow)
         /\ pipe[i].cur # None => pipe[i].cur \in Flows /\ flow[pipe[i].cur].on = i
<1>1. /\ pipe \in Seq(Pipe) /\ Len(pipe) \in Nat /\ i \in 1..Len(pipe) /\ i \in Nat /\ i # 0
      /\ pipe[i] \in Pipe
  BY DEF IInv, TypeOK
<1>2. PipeSound(i, pipe[i], flow)
  BY <1>1 DEF IInv, PipeInvariant
<1>3. pipe[i].cur # None => pipe[i].cur \in Flows
  BY <1>1 DEF Pipe
<1>4. pipe[i].cur # None => flow[pipe[i].cur].on = i
  BY <1>2, <1>3 DEF PipeSound
<1> QED  BY <1>1, <1>2, <1>3, <1>4

\* Nothing is awaited when the project is opened.
LEMMA InitSound == Init => IInv
<1> SUFFICES ASSUME Init  PROVE IInv
  OBVIOUS
<1>1. Idle \in Flow /\ NoHelper \in Helper
  BY DEF Idle, Flow, NoHelper, Helper
<1>2. TypeOK
  BY <1>1 DEF Init, TypeOK, Db, Past
<1>3. PipeInvariant
  BY DEF Init, PipeInvariant, FlowSound, Placed, Idle, NoHelper
<1> QED  BY <1>2, <1>3 DEF IInv

\* Event begins a loop, which has no steps yet.
LEMMA EventSound ==
  ASSUME IInv, NEW x \in Flows, Event(x)
  PROVE  IInv'
<1>1. PICK st \in {"look", "done"} : flow' = [flow EXCEPT ![x].st = st, ![x].at = 1]
  BY DEF Event
<1> DEFINE r == [flow[x] EXCEPT !.st = st, !.at = 1]
<1>2. flow[x] \in Flow /\ flow \in [Flows -> Flow] /\ flow[x].st = "idle" /\ flow[x].todo = <<>>
  BY DEF IInv, TypeOK, PipeInvariant, FlowSound, Event
<1>3. r \in Flow /\ r.todo = <<>> /\ r.on = flow[x].on /\ r.st = st /\ r.at = 1
  BY <1>2 DEF Flow
<1>4. flow' = [flow EXCEPT ![x] = r]
  BY <1>1, <1>2
<1> HIDE DEF r
<1>5. flow' \in [Flows -> Flow] /\ PipeInvariant'
  <2>1. ~(r.st \in {"work", "key", "make"}) /\ r.at >= 1
    BY <1>1, <1>3
  <2> QED  BY <1>2, <1>3, <1>4, <2>1, QuietSound DEF IInv, Event
<1> QED  BY <1>5 DEF IInv, TypeOK, Event

\* Look gives a loop its next file and the steps of a discovery, or moves on.
LEMMA LookSound ==
  ASSUME IInv, NEW x \in Flows, Look(x)
  PROVE  IInv'
<1>1. flow[x] \in Flow /\ flow \in [Flows -> Flow]
  BY DEF IInv, TypeOK
<1>2. flow[x].st = "look" /\ flow[x].todo = <<>> /\ flow[x].on = 0 /\ flow[x].at >= 1
  BY DEF IInv, PipeInvariant, FlowSound, Look
<1>3. flow' \in [Flows -> Flow] /\ helper' \in [Files -> Helper] /\ pipe' \in Seq(Pipe)
      /\ PipeInvariant'
  <2>1. CASE flow[x].at > Len(Order)
    <3> DEFINE r == [flow[x] EXCEPT !.st = "done"]
    <3>1. r \in Flow /\ r.todo = <<>> /\ r.on = flow[x].on /\ r.st = "done"
      BY <1>1, <1>2 DEF Flow
    <3>2. flow' = [flow EXCEPT ![x] = r] /\ UNCHANGED <<helper, pipe>>
      BY <1>1, <2>1 DEF Look
    <3> HIDE DEF r
    <3>3. flow' \in [Flows -> Flow] /\ PipeInvariant'
      BY <1>2, <3>1, <3>2, QuietSound DEF IInv
    <3> QED  BY <3>2, <3>3 DEF IInv, TypeOK
  <2>2. CASE flow[x].at <= Len(Order)
    <3> DEFINE f == Order[flow[x].at]
    <3>1. f \in Files
      BY <1>1, <1>2, <2>2, OrderAssumption DEF Flow
    <3>2. CASE Analyzed(f)
      <4> DEFINE r == [flow[x] EXCEPT !.at = @ + 1]
      <4>1. /\ r \in Flow /\ r.todo = <<>> /\ r.on = flow[x].on /\ r.st = "look"
            /\ r.at >= 1
        <5>1. flow[x].at + 1 \in Nat /\ flow[x].at + 1 >= 1
          BY <1>1 DEF Flow
        <5>2. flow[x] \in Flow /\ flow[x].st = "look" /\ flow[x].todo = <<>>
          BY <1>1, <1>2
        <5> QED  BY <5>1, <5>2 DEF Flow
      <4>2. flow' = [flow EXCEPT ![x] = r] /\ UNCHANGED <<helper, pipe>>
        BY <1>1, <2>2, <3>2 DEF Look, Flow
      <4> HIDE DEF r
      <4>3. flow' \in [Flows -> Flow] /\ PipeInvariant'
        BY <1>2, <4>1, <4>2, QuietSound DEF IInv
      <4> QED  BY <4>2, <4>3 DEF IInv, TypeOK
    <3>3. CASE ~Analyzed(f)
      <4> DEFINE r == [flow[x] EXCEPT !.file = f, !.secs = "none"]
      <4>1. r \in Flow /\ r.file = f
        BY <1>1, <3>1 DEF Flow
      <4>2. Resume(x, r, Script(x, f), helper[f].has, pipe)
        BY <1>1, <2>2, <3>3 DEF Look, Flow
      <4>3. helper[f].has \in SUBSET Lists
        BY <3>1 DEF IInv, TypeOK, Helper
      <4> HIDE DEF r, f
      <4> QED  BY <1>2, <3>1, <4>1, <4>2, <4>3, ScriptType, FreeGoesOn DEF IInv
    <3> QED  BY <3>2, <3>3
  <2> QED  BY <1>1, <2>1, <2>2, OrderAssumption DEF Flow
<1> QED  BY <1>3 DEF IInv, TypeOK, Look

\* LookUpKey leaves the processes alone, and keeps the file.
LEMMA LookUpKeySound ==
  ASSUME IInv, NEW x \in Flows, LookUpKey(x)
  PROVE  IInv'
<1> DEFINE r == [flow[x] EXCEPT !.st = "make"]
<1>1. flow[x] \in Flow /\ flow \in [Flows -> Flow]
  BY DEF IInv, TypeOK
<1>2. flow[x].todo = <<>> /\ flow[x].file \in Files
  BY DEF IInv, PipeInvariant, FlowSound, LookUpKey
<1>3. /\ r \in Flow /\ r.todo = <<>> /\ r.on = flow[x].on /\ r.st = "make"
      /\ r.file = flow[x].file
  BY <1>1, <1>2 DEF Flow
<1>4. flow' = [flow EXCEPT ![x] = r]
  BY <1>1 DEF LookUpKey
<1> HIDE DEF r
<1>5. flow' \in [Flows -> Flow] /\ PipeInvariant'
  BY <1>2, <1>3, <1>4, QuietSound DEF IInv, LookUpKey
<1> QED  BY <1>5 DEF IInv, TypeOK, LookUpKey

\* MakeKey sends the loop to its next file.
LEMMA MakeKeySound ==
  ASSUME IInv, NEW x \in Flows, MakeKey(x)
  PROVE  IInv'
<1> DEFINE r == [flow[x] EXCEPT !.st = "look", !.at = @ + 1, !.file = None]
<1>1. flow[x] \in Flow /\ flow \in [Flows -> Flow]
  BY DEF IInv, TypeOK
<1>2. flow[x].todo = <<>> /\ flow[x].file \in Files
  BY DEF IInv, PipeInvariant, FlowSound, MakeKey
<1>3. r \in Flow /\ r.todo = <<>> /\ r.on = flow[x].on /\ r.st = "look" /\ r.at >= 1
  <2>1. flow[x].at + 1 \in Nat /\ flow[x].at + 1 >= 1
    BY <1>1 DEF Flow
  <2> DEFINE n == flow[x].at + 1
  <2>2. r = [flow[x] EXCEPT !.st = "look", !.at = n, !.file = None]
    OBVIOUS
  <2> HIDE DEF n, r
  <2> QED  BY <1>1, <1>2, <2>1, <2>2 DEF Flow, n
<1>4. flow' = [flow EXCEPT ![x] = r]
  BY <1>1 DEF MakeKey
<1> HIDE DEF r
<1>5. flow' \in [Flows -> Flow] /\ PipeInvariant'
  BY <1>2, <1>3, <1>4, QuietSound DEF IInv, MakeKey
<1>6. db' \in Db
  BY <1>2 DEF IInv, TypeOK, Db, MakeKey
<1> QED  BY <1>5, <1>6 DEF IInv, TypeOK, MakeKey

\* Request gives a flow that awaits nothing its steps.
LEMMA RequestSound ==
  ASSUME IInv, NEW x \in Flows, NEW f \in Files, Request(x, f)
  PROVE  IInv'
<1> DEFINE r == [flow[x] EXCEPT !.file = f]
<1>1. flow[x] \in Flow /\ helper[f].has \in SUBSET Lists
  BY DEF IInv, TypeOK, Helper
<1>2. flow[x].on = 0
  BY DEF IInv, PipeInvariant, FlowSound, Request
<1>3. r \in Flow /\ r.file = f
  BY <1>1 DEF Flow
<1>4. Resume(x, r, Script(x, f), helper[f].has, pipe)
  BY DEF Request
<1> HIDE DEF r
<1>5. flow' \in [Flows -> Flow] /\ helper' \in [Files -> Helper] /\ pipe' \in Seq(Pipe)
      /\ PipeInvariant'
  BY <1>1, <1>2, <1>3, <1>4, ScriptType, FreeGoesOn DEF IInv
<1> QED  BY <1>5 DEF IInv, TypeOK, Request

\* The next step of a flow that has a write to do.
LEMMA GoesOnSound ==
  ASSUME IInv, NEW x \in Flows, Step(x) \in Writes, GoesOn(x)
  PROVE  /\ flow' \in [Flows -> Flow] /\ helper' \in [Files -> Helper] /\ pipe' \in Seq(Pipe)
         /\ PipeInvariant'
         /\ flow[x] \in Flow /\ flow[x].file \in Files
<1>1. flow[x] \in Flow /\ flow[x].todo \in Steps
  BY DEF IInv, TypeOK, Flow, Steps
<1>2. flow[x].todo # <<>> /\ Head(flow[x].todo) \in Writes
  BY DEF Step, Writes
<1>3. flow[x].file \in Files /\ flow[x].on = 0
  BY <1>2 DEF IInv, PipeInvariant, FlowSound, Commands, Writes
<1>4. Tail(flow[x].todo) \in Steps
  BY <1>1, <1>2 DEF Steps
<1>5. helper[flow[x].file].has \in SUBSET Lists
  BY <1>3 DEF IInv, TypeOK, Helper
<1> QED  BY <1>1, <1>3, <1>4, <1>5, FreeGoesOn DEF IInv, GoesOn

\* Store, Mark and Save each end with the flow going on.
LEMMA WriteSound ==
  ASSUME IInv, NEW x \in Flows, WriteStep(x)
  PROVE  IInv'
<1>1. CASE Store(x)
  <2>1. Step(x) \in Writes /\ GoesOn(x)
    BY <1>1 DEF Store, Writes
  <2> QED  BY <1>1, <2>1, GoesOnSound DEF IInv, TypeOK, Store
<1>2. CASE Mark(x)
  <2>1. Step(x) \in Writes /\ GoesOn(x)
    BY <1>2 DEF Mark, Writes
  <2>2. db' \in Db
    BY <1>2, <2>1, GoesOnSound DEF IInv, TypeOK, Db, Mark
  <2> QED  BY <1>2, <2>1, <2>2, GoesOnSound DEF IInv, TypeOK, Mark
<1>3. CASE Save(x)
  <2>1. Step(x) \in Writes /\ GoesOn(x)
    BY <1>3 DEF Save, Writes
  <2>2. flow[x].secs \in {"none", "full", "empty"}
    BY <2>1, GoesOnSound DEF Flow
  <2>3. db' \in Db
    BY <1>3, <2>1, <2>2, GoesOnSound DEF IInv, TypeOK, Db, Save
  <2> QED  BY <1>3, <2>1, <2>3, GoesOnSound DEF IInv, TypeOK, Save
<1> QED  BY <1>1, <1>2, <1>3 DEF WriteStep

\* The processes, once process i has answered.
Answered(i) ==
  [pipe EXCEPT ![i] = [Next1(pipe[i]) EXCEPT !.ready = @ \/ Step(pipe[i].cur) = "aa"]]

\* Process i has answered flow x, and the command it is sent next, if there is one,
\* is of another flow: no process holds x, and the others hold what they held.
LEMMA AnsweredSound ==
  ASSUME IInv, NEW i \in 1..Len(pipe), pipe[i].cur # None, NEW ps, ps = Answered(i)
  PROVE  /\ ps \in Seq(Pipe) /\ Len(ps) = Len(pipe)
         /\ \A j \in 1..Len(ps) :
              /\ PipeSound(j, ps[j], flow)
              /\ ps[j].cur # pipe[i].cur /\ pipe[i].cur \notin Range(ps[j].wait)
         /\ \A y \in Flows \ {pipe[i].cur} : Placed(y, flow[y].on, ps)
<1> DEFINE p == pipe[i]
           x == p.cur
           n == Next1(p)
           q == [n EXCEPT !.ready = @ \/ Step(x) = "aa"]
<1>1. /\ pipe \in Seq(Pipe) /\ p \in Pipe /\ x \in Flows /\ Len(pipe) \in Nat /\ i \in Nat
      /\ i # 0 /\ PipeSound(i, p, flow) /\ flow[x].on = i
  <2>1. i \in DOMAIN pipe
    BY DEF IInv, TypeOK
  <2> QED  BY <2>1, PipeAt
<1>2. PipeSound(i, p, flow) /\ flow[x].on = i
  BY <1>1
<1>3. Step(x) = Head(flow[x].todo)
  <2>1. flow[x].todo # <<>>
    BY <1>1, <1>2 DEF IInv, PipeInvariant, FlowSound
  <2> QED  BY <2>1 DEF Step
<1>4. /\ n \in Pipe
      /\ n.up = p.up /\ n.ready = p.ready
      /\ n.cur \notin Range(n.wait)
      /\ \A j, k \in 1..Len(n.wait) : n.wait[j] = n.wait[k] => j = k
      /\ n.wait # <<>> => n.cur # None
      /\ \A y \in Flows : (n.cur = y \/ y \in Range(n.wait)) <=> y \in Range(p.wait)
      /\ n.cur # x /\ x \notin Range(n.wait)
  BY <1>1, <1>2, Next1Sound DEF PipeSound
<1>5. n.ready \/ Step(x) = "aa"
  BY <1>2, <1>3, <1>4 DEF PipeSound
<1> HIDE DEF n
<1>6. q \in Pipe /\ q.cur = n.cur /\ q.wait = n.wait /\ q.ready = TRUE
  <2>1. (n.ready \/ Step(x) = "aa") = TRUE
    BY <1>5
  <2>2. q = [n EXCEPT !.ready = TRUE]
    BY <2>1
  <2> HIDE DEF q
  <2> QED  BY <1>4, <2>2 DEF Pipe
<1>7. ps = [pipe EXCEPT ![i] = q]
  BY DEF n, Answered
<1> HIDE DEF q
<1>8. /\ ps \in Seq(Pipe) /\ Len(ps) = Len(pipe)
      /\ \A j \in 1..Len(pipe) : ps[j] = IF j = i THEN q ELSE pipe[j]
  BY <1>1, <1>6, <1>7, ExceptSeq
<1>9. PipeSound(i, q, flow)
  <2>1. \A y \in Flows : q.cur = y \/ y \in Range(q.wait) => flow[y].on = i
    BY <1>2, <1>4, <1>6 DEF PipeSound
  <2> QED  BY <1>4, <1>6, <2>1 DEF PipeSound
<1>10. \A j \in 1..Len(pipe) \ {i} :
         /\ PipeSound(j, pipe[j], flow)
         /\ pipe[j].cur # x /\ x \notin Range(pipe[j].wait)
  BY <1>1, <1>2 DEF IInv, PipeInvariant, PipeSound
<1>11. \A j \in 1..Len(ps) :
         PipeSound(j, ps[j], flow) /\ ps[j].cur # x /\ x \notin Range(ps[j].wait)
  <2> TAKE j \in 1..Len(ps)
  <2>1. CASE j = i
    BY <1>4, <1>6, <1>8, <1>9, <2>1
  <2>2. CASE j # i
    BY <1>8, <1>10, <2>2
  <2> QED  BY <2>1, <2>2
<1>12. \A y \in Flows \ {x} : Placed(y, flow[y].on, ps)
  <2> TAKE y \in Flows \ {x}
  <2>1. Placed(y, flow[y].on, pipe)
    BY DEF IInv, PipeInvariant
  <2>2. CASE flow[y].on = i
    <3>1. y \in Range(p.wait)
      BY <1>1, <2>1, <2>2 DEF Placed
    <3>2. n.cur = y \/ y \in Range(n.wait)
      BY <1>4, <3>1
    <3>3. i \in 1..Len(ps) /\ ps[i].cur = n.cur /\ ps[i].wait = n.wait
      BY <1>6, <1>8
    <3> QED  BY <2>2, <3>2, <3>3 DEF Placed
  <2>3. CASE flow[y].on # i
    BY <1>8, <2>1, <2>3 DEF Placed
  <2> QED  BY <2>2, <2>3
<1> QED  BY <1>8, <1>11, <1>12

\* What an answer leaves to do is a list of steps.
LEMMA AfterType ==
  ASSUME NEW x \in Flows, NEW c, NEW o, flow[x].todo \in Steps, flow[x].todo # <<>>
  PROVE  After(x, c, o) \in Steps
<1>1. Saves(x, c, o) \in Steps
  <2>1. Saves(x, c, o) \in {<<"saveFuncs">>, <<"saveStr">>, <<>>}
    BY DEF Saves
  <2>2. {<<"saveFuncs">>, <<"saveStr">>, <<>>} \subseteq Steps
    BY DEF Steps, Writes
  <2> QED  BY <2>1, <2>2
<1>2. Tail(flow[x].todo) \in Steps
  BY DEF Steps
<1>3. SkipTypes(flow[x].todo) \in Steps
  BY DEF SkipTypes, Steps
<1>4. Saves(x, c, o) \o Tail(flow[x].todo) \in Steps
  BY <1>1, <1>2 DEF Steps
<1> QED  BY <1>3, <1>4 DEF After, Steps

\* Answer frees the flow that was answered, then has it go on.
LEMMA AnswerSound ==
  ASSUME IInv, NEW i \in DOMAIN pipe, Answer(i)
  PROVE  IInv'
<1> DEFINE x == pipe[i].cur
           c == Step(x)
<1>1. i \in 1..Len(pipe) /\ x \in Flows /\ i \in Nat /\ i # 0 /\ x # None /\ flow[x].on = i
  <2>1. x # None
    BY DEF Answer
  <2> QED  BY <2>1, PipeAt
<1>2. flow[x].on = i
  BY <1>1
<1>3. /\ flow[x] \in Flow /\ flow[x].todo \in Steps /\ flow[x].todo # <<>>
      /\ flow[x].file \in Files
  BY <1>1, <1>2 DEF IInv, TypeOK, Flow, Steps, PipeInvariant, FlowSound
<1>4. PICK o \in Outcome(c) :
        /\ \E r \in {Given(x, c, o)}, t \in {After(x, c, o)}, has \in {Flagged(x, c, o)},
             ps \in {[pipe EXCEPT ![i] = [Next1(pipe[i]) EXCEPT !.ready = @ \/ c = "aa"]]} :
             Resume(x, r, t, has, ps)
        /\ past' = Heard(x, c, o)
  BY DEF Answer
<1>5. PICK r \in {Given(x, c, o)}, t \in {After(x, c, o)}, has \in {Flagged(x, c, o)},
           ps \in {[pipe EXCEPT ![i] = [Next1(pipe[i]) EXCEPT !.ready = @ \/ c = "aa"]]} :
        Resume(x, r, t, has, ps)
  BY <1>4
<1>6. r \in Flow /\ r.file \in Files
  <2>1. r = Given(x, c, o)
    BY <1>5
  <2> QED  BY <1>3, <2>1 DEF Given, Flow
<1>7. t \in Steps
  <2>1. t = After(x, c, o)
    BY <1>5
  <2> QED  BY <1>1, <1>3, <2>1, AfterType
<1>8. has \in SUBSET Lists
  <2>1. has = Flagged(x, c, o)
    BY <1>5
  <2>2. helper[flow[x].file].has \in SUBSET Lists
    BY <1>3 DEF IInv, TypeOK, Helper
  <2>3. Flags(c) \in SUBSET Lists
    BY DEF Flags
  <2> QED  BY <2>1, <2>2, <2>3 DEF Flagged
<1>9. ps = Answered(i)
  BY <1>5, Zenon DEF Answered
<1>10. /\ ps \in Seq(Pipe) /\ Len(ps) = Len(pipe)
       /\ \A j \in 1..Len(ps) :
            PipeSound(j, ps[j], flow) /\ ps[j].cur # x /\ x \notin Range(ps[j].wait)
       /\ \A y \in Flows \ {x} : Placed(y, flow[y].on, ps)
  <2>1. i \in 1..Len(pipe) /\ pipe[i].cur # None
    BY <1>1
  <2>2. /\ ps \in Seq(Pipe) /\ Len(ps) = Len(pipe)
        /\ \A j \in 1..Len(ps) :
             /\ PipeSound(j, ps[j], flow)
             /\ ps[j].cur # pipe[i].cur /\ pipe[i].cur \notin Range(ps[j].wait)
        /\ \A y \in Flows \ {pipe[i].cur} : Placed(y, flow[y].on, ps)
    BY <2>1, <1>9, AnsweredSound
  <2> QED  BY <2>2
<1>11. Resume(x, r, t, has, ps)
  BY <1>5
<1>12. past' \in Past
  BY <1>3, <1>4 DEF IInv, TypeOK, Past, Heard
<1> HIDE DEF x
<1>13. flow' \in [Flows -> Flow] /\ helper' \in [Files -> Helper] /\ pipe' \in Seq(Pipe)
       /\ PipeInvariant'
  BY <1>1, <1>6, <1>7, <1>8, <1>10, <1>11, ResumeSound DEF IInv
<1>14. UNCHANGED <<targets, db>>
  BY DEF Answer
<1> QED  BY <1>12, <1>13, <1>14 DEF IInv, TypeOK

\* Die changes nothing of who is held by which process.
LEMMA DieSound ==
  ASSUME IInv, NEW i \in DOMAIN pipe, Die(i)
  PROVE  IInv'
<1>1. pipe \in Seq(Pipe) /\ i \in 1..Len(pipe) /\ Len(pipe) \in Nat
  BY DEF IInv, TypeOK
<1> DEFINE q == [pipe[i] EXCEPT !.up = FALSE]
<1>2. q \in Pipe /\ q.cur = pipe[i].cur /\ q.wait = pipe[i].wait /\ q.ready = pipe[i].ready
  <2>1. pipe[i] \in Pipe
    BY <1>1
  <2> QED  BY <2>1 DEF Pipe
<1>3. pipe' = [pipe EXCEPT ![i] = q]
  BY <1>1 DEF Die
<1> HIDE DEF q
<1>4. /\ pipe' \in Seq(Pipe) /\ Len(pipe') = Len(pipe)
      /\ \A j \in 1..Len(pipe) : pipe'[j] = IF j = i THEN q ELSE pipe[j]
  BY <1>1, <1>2, <1>3, ExceptSeq
<1>5. \A j \in 1..Len(pipe) : /\ pipe'[j].cur = pipe[j].cur /\ pipe'[j].wait = pipe[j].wait
                              /\ pipe'[j].ready = pipe[j].ready
  BY <1>2, <1>4
<1>6. \A j \in 1..Len(pipe) : PipeSound(j, pipe[j], flow)
  BY DEF IInv, PipeInvariant
<1>7. \A j \in 1..Len(pipe) : PipeSound(j, pipe'[j], flow)
  <2> TAKE j \in 1..Len(pipe)
  <2>1. PipeSound(j, pipe[j], flow)
    BY <1>6
  <2>2. /\ pipe'[j].cur = pipe[j].cur /\ pipe'[j].wait = pipe[j].wait
        /\ pipe'[j].ready = pipe[j].ready
    BY <1>5
  <2> QED  BY <2>1, <2>2 DEF PipeSound
<1>8. \A y \in Flows : Placed(y, flow[y].on, pipe')
  BY <1>4, <1>5 DEF IInv, PipeInvariant, Placed
<1>9. PipeInvariant'
  BY <1>4, <1>7, <1>8 DEF IInv, PipeInvariant, FlowSound, Die
<1>10. past' \in Past
  <2>1. past \in Past /\ past' = [past EXCEPT !.faults = @ + 1]
    BY DEF IInv, TypeOK, Die
  <2> QED  BY <2>1 DEF Past
<1> QED  BY <1>4, <1>9, <1>10 DEF IInv, TypeOK, Die

\* After Stop there is neither a process nor a flow that awaits one.
LEMMA StopSound ==
  ASSUME IInv, Stop
  PROVE  IInv'
<1>1. Idle \in Flow /\ NoHelper \in Helper
  BY DEF Idle, Flow, NoHelper, Helper
<1>2. past' \in Past /\ targets' \in SUBSET Files
  BY DEF IInv, TypeOK, Past, Db, Stop
<1>3. TypeOK'
  BY <1>1, <1>2 DEF IInv, TypeOK, Stop
<1>4. PipeInvariant'
  BY DEF PipeInvariant, FlowSound, Placed, Idle, NoHelper, Stop
<1> QED  BY <1>3, <1>4 DEF IInv

\* The invariant is inductive.
LEMMA NextSound == IInv /\ [Next]_vars => IInv'
<1> SUFFICES ASSUME IInv, [Next]_vars  PROVE IInv'
  OBVIOUS
<1>1. ASSUME NEW x \in Flows, LoopStep(x)  PROVE IInv'
  BY <1>1, EventSound, LookSound, LookUpKeySound, MakeKeySound DEF LoopStep
<1>2. ASSUME NEW x \in Flows, WriteStep(x)  PROVE IInv'
  BY <1>2, WriteSound
<1>3. ASSUME NEW x \in Flows, NEW f \in Files, Request(x, f)  PROVE IInv'
  BY <1>3, RequestSound
<1>4. ASSUME NEW i \in DOMAIN pipe, Answer(i)  PROVE IInv'
  BY <1>4, AnswerSound
<1>5. ASSUME NEW i \in DOMAIN pipe, Die(i)  PROVE IInv'
  BY <1>5, DieSound
<1>6. CASE Stop
  BY <1>6, StopSound
<1>7. CASE UNCHANGED vars
  BY <1>7 DEF vars, IInv, TypeOK, PipeInvariant, FlowSound
<1> QED  BY <1>1, <1>2, <1>3, <1>4, <1>5, <1>6, <1>7 DEF Next

\* The invariant has the three parts of PipesConsistent.
LEMMA Consistent == IInv => PipesConsistent
<1> SUFFICES ASSUME IInv  PROVE PipesConsistent
  OBVIOUS
<1>1. pipe \in Seq(Pipe) /\ DOMAIN pipe = 1..Len(pipe)
  BY DEF IInv, TypeOK
<1>2. AnalysedFirst
  <2> SUFFICES ASSUME NEW i \in 1..Len(pipe), pipe[i].cur # None,
                      Step(pipe[i].cur) # "aa"
               PROVE  pipe[i].ready
    BY <1>1 DEF AnalysedFirst
  <2>1. pipe[i].cur \in Flows /\ flow[pipe[i].cur].on = i /\ i # 0
    BY <1>1, PipeAt
  <2>2. flow[pipe[i].cur].todo # <<>>
    BY <2>1 DEF IInv, PipeInvariant, FlowSound
  <2> QED  BY <2>2 DEF Step, IInv, PipeInvariant, PipeSound
<1>3. KeptWhileBusy
  BY <1>1 DEF KeptWhileBusy, IInv, PipeInvariant, PipeSound
<1>4. AwaitedOnce
  <2> SUFFICES ASSUME NEW x \in Flows, flow[x].on # 0
               PROVE  /\ flow[x].on \in 1..Len(pipe) /\ Holds(flow[x].on, x)
                      /\ \A i \in 1..Len(pipe) : Holds(i, x) => i = flow[x].on
    BY <1>1 DEF AwaitedOnce
  <2>1. flow[x].on \in 1..Len(pipe) /\ Holds(flow[x].on, x)
    BY DEF IInv, PipeInvariant, Placed, Holds
  <2>2. \A i \in 1..Len(pipe) : Holds(i, x) => i = flow[x].on
    BY DEF IInv, PipeInvariant, PipeSound, Holds
  <2> QED  BY <2>1, <2>2
<1> QED  BY <1>2, <1>3, <1>4 DEF IInv, PipesConsistent

\* The variables have their types, whatever the files, the flows that overlap and
\* the number of faults.
THEOREM TypeCorrect == Spec => []TypeOK
<1>1. Init => IInv
  BY InitSound
<1>2. IInv /\ [Next]_vars => IInv'
  BY NextSound
<1>3. IInv => TypeOK
  BY DEF IInv
<1> QED  BY <1>1, <1>2, <1>3, PTL DEF Spec

\* R2PipeBridge and R2Helper: a process is sent a command only after it has
\* analysed the file, none is left behind in an idle pipe, and every flow that
\* awaits an answer is known to one pipe, the one it awaits it from.
THEOREM PipesConsistentHolds == Spec => []PipesConsistent
<1>1. Init => IInv
  BY InitSound
<1>2. IInv /\ [Next]_vars => IInv'
  BY NextSound
<1>3. IInv => PipesConsistent
  BY Consistent
<1> QED  BY <1>1, <1>2, <1>3, PTL DEF Spec

(***************************************************************************)
(* The sections of a file                                                  *)
(***************************************************************************)

\* Where the steps t read the segments or save the record, they read the sections
\* before; and the sections do not stand where a failed start has the flow skip a step.
ReadBefore(t)  == \A j \in 1..Len(t) :
                    t[j] \in {"segments", "save"} => \E k \in 1..(j - 1) : t[k] = "sections"
TypesPaired(t) == \A j \in 1..(Len(t) - 1) : t[j] = "tj" => t[j + 1] # "sections"
NoSections(t)  == \A j \in 1..Len(t) : t[j] \notin {"segments", "save"}

\* The steps t of a flow are those of a flow that was given the sections, reads them
\* first, or has no use for them.
StepsSound(t, told) == told \/ NoSections(t) \/ (TypesPaired(t) /\ ReadBefore(t))

\* The files whose sections were read, or something else was taken for them.
Known == past.told \cup past.misread

\* A helper says that it has the sections, and a flow saves them, only if there was
\* something to take for them.
ReadInvariant ==
  /\ \A f \in Files : "sections" \in helper[f].has => f \in Known
  /\ \A x \in Flows : StepsSound(flow[x].todo, flow[x].file \in Known)

\* Nothing is left to do.
LEMMA NoSteps ==
  ASSUME NEW told
  PROVE  StepsSound(<<>>, told)
BY DEF StepsSound, NoSections

\* The first step is done: if it read the sections, they were given.
LEMMA TailSteps ==
  ASSUME NEW t \in Steps, t # <<>>, NEW told, StepsSound(t, told),
         Head(t) = "sections" => told
  PROVE  StepsSound(Tail(t), told)
<1>1. /\ Len(t) \in Nat /\ Len(t) > 0 /\ Len(Tail(t)) = Len(t) - 1
      /\ \A j \in 1..Len(Tail(t)) : Tail(t)[j] = t[j + 1]
      /\ Head(t) = t[1]
  BY DEF Steps
<1>2. CASE NoSections(t)
  <2>1. NoSections(Tail(t))
    BY <1>1, <1>2 DEF NoSections
  <2> QED  BY <2>1 DEF StepsSound
<1>3. CASE ~told /\ TypesPaired(t) /\ ReadBefore(t)
  <2>1. TypesPaired(Tail(t))
    <3> SUFFICES ASSUME NEW j \in 1..(Len(Tail(t)) - 1), Tail(t)[j] = "tj"
                 PROVE  Tail(t)[j + 1] # "sections"
      BY DEF TypesPaired
    <3>1. j + 1 \in 1..(Len(t) - 1) /\ Tail(t)[j] = t[j + 1] /\ Tail(t)[j + 1] = t[(j + 1) + 1]
      BY <1>1
    <3> QED  BY <1>3, <3>1 DEF TypesPaired
  <2>2. ReadBefore(Tail(t))
    <3> SUFFICES ASSUME NEW j \in 1..Len(Tail(t)), Tail(t)[j] \in {"segments", "save"}
                 PROVE  \E k \in 1..(j - 1) : Tail(t)[k] = "sections"
      BY DEF ReadBefore
    <3>1. j + 1 \in 1..Len(t) /\ t[j + 1] \in {"segments", "save"}
      BY <1>1
    <3>2. PICK k \in 1..((j + 1) - 1) : t[k] = "sections"
      BY <1>3, <3>1 DEF ReadBefore
    <3>3. k # 1
      BY <1>1, <1>3, <3>2
    <3>4. k - 1 \in 1..(j - 1) /\ Tail(t)[k - 1] = t[k]
      BY <1>1, <3>1, <3>2, <3>3
    <3> QED  BY <3>2, <3>4
  <2> QED  BY <2>1, <2>2 DEF StepsSound
<1> QED  BY <1>2, <1>3 DEF StepsSound

\* The types are skipped.
LEMMA SkipTypesSteps ==
  ASSUME NEW t \in Steps, NEW told, StepsSound(t, told)
  PROVE  SkipTypes(t) \in Steps /\ StepsSound(SkipTypes(t), told)
<1>1. SkipTypes(t) \in Steps
  BY DEF SkipTypes, Steps
<1>2. CASE t # <<>> /\ Head(t) = "tj"
  <2> DEFINE u == SubSeq(t, 3, Len(t))
  <2>1. SkipTypes(t) = u
    BY <1>2 DEF SkipTypes
  <2>2. /\ Len(t) \in Nat /\ Len(t) > 0 /\ t[1] = "tj"
        /\ Len(u) = IF Len(t) >= 3 THEN Len(t) - 2 ELSE 0
        /\ \A j \in 1..Len(u) : u[j] = t[j + 2]
    BY <1>2 DEF Steps
  <2> HIDE DEF u
  <2>5. CASE told
    BY <1>1, <2>5 DEF StepsSound
  <2>3. CASE NoSections(t)
    <3>1. NoSections(u)
      BY <2>2, <2>3 DEF NoSections
    <3> QED  BY <1>1, <2>1, <3>1 DEF StepsSound
  <2>4. CASE TypesPaired(t) /\ ReadBefore(t)
    <3>1. TypesPaired(u)
      <4> SUFFICES ASSUME NEW j \in 1..(Len(u) - 1), u[j] = "tj"
                   PROVE  u[j + 1] # "sections"
        BY DEF TypesPaired
      <4>1. j + 2 \in 1..(Len(t) - 1) /\ u[j] = t[j + 2] /\ u[j + 1] = t[(j + 2) + 1]
        BY <2>2
      <4> QED  BY <2>4, <4>1 DEF TypesPaired
    <3>2. ReadBefore(u)
      <4> SUFFICES ASSUME NEW j \in 1..Len(u), u[j] \in {"segments", "save"}
                   PROVE  \E k \in 1..(j - 1) : u[k] = "sections"
        BY DEF ReadBefore
      <4>1. j + 2 \in 1..Len(t) /\ t[j + 2] \in {"segments", "save"}
        BY <2>2
      <4>2. PICK k \in 1..((j + 2) - 1) : t[k] = "sections"
        BY <2>4, <4>1 DEF ReadBefore
      <4>3. k # 1
        BY <2>2, <4>2
      <4>4. t[1 + 1] # "sections"
        BY <2>2, <2>4, <4>1 DEF TypesPaired
      <4>5. k - 2 \in 1..(j - 1) /\ u[k - 2] = t[k]
        BY <2>2, <4>1, <4>2, <4>3, <4>4
      <4> QED  BY <4>2, <4>5
    <3> QED  BY <1>1, <2>1, <3>1, <3>2 DEF StepsSound
  <2> QED  BY <1>2, <2>3, <2>4, <2>5 DEF StepsSound
<1>3. CASE t # <<>> /\ Head(t) = "ts"
  <2>1. SkipTypes(t) = Tail(t)
    BY <1>3 DEF SkipTypes
  <2> QED  BY <1>1, <1>3, <2>1, TailSteps
<1>4. CASE t = <<>> \/ (Head(t) # "tj" /\ Head(t) # "ts")
  <2>1. SkipTypes(t) = t
    BY <1>4 DEF SkipTypes
  <2> QED  BY <2>1
<1> QED  BY <1>1, <1>2, <1>3, <1>4

\* What is left at the next await.
LEMMA LeftSteps ==
  ASSUME NEW t \in Steps, NEW has, NEW up, NEW told, StepsSound(t, told),
         "sections" \in has => told
  PROVE  StepsSound(Left(t, has, up), told)
<1>1. \A s \in Steps : StepsSound(s, told) =>
                         Skip(s, has) \in Steps /\ StepsSound(Skip(s, has), told)
  <2> SUFFICES ASSUME NEW s \in Steps, StepsSound(s, told)
               PROVE  Skip(s, has) \in Steps /\ StepsSound(Skip(s, has), told)
    OBVIOUS
  <2>1. CASE s # <<>> /\ Head(s) \in has
    <3>1. Skip(s, has) = Tail(s) /\ Tail(s) \in Steps
      BY <2>1 DEF Skip, Steps
    <3> QED  BY <2>1, <3>1, TailSteps
  <2>2. CASE ~(s # <<>> /\ Head(s) \in has)
    BY <2>2 DEF Skip
  <2> QED  BY <2>1, <2>2
<1> DEFINE v == IF up THEN t ELSE SkipTypes(t)
           u == Skip(Skip(v, has), has)
<1>2. v \in Steps /\ StepsSound(v, told)
  BY SkipTypesSteps
<1> HIDE DEF v
<1>3. StepsSound(u, told)
  BY <1>1, <1>2
<1>4. Left(t, has, up) = u \/ Left(t, has, up) = <<>>
  BY DEF Left, v
<1> QED  BY <1>3, <1>4, NoSteps

\* A start goes before.
LEMMA BootSteps ==
  ASSUME NEW t \in Steps, StepsSound(t, FALSE)
  PROVE  Boot \o t \in Steps /\ StepsSound(Boot \o t, FALSE)
<1> DEFINE u == Boot \o t
<1>1. Boot \in Steps /\ Len(Boot) = 3 /\ Boot[1] = "aa" /\ Boot[2] = "tj" /\ Boot[3] = "ts"
  BY DEF Boot, Steps, Commands, Writes
<1>2. /\ u \in Steps /\ Len(t) \in Nat /\ Len(u) = Len(t) + 3
      /\ \A j \in 1..Len(u) : u[j] = IF j <= 3 THEN Boot[j] ELSE t[j - 3]
  <2>1. u \in Steps /\ Len(t) \in Nat
    BY <1>1 DEF Steps
  <2>2. Len(u) = Len(Boot) + Len(t)
        /\ \A j \in 1..(Len(Boot) + Len(t)) :
             u[j] = IF j <= Len(Boot) THEN Boot[j] ELSE t[j - Len(Boot)]
    BY <1>1, ConcatProperties DEF Steps
  <2> QED  BY <1>1, <2>1, <2>2
<1>3. /\ \A j \in 1..Len(t) : j + 3 \in 1..Len(u) /\ u[j + 3] = t[j]
      /\ \A j \in 1..Len(u) : j > 3 => j - 3 \in 1..Len(t) /\ u[j] = t[j - 3]
  BY <1>2
<1>4. u[1] = "aa" /\ u[2] = "tj" /\ u[3] = "ts"
  BY <1>1, <1>2
<1> HIDE DEF u
<1>5. CASE NoSections(t)
  <2>1. NoSections(u)
    <3> SUFFICES ASSUME NEW j \in 1..Len(u)  PROVE u[j] \notin {"segments", "save"}
      BY DEF NoSections
    <3>1. CASE j > 3
      BY <1>3, <1>5, <3>1 DEF NoSections
    <3>2. CASE j \in {1, 2, 3}
      BY <1>4, <3>2
    <3> QED  BY <1>2, <3>1, <3>2
  <2> QED  BY <1>2, <2>1 DEF StepsSound, u
<1>6. CASE TypesPaired(t) /\ ReadBefore(t)
  <2>1. TypesPaired(u)
    <3> SUFFICES ASSUME NEW j \in 1..(Len(u) - 1), u[j] = "tj"
                 PROVE  u[j + 1] # "sections"
      BY DEF TypesPaired
    <3>1. CASE j > 3
      <4>1. j - 3 \in 1..(Len(t) - 1) /\ u[j] = t[j - 3] /\ u[j + 1] = t[(j - 3) + 1]
        BY <1>2, <1>3, <3>1
      <4> QED  BY <1>6, <4>1 DEF TypesPaired
    <3>2. CASE j \in {1, 2, 3}
      BY <1>4, <3>2
    <3> QED  BY <1>2, <3>1, <3>2
  <2>2. ReadBefore(u)
    <3> SUFFICES ASSUME NEW j \in 1..Len(u), u[j] \in {"segments", "save"}
                 PROVE  \E k \in 1..(j - 1) : u[k] = "sections"
      BY DEF ReadBefore
    <3>1. j > 3
      <4>1. j \notin {1, 2, 3}
        BY <1>4
      <4> QED  BY <1>2, <4>1
    <3>2. j - 3 \in 1..Len(t) /\ t[j - 3] \in {"segments", "save"}
      BY <1>3, <3>1
    <3>3. PICK k \in 1..((j - 3) - 1) : t[k] = "sections"
      BY <1>6, <3>2 DEF ReadBefore
    <3>4. k + 3 \in 1..(j - 1) /\ u[k + 3] = "sections"
      BY <1>2, <1>3, <3>2, <3>3
    <3> QED  BY <3>4
  <2> QED  BY <1>2, <2>1, <2>2 DEF StepsSound, u
<1> QED  BY <1>5, <1>6 DEF StepsSound

\* What a flow is given to do when it begins; a request that is no discovery does not
\* read the segments.
LEMMA ScriptSteps ==
  ASSUME NEW x \in Flows, NEW f \in Files, Discovers(x) \/ "segments" \notin Range(Cmds[x])
  PROVE  StepsSound(Script(x, f), FALSE)
<1>1. Discovery \in Steps /\ StepsSound(Discovery, FALSE)
  <2>1. Discovery \in Steps
    BY DEF Discovery, Steps, Commands, Writes
  <2>2. TypesPaired(Discovery)
    BY DEF Discovery, TypesPaired
  <2>3. ReadBefore(Discovery)
    <3>1. Discovery[2] = "sections" /\ Discovery[1] = "f_list"
      BY DEF Discovery
    <3> SUFFICES ASSUME NEW j \in 1..Len(Discovery), Discovery[j] \in {"segments", "save"}
                 PROVE  2 \in 1..(j - 1)
      BY <3>1 DEF ReadBefore
    <3>2. j # 1 /\ j # 2
      BY <3>1
    <3> QED  BY <3>2
  <2> QED  BY <2>1, <2>2, <2>3 DEF StepsSound
<1>2. Cmds[x] \in Steps
  <2>1. Cmds[x] \in Seq(Commands \ {"aa"})
    BY CmdsAssumption
  <2> QED  BY <2>1 DEF Steps
<1>3. ~Discovers(x) => StepsSound(Cmds[x], FALSE)
  <2> SUFFICES ASSUME ~Discovers(x), NEW j \in 1..Len(Cmds[x])
               PROVE  Cmds[x][j] \notin {"segments", "save"}
    BY DEF StepsSound, NoSections
  <2>1. Cmds[x] \in Seq(Commands \ {"aa"})
    BY CmdsAssumption
  <2>2. Cmds[x][j] \in Commands
    BY <2>1
  <2>3. Cmds[x][j] \in Range(Cmds[x])
    BY <2>1 DEF Range
  <2> QED  BY <2>2, <2>3 DEF Commands
<1> DEFINE s == IF Discovers(x) THEN Discovery ELSE Cmds[x]
           e == <<>>
           u == (IF helper[f].pipe = 0 \/ Discovers(x) THEN Boot ELSE e) \o s
<1>4. s \in Steps /\ StepsSound(s, FALSE) /\ e \o s = s
  BY <1>1, <1>2, <1>3, ConcatEmptySeq DEF Steps
<1> HIDE DEF s
<1>5. u \in Steps /\ StepsSound(u, FALSE)
  BY <1>4, BootSteps
<1>6. Script(x, f) = (IF helper[f].pipe = 0 THEN Boot ELSE e) \o u
  <2>1. Boot \in Steps /\ e \in Steps
    BY DEF Boot, Steps, Commands, Writes
  <2>2. \A a, b \in Steps : (a \o b) \o s = a \o (b \o s)
    BY <1>4 DEF Steps
  <2> DEFINE a == IF helper[f].pipe = 0 THEN Boot ELSE e
             b == IF helper[f].pipe = 0 \/ Discovers(x) THEN Boot ELSE e
  <2>3. a \in Steps /\ b \in Steps
    BY <2>1
  <2>4. Script(x, f) = (a \o b) \o s
    BY DEF Script, s
  <2> HIDE DEF a, b
  <2> QED  BY <2>2, <2>3, <2>4 DEF a, b
<1> HIDE DEF u
<1>7. e \o u = u
  BY <1>5, ConcatEmptySeq DEF Steps
<1> QED  BY <1>5, <1>6, <1>7, BootSteps

\* What an answer leaves to do: the flow was given the sections if it had asked for
\* them.
LEMMA AfterSteps ==
  ASSUME NEW x \in Flows, NEW o, NEW told, flow[x].todo \in Steps, flow[x].todo # <<>>,
         StepsSound(flow[x].todo, told),
         ~Fails(Step(x), o) /\ Step(x) = "sections" => told
  PROVE  StepsSound(After(x, Step(x), o), told)
<1> DEFINE t == flow[x].todo
           c == Step(x)
<1>1. c = Head(t)
  BY DEF Step
<1>2. CASE ~Fails(c, o)
  <2>1. StepsSound(Tail(t), told) /\ Tail(t) \in Steps
    BY <1>1, <1>2, TailSteps DEF Steps
  <2> DEFINE v == Tail(t)
  <2> HIDE DEF v
  <2>2. \A w \in {"saveFuncs", "saveStr"} : StepsSound(<<w>> \o v, told)
    <3> SUFFICES ASSUME NEW w \in {"saveFuncs", "saveStr"}  PROVE StepsSound(<<w>> \o v, told)
      OBVIOUS
    <3> DEFINE u == <<w>> \o v
    <3>1. v \in Steps /\ StepsSound(v, told)
      BY <2>1 DEF v
    <3>2. /\ Len(v) \in Nat /\ Len(u) = Len(v) + 1 /\ u[1] = w
          /\ \A j \in 1..Len(u) : j > 1 => j - 1 \in 1..Len(v) /\ u[j] = v[j - 1]
          /\ \A j \in 1..Len(v) : j + 1 \in 1..Len(u) /\ u[j + 1] = v[j]
      BY <3>1 DEF Steps
    <3> HIDE DEF u
    <3>3. CASE NoSections(v)
      <4>1. NoSections(u)
        BY <3>2, <3>3 DEF NoSections
      <4> QED  BY <4>1 DEF StepsSound, u
    <3>4. CASE TypesPaired(v) /\ ReadBefore(v)
      <4>1. TypesPaired(u)
        <5> SUFFICES ASSUME NEW j \in 1..(Len(u) - 1), u[j] = "tj"
                     PROVE  u[j + 1] # "sections"
          BY DEF TypesPaired
        <5>1. j > 1
          BY <3>2
        <5>2. j - 1 \in 1..(Len(v) - 1) /\ u[j] = v[j - 1] /\ u[j + 1] = v[(j - 1) + 1]
          BY <3>2, <5>1
        <5> QED  BY <3>4, <5>2 DEF TypesPaired
      <4>2. ReadBefore(u)
        <5> SUFFICES ASSUME NEW j \in 1..Len(u), u[j] \in {"segments", "save"}
                     PROVE  \E k \in 1..(j - 1) : u[k] = "sections"
          BY DEF ReadBefore
        <5>1. j > 1
          BY <3>2
        <5>2. j - 1 \in 1..Len(v) /\ v[j - 1] \in {"segments", "save"}
          BY <3>2, <5>1
        <5>3. PICK k \in 1..((j - 1) - 1) : v[k] = "sections"
          BY <3>4, <5>2 DEF ReadBefore
        <5>4. k + 1 \in 1..(j - 1) /\ u[k + 1] = "sections"
          BY <3>2, <5>2, <5>3
        <5> QED  BY <5>4
      <4> QED  BY <4>1, <4>2 DEF StepsSound, u
    <3> QED  BY <3>1, <3>3, <3>4 DEF StepsSound
  <2>3. Saves(x, c, o) \in {<<"saveFuncs">>, <<"saveStr">>, <<>>}
    BY DEF Saves
  <2>4. After(x, c, o) = Saves(x, c, o) \o v
    BY <1>2 DEF After, v
  <2>5. <<>> \o v = v
    BY <2>1, ConcatEmptySeq DEF Steps, v
  <2> QED  BY <2>1, <2>2, <2>3, <2>4, <2>5 DEF v
<1>3. CASE Fails(c, o)
  <2>1. After(x, c, o) = SkipTypes(t) \/ After(x, c, o) = <<>>
    BY <1>3 DEF After
  <2> QED  BY <2>1, SkipTypesSteps, NoSteps
<1> QED  BY <1>2, <1>3

\* A flow that goes on.
LEMMA ResumeRead ==
  ASSUME TypeOK, ReadInvariant, NEW x \in Flows, NEW r \in Flow, r.file \in Files,
         NEW t \in Steps, NEW has \in SUBSET Lists, NEW ps, Resume(x, r, t, has, ps),
         Known \subseteq Known',
         StepsSound(t, r.file \in Known'),
         "sections" \in has => r.file \in Known'
  PROVE  ReadInvariant'
<1> DEFINE f    == r.file
           h    == helper[f].pipe
           up   == h # 0 /\ ps[h].up
           left == Left(t, has, up)
           sent == left # <<>> /\ Head(left) \in Commands
           new  == sent /\ Head(left) = "aa"
           on   == IF new THEN Len(ps) + 1 ELSE IF sent THEN h ELSE 0
           skip == Contains(t, "sections") /\ ~Contains(left, "sections")
           secs == IF ~Contains(left, "save") THEN "none"
                   ELSE IF skip THEN "empty" ELSE r.secs
           st   == IF left # <<>> THEN "work" ELSE IF Kind[x] = "loop" THEN "key" ELSE "done"
           rec  == [r EXCEPT !.todo = left, !.on = on, !.secs = secs, !.st = st]
           now  == IF new THEN on ELSE h
<1>1. /\ flow' = [flow EXCEPT ![x] = rec]
      /\ helper' = [helper EXCEPT ![f] = [pipe |-> now, has |-> has]]
  BY DEF Resume, Flow
<1>2. rec.todo = left /\ rec.file = f
  BY DEF Flow
<1>3. f \in Known' \/ StepsSound(left, FALSE)
  <2>1. CASE f \in Known'
    BY <2>1
  <2>2. CASE f \notin Known'
    <3>1. StepsSound(t, FALSE) /\ ("sections" \in has => FALSE)
      BY <2>2 DEF StepsSound
    <3> HIDE DEF up
    <3> QED  BY <3>1, LeftSteps
  <2> QED  BY <2>1, <2>2
<1> HIDE DEF rec, left, now
<1>4. \A y \in Flows : StepsSound(flow'[y].todo, flow'[y].file \in Known')
  <2> TAKE y \in Flows
  <2>1. CASE y = x
    <3>1. flow'[y] = rec
      BY <1>1, <2>1 DEF TypeOK
    <3> QED  BY <1>2, <1>3, <3>1 DEF StepsSound
  <2>2. CASE y # x
    <3>1. flow'[y] = flow[y]
      BY <1>1, <2>2 DEF TypeOK
    <3> QED  BY <3>1 DEF ReadInvariant, StepsSound
  <2> QED  BY <2>1, <2>2
<1>5. \A g \in Files : "sections" \in helper'[g].has => g \in Known'
  BY <1>1 DEF TypeOK, ReadInvariant
<1> QED  BY <1>4, <1>5 DEF ReadInvariant

\* A flow that has no steps is given none.
LEMMA QuietRead ==
  ASSUME TypeOK, ReadInvariant, UNCHANGED <<helper, past>>,
         \A x \in Flows : flow'[x] = flow[x] \/ flow'[x].todo = <<>>
  PROVE  ReadInvariant'
<1>1. \A x \in Flows : StepsSound(flow'[x].todo, flow'[x].file \in Known')
  <2> TAKE x \in Flows
  <2>1. CASE flow'[x] = flow[x]
    BY <2>1 DEF ReadInvariant, StepsSound, Known
  <2>2. CASE flow'[x].todo = <<>>
    BY <2>2 DEF StepsSound, NoSections
  <2> QED  BY <2>1, <2>2
<1> QED  BY <1>1 DEF ReadInvariant, Known

\* Only discoveries read the segments.
OnlyDiscoveries == \A x \in Flows : Discovers(x) \/ "segments" \notin Range(Cmds[x])

\* A flow with its first steps.
LEMMA BeginRead ==
  ASSUME IInv, ReadInvariant, OnlyDiscoveries, NEW x \in Flows, NEW f \in Files,
         NEW r \in Flow, r.file = f, Resume(x, r, Script(x, f), helper[f].has, pipe),
         UNCHANGED past
  PROVE  ReadInvariant'
<1>1. StepsSound(Script(x, f), FALSE) /\ Script(x, f) \in Steps
  BY ScriptSteps, ScriptType DEF OnlyDiscoveries
<1>2. StepsSound(Script(x, f), r.file \in Known')
  BY <1>1 DEF StepsSound
<1>3. helper[f].has \in SUBSET Lists /\ ("sections" \in helper[f].has => r.file \in Known')
  BY DEF IInv, TypeOK, Helper, ReadInvariant, Known
<1>4. Known \subseteq Known'
  BY DEF Known
<1> QED  BY <1>1, <1>2, <1>3, <1>4, ResumeRead DEF IInv

\* The loops.
LEMMA LoopRead ==
  ASSUME IInv, ReadInvariant, OnlyDiscoveries, NEW x \in Flows, LoopStep(x)
  PROVE  ReadInvariant'
<1>1. flow[x] \in Flow /\ flow \in [Flows -> Flow]
  BY DEF IInv, TypeOK
<1>2. CASE Event(x) \/ LookUpKey(x) \/ MakeKey(x)
  <2>1. flow[x].todo = <<>>
    BY <1>2 DEF IInv, PipeInvariant, FlowSound, Event, LookUpKey, MakeKey
  <2>2. flow'[x].todo = flow[x].todo
    <3>1. CASE Event(x)
      BY <1>1, <3>1 DEF Event, Flow
    <3>2. CASE LookUpKey(x)
      BY <1>1, <3>2 DEF LookUpKey, Flow
    <3>3. CASE MakeKey(x)
      BY <1>1, <3>3 DEF MakeKey, Flow
    <3> QED  BY <1>2, <3>1, <3>2, <3>3
  <2>3. \A y \in Flows \ {x} : flow'[y] = flow[y]
    BY <1>1, <1>2 DEF Event, LookUpKey, MakeKey
  <2>4. UNCHANGED <<helper, past>>
    BY <1>2 DEF Event, LookUpKey, MakeKey
  <2> QED  BY <2>1, <2>2, <2>3, <2>4, QuietRead DEF IInv
<1>3. CASE Look(x)
  <2>1. flow[x].st = "look" /\ flow[x].todo = <<>> /\ flow[x].at >= 1 /\ UNCHANGED past
    BY <1>3 DEF IInv, PipeInvariant, FlowSound, Look
  <2>2. CASE flow[x].at > Len(Order) \/ Analyzed(Order[flow[x].at])
    <3>1. UNCHANGED helper /\ (\/ flow' = [flow EXCEPT ![x].st = "done"]
                               \/ flow' = [flow EXCEPT ![x].at = @ + 1])
      BY <1>3, <2>2 DEF Look
    <3>2. flow'[x].todo = flow[x].todo /\ \A y \in Flows \ {x} : flow'[y] = flow[y]
      BY <1>1, <3>1 DEF Flow
    <3> QED  BY <2>1, <3>1, <3>2, QuietRead DEF IInv
  <2>3. CASE flow[x].at <= Len(Order) /\ ~Analyzed(Order[flow[x].at])
    <3> DEFINE f == Order[flow[x].at]
               r == [flow[x] EXCEPT !.file = f, !.secs = "none"]
    <3>1. f \in Files
      BY <1>1, <2>1, <2>3, OrderAssumption DEF Flow
    <3>2. r \in Flow /\ r.file = f
      BY <1>1, <3>1 DEF Flow
    <3>3. Resume(x, r, Script(x, f), helper[f].has, pipe)
      BY <1>1, <1>3, <2>3, OrderAssumption DEF Look, Flow
    <3> HIDE DEF f, r
    <3> QED  BY <2>1, <3>1, <3>2, <3>3, BeginRead
  <2> QED  BY <1>1, <2>1, <2>2, <2>3, OrderAssumption DEF Flow
<1> QED  BY <1>2, <1>3 DEF LoopStep

\* The requests.
LEMMA RequestRead ==
  ASSUME IInv, ReadInvariant, OnlyDiscoveries, NEW x \in Flows, NEW f \in Files, Request(x, f)
  PROVE  ReadInvariant'
<1> DEFINE r == [flow[x] EXCEPT !.file = f]
<1>1. r \in Flow /\ r.file = f
  BY DEF IInv, TypeOK, Flow
<1>2. Resume(x, r, Script(x, f), helper[f].has, pipe) /\ UNCHANGED past
  BY DEF Request
<1> HIDE DEF r
<1> QED  BY <1>1, <1>2, BeginRead

\* The writes: none of them reads a list.
LEMMA WriteRead ==
  ASSUME IInv, ReadInvariant, NEW x \in Flows, WriteStep(x)
  PROVE  ReadInvariant'
<1>1. Step(x) \in Writes /\ GoesOn(x) /\ UNCHANGED past
  BY DEF WriteStep, Store, Mark, Save, Writes
<1>2. /\ flow[x] \in Flow /\ flow[x].todo \in Steps /\ flow[x].todo # <<>>
      /\ Head(flow[x].todo) \in Writes /\ flow[x].file \in Files
  BY <1>1 DEF IInv, TypeOK, Flow, Steps, Step, Writes, PipeInvariant, FlowSound
<1> DEFINE told == flow[x].file \in Known
<1>3. StepsSound(flow[x].todo, told)
  BY DEF ReadInvariant
<1>4. Head(flow[x].todo) # "sections" /\ Tail(flow[x].todo) \in Steps
  BY <1>2 DEF Writes, Steps
<1> HIDE DEF told
<1>5. StepsSound(Tail(flow[x].todo), told)
  BY <1>2, <1>3, <1>4, TailSteps
<1>6. StepsSound(Tail(flow[x].todo), flow[x].file \in Known')
  BY <1>1, <1>5 DEF StepsSound, told, Known
<1>7. /\ helper[flow[x].file].has \in SUBSET Lists
      /\ "sections" \in helper[flow[x].file].has => flow[x].file \in Known'
  BY <1>1, <1>2 DEF IInv, TypeOK, Helper, ReadInvariant, Known
<1>8. Known \subseteq Known'
  BY <1>1 DEF Known
<1> QED  BY <1>1, <1>2, <1>4, <1>6, <1>7, <1>8, ResumeRead DEF IInv, GoesOn

\* An answer sets the flag of the sections when it is taken for them, or, if it is about
\* the segments, when this was so for some flow before.
LEMMA AnswerRead ==
  ASSUME IInv, ReadInvariant, NEW i \in DOMAIN pipe, Answer(i)
  PROVE  ReadInvariant'
<1> DEFINE x == pipe[i].cur
           c == Step(x)
<1>1. x \in Flows /\ flow[x].on # 0
  <2>1. x # None
    BY DEF Answer
  <2> QED  BY <2>1, PipeAt
<1>2. /\ flow[x] \in Flow /\ flow[x].todo \in Steps /\ flow[x].todo # <<>>
      /\ flow[x].file \in Files /\ c = Head(flow[x].todo)
  BY <1>1 DEF IInv, TypeOK, Flow, Steps, PipeInvariant, FlowSound, Step
<1>3. PICK o \in Outcome(c) :
        /\ \E r \in {Given(x, c, o)}, t \in {After(x, c, o)}, has \in {Flagged(x, c, o)},
             ps \in {[pipe EXCEPT ![i] = [Next1(pipe[i]) EXCEPT !.ready = @ \/ c = "aa"]]} :
             Resume(x, r, t, has, ps)
        /\ past' = Heard(x, c, o)
  BY DEF Answer
<1>4. PICK r \in {Given(x, c, o)}, t \in {After(x, c, o)}, has \in {Flagged(x, c, o)},
           ps \in {[pipe EXCEPT ![i] = [Next1(pipe[i]) EXCEPT !.ready = @ \/ c = "aa"]]} :
        Resume(x, r, t, has, ps)
  BY <1>3
<1>5. r \in Flow /\ r.file = flow[x].file
  <2>1. r = Given(x, c, o)
    BY <1>4
  <2> QED  BY <1>2, <2>1 DEF Given, Flow
<1>6. t = After(x, c, o) /\ t \in Steps
  BY <1>1, <1>2, <1>4, AfterType
<1>7. has = Flagged(x, c, o) /\ has \in SUBSET Lists
  <2>1. has = Flagged(x, c, o)
    BY <1>4
  <2>2. helper[flow[x].file].has \in SUBSET Lists
    BY <1>2 DEF IInv, TypeOK, Helper
  <2>3. Flags(c) \in SUBSET Lists
    BY DEF Flags
  <2> QED  BY <2>1, <2>2, <2>3 DEF Flagged
<1>8. Known \subseteq Known'
  BY <1>2, <1>3 DEF IInv, TypeOK, Past, Heard, Known
<1> DEFINE told == flow[x].file \in Known'
<1>9. c = "sections" /\ o # "bad" => told
  BY <1>2, <1>3 DEF IInv, TypeOK, Past, Heard, Known
<1>10. StepsSound(flow[x].todo, told)
  BY <1>1, <1>8 DEF ReadInvariant, StepsSound
<1>11. c = "segments" => told
  <2> SUFFICES ASSUME c = "segments", ~told  PROVE FALSE
    OBVIOUS
  <2>1. 1 \in 1..Len(flow[x].todo) /\ flow[x].todo[1] = "segments"
    BY <1>2 DEF Steps
  <2>2. ~NoSections(flow[x].todo)
    BY <2>1 DEF NoSections
  <2>3. ReadBefore(flow[x].todo)
    BY <1>10, <2>2 DEF StepsSound
  <2> QED  BY <2>1, <2>3 DEF ReadBefore
<1>12. "sections" \in has => told
  <2> SUFFICES ASSUME "sections" \in has, ~told  PROVE FALSE
    OBVIOUS
  <2>1. "sections" \notin helper[flow[x].file].has
    BY <1>2, <1>8 DEF ReadInvariant
  <2>2. o # "bad" /\ "sections" \in Flags(c)
    BY <1>7, <2>1 DEF Flagged
  <2>3. c = "sections" \/ c = "segments"
    BY <2>2 DEF Flags
  <2> QED  BY <1>9, <1>11, <2>2, <2>3
<1>13. StepsSound(t, r.file \in Known')
  <2>1. ~Fails(c, o) => o # "bad"
    BY DEF Fails
  <2> HIDE DEF told
  <2>2. StepsSound(t, told)
    BY <1>1, <1>2, <1>6, <1>9, <1>10, <2>1, AfterSteps
  <2> QED  BY <1>5, <2>2 DEF StepsSound, told
<1>14. Resume(x, r, t, has, ps)
  BY <1>4
<1> HIDE DEF x
<1> QED  BY <1>1, <1>2, <1>5, <1>6, <1>7, <1>8, <1>12, <1>13, <1>14, ResumeRead DEF IInv

\* What is read of a file is known before it is used.
LEMMA NextRead ==
  ASSUME IInv, ReadInvariant, OnlyDiscoveries, [Next]_vars
  PROVE  ReadInvariant'
<1>1. ASSUME NEW x \in Flows, LoopStep(x)  PROVE ReadInvariant'
  BY <1>1, LoopRead
<1>2. ASSUME NEW x \in Flows, WriteStep(x)  PROVE ReadInvariant'
  BY <1>2, WriteRead
<1>3. ASSUME NEW x \in Flows, NEW f \in Files, Request(x, f)  PROVE ReadInvariant'
  BY <1>3, RequestRead
<1>4. ASSUME NEW i \in DOMAIN pipe, Answer(i)  PROVE ReadInvariant'
  BY <1>4, AnswerRead
<1>5. ASSUME NEW i \in DOMAIN pipe, Die(i)  PROVE ReadInvariant'
  <2>1. Known' = Known /\ UNCHANGED <<flow, helper>>
    BY <1>5 DEF IInv, TypeOK, Past, Die, Known
  <2> QED  BY <2>1 DEF ReadInvariant, StepsSound
<1>6. CASE Stop
  <2>1. \A x \in Flows : flow'[x].todo = <<>>
    BY <1>6 DEF Stop, Idle
  <2>2. \A f \in Files : "sections" \notin helper'[f].has
    BY <1>6 DEF Stop, NoHelper
  <2> QED  BY <2>1, <2>2 DEF ReadInvariant, StepsSound, NoSections
<1>7. CASE UNCHANGED vars
  BY <1>7 DEF vars, ReadInvariant, StepsSound, Known
<1> QED  BY <1>1, <1>2, <1>3, <1>4, <1>5, <1>6, <1>7 DEF Next

\* A record loses its sections, or gets none, when a discovery saves it, which has read
\* the sections of its file or was not given them again.
LEMMA SavedEmpty ==
  ASSUME IInv, ReadInvariant, [Next]_vars, NEW f \in Files,
         db'.secs[f] = "empty", db.secs[f] # "empty"
  PROVE  f \in Known
<1>1. PICK x \in Flows : Save(x)
  <2>1. ASSUME NEW x \in Flows, LoopStep(x)  PROVE FALSE
    BY <2>1 DEF LoopStep, Event, Look, LookUpKey, MakeKey, IInv, TypeOK, Db
  <2>2. ASSUME NEW x \in Flows, NEW g \in Files, Request(x, g)  PROVE FALSE
    BY <2>2 DEF Request
  <2>3. ASSUME NEW i \in DOMAIN pipe, Answer(i) \/ Die(i)  PROVE FALSE
    BY <2>3 DEF Answer, Die
  <2>4. ASSUME NEW x \in Flows, Store(x) \/ Mark(x)  PROVE FALSE
    BY <2>4 DEF Store, Mark, IInv, TypeOK, Db
  <2>5. CASE Stop \/ UNCHANGED vars
    BY <2>5 DEF Stop, vars
  <2> QED  BY <2>1, <2>2, <2>3, <2>4, <2>5 DEF Next, WriteStep
<1>2. flow[x].todo # <<>> /\ Head(flow[x].todo) = "save" /\ f = flow[x].file
  BY <1>1 DEF Save, Step, IInv, TypeOK, Db
<1>3. 1 \in 1..Len(flow[x].todo) /\ flow[x].todo[1] = "save"
  BY <1>1, <1>2 DEF IInv, TypeOK, Flow
<1>4. ~NoSections(flow[x].todo) /\ ~ReadBefore(flow[x].todo)
  BY <1>3 DEF NoSections, ReadBefore
<1> QED  BY <1>1, <1>2, <1>4 DEF ReadInvariant, StepsSound

\* What is proved to be inductive.
ReadInv == IInv /\ ReadInvariant

\* No flow has steps when the project is opened, no helper a flag.
LEMMA InitRead == Init => ReadInvariant
<1> SUFFICES ASSUME Init  PROVE ReadInvariant
  OBVIOUS
<1>1. \A x \in Flows : flow[x].todo = <<>>
  BY DEF Init, Idle
<1>2. \A f \in Files : "sections" \notin helper[f].has
  BY DEF Init, NoHelper
<1> QED  BY <1>1, <1>2 DEF ReadInvariant, StepsSound, NoSections

\* discover(), listSections(): whatever radare2 answers, however discoveries overlap and
\* whenever they fail, a record loses its sections, or gets none, only after another
\* flow was given them or its helper took something else for them; if users do not scan
\* the segments.
THEOREM EmptyIfToldAnotherHolds ==
  ASSUME OnlyDiscoveries
  PROVE  Spec => EmptyIfToldAnother
<1>1. Init => ReadInv
  BY InitSound, InitRead DEF ReadInv
<1>2. ReadInv /\ [Next]_vars => ReadInv'
  BY NextSound, NextRead DEF ReadInv
<1>3. ReadInv /\ [Next]_vars =>
        [\A f \in Files :
           db'.secs[f] = "empty" /\ db.secs[f] # "empty" => f \in past.told \cup past.misread]_vars
  BY SavedEmpty DEF ReadInv, Known
<1> QED  BY <1>1, <1>2, <1>3, PTL DEF Spec, EmptyIfToldAnother

\* Whatever is no list is rejected.
WholeAnswers == Outcomes \subseteq {"whole", "bad"}

\* Then nothing else is taken for the sections.
NothingElse == past.misread = {}

LEMMA NothingElseStep ==
  ASSUME WholeAnswers, NothingElse, past \in Past, [Next]_vars
  PROVE  NothingElse'
<1> USE DEF NothingElse
<1>1. ASSUME NEW x \in Flows, LoopStep(x) \/ WriteStep(x)  PROVE past' = past
  BY <1>1 DEF LoopStep, Event, Look, LookUpKey, MakeKey, WriteStep, Store, Mark, Save
<1>2. ASSUME NEW x \in Flows, NEW f \in Files, Request(x, f)  PROVE past' = past
  BY <1>2 DEF Request
<1>3. ASSUME NEW i \in DOMAIN pipe, Answer(i)  PROVE NothingElse'
  <2>1. PICK x, c, o : o \in Outcome(c) /\ past' = Heard(x, c, o)
    BY <1>3 DEF Answer
  <2>2. o \in {"whole", "bad"}
    BY <2>1 DEF Outcome, WholeAnswers
  <2> QED  BY <2>1, <2>2 DEF Heard, Past
<1>4. ASSUME NEW i \in DOMAIN pipe, Die(i)  PROVE NothingElse'
  BY <1>4 DEF Die, Past
<1>5. CASE Stop \/ UNCHANGED vars
  BY <1>5 DEF Stop, vars
<1> QED  BY <1>1, <1>2, <1>3, <1>4, <1>5 DEF Next

\* isReadyFor(): a helper says that it has the sections only if they were read, as long
\* as radare2 answers a list or is rejected, and users do not scan the segments.  A
\* text that is resolved, or an empty one, has it say so without.
THEOREM ReadyMeansReadHolds ==
  ASSUME WholeAnswers, OnlyDiscoveries
  PROVE  Spec => []ReadyMeansRead
<1>1. Init => ReadInv /\ NothingElse
  BY InitSound, InitRead DEF ReadInv, Init, NothingElse
<1>2. ReadInv /\ NothingElse /\ [Next]_vars => ReadInv' /\ NothingElse'
  BY NextSound, NextRead, NothingElseStep DEF ReadInv, IInv, TypeOK
<1>3. ReadInv /\ NothingElse => ReadyMeansRead
  BY DEF ReadInv, ReadInvariant, ReadyMeansRead, Known, NothingElse
<1> QED  BY <1>1, <1>2, <1>3, PTL DEF Spec
=============================================================================
