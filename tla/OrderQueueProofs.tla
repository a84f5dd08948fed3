-------------------------- MODULE OrderQueueProofs --------------------------
(***************************************************************************)
(* Proofs about OrderQueue, for any number of requests, registrations,     *)
(* orders and projects.                                                    *)
(***************************************************************************)
EXTENDS OrderQueue, SequenceTheorems, TLAPS

-----------------------------------------------------------------------------
(* Type correctness.                                                       *)

LEMMA InitType == Init => TypeOK
<1> SUFFICES ASSUME Init PROVE TypeOK
  OBVIOUS
<1> USE QueueAssumption DEF Init
<1>1. db \in Node
  BY DEF Node, NodeState
<1>2. node \in [Handles -> Node] /\ pc \in [Handles -> FlowPc]
  BY <1>1 DEF FlowPc
<1>3. chain \in [Chains -> Chain] /\ slave \in [Chains -> Pull]
  BY DEF Off, SlaveOff, ChainPc, SlavePc, Chain, Pull
<1>4. \A c \in Chains : chain[c].pc = "off" /\ slave[c].pc = "off"
  BY DEF Off, SlaveOff
<1>5. /\ pushed \in [Flows -> 0..MaxBatch] /\ runs \in [Order -> 0..MaxRuns]
      /\ taken \in SUBSET Order /\ dropped \in SUBSET Order
  OBVIOUS
<1>6. opened \in SUBSET (Projects \cup {None})
  OBVIOUS
<1>7. spawned \in BOOLEAN /\ dying \in BOOLEAN
  OBVIOUS
<1> QED
  BY <1>1, <1>2, <1>3, <1>4, <1>5, <1>6, <1>7 DEF TypeOK

\* The fields of records and the updates of records that the actions make.
LEMMA NodeFacts ==
  ASSUME TypeOK
  PROVE  /\ db.state \in NodeState /\ db.running \in BOOLEAN
         /\ db.project \in Projects \cup {None} /\ db.queue \in Seq(Order)
         /\ \A h \in Handles :
              /\ node[h] \in Node /\ node[h].state \in NodeState
              /\ node[h].running \in BOOLEAN
              /\ node[h].project \in Projects \cup {None}
              /\ node[h].queue \in Seq(Order)
         /\ \A x \in Node : Write(x) \in Node
         /\ \A x \in Node, v \in NodeState : [x EXCEPT !.state = v] \in Node
         /\ \A x \in Node, v \in BOOLEAN : [x EXCEPT !.running = v] \in Node
         /\ \A x \in Node, v \in Projects \cup {None} : [x EXCEPT !.project = v] \in Node
         /\ \A x \in Node, v \in Seq(Order) : [x EXCEPT !.queue = v] \in Node
  BY DEF TypeOK, Node, Write

LEMMA ChainFacts ==
  /\ Off \in Chain /\ Off.pc = "off"
  /\ \A x \in Chain, v \in ChainPc :
       /\ [x EXCEPT !.pc = v] \in Chain
       /\ [x EXCEPT !.pc = v].pc = v
       /\ [x EXCEPT !.pc = v].order = x.order
  BY DEF Off, Chain, ChainPc

LEMMA TriggerType ==
  ASSUME TypeOK, NEW h, NEW i, Trigger(h, i)
  PROVE  /\ chain' \in [Chains -> Chain]
         /\ \A c \in Chains : chain'[c] = chain[c] \/ chain'[c].pc = "pull"
<1>1. CASE ~Ready(h)
  BY <1>1 DEF TypeOK, Trigger
<1>2. CASE Ready(h)
  <2> DEFINE on(x) == [x EXCEPT !.pc = "pull"]
  <2>1. chain \in [Chains -> Chain] /\ "pull" \in ChainPc
    BY DEF TypeOK, ChainPc
  <2>2. chain' = [chain EXCEPT ![<<h, i>>] = on(chain[<<h, i>>])]
    BY <1>2 DEF Trigger
  <2>3. \A x \in Chain : on(x) \in Chain /\ on(x).pc = "pull"
    BY <2>1, ChainFacts
  <2> HIDE DEF on
  <2> QED
    BY <2>1, <2>2, <2>3
<1> QED
  BY <1>1, <1>2

LEMMA FlowType ==
  ASSUME TypeOK, NEW f \in Flows, FlowStep(f)
  PROVE  TypeOK'
<1> USE QueueAssumption, NodeFacts DEF Handles, FlowPc
<1>1. CASE Load(f)
  <2>1. [db EXCEPT !.project = Proj[f]] \in Node
    BY DEF TypeOK
  <2>2. node' \in [Handles -> Node]
    BY <1>1, <2>1 DEF Load, TypeOK
  <2>3. pc' \in [Handles -> FlowPc]
    BY <1>1 DEF Load, TypeOK
  <2> QED
    BY <1>1, <2>2, <2>3 DEF Load, TypeOK
<1>2. CASE Claim(f)
  <2>1. db' \in Node
    BY <1>2 DEF Claim, TypeOK
  <2>2. pc' \in [Handles -> FlowPc]
    BY <1>2 DEF Claim, TypeOK
  <2> QED
    BY <1>2, <2>1, <2>2 DEF Claim, TypeOK
<1>3. CASE SaveAll(f)
  <2>1. db' \in Node
    BY <1>3 DEF SaveAll, TypeOK
  <2>2. pc' \in [Handles -> FlowPc]
    BY <1>3 DEF SaveAll, TypeOK
  <2> QED
    BY <1>3, <2>1, <2>2 DEF SaveAll, TypeOK
<1>4. CASE Push(f)
  <2>1. pushed[f] + 1 \in 1..MaxBatch /\ pushed' \in [Flows -> 0..MaxBatch]
    BY <1>4 DEF Push, TypeOK
  <2>2. node[f] \in Node /\ node[f].queue \in Seq(Order)
    BY DEF TypeOK, Node
  <2>3. Append(node[f].queue, <<f, pushed[f] + 1>>) \in Seq(Order)
    <3>1. <<f, pushed[f] + 1>> \in Order
      BY <2>1 DEF Order
    <3> QED  BY <2>2, <3>1, AppendProperties
  <2>4. node' = [node EXCEPT ![f] = [node[f] EXCEPT !.queue = Append(@, <<f, pushed[f] + 1>>)]]
    BY <1>4 DEF Push
  <2>5. node' \in [Handles -> Node]
    BY <2>2, <2>3, <2>4 DEF TypeOK
  <2>6. pc' \in [Handles -> FlowPc]
    BY <1>4 DEF Push, TypeOK
  <2> QED
    BY <1>4, <2>1, <2>5, <2>6 DEF Push, TypeOK
<1>5. CASE SaveQueue(f)
  <2>1. db' \in Node
    BY <1>5 DEF SaveQueue, TypeOK
  <2>2. pc' \in [Handles -> FlowPc]
    BY <1>5 DEF SaveQueue, TypeOK
  <2>3. chain' = chain \/ Trigger(f, pushed[f])
    BY <1>5 DEF SaveQueue
  <2> QED
    BY <1>5, <2>1, <2>2, <2>3, TriggerType DEF SaveQueue, TypeOK
<1>6. CASE Resume(f)
  <2>1. pc' \in [Handles -> FlowPc]
    BY <1>6 DEF Resume, TypeOK
  <2> QED
    BY <1>6, <2>1, TriggerType DEF Resume, TypeOK
<1>7. CASE Start(f)
  <2>1. [db EXCEPT !.state = node[f].state, !.running = TRUE]
        = [[db EXCEPT !.state = node[f].state] EXCEPT !.running = TRUE]
    BY DEF TypeOK, Node
  <2>2. db' \in Node
    BY <1>7, <2>1 DEF Start, TypeOK
  <2>3. pc' \in [Handles -> FlowPc]
    BY <1>7 DEF Start, TypeOK
  <2> QED
    BY <1>7, <2>2, <2>3 DEF Start, TypeOK
<1>8. CASE Poll(f)
  BY <1>8 DEF Poll, TypeOK
<1> QED
  BY <1>1, <1>2, <1>3, <1>4, <1>5, <1>6, <1>7, <1>8 DEF FlowStep

LEMMA RegType ==
  ASSUME TypeOK, NEW r \in Regs, RegStep(r)
  PROVE  TypeOK'
<1> USE QueueAssumption, NodeFacts DEF Handles, FlowPc
<1>1. CASE RegRead(r)
  <2>1. [db EXCEPT !.running = TRUE] \in Node
    BY DEF TypeOK
  <2>2. node' \in [Handles -> Node] /\ pc' \in [Handles -> FlowPc]
    BY <1>1, <2>1 DEF RegRead, TypeOK
  <2> QED
    BY <1>1, <2>2 DEF RegRead, TypeOK
<1>2. CASE RegSaveAll(r)
  <2>1. db' \in Node
    BY <1>2 DEF RegSaveAll, TypeOK
  <2>2. pc' \in [Handles -> FlowPc]
    BY <1>2 DEF RegSaveAll, TypeOK
  <2> QED
    BY <1>2, <2>1, <2>2 DEF RegSaveAll, TypeOK
<1>3. CASE RegEvent(r)
  <2>1. [db EXCEPT !.state = "IDLE"] \in Node
    BY DEF TypeOK, NodeState
  <2>2. node' \in [Handles -> Node]
    BY <1>3, <2>1 DEF RegEvent, TypeOK
  <2>3. pc' \in [Handles -> FlowPc]
    BY <1>3 DEF RegEvent, TypeOK
  <2> QED
    BY <1>3, <2>2, <2>3 DEF RegEvent, TypeOK
<1>4. CASE RegUpdate(r)
  <2>1. [db EXCEPT !.state = node[r].state, !.running = node[r].running]
        = [[db EXCEPT !.state = node[r].state] EXCEPT !.running = node[r].running]
    BY DEF TypeOK, Node
  <2>2. db' \in Node
    BY <1>4, <2>1 DEF RegUpdate, TypeOK
  <2>3. pc' \in [Handles -> FlowPc]
    BY <1>4 DEF RegUpdate, TypeOK
  <2> QED
    BY <1>4, <2>2, <2>3, TriggerType DEF RegUpdate, TypeOK
<1> QED
  BY <1>1, <1>2, <1>3, <1>4 DEF RegStep

LEMMA PullFacts ==
  /\ SlaveOff \in Pull /\ SlaveOff.pc = "off"
  /\ \A x \in Pull : x.order \in Order \cup {None} /\ x.rest \in Seq(Order)
  /\ \A x \in Pull, v \in SlavePc :
       [x EXCEPT !.pc = v] \in Pull /\ [x EXCEPT !.pc = v].pc = v
       /\ [x EXCEPT !.pc = v].order = x.order
  /\ \A x \in Pull, v \in Order \cup {None} :
       [x EXCEPT !.order = v] \in Pull /\ [x EXCEPT !.order = v].pc = x.pc
       /\ [x EXCEPT !.order = v].order = v
  /\ \A x \in Pull, v \in Seq(Order) :
       [x EXCEPT !.rest = v] \in Pull /\ [x EXCEPT !.rest = v].pc = x.pc
       /\ [x EXCEPT !.rest = v].order = x.order
  /\ \A x \in Pull, v \in BOOLEAN :
       [x EXCEPT !.idle = v] \in Pull /\ [x EXCEPT !.idle = v].pc = x.pc
       /\ [x EXCEPT !.idle = v].order = x.order
  BY DEF SlaveOff, Pull, SlavePc

LEMMA DrainType ==
  ASSUME TypeOK, NEW c \in Chains, 
         DrainEmpty(c) \/ Shift(c) \/ SaveShift(c) \/ ExecDone(c) \/ ExecFailed(c)
  PROVE  TypeOK'
<1>0. c[1] \in Handles /\ chain[c] \in Chain
  BY DEF Chains, TypeOK
<1>1. CASE DrainEmpty(c)
  <2>1. [node[c[1]] EXCEPT !.queue = << >>] \in Node
    BY <1>0, NodeFacts, << >> \in Seq(Order)
  <2>2. node' = [node EXCEPT ![c[1]] = [node[c[1]] EXCEPT !.queue = << >>]]
    BY <1>1 DEF DrainEmpty
  <2>3. node' \in [Handles -> Node]
    BY <2>1, <2>2 DEF TypeOK
  <2> QED
    BY <1>1, <2>3, ChainFacts DEF DrainEmpty, TypeOK
<1>2. CASE Shift(c)
  <2>1. Tail(db.queue) \in Seq(Order) /\ Head(db.queue) \in Order
    BY <1>2, NodeFacts DEF Shift
  <2>2. [node[c[1]] EXCEPT !.queue = Tail(db.queue)] \in Node
    BY <1>0, <2>1, NodeFacts
  <2>3. node' = [node EXCEPT ![c[1]] = [node[c[1]] EXCEPT !.queue = Tail(db.queue)]]
    BY <1>2 DEF Shift
  <2>4. node' \in [Handles -> Node]
    BY <2>2, <2>3 DEF TypeOK
  <2>5. [pc |-> "save", order |-> Head(db.queue)] \in Chain
    BY <2>1 DEF Chain, ChainPc
  <2> QED
    BY <1>2, <2>1, <2>4, <2>5 DEF Shift, TypeOK
<1>3. CASE SaveShift(c)
  <2>1. db' \in Node
    BY <1>0, <1>3, NodeFacts DEF SaveShift, TypeOK
  <2> DEFINE x == [chain[c] EXCEPT !.pc = "exec"]
  <2>2. x \in Chain /\ x.order = chain[c].order
    BY <1>0, ChainFacts DEF ChainPc
  <2>3. chain' = [chain EXCEPT ![c] = x]
    BY <1>3 DEF SaveShift
  <2>4. chain[c].order \in Order
    BY <1>3 DEF SaveShift, TypeOK
  <2> HIDE DEF x
  <2> QED
    BY <1>3, <2>1, <2>2, <2>3, <2>4 DEF SaveShift, TypeOK
<1>4. CASE ExecDone(c)
  <2>1. [pc |-> "pull", order |-> None] \in Chain
    BY DEF Chain, ChainPc
  <2> QED
    BY <1>4, <2>1 DEF ExecDone, TypeOK
<1>5. CASE ExecFailed(c)
  BY <1>5, ChainFacts DEF ExecFailed, TypeOK
<1> QED
  BY <1>1, <1>2, <1>3, <1>4, <1>5

LEMMA CountedType ==
  ASSUME TypeOK, NEW o \in Order
  PROVE  Counted(o) \in [Order -> 0..MaxRuns]
<1>1. MaxRuns \in Nat /\ runs \in [Order -> 0..MaxRuns]
  BY QueueAssumption DEF TypeOK
<1> QED
  BY <1>1 DEF Counted

LEMMA BusyType == TypeOK => Busy \in Node
<1> SUFFICES ASSUME TypeOK PROVE Busy \in Node
  OBVIOUS
<1>1. db \in Node /\ "BUSY" \in NodeState
  BY DEF TypeOK, NodeState
<1> QED
  BY <1>1, NodeFacts DEF Busy

\* The typing of a chain that keeps its order and moves to another place.
LEMMA ChainMoves ==
  ASSUME TypeOK, NEW c \in Chains, NEW v \in ChainPc,
         chain[c].order \in Order \/ v \in {"off", "pull", "reply", "waiting"},
         chain' = [chain EXCEPT ![c].pc = v]
  PROVE  /\ chain' \in [Chains -> Chain]
         /\ \A d \in Chains : chain'[d].pc \in {"save", "exec", "loading", "project"} =>
                              chain'[d].order \in Order
<1> DEFINE x == [chain[c] EXCEPT !.pc = v]
<1>1. chain \in [Chains -> Chain]
  BY DEF TypeOK
<1>2. x \in Chain /\ x.pc = v /\ x.order = chain[c].order
  BY <1>1, ChainFacts
<1>3. chain' = [chain EXCEPT ![c] = x]
  OBVIOUS
<1>4. \A d \in Chains : chain'[d] = IF d = c THEN x ELSE chain[d]
  BY <1>1, <1>3
<1>5. chain' \in [Chains -> Chain]
  BY <1>1, <1>2, <1>3
<1> HIDE DEF x
<1> QED
  BY <1>2, <1>4, <1>5 DEF TypeOK

LEMMA ExecType ==
  ASSUME TypeOK, NEW c \in Chains, ExecOpen(c) \/ ExecProject(c) \/ ExecScan(c)
  PROVE  TypeOK'
<1>0. "waiting" \in ChainPc /\ "loading" \in ChainPc /\ "project" \in ChainPc
      /\ "reply" \in ChainPc
  BY DEF ChainPc
<1>1. chain[c].order \in Order
  BY DEF ExecOpen, ExecProject, ExecScan, TypeOK
<1>2. Counted(chain[c].order) \in [Order -> 0..MaxRuns]
  BY <1>1, CountedType
<1>3. CASE ExecOpen(c)
  <2>1. db' \in Node
    BY <1>3, BusyType DEF ExecOpen, TypeOK
  <2>2. PICK v \in {"waiting", "loading"} : chain' = [chain EXCEPT ![c].pc = v]
    BY <1>3 DEF ExecOpen
  <2>3. /\ chain' \in [Chains -> Chain]
        /\ \A d \in Chains : chain'[d].pc \in {"save", "exec", "loading", "project"} =>
                             chain'[d].order \in Order
    BY <1>0, <1>1, <2>2, ChainMoves
  <2> QED
    BY <1>2, <1>3, <2>1, <2>3 DEF ExecOpen, TypeOK
<1>4. CASE ExecProject(c)
  <2>1. db' \in Node
    BY <1>4, BusyType DEF ExecProject, TypeOK
  <2>2. chain' = [chain EXCEPT ![c].pc = "project"]
    BY <1>4 DEF ExecProject
  <2>3. /\ chain' \in [Chains -> Chain]
        /\ \A d \in Chains : chain'[d].pc \in {"save", "exec", "loading", "project"} =>
                             chain'[d].order \in Order
    BY <1>0, <1>1, <2>2, ChainMoves
  <2> QED
    BY <1>2, <1>4, <2>1, <2>3 DEF ExecProject, TypeOK
<1>5. CASE ExecScan(c)
  <2>1. runs' \in [Order -> 0..MaxRuns] /\ dropped' \in SUBSET Order
    BY <1>1, <1>2, <1>5 DEF ExecScan, TypeOK
  <2>2. chain' = [chain EXCEPT ![c].pc = "reply"]
    BY <1>5 DEF ExecScan
  <2>3. /\ chain' \in [Chains -> Chain]
        /\ \A d \in Chains : chain'[d].pc \in {"save", "exec", "loading", "project"} =>
                             chain'[d].order \in Order
    BY <1>0, <1>1, <2>2, ChainMoves
  <2> QED
    BY <1>5, <2>1, <2>3 DEF ExecScan, TypeOK
<1> QED
  BY <1>3, <1>4, <1>5

LEMMA OpeningType ==
  ASSUME TypeOK, NEW c \in Chains, 
         SlaveOpened(c) \/ SlaveProjectDone(c) \/ SlaveFailed(c)
  PROVE  TypeOK'
<1>0. "waiting" \in ChainPc /\ "reply" \in ChainPc
  BY DEF ChainPc
<1>1. CASE SlaveOpened(c)
  <2> DEFINE x == [SlaveOff EXCEPT !.pc = "check", !.idle = TRUE]
  <2>1. SlaveOff \in Pull
    BY PullFacts
  <2>5. x \in Pull /\ x.pc = "check"
    BY <2>1 DEF Pull, SlavePc
  <2>2. slave' = [slave EXCEPT ![c] = x]
    BY <1>1 DEF SlaveOpened
  <2>3. node[c[1]].project \in Projects \cup {None}
    BY NodeFacts DEF Chains
  <2>4. /\ chain' \in [Chains -> Chain]
        /\ \A d \in Chains : chain'[d].pc \in {"save", "exec", "loading", "project"} =>
                             chain'[d].order \in Order
    BY <1>0, <1>1, ChainMoves DEF SlaveOpened
  <2> HIDE DEF x
  <2> QED
    BY <1>1, <2>2, <2>3, <2>4, <2>5 DEF SlaveOpened, TypeOK
<1>2. CASE SlaveProjectDone(c)
  <2>1. chain[c].order \in Order
    BY <1>2 DEF SlaveProjectDone, TypeOK
  <2>2. Proj[chain[c].order[1]] \in Projects
    BY <2>1, QueueAssumption DEF Order
  <2>3. /\ chain' \in [Chains -> Chain]
        /\ \A d \in Chains : chain'[d].pc \in {"save", "exec", "loading", "project"} =>
                             chain'[d].order \in Order
    BY <1>0, <1>2, ChainMoves DEF SlaveProjectDone
  <2> QED
    BY <1>2, <2>2, <2>3 DEF SlaveProjectDone, TypeOK
<1>3. CASE SlaveFailed(c)
  <2>1. /\ chain' \in [Chains -> Chain]
        /\ \A d \in Chains : chain'[d].pc \in {"save", "exec", "loading", "project"} =>
                             chain'[d].order \in Order
    BY <1>0, <1>3, ChainMoves DEF SlaveFailed
  <2> QED
    BY <1>3, <2>1 DEF SlaveFailed, TypeOK
<1> QED
  BY <1>1, <1>2, <1>3

\* The typing of a pull of the slave that becomes x.
LEMMA PullMoves ==
  ASSUME TypeOK, NEW c \in Chains, NEW x \in Pull,
         x.pc \in {"save", "reply", "exec", "project"} => x.order \in Order,
         slave' = [slave EXCEPT ![c] = x]
  PROVE  /\ slave' \in [Chains -> Pull]
         /\ \A d \in Chains : slave'[d].pc \in {"save", "reply", "exec", "project"} =>
                              slave'[d].order \in Order
<1>1. slave \in [Chains -> Pull]
  BY DEF TypeOK
<1>2. \A d \in Chains : slave'[d] = IF d = c THEN x ELSE slave[d]
  BY <1>1
<1> QED
  BY <1>1, <1>2 DEF TypeOK

LEMMA SlaveType ==
  ASSUME TypeOK, NEW c \in Chains, SlaveStep(c) \/ SlaveIdle(c) \/ SlaveReplyLost(c)
  PROVE  TypeOK'
<1> DEFINE s == slave[c]
<1> DEFINE Typed(x) == x \in Pull /\ (x.pc \in {"save", "reply", "exec", "project"}
                                      => x.order \in Order)
<1> DEFINE SlaveTyped ==
      /\ slave' \in [Chains -> Pull]
      /\ \A d \in Chains : slave'[d].pc \in {"save", "reply", "exec", "project"} =>
                           slave'[d].order \in Order
<1>0. s \in Pull /\ Typed(s)
  BY DEF TypeOK
<1>1. ASSUME NEW x, Typed(x), slave' = [slave EXCEPT ![c] = x] PROVE SlaveTyped
  BY <1>1, PullMoves
<1>2. \A v \in {"off", "check", "ask"} : Typed([s EXCEPT !.pc = v])
  BY <1>0 DEF Pull, SlavePc
<1>3. Typed([s EXCEPT !.idle = FALSE])
  BY <1>0 DEF Pull
<1>4. CASE SlaveCheck(c)
  <2>1. PICK v \in {"off", "ask"} : slave' = [slave EXCEPT ![c] = [s EXCEPT !.pc = v]]
    BY <1>4 DEF SlaveCheck
  <2>2. SlaveTyped
    BY <1>1, <1>2, <2>1
  <2>3. /\ chain' \in [Chains -> Chain]
        /\ \A d \in Chains : chain'[d].pc \in {"save", "exec", "loading", "project"} =>
                             chain'[d].order \in Order
    BY <1>4, ChainMoves, "reply" \in ChainPc DEF SlaveCheck, TypeOK, ChainPc
  <2> QED
    BY <1>4, <2>2, <2>3 DEF SlaveCheck, TypeOK
<1>5. CASE SlaveAskEmpty(c)
  <2>1. slave' = [slave EXCEPT ![c] = [s EXCEPT !.pc = "off"]]
    BY <1>5 DEF SlaveAskEmpty
  <2>2. SlaveTyped
    BY <1>1, <1>2, <2>1
  <2> QED
    BY <1>5, <2>2 DEF SlaveAskEmpty, TypeOK
<1>6. CASE SlaveAsk(c)
  <2>1. Head(db.queue) \in Order /\ Tail(db.queue) \in Seq(Order)
    BY <1>6, NodeFacts DEF SlaveAsk
  <2> DEFINE x == [s EXCEPT !.pc = "save", !.order = Head(db.queue), !.rest = Tail(db.queue)]
  <2>2. slave' = [slave EXCEPT ![c] = x]
    BY <1>6 DEF SlaveAsk
  <2>3. Typed(x)
    BY <1>0, <2>1 DEF Pull, SlavePc
  <2> HIDE DEF x
  <2>4. SlaveTyped
    BY <1>1, <2>2, <2>3
  <2> QED
    BY <1>6, <2>1, <2>4 DEF SlaveAsk, TypeOK
<1>7. CASE SlaveSave(c)
  <2> DEFINE x == [s EXCEPT !.pc = "reply", !.rest = << >>]
  <2>1. slave' = [slave EXCEPT ![c] = x] /\ s.pc = "save"
    BY <1>7 DEF SlaveSave
  <2>2. Typed(x)
    BY <1>0, <2>1, << >> \in Seq(Order) DEF Pull, SlavePc
  <2> HIDE DEF x
  <2>3. SlaveTyped
    BY <1>1, <2>1, <2>2
  <2>4. db' \in Node
    BY <1>0, <1>7, NodeFacts DEF SlaveSave, TypeOK, Pull
  <2> QED
    BY <1>7, <2>3, <2>4 DEF SlaveSave, TypeOK
<1>8. CASE SlaveReply(c)
  <2> DEFINE x == [s EXCEPT !.pc = "exec"]
  <2>1. slave' = [slave EXCEPT ![c] = x] /\ s.pc = "reply"
    BY <1>8 DEF SlaveReply
  <2>2. Typed(x)
    BY <1>0, <2>1 DEF Pull, SlavePc
  <2> HIDE DEF x
  <2>3. SlaveTyped
    BY <1>1, <2>1, <2>2
  <2> QED
    BY <1>8, <2>3 DEF SlaveReply, TypeOK
<1>9. CASE SlaveExec(c)
  <2>1. s.order \in Order
    BY <1>0, <1>9 DEF SlaveExec
  <2>2. runs' \in [Order -> 0..MaxRuns] /\ dropped' \in SUBSET Order
    BY <1>9, <2>1, CountedType DEF SlaveExec, TypeOK
  <2>3. db' \in Node
    BY <1>9, BusyType DEF SlaveExec, TypeOK
  <2> DEFINE x == [s EXCEPT !.order = IF IsProject(s.order) THEN s.order ELSE None,
                            !.pc = IF IsScan(s.order) THEN "ask"
                                   ELSE IF IsProject(s.order) THEN "project" ELSE "off"]
  <2>4. slave' = [slave EXCEPT ![c] = x]
    BY <1>9 DEF SlaveExec
  <2>5. Typed(x)
    BY <1>0, <2>1 DEF Pull, SlavePc, IsScan
  <2> HIDE DEF x
  <2>6. SlaveTyped
    BY <1>1, <2>4, <2>5
  <2> QED
    BY <1>9, <2>2, <2>3, <2>6 DEF SlaveExec, TypeOK
<1>10. CASE SlaveProject(c)
  <2> DEFINE x == [s EXCEPT !.pc = "ask", !.order = None]
  <2>1. slave' = [slave EXCEPT ![c] = x] /\ s.order \in Order
    BY <1>0, <1>10 DEF SlaveProject
  <2>2. Typed(x)
    BY <1>0 DEF Pull, SlavePc
  <2> HIDE DEF x
  <2>3. SlaveTyped
    BY <1>1, <2>1, <2>2
  <2>4. Proj[s.order[1]] \in Projects
    BY <2>1, QueueAssumption DEF Order
  <2> QED
    BY <1>10, <2>3, <2>4 DEF SlaveProject, TypeOK
<1>11. CASE SlaveIdle(c)
  <2>1. slave' = [slave EXCEPT ![c] = [s EXCEPT !.idle = FALSE]]
    BY <1>11 DEF SlaveIdle
  <2>2. SlaveTyped
    BY <1>1, <1>3, <2>1
  <2>3. db' \in Node
    BY <1>11, NodeFacts, "IDLE" \in NodeState DEF SlaveIdle, TypeOK, NodeState
  <2> QED
    BY <1>11, <2>2, <2>3 DEF SlaveIdle, TypeOK
<1>12. CASE SlaveReplyLost(c)
  <2> DEFINE x == [s EXCEPT !.pc = "off", !.order = None]
  <2>1. slave' = [slave EXCEPT ![c] = x]
    BY <1>12 DEF SlaveReplyLost
  <2>2. Typed(x)
    BY <1>0 DEF Pull, SlavePc
  <2> HIDE DEF x
  <2>3. SlaveTyped
    BY <1>1, <2>1, <2>2
  <2> QED
    BY <1>12, <2>3 DEF SlaveReplyLost, TypeOK
<1> QED
  BY <1>4, <1>5, <1>6, <1>7, <1>8, <1>9, <1>10, <1>11, <1>12 DEF SlaveStep

LEMMA KilledType == TypeOK /\ Killed => TypeOK'
<1> SUFFICES ASSUME TypeOK, Killed PROVE TypeOK'
  OBVIOUS
<1>1. db' \in Node
  BY << >> \in Seq(Order) DEF Killed, TypeOK, Node, NodeState
<1>2. chain' \in [Chains -> Chain]
      /\ \A c \in Chains : chain'[c].pc = "off" \/ chain'[c] = chain[c]
  BY ChainFacts DEF Killed, TypeOK
<1>3. slave' \in [Chains -> Pull] /\ \A c \in Chains : slave'[c].pc = "off"
  BY PullFacts DEF Killed
<1> QED
  BY <1>1, <1>2, <1>3 DEF Killed, TypeOK

LEMMA StepType == TypeOK /\ [Next]_vars => TypeOK'
<1> SUFFICES ASSUME TypeOK, [Next]_vars PROVE TypeOK'
  OBVIOUS
<1>1. CASE UNCHANGED vars
  BY <1>1 DEF vars, TypeOK
<1>2. ASSUME NEW c \in Chains, ChainStep(c) \/ SlaveStep(c) \/ SlaveIdle(c) \/ Fault(c)
      PROVE TypeOK'
  BY <1>2, DrainType, ExecType, OpeningType, SlaveType DEF ChainStep, Fault
<1> QED
  BY <1>1, <1>2, FlowType, RegType, KilledType DEF Next

\* Every variable keeps its type, whatever the numbers of requests,
\* registrations, projects and orders.
THEOREM TypeCorrect == Spec => []TypeOK
  BY InitType, StepType, PTL DEF Spec

-----------------------------------------------------------------------------
(* The order of the queue.                                                 *)

\* What the steps make of the copies of the queue: they copy one, empty one,
\* or take the head off the record's queue and hand it out.
Derived(s) ==
  \/ s \in Copies
  \/ s = << >>
  \/ db.queue # << >> /\ s = Tail(db.queue) /\ Head(db.queue) \in taken'

LEMMA CopiesType == TypeOK => \A s \in Copies : s \in Seq(Order)
<1> SUFFICES ASSUME TypeOK PROVE \A s \in Copies : s \in Seq(Order)
  OBVIOUS
<1>1. \A c \in Chains : slave[c].rest \in Seq(Order)
  BY PullFacts DEF TypeOK
<1> QED
  BY <1>1, NodeFacts DEF Copies

LEMMA OrderParts ==
  ASSUME NEW o \in Order
  PROVE  o[1] \in Flows /\ o[2] \in 1..MaxBatch /\ o[2] \in Nat /\ o = <<o[1], o[2]>>
  BY QueueAssumption DEF Order

\* Orders that were appended stay appended, orders handed out stay handed out.
LEMMA GoodLater ==
  ASSUME NEW s \in Seq(Order),
         NEW p \in [Flows -> 0..MaxBatch], NEW p2 \in [Flows -> 0..MaxBatch],
         NEW t, NEW t2, t \subseteq t2, \A f \in Flows : p[f] <= p2[f],
         Good(s, p, t)
  PROVE  Good(s, p2, t2)
<1>1. ASSUME NEW j \in DOMAIN s PROVE s[j][2] <= p2[s[j][1]]
  <2>1. s[j] \in Order
    BY <1>1, ElementOfSeq
  <2>2. s[j][1] \in Flows /\ s[j][2] \in Nat
    BY <2>1, OrderParts
  <2>3. s[j][2] <= p[s[j][1]]
    BY <1>1 DEF Good
  <2>4. p[s[j][1]] \in Nat /\ p2[s[j][1]] \in Nat /\ p[s[j][1]] <= p2[s[j][1]]
    BY <2>2, QueueAssumption
  <2> HIDE DEF Good
  <2> QED
    BY <2>2, <2>3, <2>4
<1> QED
  BY <1>1 DEF Good

LEMMA GoodEmpty == ASSUME NEW p, NEW t PROVE Good(<< >>, p, t)
  BY DEF Good, Increasing

\* Handing out the head leaves a good queue behind.
LEMMA GoodTail ==
  ASSUME NEW s \in Seq(Order), s # << >>, NEW p, NEW t, Good(s, p, t), Head(s) \in t
  PROVE  Good(Tail(s), p, t)
<1> DEFINE u == Tail(s)
<1>1. Len(s) \in Nat /\ Len(s) > 0 /\ DOMAIN s = 1..Len(s)
  BY EmptySeq, LenProperties
<1>2. /\ u \in Seq(Order) /\ DOMAIN u = 1..(Len(s) - 1)
      /\ \A j \in DOMAIN u : j \in Nat /\ j + 1 \in DOMAIN s /\ u[j] = s[j + 1]
  BY <1>1, HeadTailProperties
<1>3. Head(s) = s[1]
  BY <1>1, HeadTailProperties
<1> HIDE DEF u
<1>4. Increasing(u)
  <2>1. SUFFICES ASSUME NEW j \in DOMAIN u, NEW k \in DOMAIN u, j < k, u[j][1] = u[k][1]
                 PROVE  u[j][2] < u[k][2]
    BY DEF Increasing
  <2>2. /\ j + 1 \in DOMAIN s /\ k + 1 \in DOMAIN s /\ j + 1 < k + 1
        /\ u[j] = s[j + 1] /\ u[k] = s[k + 1]
    BY <1>2, <2>1
  <2>3. s[j + 1][1] = s[k + 1][1]
    BY <2>1, <2>2
  <2>4. s[j + 1][2] < s[k + 1][2]
    BY <2>2, <2>3 DEF Good, Increasing
  <2> QED
    BY <2>2, <2>4
<1>5. ASSUME NEW j \in DOMAIN u, Suspends(u[j][1]), u[j][2] > 1
      PROVE  \/ <<u[j][1], u[j][2] - 1>> \in t
             \/ \E k \in 1..(j - 1) : u[k] = <<u[j][1], u[j][2] - 1>>
  <2> DEFINE before == <<u[j][1], u[j][2] - 1>>
  <2>1. before \in t \/ \E k \in 1..((j + 1) - 1) : s[k] = before
    BY <1>2, <1>5 DEF Good
  <2>2. ASSUME NEW k \in 1..((j + 1) - 1), s[k] = before, before \notin t
        PROVE  k - 1 \in 1..(j - 1) /\ u[k - 1] = before
    <3>1. k # 1
      BY <1>3, <2>2
    <3>2. k \in Nat /\ j \in 1..(Len(s) - 1)
      BY <1>2
    <3>3. k - 1 \in 1..(j - 1) /\ k - 1 \in DOMAIN u
      BY <1>1, <1>2, <3>1, <3>2
    <3>4. (k - 1) + 1 = k
      BY <3>2
    <3>5. PICK m \in DOMAIN u : m = k - 1
      BY <3>3
    <3>6. u[m] = s[m + 1]
      BY <1>2
    <3> HIDE DEF before
    <3> QED
      BY <2>2, <3>3, <3>4, <3>5, <3>6
  <2> QED
    BY <2>1, <2>2
<1>6. \A j \in DOMAIN u : u[j][2] <= p[u[j][1]]
  BY <1>2 DEF Good
<1> QED
  BY <1>4, <1>5, <1>6 DEF Good, u

\* Appending the next order of a request keeps a queue good, if the request
\* appends one at a time or the queue holds the order before.
LEMMA GoodAppend ==
  ASSUME NEW s \in Seq(Order), NEW p \in [Flows -> 0..MaxBatch], NEW t, Good(s, p, t),
         NEW f \in Flows, p[f] < MaxBatch,
         Suspends(f) /\ p[f] > 0 => <<f, p[f]>> \in Elements(s)
  PROVE  Good(Append(s, <<f, p[f] + 1>>), [p EXCEPT ![f] = p[f] + 1], t)
<1> DEFINE o == <<f, p[f] + 1>>
           u == Append(s, o)
           q == [p EXCEPT ![f] = p[f] + 1]
<1>0. MaxBatch \in Nat /\ p[f] \in Nat
  BY QueueAssumption
<1>1. o \in Order /\ o[1] = f /\ o[2] = p[f] + 1
  BY <1>0 DEF Order
<1>2. Len(s) \in Nat /\ DOMAIN s = 1..Len(s)
  BY LenProperties
<1>3. /\ DOMAIN u = 1..(Len(s) + 1) /\ u[Len(s) + 1] = o
      /\ \A j \in 1..Len(s) : u[j] = s[j]
  BY <1>1, <1>2, AppendProperties
<1>4. \A j \in DOMAIN s : s[j][1] \in Flows /\ s[j][2] \in Nat /\ s[j][2] <= p[s[j][1]]
  <2> SUFFICES ASSUME NEW j \in DOMAIN s
               PROVE  s[j][1] \in Flows /\ s[j][2] \in Nat /\ s[j][2] <= p[s[j][1]]
    OBVIOUS
  <2>1. s[j] \in Order
    BY ElementOfSeq
  <2> QED
    BY <2>1, OrderParts DEF Good
<1>5. /\ q \in [Flows -> 0..MaxBatch] /\ q[f] = p[f] + 1
      /\ \A g \in Flows : p[g] \in Nat /\ q[g] \in Nat /\ p[g] <= q[g]
  BY <1>0
<1> HIDE DEF o, u, q
<1>6. Increasing(u)
  <2> SUFFICES ASSUME NEW j \in DOMAIN u, NEW k \in DOMAIN u, j < k, u[j][1] = u[k][1]
               PROVE  u[j][2] < u[k][2]
    BY DEF Increasing
  <2>1. j \in DOMAIN s /\ u[j] = s[j]
    BY <1>2, <1>3
  <2>2. CASE k = Len(s) + 1
    BY <1>0, <1>1, <1>3, <1>4, <2>1, <2>2
  <2>3. CASE k \in 1..Len(s)
    BY <1>2, <1>3, <2>1, <2>3 DEF Good, Increasing
  <2> QED
    BY <1>2, <1>3, <2>2, <2>3
<1>7. ASSUME NEW j \in DOMAIN u PROVE u[j][2] <= q[u[j][1]]
  <2>1. CASE j \in DOMAIN s
    <3>1. u[j] = s[j]
      BY <1>2, <1>3, <2>1
    <3> DEFINE a == s[j][2]
               b == p[s[j][1]]
               c == q[s[j][1]]
    <3>2. a \in Nat /\ b \in Nat /\ c \in Nat /\ a <= b /\ b <= c
      BY <1>4, <1>5, <2>1
    <3>3. a <= c
      BY <3>2
    <3> QED
      BY <3>1, <3>3
  <2>2. CASE j = Len(s) + 1
    BY <1>0, <1>1, <1>3, <1>5, <2>2
  <2> QED
    BY <1>2, <1>3, <2>1, <2>2
<1>8. ASSUME NEW j \in DOMAIN u, Suspends(u[j][1]), u[j][2] > 1
      PROVE  \/ <<u[j][1], u[j][2] - 1>> \in t
             \/ \E k \in 1..(j - 1) : u[k] = <<u[j][1], u[j][2] - 1>>
  <2>1. CASE j \in DOMAIN s
    <3>1. u[j] = s[j] /\ j \in 1..Len(s)
      BY <1>2, <1>3, <2>1
    <3>2. \/ <<s[j][1], s[j][2] - 1>> \in t
          \/ \E k \in 1..(j - 1) : s[k] = <<s[j][1], s[j][2] - 1>>
      BY <1>8, <2>1, <3>1 DEF Good
    <3>3. \A k \in 1..(j - 1) : u[k] = s[k]
      BY <1>2, <1>3, <3>1
    <3> QED
      BY <3>1, <3>2, <3>3
  <2>2. CASE j = Len(s) + 1
    <3>1. u[j] = o
      BY <1>3, <2>2
    <3>2. Suspends(f) /\ p[f] > 0 /\ <<u[j][1], u[j][2] - 1>> = <<f, p[f]>>
      BY <1>0, <1>1, <1>8, <3>1
    <3>3. PICK k \in DOMAIN s : s[k] = <<f, p[f]>>
      BY <3>2 DEF Elements
    <3>4. k \in 1..(j - 1) /\ u[k] = s[k]
      BY <1>2, <1>3, <2>2, <3>3
    <3> QED
      BY <3>2, <3>3, <3>4
  <2> QED
    BY <1>2, <1>3, <2>1, <2>2
<1> QED
  BY <1>6, <1>7, <1>8 DEF Good, u, o, q

LEMMA QueueFacts ==
  ASSUME NEW x \in Node
  PROVE  /\ \A v : /\ [x EXCEPT !.state = v].queue = x.queue
                 /\ [x EXCEPT !.running = v].queue = x.queue
                 /\ [x EXCEPT !.project = v].queue = x.queue
                 /\ [x EXCEPT !.queue = v].queue = v
                 /\ \A w : [x EXCEPT !.state = v, !.running = w].queue = x.queue
         /\ \A y : Write(y).queue \in {db.queue, y.queue}
  BY DEF Node, Write

LEMMA DerivedCopies ==
  /\ Derived(db.queue) /\ Derived(<< >>)
  /\ \A h \in Handles : Derived(node[h].queue)
  /\ \A c \in Chains : Derived(slave[c].rest)
  BY DEF Derived, Copies

LEMMA FlowCopies ==
  ASSUME TypeOK, NEW f \in Flows, FlowStep(f), ~Push(f)
  PROVE  /\ Derived(db'.queue) /\ slave' = slave
         /\ \A h \in Handles : Derived(node'[h].queue)
<1>0. db \in Node /\ f \in Handles /\ node[f] \in Node /\ node \in [Handles -> Node]
  BY NodeFacts DEF TypeOK, Handles
<1>1. CASE Load(f)
  <2>1. [db EXCEPT !.project = Proj[f]].queue = db.queue
    BY <1>0, QueueFacts
  <2> QED
    BY <1>0, <1>1, <2>1, DerivedCopies DEF Load
<1>2. CASE Claim(f)
  <2>1. db'.queue = db.queue
    BY <1>0, <1>2 DEF Claim, Write, Node
  <2> QED
    BY <1>2, <2>1, DerivedCopies DEF Claim
<1>3. CASE SaveAll(f)
  <2>1. db'.queue \in {db.queue, node[f].queue}
    BY <1>0, <1>3, QueueFacts DEF SaveAll
  <2> QED
    BY <1>0, <1>3, <2>1, DerivedCopies DEF SaveAll
<1>4. CASE SaveQueue(f)
  <2>1. db'.queue \in {db.queue, node[f].queue}
    BY <1>0, <1>4, QueueFacts DEF SaveQueue
  <2> QED
    BY <1>0, <1>4, <2>1, DerivedCopies DEF SaveQueue
<1>5. CASE Start(f)
  <2>1. db'.queue = db.queue
    BY <1>0, <1>5 DEF Start, Write, Node
  <2> QED
    BY <1>5, <2>1, DerivedCopies DEF Start
<1>6. CASE Resume(f) \/ Poll(f)
  BY <1>6, DerivedCopies DEF Resume, Poll
<1> QED
  BY <1>1, <1>2, <1>3, <1>4, <1>5, <1>6 DEF FlowStep

LEMMA RegCopies ==
  ASSUME TypeOK, NEW r \in Regs, RegStep(r)
  PROVE  /\ Derived(db'.queue) /\ slave' = slave
         /\ \A h \in Handles : Derived(node'[h].queue)
<1>0. db \in Node /\ r \in Handles /\ node[r] \in Node /\ node \in [Handles -> Node]
  BY NodeFacts DEF TypeOK, Handles
<1>1. CASE RegRead(r)
  <2>1. [db EXCEPT !.running = TRUE].queue = db.queue
    BY <1>0, QueueFacts
  <2> QED
    BY <1>0, <1>1, <2>1, DerivedCopies DEF RegRead
<1>2. CASE RegSaveAll(r)
  <2>1. db'.queue \in {db.queue, node[r].queue}
    BY <1>0, <1>2, QueueFacts DEF RegSaveAll
  <2> QED
    BY <1>0, <1>2, <2>1, DerivedCopies DEF RegSaveAll
<1>3. CASE RegEvent(r)
  <2>1. [db EXCEPT !.state = "IDLE"].queue = db.queue
    BY <1>0, QueueFacts
  <2> QED
    BY <1>0, <1>3, <2>1, DerivedCopies DEF RegEvent
<1>4. CASE RegUpdate(r)
  <2>1. db'.queue = db.queue
    BY <1>0, <1>4 DEF RegUpdate, Write, Node
  <2> QED
    BY <1>4, <2>1, DerivedCopies DEF RegUpdate
<1> QED
  BY <1>1, <1>2, <1>3, <1>4 DEF RegStep

LEMMA ChainCopies ==
  ASSUME TypeOK, NEW c \in Chains,
         ChainStep(c) \/ SlaveStep(c) \/ SlaveIdle(c) \/ Fault(c)
  PROVE  /\ Derived(db'.queue)
         /\ \A h \in Handles : Derived(node'[h].queue)
         /\ \A d \in Chains : Derived(slave'[d].rest)
<1>0. /\ db \in Node /\ c[1] \in Handles /\ node[c[1]] \in Node
      /\ node \in [Handles -> Node] /\ slave \in [Chains -> Pull]
  BY NodeFacts DEF TypeOK, Handles, Chains
<1>b. Busy.queue = db.queue
  BY <1>0 DEF Busy, Write, Node
<1>1. CASE DrainEmpty(c)
  <2>1. \A h \in Handles : node'[h].queue \in {<< >>, node[h].queue}
    BY <1>0, <1>1, QueueFacts DEF DrainEmpty
  <2> QED
    BY <1>1, <2>1, DerivedCopies DEF DrainEmpty
<1>2. CASE Shift(c)
  <2>1. \A h \in Handles : node'[h].queue \in {Tail(db.queue), node[h].queue}
    BY <1>0, <1>2, QueueFacts DEF Shift
  <2>2. Derived(Tail(db.queue))
    BY <1>2 DEF Shift, Derived
  <2> QED
    BY <1>2, <2>1, <2>2, DerivedCopies DEF Shift
<1>3. CASE SaveShift(c)
  <2>1. db'.queue \in {db.queue, node[c[1]].queue}
    BY <1>0, <1>3, QueueFacts DEF SaveShift
  <2> QED
    BY <1>0, <1>3, <2>1, DerivedCopies DEF SaveShift
<1>4. CASE ExecOpen(c) \/ ExecProject(c) \/ ExecScan(c) \/ ExecDone(c)
           \/ SlaveProjectDone(c) \/ SlaveFailed(c) \/ ExecFailed(c)
  <2>1. db'.queue = db.queue
    BY <1>4, <1>b DEF ExecOpen, ExecProject, ExecScan, ExecDone, SlaveProjectDone,
                      SlaveFailed, ExecFailed
  <2>2. node' = node /\ slave' = slave
    BY <1>4 DEF ExecOpen, ExecProject, ExecScan, ExecDone, SlaveProjectDone,
                SlaveFailed, ExecFailed
  <2> QED
    BY <2>1, <2>2, DerivedCopies
<1>5. CASE SlaveOpened(c)
  <2>1. \A d \in Chains : slave'[d].rest \in {<< >>, slave[d].rest}
    BY <1>0, <1>5 DEF SlaveOpened, SlaveOff
  <2> QED
    BY <1>5, <2>1, DerivedCopies DEF SlaveOpened
<1>6. CASE SlaveAsk(c)
  <2>1. \A d \in Chains : slave'[d].rest \in {Tail(db.queue), slave[d].rest}
    BY <1>0, <1>6 DEF SlaveAsk, Pull
  <2>2. Derived(Tail(db.queue))
    BY <1>6 DEF SlaveAsk, Derived
  <2> QED
    BY <1>6, <2>1, <2>2, DerivedCopies DEF SlaveAsk
<1>7. CASE SlaveSave(c)
  <2>1. db'.queue \in {db.queue, slave[c].rest}
    BY <1>0, <1>7, QueueFacts DEF SlaveSave
  <2>2. \A d \in Chains : slave'[d].rest \in {<< >>, slave[d].rest}
    BY <1>0, <1>7 DEF SlaveSave, Pull
  <2> QED
    BY <1>7, <2>1, <2>2, DerivedCopies DEF SlaveSave
<1>8. CASE SlaveIdle(c)
  <2>1. db'.queue = db.queue
    BY <1>0, <1>8 DEF SlaveIdle, Write, Node
  <2>2. \A d \in Chains : slave'[d].rest = slave[d].rest
    BY <1>0, <1>8 DEF SlaveIdle, Pull
  <2> QED
    BY <1>8, <2>1, <2>2, DerivedCopies DEF SlaveIdle
<1>9. CASE SlaveCheck(c) \/ SlaveAskEmpty(c) \/ SlaveReply(c) \/ SlaveExec(c)
           \/ SlaveProject(c) \/ SlaveReplyLost(c)
  <2>1. db'.queue = db.queue
    BY <1>9, <1>b DEF SlaveCheck, SlaveAskEmpty, SlaveReply, SlaveExec, SlaveProject,
                      SlaveReplyLost
  <2>2. \A d \in Chains : slave'[d].rest = slave[d].rest
    <3>0. slave[c] \in Pull
      BY <1>0
    <3>1. \A v \in SlavePc : [slave[c] EXCEPT !.pc = v].rest = slave[c].rest
      BY <3>0 DEF Pull
    <3>2. CASE SlaveCheck(c)
      BY <1>0, <3>1, <3>2 DEF SlaveCheck, SlavePc
    <3>3. CASE SlaveAskEmpty(c)
      BY <1>0, <3>1, <3>3 DEF SlaveAskEmpty, SlavePc
    <3>4. CASE SlaveReply(c)
      BY <1>0, <3>1, <3>4 DEF SlaveReply, SlavePc
    <3>5. CASE SlaveExec(c)
      BY <1>0, <3>5 DEF SlaveExec, Pull
    <3>6. CASE SlaveProject(c)
      BY <1>0, <3>6 DEF SlaveProject, Pull
    <3>7. CASE SlaveReplyLost(c)
      BY <1>0, <3>7 DEF SlaveReplyLost, Pull
    <3> QED
      BY <1>9, <3>2, <3>3, <3>4, <3>5, <3>6, <3>7
  <2>3. node' = node
    BY <1>9 DEF SlaveCheck, SlaveAskEmpty, SlaveReply, SlaveExec, SlaveProject,
                SlaveReplyLost
  <2> QED
    BY <2>1, <2>2, <2>3, DerivedCopies
<1> QED
  BY <1>1, <1>2, <1>3, <1>4, <1>5, <1>6, <1>7, <1>8, <1>9
  DEF ChainStep, SlaveStep, Fault

LEMMA KilledCopies ==
  ASSUME TypeOK, Killed
  PROVE  /\ Derived(db'.queue)
         /\ \A h \in Handles : Derived(node'[h].queue)
         /\ \A d \in Chains : Derived(slave'[d].rest)
<1>1. db'.queue = << >>
  BY DEF Killed, TypeOK, Node
<1>2. \A d \in Chains : slave'[d].rest = << >>
  BY DEF Killed, SlaveOff
<1> QED
  BY <1>1, <1>2, DerivedCopies DEF Killed

\* What every step but an append makes of the copies.
LEMMA CopiesDerived ==
  ASSUME TypeOK, [Next]_vars, \A f \in Flows : ~Push(f)
  PROVE  \A s \in Copies' : Derived(s)
<1>1. /\ Derived(db'.queue)
      /\ \A h \in Handles : Derived(node'[h].queue)
      /\ \A c \in Chains : Derived(slave'[c].rest)
  <2>1. CASE UNCHANGED vars
    BY <2>1, DerivedCopies DEF vars
  <2>2. CASE \E f \in Flows : FlowStep(f)
    BY <2>2, FlowCopies, DerivedCopies
  <2>3. CASE \E r \in Regs : RegStep(r)
    BY <2>3, RegCopies, DerivedCopies
  <2>4. CASE \E c \in Chains : ChainStep(c) \/ SlaveStep(c) \/ SlaveIdle(c) \/ Fault(c)
    BY <2>4, ChainCopies
  <2>5. CASE Killed
    BY <2>5, KilledCopies
  <2> QED
    BY <2>1, <2>2, <2>3, <2>4, <2>5 DEF Next
<1> QED
  BY <1>1 DEF Copies

\* A step that leaves the flow alone, but may stop chains, keeps Held.
LEMMA HeldKept ==
  ASSUME NEW f \in Flows, Held(f),
         pc'[f] = pc[f], pushed'[f] = pushed[f], node'[f].queue = node[f].queue,
         \A i \in 1..MaxBatch :
           /\ chain'[<<f, i>>].pc \in {"off", chain[<<f, i>>].pc}
           /\ slave'[<<f, i>>].pc \in {"off", slave[<<f, i>>].pc}
  PROVE  Held(f)'
  BY DEF Held, Elements

LEMMA HeldOwnStep ==
  ASSUME TypeOK, NEW f \in Flows, Held(f), FlowStep(f)
  PROVE  Held(f)'
<1> SUFFICES ASSUME Suspends(f), pc'[f] \in Appending
             PROVE  Held(f)'
  BY DEF Held
<1>0. /\ f \in Handles /\ pc \in [Handles -> FlowPc] /\ node \in [Handles -> Node]
      /\ pushed \in [Flows -> 0..MaxBatch] /\ MaxBatch \in Nat
  BY QueueAssumption DEF TypeOK, Handles
<1>1. CASE Load(f)
  <2>1. pc[f] = "load" /\ pushed' = pushed /\ chain' = chain /\ slave' = slave
    BY <1>1 DEF Load
  <2>2. pushed[f] = 0 /\ \A i \in 1..MaxBatch : chain[<<f, i>>].pc = "off" /\ slave[<<f, i>>].pc = "off"
    BY <2>1 DEF Held, Appending
  <2> QED
    BY <2>1, <2>2 DEF Held
<1>2. CASE Claim(f) \/ SaveAll(f)
  <2>1. /\ pc[f] \in {"claim", "saveall"} /\ pushed' = pushed /\ chain' = chain
        /\ slave' = slave
    BY <1>2 DEF Claim, SaveAll
  <2>2. pushed[f] = 0 /\ \A i \in 1..MaxBatch : chain[<<f, i>>].pc = "off" /\ slave[<<f, i>>].pc = "off"
    BY <2>1 DEF Held, Appending
  <2> QED
    BY <2>1, <2>2 DEF Held
<1>3. CASE Push(f)
  <2> DEFINE o == <<f, pushed[f] + 1>>
             q == Append(node[f].queue, o)
  <2>1. pc[f] = "push" /\ pc'[f] = "save" /\ chain' = chain /\ slave' = slave
    BY <1>0, <1>3 DEF Push
  <2>2. \A i \in 1..MaxBatch : chain[<<f, i>>].pc = "off" /\ slave[<<f, i>>].pc = "off"
    BY <2>1 DEF Held, Appending
  <2>3. pushed'[f] = pushed[f] + 1 /\ o \in Order
    <3>1. pushed[f] \in Nat /\ Batch[f] \in 1..MaxBatch /\ pushed[f] < Batch[f]
      <4>1. Batch[f] \in 1..MaxBatch
        BY QueueAssumption
      <4>2. pushed[f] < Batch[f]
        BY <1>3 DEF Push
      <4> QED
        BY <1>0, <4>1, <4>2
    <3>2. pushed'[f] = pushed[f] + 1
      BY <1>0, <1>3 DEF Push
    <3> QED
      BY <1>0, <3>1, <3>2 DEF Order
  <2>4. node[f] \in Node /\ node[f].queue \in Seq(Order)
    BY <1>0, NodeFacts
  <2>5. node'[f].queue = q
    BY <1>0, <1>3, <2>4, QueueFacts DEF Push
  <2>6. Len(node[f].queue) \in Nat /\ q \in Seq(Order)
        /\ Len(q) = Len(node[f].queue) + 1 /\ q[Len(node[f].queue) + 1] = o
    BY <2>3, <2>4, AppendProperties, LenProperties
  <2>7. DOMAIN q = 1..Len(q)
    BY <2>6, LenProperties
  <2> HIDE DEF q
  <2>8. o \in Elements(q)
    BY <2>6, <2>7 DEF Elements
  <2>9. <<f, pushed'[f]>> \in Elements(node[f].queue)'
    BY <2>3, <2>5, <2>8 DEF Elements
  <2> QED
    BY <2>1, <2>2, <2>9 DEF Held
<1>4. CASE SaveQueue(f)
  <2>1. /\ pc[f] = "save" /\ pc'[f] \in {"push", "resume"} /\ chain' = chain
        /\ slave' = slave /\ node' = node /\ pushed' = pushed
    BY <1>0, <1>4 DEF SaveQueue
  <2> QED
    BY <2>1 DEF Held, Appending, Elements
<1>5. CASE Resume(f)
  BY <1>0, <1>5 DEF Resume, Appending
<1>6. CASE Start(f)
  <2>1. Kind[f] # "project"
    BY DEF Suspends
  <2> QED
    BY <1>0, <1>6, <2>1 DEF Start, Appending
<1>7. CASE Poll(f)
  BY <1>0, <1>7 DEF Poll, Appending
<1> QED
  BY <1>1, <1>2, <1>3, <1>4, <1>5, <1>6, <1>7 DEF FlowStep

\* A step of another flow or of a registration.
LEMMA HeldOther ==
  ASSUME TypeOK, NEW f \in Flows, Held(f), NEW h \in Handles, h # f,
         (h \in Flows /\ FlowStep(h)) \/ (h \in Regs /\ RegStep(h))
  PROVE  Held(f)'
<1>0. /\ f \in Handles /\ pc \in [Handles -> FlowPc] /\ node \in [Handles -> Node]
      /\ pushed \in [Flows -> 0..MaxBatch] /\ chain \in [Chains -> Chain]
      /\ \A i \in 1..MaxBatch : <<f, i>> \in Chains
  BY DEF TypeOK, Handles, Chains
<1>1. /\ pc'[f] = pc[f] /\ node'[f] = node[f] /\ pushed'[f] = pushed[f] /\ slave' = slave
      /\ chain' = chain \/ \E i : Trigger(h, i)
  <2>1. CASE h \in Flows /\ FlowStep(h)
    BY <1>0, <2>1 DEF FlowStep, Load, Claim, SaveAll, Push, SaveQueue, Resume, Start, Poll
  <2>2. CASE h \in Regs /\ RegStep(h)
    BY <1>0, <2>2 DEF RegStep, RegRead, RegSaveAll, RegEvent, RegUpdate
  <2> QED
    BY <2>1, <2>2
<1>2. \A i \in 1..MaxBatch : chain'[<<f, i>>] = chain[<<f, i>>]
  <2>1. ASSUME NEW j, Trigger(h, j), NEW i \in 1..MaxBatch
        PROVE  chain'[<<f, i>>] = chain[<<f, i>>]
    <3>1. <<f, i>> # <<h, j>>
      OBVIOUS
    <3> QED
      BY <1>0, <2>1, <3>1 DEF Trigger
  <2> QED
    BY <1>1, <2>1
<1> QED
  BY <1>1, <1>2, HeldKept

\* A chain that is off takes no step, except to save that the slave is idle.
LEMMA HeldChain ==
  ASSUME TypeOK, NEW f \in Flows, Held(f), NEW c \in Chains,
         ChainStep(c) \/ SlaveStep(c) \/ SlaveIdle(c) \/ Fault(c)
  PROVE  Held(f)'
<1>0. /\ f \in Handles /\ node \in [Handles -> Node] /\ chain \in [Chains -> Chain]
      /\ slave \in [Chains -> Pull] /\ \A i \in 1..MaxBatch : <<f, i>> \in Chains
      /\ c = <<c[1], c[2]>> /\ c[2] \in 1..MaxBatch
  BY DEF TypeOK, Handles, Chains
<1>1. pc' = pc /\ pushed' = pushed
  BY DEF ChainStep, SlaveStep, Fault, DrainEmpty, Shift, SaveShift, ExecOpen, ExecProject,
         ExecScan, ExecDone, SlaveOpened, SlaveProjectDone, SlaveCheck, SlaveAskEmpty,
         SlaveAsk, SlaveSave, SlaveReply, SlaveExec, SlaveProject, SlaveIdle, ExecFailed,
         SlaveFailed, SlaveReplyLost
<1>2. \A d \in Chains : d # c => chain'[d] = chain[d] /\ slave'[d] = slave[d]
  BY <1>0 DEF ChainStep, SlaveStep, Fault, DrainEmpty, Shift, SaveShift, ExecOpen,
         ExecProject, ExecScan, ExecDone, SlaveOpened, SlaveProjectDone, SlaveCheck,
         SlaveAskEmpty, SlaveAsk, SlaveSave, SlaveReply, SlaveExec, SlaveProject, SlaveIdle,
         ExecFailed, SlaveFailed, SlaveReplyLost
<1>3. \A h \in Handles : h # c[1] => node'[h] = node[h]
  BY <1>0 DEF ChainStep, SlaveStep, Fault, DrainEmpty, Shift, SaveShift, ExecOpen,
         ExecProject, ExecScan, ExecDone, SlaveOpened, SlaveProjectDone, SlaveCheck,
         SlaveAskEmpty, SlaveAsk, SlaveSave, SlaveReply, SlaveExec, SlaveProject, SlaveIdle,
         ExecFailed, SlaveFailed, SlaveReplyLost
<1>4. CASE c[1] # f
  <2>1. \A i \in 1..MaxBatch : <<f, i>> # c
    BY <1>4
  <2> QED
    BY <1>0, <1>1, <1>2, <1>3, <1>4, <2>1, HeldKept
<1>5. CASE c[1] = f
  <2> SUFFICES ASSUME Suspends(f), pc[f] \in Appending PROVE Held(f)'
    BY <1>1 DEF Held
  <2>1. chain[c].pc = "off" /\ slave[c].pc = "off"
    BY <1>0, <1>5 DEF Held
  <2>2. ~ChainStep(c)
    BY <2>1 DEF ChainStep, DrainEmpty, Shift, SaveShift, ExecOpen, ExecProject,
                ExecScan, ExecDone, SlaveOpened, SlaveProjectDone
  <2>3. ~SlaveStep(c)
    BY <2>1 DEF SlaveStep, SlaveCheck, SlaveAskEmpty, SlaveAsk, SlaveSave, SlaveReply,
                SlaveExec, SlaveProject
  <2>4. ~Fault(c)
    BY <2>1 DEF Fault, ExecFailed, SlaveFailed, SlaveReplyLost
  <2>5. SlaveIdle(c)
    BY <2>2, <2>3, <2>4
  <2>6. chain' = chain /\ node' = node
    BY <2>5 DEF SlaveIdle
  <2>7. slave[c] \in Pull /\ slave' = [slave EXCEPT ![c] = [slave[c] EXCEPT !.idle = FALSE]]
    BY <1>0, <2>5 DEF SlaveIdle
  <2>8. [slave[c] EXCEPT !.idle = FALSE].pc = slave[c].pc
    BY <2>7, PullFacts
  <2>9. \A d \in Chains : slave'[d].pc = slave[d].pc
    BY <1>0, <2>7, <2>8
  <2> QED
    BY <1>0, <1>1, <2>6, <2>9, HeldKept
<1> QED
  BY <1>4, <1>5

LEMMA HeldStep ==
  ASSUME TypeOK, NEW f \in Flows, Held(f), [Next]_vars
  PROVE  Held(f)'
<1>1. CASE UNCHANGED vars
  BY <1>1, HeldKept DEF vars
<1>2. ASSUME NEW g \in Flows, FlowStep(g) PROVE Held(f)'
  BY <1>2, HeldOwnStep, HeldOther DEF Handles
<1>3. ASSUME NEW r \in Regs, RegStep(r) PROVE Held(f)'
  <2>1. r # f /\ r \in Handles
    BY QueueAssumption DEF Handles
  <2> QED
    BY <1>3, <2>1, HeldOther
<1>4. CASE \E c \in Chains : ChainStep(c) \/ SlaveStep(c) \/ SlaveIdle(c) \/ Fault(c)
  BY <1>4, HeldChain
<1>5. CASE Killed
  <2>1. \A i \in 1..MaxBatch : <<f, i>> \in Chains
    BY DEF Chains, Handles
  <2>2. /\ pc' = pc /\ pushed' = pushed /\ node' = node
        /\ \A d \in Chains : chain'[d].pc \in {"off", chain[d].pc} /\ slave'[d].pc = "off"
    BY <1>5 DEF Killed, Off, SlaveOff
  <2> QED
    BY <2>1, <2>2, HeldKept
<1> QED
  BY <1>1, <1>2, <1>3, <1>4, <1>5 DEF Next

LEMMA InitInvariant == Init => QueueInvariant
<1> SUFFICES ASSUME Init PROVE QueueInvariant
  OBVIOUS
<1>1. \A s \in Copies : s = << >>
  BY DEF Init, Copies, SlaveOff
<1>2. \A s \in Copies : Good(s, pushed, taken)
  BY <1>1, GoodEmpty
<1>3. ASSUME NEW f \in Flows PROVE Held(f)
  <2>1. \A i \in 1..MaxBatch : chain[<<f, i>>].pc = "off" /\ slave[<<f, i>>].pc = "off"
    BY DEF Init, Off, SlaveOff, Chains, Handles
  <2>2. pushed[f] = 0
    BY DEF Init
  <2> QED
    BY <2>1, <2>2 DEF Held
<1>4. TakenInOrder
  BY DEF Init, TakenInOrder
<1> QED
  BY <1>2, <1>3, <1>4 DEF QueueInvariant

\* Orders are only appended and only handed out, and what is handed out is the
\* head of the record's queue.
LEMMA HistoryGrows ==
  ASSUME TypeOK, [Next]_vars
  PROVE  /\ \A f \in Flows : pushed[f] <= pushed'[f]
         /\ \/ taken' = taken
            \/ db.queue # << >> /\ taken' = taken \cup {Head(db.queue)}
<1>0. pushed \in [Flows -> 0..MaxBatch] /\ MaxBatch \in Nat
  BY QueueAssumption DEF TypeOK
<1>1. CASE UNCHANGED vars
  BY <1>0, <1>1 DEF vars
<1>2. ASSUME NEW f \in Flows, FlowStep(f)
      PROVE  taken' = taken /\ \A g \in Flows : pushed[g] <= pushed'[g]
  <2>1. CASE Push(f)
    BY <1>0, <2>1 DEF Push
  <2>2. CASE ~Push(f)
    BY <1>0, <1>2, <2>2
    DEF FlowStep, Load, Claim, SaveAll, SaveQueue, Resume, Start, Poll
  <2> QED
    BY <2>1, <2>2
<1>3. ASSUME NEW r \in Regs, RegStep(r) PROVE taken' = taken /\ pushed' = pushed
  BY <1>3 DEF RegStep, RegRead, RegSaveAll, RegEvent, RegUpdate
<1>4. ASSUME NEW c \in Chains, ChainStep(c) \/ SlaveStep(c) \/ SlaveIdle(c) \/ Fault(c)
      PROVE  /\ pushed' = pushed
             /\ \/ taken' = taken
                \/ db.queue # << >> /\ taken' = taken \cup {Head(db.queue)}
  BY <1>4 DEF ChainStep, SlaveStep, Fault, DrainEmpty, Shift, SaveShift, ExecOpen,
         ExecProject, ExecScan, ExecDone, SlaveOpened, SlaveProjectDone, SlaveCheck,
         SlaveAskEmpty, SlaveAsk, SlaveSave, SlaveReply, SlaveExec, SlaveProject, SlaveIdle,
         ExecFailed, SlaveFailed, SlaveReplyLost
<1>5. CASE Killed
  BY <1>0, <1>5 DEF Killed
<1>6. \A g \in Flows : pushed[g] <= pushed[g]
  BY <1>0
<1> QED
  BY <1>1, <1>2, <1>3, <1>4, <1>5, <1>6 DEF Next

LEMMA TakenStep ==
  ASSUME TypeOK, QueueInvariant, [Next]_vars
  PROVE  TakenInOrder'
<1>1. CASE taken' = taken
  BY <1>1 DEF QueueInvariant, TakenInOrder
<1>2. CASE db.queue # << >> /\ taken' = taken \cup {Head(db.queue)}
  <2> SUFFICES ASSUME NEW f \in Flows, Suspends(f), NEW i \in 2..MaxBatch, <<f, i>> \in taken'
               PROVE  <<f, i - 1>> \in taken'
    BY DEF TakenInOrder
  <2>1. CASE <<f, i>> \in taken
    BY <1>2, <2>1 DEF QueueInvariant, TakenInOrder
  <2>2. CASE <<f, i>> = Head(db.queue)
    <3>1. db.queue \in Seq(Order) /\ Good(db.queue, pushed, taken)
      BY NodeFacts DEF QueueInvariant, Copies
    <3>2. 1 \in DOMAIN db.queue /\ Head(db.queue) = db.queue[1]
      BY <1>2, <3>1, EmptySeq, LenProperties
    <3>3. /\ Suspends(db.queue[1][1]) /\ db.queue[1][2] > 1
          /\ <<db.queue[1][1], db.queue[1][2] - 1>> = <<f, i - 1>>
      BY <2>2, <3>2, QueueAssumption
    <3>4. <<f, i - 1>> \in taken \/ \E k \in 1..(1 - 1) : db.queue[k] = <<f, i - 1>>
      BY <3>1, <3>2, <3>3 DEF Good
    <3> QED
      BY <1>2, <3>4
  <2> QED
    BY <1>2, <2>1, <2>2
<1> QED
  BY <1>1, <1>2, HistoryGrows

LEMMA GoodStep ==
  ASSUME TypeOK, QueueInvariant, [Next]_vars, TypeOK'
  PROVE  \A s \in Copies' : Good(s, pushed', taken')
<1>0. /\ pushed \in [Flows -> 0..MaxBatch] /\ pushed' \in [Flows -> 0..MaxBatch]
      /\ taken \subseteq taken' /\ \A f \in Flows : pushed[f] <= pushed'[f]
  BY HistoryGrows DEF TypeOK
<1>1. ASSUME NEW s \in Copies PROVE s \in Seq(Order) /\ Good(s, pushed, taken)
                                                   /\ Good(s, pushed', taken')
  <2>1. s \in Seq(Order) /\ Good(s, pushed, taken)
    BY CopiesType DEF QueueInvariant
  <2> QED
    BY <1>0, <2>1, GoodLater
<1>2. CASE \A f \in Flows : ~Push(f)
  <2> SUFFICES ASSUME NEW s \in Copies' PROVE Good(s, pushed', taken')
    OBVIOUS
  <2>1. Derived(s)
    BY <1>2, CopiesDerived
  <2>2. CASE s \in Copies
    BY <1>1, <2>2
  <2>3. CASE s = << >>
    BY <2>3, GoodEmpty
  <2>4. CASE db.queue # << >> /\ s = Tail(db.queue) /\ Head(db.queue) \in taken'
    <3>1. db.queue \in Copies
      BY DEF Copies
    <3> QED
      BY <1>1, <2>4, <3>1, GoodTail
  <2> QED
    BY <2>1, <2>2, <2>3, <2>4 DEF Derived
<1>3. ASSUME NEW f \in Flows, Push(f) PROVE \A s \in Copies' : Good(s, pushed', taken')
  <2> DEFINE q == Append(node[f].queue, <<f, pushed[f] + 1>>)
  <2>1. /\ f \in Handles /\ node \in [Handles -> Node] /\ node[f] \in Node
        /\ node[f].queue \in Copies
    BY NodeFacts DEF TypeOK, Handles, Copies
  <2>2. pushed[f] \in Nat /\ pushed[f] < MaxBatch
    <3>1. Batch[f] \in 1..MaxBatch /\ MaxBatch \in Nat
      BY QueueAssumption
    <3>2. pushed[f] < Batch[f]
      BY <1>3 DEF Push
    <3> QED
      BY <1>0, <3>1, <3>2
  <2>3. /\ pushed' = [pushed EXCEPT ![f] = pushed[f] + 1] /\ taken' = taken
        /\ db' = db /\ slave' = slave
    BY <1>3 DEF Push
  <2>4. \A h \in Handles : node'[h].queue \in {q, node[h].queue}
    BY <1>3, <2>1, QueueFacts DEF Push
  <2>5. Suspends(f) /\ pushed[f] > 0 => <<f, pushed[f]>> \in Elements(node[f].queue)
    BY <1>3 DEF QueueInvariant, Held, Push, Appending
  <2>6. Good(q, pushed', taken')
    BY <1>0, <1>1, <2>1, <2>2, <2>3, <2>5, GoodAppend
  <2> HIDE DEF q
  <2>7. \A s \in Copies' : s \in Copies \/ s = q
    BY <2>3, <2>4 DEF Copies
  <2> QED
    BY <1>1, <2>6, <2>7
<1> QED
  BY <1>2, <1>3

\* The inductive invariant behind the two theorems below.
THEOREM QueueInvariantHolds == Spec => []QueueInvariant
<1>1. TypeOK /\ QueueInvariant /\ [Next]_vars /\ TypeOK' => QueueInvariant'
  <2> SUFFICES ASSUME TypeOK, QueueInvariant, [Next]_vars, TypeOK' PROVE QueueInvariant'
    OBVIOUS
  <2>1. \A f \in Flows : Held(f)'
    BY HeldStep DEF QueueInvariant
  <2>2. \A s \in Copies' : Good(s, pushed', taken')
    BY GoodStep
  <2>3. (\A s \in Copies : Good(s, pushed, taken))'
    BY <2>2
  <2> QED
    BY <2>1, <2>3, TakenStep DEF QueueInvariant
<1> QED
  BY <1>1, InitInvariant, TypeCorrect, PTL DEF Spec

\* No copy of the queue ever holds the orders of one request out of the order
\* they were appended in, or twice.
THEOREM QueueStaysOrdered == Spec => []QueueOrdered
<1>1. QueueInvariant => QueueOrdered
  BY DEF QueueInvariant, QueueOrdered, Good
<1> QED
  BY <1>1, QueueInvariantHolds, PTL

\* No scan of an open() is handed out before the orders in front of it.
THEOREM HandedOutInOrder == Spec => []TakenInOrder
<1>1. QueueInvariant => TakenInOrder
  BY DEF QueueInvariant
<1> QED
  BY <1>1, QueueInvariantHolds, PTL

-----------------------------------------------------------------------------
(* A request that is alone.                                                *)

\* One open() on a node that nobody else uses, whose process registers once, and no
\* failures: the request created the node, or found a slave that is ready or free.
Alone(f) ==
  /\ Flows = {f} /\ Suspends(f)
  /\ \A r, s \in Regs : r = s
  /\ OrmBindsEngine /\ ~Spare /\ ~MayFail

\* The orders of f that were written to the record, and those of them that left it.
Saved(f) == IF pc[f] = "save" THEN pushed[f] - 1 ELSE pushed[f]
Gone(f)  == Saved(f) - Len(db.queue)

Settled == {"poll", "ready"}

\* Draining can begin: all orders were appended, and the process has registered.
Begun(f) == pc[f] \in Settled /\ (Creator = f => \E r \in Regs : pc[r] = "done")

\* Of the orders 1..Saved, the first Gone were handed out, the others wait in order.
QueueSound(f) ==
  /\ Len(db.queue) <= Saved(f)
  /\ \A j \in DOMAIN db.queue : db.queue[j] = <<f, Gone(f) + j>>
  /\ \A i \in 1..Gone(f) : <<f, i>> \in taken
  /\ \A i \in 1..MaxBatch : runs[<<f, i>>] > 0 => i <= Gone(f)

NodeSound ==
  /\ ~dying /\ dropped = {}
  /\ db.state # "STOPPED" /\ \A h \in Handles : node[h].state # "STOPPED"

\* The handle of f holds all orders until f has appended the last one; the handle with
\* which the node was created says QUEUED for ever, so that Resume starts no drain.
FlowSound(f) ==
  /\ pc[f] \in {"load", "saveall", "push", "save", "resume", "start"} \cup Settled
  /\ pc[f] = "start" => Creator = f
  /\ spawned => pc[f] \in Settled
  /\ IF Creator = f
     THEN pc[f] \notin {"load", "saveall"} /\ node[f].state = "QUEUED"
     ELSE db.state # "QUEUED" /\ node[f].state # "QUEUED"
  /\ pc[f] \in {"load", "saveall"} => pushed[f] = 0
  /\ pc[f] = "save" => pushed[f] > 0
  /\ pc[f] = "saveall" => node[f].queue = << >>
  /\ pc[f] \in {"push", "save", "resume"} =>
       /\ Len(node[f].queue) = pushed[f]
       /\ \A j \in 1..pushed[f] : node[f].queue[j] = <<f, j>>
  /\ pc[f] # "load" => node[f].project = Proj[f]
  /\ pc[f] \notin {"load", "saveall"} => db.project = Proj[f]
  /\ ~Begun(f) => Gone(f) = 0

\* The process registers after all orders were appended, so that its registration
\* writes back the queue that is in the record.
RegSound(f, r) ==
  /\ pc[r] \in {"load", "saveall", "event", "update", "done"}
  /\ pc[r] # "load" => Creator = f /\ pc[f] \in Settled /\ node[r].project = Proj[f]
  /\ pc[r] = "saveall" => node[r].queue = db.queue

\* The only chain that ever runs: that of the registration, or of the resumed handle.
Drainer(f, c) ==
  /\ c[2] = 1 /\ pc[f] \in Settled
  /\ IF Creator = f THEN c[1] \in Regs /\ pc[c[1]] = "done" ELSE c[1] = f

\* It hands out the first order, which opens the project, and waits until the slave has
\* emptied the queue.
ChainSound(f, c) ==
  /\ chain[c].pc # "project"
  /\ chain[c].pc # "off" => Drainer(f, c)
  /\ chain[c].pc = "pull" => Gone(f) = 0 \/ db.queue = << >>
  /\ chain[c].pc = "save" => /\ Gone(f) = 0 /\ db.queue # << >> /\ <<f, 1>> \in taken
                             /\ node[c[1]].queue = Tail(db.queue)
  /\ chain[c].pc \in {"exec", "loading"} => Gone(f) = 1
  /\ chain[c].pc \in {"save", "exec", "loading"} => chain[c].order = <<f, 1>>
  /\ chain[c].pc = "waiting" => Gone(f) >= 1
  /\ chain[c].pc = "reply" => db.queue = << >>

\* The slave takes the other orders while the chain waits, with the project open.
SlaveSound(f, c) ==
  /\ slave[c].pc # "project"
  /\ slave[c].pc # "off" => chain[c].pc = "waiting" /\ Proj[f] \in opened
  /\ slave[c].pc = "save" => /\ db.queue # << >> /\ slave[c].order = Head(db.queue)
                             /\ slave[c].rest = Tail(db.queue) /\ slave[c].order \in taken
  /\ slave[c].pc \in {"reply", "exec"} => Gone(f) >= 2 /\ slave[c].order = <<f, Gone(f)>>

AloneInvariant(f) ==
  /\ NodeSound /\ QueueSound(f) /\ FlowSound(f)
  /\ \A r \in Regs : RegSound(f, r)
  /\ \A c \in Chains : ChainSound(f, c) /\ SlaveSound(f, c)

LEMMA AloneFacts ==
  ASSUME TypeOK, NEW f, Alone(f), AloneInvariant(f)
  PROVE  /\ f \in Flows /\ f \notin Regs /\ Handles = {f} \cup Regs /\ f \in Handles
         /\ ~Dead /\ \A x : Write(x) = x
         /\ db.queue \in Seq(Order) /\ Len(db.queue) \in Nat
         /\ DOMAIN db.queue = 1..Len(db.queue)
         /\ pushed[f] \in 0..MaxBatch /\ Saved(f) \in Nat /\ Gone(f) \in Nat
         /\ Saved(f) <= pushed[f]
         /\ Kind[f] \in {"open", "adopt"}
         /\ Creator # f => Creator = None
         /\ \A c \in Chains : c = <<c[1], c[2]>> /\ c[1] \in Handles /\ c[2] \in 1..MaxBatch
<1>1. f \in Flows /\ f \notin Regs /\ Handles = {f} \cup Regs /\ f \in Handles
  BY QueueAssumption DEF Alone, Handles
<1>2. ~Dead /\ \A x : Write(x) = x
  BY DEF AloneInvariant, NodeSound, Dead, Write
<1>3. db.queue \in Seq(Order) /\ Len(db.queue) \in Nat /\ DOMAIN db.queue = 1..Len(db.queue)
  BY NodeFacts
<1>4. pushed[f] \in 0..MaxBatch /\ MaxBatch \in Nat
  BY <1>1, QueueAssumption DEF TypeOK
<1>5. pc[f] = "save" => pushed[f] > 0
  BY DEF AloneInvariant, FlowSound
<1>6. Saved(f) \in Nat /\ Saved(f) <= pushed[f]
  BY <1>4, <1>5 DEF Saved
<1>7. Gone(f) \in Nat
  BY <1>3, <1>6 DEF AloneInvariant, QueueSound, Gone
<1>8. Kind[f] \in {"open", "adopt"}
  BY DEF Alone, Suspends
<1>9. Creator # f => Creator = None
  BY QueueAssumption DEF Alone
<1>10. \A c \in Chains : c = <<c[1], c[2]>> /\ c[1] \in Handles /\ c[2] \in 1..MaxBatch
  BY DEF Chains
<1> QED  BY <1>1, <1>2, <1>3, <1>4, <1>6, <1>7, <1>8, <1>9, <1>10

\* Before draining can begin, no chain runs.
LEMMA Quiet ==
  ASSUME TypeOK, NEW f, Alone(f), AloneInvariant(f), ~Begun(f), NEW c \in Chains
  PROVE  chain[c].pc = "off" /\ slave[c].pc = "off"
<1>1. ~Drainer(f, c)
  BY DEF Begun, Drainer
<1>2. chain[c].pc = "off"
  BY <1>1 DEF AloneInvariant, ChainSound
<1> QED  BY <1>2 DEF AloneInvariant, SlaveSound

\* While one chain runs, no other does.
LEMMA OthersOff ==
  ASSUME TypeOK, NEW f, Alone(f), AloneInvariant(f), NEW c \in Chains, chain[c].pc # "off",
         NEW d \in Chains, d # c
  PROVE  chain[d].pc = "off" /\ slave[d].pc = "off"
<1>1. Drainer(f, c) /\ (chain[d].pc # "off" => Drainer(f, d))
  BY DEF AloneInvariant, ChainSound
<1>2. chain[d].pc = "off"
  <2> SUFFICES ASSUME Drainer(f, d) PROVE FALSE
    BY <1>1
  <2>1. c[2] = d[2]
    BY <1>1 DEF Drainer
  <2>2. c[1] = d[1]
    BY <1>1 DEF Drainer, Alone
  <2> QED  BY <2>1, <2>2, AloneFacts
<1> QED  BY <1>2 DEF AloneInvariant, SlaveSound

\* While a chain runs, all orders were appended and the registration has ended.
LEMMA ChainBegun ==
  ASSUME TypeOK, NEW f, Alone(f), AloneInvariant(f), NEW c \in Chains, chain[c].pc # "off"
  PROVE  /\ Begun(f) /\ Drainer(f, c) /\ Saved(f) = pushed[f]
         /\ \A r \in Regs : pc[r] # "saveall"
         /\ node[c[1]].project = Proj[f]
<1>1. Drainer(f, c)
  BY DEF AloneInvariant, ChainSound
<1>2. Begun(f)
  BY <1>1 DEF Drainer, Begun
<1>3. Saved(f) = pushed[f]
  BY <1>1 DEF Drainer, Settled, Saved
<1>4. \A r \in Regs : pc[r] # "saveall"
  <2> SUFFICES ASSUME NEW r \in Regs, pc[r] = "saveall" PROVE FALSE
    OBVIOUS
  <2>1. Creator = f
    BY DEF AloneInvariant, RegSound
  <2>2. c[1] \in Regs /\ pc[c[1]] = "done"
    BY <1>1, <2>1 DEF Drainer
  <2> QED  BY <2>2 DEF Alone
<1>5. node[c[1]].project = Proj[f]
  <2>1. CASE Creator = f
    <3>1. c[1] \in Regs /\ pc[c[1]] = "done"
      BY <1>1, <2>1 DEF Drainer
    <3> QED  BY <3>1 DEF AloneInvariant, RegSound
  <2>2. CASE Creator # f
    <3>1. c[1] = f /\ pc[f] # "load"
      BY <1>1, <2>2 DEF Drainer, Settled
    <3> QED  BY <3>1 DEF AloneInvariant, FlowSound
  <2> QED  BY <2>1, <2>2
<1> QED  BY <1>1, <1>2, <1>3, <1>4, <1>5

\* A step before draining can begin that leaves the chains alone.
LEMMA QuietStep ==
  ASSUME TypeOK, NEW f, Alone(f), AloneInvariant(f), ~Begun(f), UNCHANGED <<chain, slave>>,
         NodeSound', QueueSound(f)', FlowSound(f)', \A r \in Regs : RegSound(f, r)'
  PROVE  AloneInvariant(f)'
<1> SUFFICES ASSUME NEW c \in Chains PROVE ChainSound(f, c)' /\ SlaveSound(f, c)'
  BY DEF AloneInvariant
<1>1. chain'[c].pc = "off" /\ slave'[c].pc = "off"
  BY Quiet
<1> QED  BY <1>1 DEF ChainSound, SlaveSound

\* What the record keeps: the queue of the record and what was handed out of it.
LEMMA QueueKept ==
  ASSUME TypeOK, NEW f, Alone(f), AloneInvariant(f), db'.queue = db.queue, Saved(f)' = Saved(f),
         taken \subseteq taken', UNCHANGED runs
  PROVE  QueueSound(f)' /\ Gone(f)' = Gone(f)
<1>1. Gone(f)' = Gone(f)
  BY DEF Gone
<1> QED  BY <1>1 DEF AloneInvariant, QueueSound

LEMMA NodeKept ==
  ASSUME TypeOK, NEW f, Alone(f), AloneInvariant(f), db'.state # "STOPPED",
         \A h \in Handles : node'[h].state # "STOPPED", UNCHANGED <<dying, dropped>>
  PROVE  NodeSound'
BY DEF AloneInvariant, NodeSound

LEMMA LoadAlone ==
  ASSUME TypeOK, NEW f, Alone(f), AloneInvariant(f), Load(f)
  PROVE  AloneInvariant(f)'
<1> DEFINE x == [db EXCEPT !.project = Proj[f]]
<1>1. /\ pc[f] = "load" /\ node' = [node EXCEPT ![f] = x]
      /\ UNCHANGED <<db, pushed, spawned, chain, slave, opened, dying, taken, runs, dropped>>
  BY DEF Load
<1>2. /\ x.state = db.state /\ x.project = Proj[f] /\ x.queue = db.queue
      /\ f \in Handles /\ node \in [Handles -> Node] /\ pc \in [Handles -> FlowPc] /\ f \in Flows
  BY AloneFacts DEF TypeOK, Node
<1>3. node'[f] = x /\ \A h \in Handles : h # f => node'[h] = node[h]
  BY <1>1, <1>2
<1> HIDE DEF x
<1>4. pc' = [pc EXCEPT ![f] = IF Kind[f] = "adopt" THEN "saveall" ELSE "push"]
  BY AloneFacts DEF Load
<1>5. pc'[f] = (IF Kind[f] = "adopt" THEN "saveall" ELSE "push")
      /\ \A h \in Handles : h # f => pc'[h] = pc[h]
  BY <1>2, <1>4
<1>6. ~Begun(f) /\ Gone(f) = 0 /\ pushed[f] = 0 /\ Saved(f) = 0 /\ Creator # f /\ ~spawned
  BY <1>1 DEF AloneInvariant, FlowSound, Begun, Settled, Saved
<1>7. db.queue = << >> /\ Len(db.queue) = 0
  BY <1>6, AloneFacts, EmptySeq DEF Gone
<1>8. Saved(f)' = Saved(f)
  BY <1>1, <1>5, <1>6 DEF Saved
<1>9. QueueSound(f)' /\ Gone(f)' = 0
  BY <1>1, <1>6, <1>8, QueueKept
<1>10. NodeSound'
  BY <1>1, <1>2, <1>3 DEF AloneInvariant, NodeSound
<1>11. \A r \in Regs : RegSound(f, r)'
  <2> TAKE r \in Regs
  <2>1. pc'[r] = pc[r] /\ node'[r] = node[r]
    BY <1>3, <1>5, AloneFacts
  <2>2. pc[r] = "load"
    BY <1>6 DEF AloneInvariant, RegSound
  <2> QED  BY <2>1, <2>2 DEF RegSound
<1>12. Kind[f] = "open" => db.project = Proj[f]
  BY DEF Load, Eligible
<1>13. db.state # "QUEUED" /\ Kind[f] \in {"open", "adopt"}
  BY <1>6, AloneFacts DEF AloneInvariant, FlowSound
<1>14. FlowSound(f)'
  BY <1>1, <1>2, <1>3, <1>5, <1>6, <1>7, <1>9, <1>12, <1>13 DEF FlowSound
<1> QED  BY <1>1, <1>6, <1>9, <1>10, <1>11, <1>14, QuietStep

\* Before draining can begin on a node that f did not create, no process registers.
LEMMA RegsKept ==
  ASSUME TypeOK, NEW f, Alone(f), AloneInvariant(f), pc[f] \notin Settled,
         \A h \in Handles : h # f => pc'[h] = pc[h]
  PROVE  \A r \in Regs : RegSound(f, r)'
<1> TAKE r \in Regs
<1>1. r # f /\ r \in Handles
  BY AloneFacts
<1>2. pc[r] = "load"
  BY DEF AloneInvariant, RegSound
<1> QED  BY <1>1, <1>2 DEF RegSound

LEMMA SaveAllAlone ==
  ASSUME TypeOK, NEW f, Alone(f), AloneInvariant(f), SaveAll(f)
  PROVE  AloneInvariant(f)'
<1>1. /\ pc[f] = "saveall" /\ db' = node[f] /\ pc' = [pc EXCEPT ![f] = "push"]
      /\ UNCHANGED <<node, pushed, spawned, chain, slave, opened, dying, taken, runs, dropped>>
  BY AloneFacts DEF SaveAll
<1>2. f \in Handles /\ pc \in [Handles -> FlowPc] /\ f \in Flows
  BY AloneFacts DEF TypeOK
<1>3. pc'[f] = "push" /\ \A h \in Handles : h # f => pc'[h] = pc[h]
  BY <1>1, <1>2
<1>4. /\ ~Begun(f) /\ Gone(f) = 0 /\ pushed[f] = 0 /\ Saved(f) = 0 /\ Creator # f /\ ~spawned
      /\ node[f].queue = << >> /\ node[f].project = Proj[f] /\ node[f].state # "QUEUED"
  BY <1>1 DEF AloneInvariant, FlowSound, Begun, Settled, Saved
<1>5. db.queue = << >> /\ Len(db.queue) = 0
  BY <1>4, AloneFacts, EmptySeq DEF Gone
<1>6. Saved(f)' = Saved(f)
  BY <1>1, <1>3, <1>4 DEF Saved
<1>7. QueueSound(f)' /\ Gone(f)' = 0
  BY <1>1, <1>4, <1>5, <1>6, QueueKept
<1>8. NodeSound'
  BY <1>1, <1>2 DEF AloneInvariant, NodeSound
<1>9. FlowSound(f)'
  BY <1>1, <1>3, <1>4, <1>5, <1>7 DEF FlowSound
<1>10. \A r \in Regs : RegSound(f, r)'
  BY <1>1, <1>3, RegsKept DEF Settled
<1> QED  BY <1>1, <1>4, <1>7, <1>8, <1>9, <1>10, QuietStep

LEMMA PushAlone ==
  ASSUME TypeOK, NEW f, Alone(f), AloneInvariant(f), Push(f)
  PROVE  AloneInvariant(f)'
<1> DEFINE x == [node[f] EXCEPT !.queue = Append(@, <<f, pushed[f] + 1>>)]
<1>1. /\ pc[f] = "push" /\ node' = [node EXCEPT ![f] = x] /\ pc' = [pc EXCEPT ![f] = "save"]
      /\ pushed' = [pushed EXCEPT ![f] = @ + 1] /\ pushed[f] < Batch[f]
      /\ UNCHANGED <<db, spawned, chain, slave, opened, dying, taken, runs, dropped>>
  BY DEF Push
<1>2. /\ f \in Handles /\ pc \in [Handles -> FlowPc] /\ f \in Flows /\ node \in [Handles -> Node]
      /\ pushed \in [Flows -> 0..MaxBatch] /\ MaxBatch \in Nat /\ Batch[f] \in 1..MaxBatch
  BY AloneFacts, QueueAssumption DEF TypeOK
<1>3. /\ x.state = node[f].state /\ x.project = node[f].project
      /\ x.queue = Append(node[f].queue, <<f, pushed[f] + 1>>)
  BY <1>2 DEF Node
<1> HIDE DEF x
<1>4. /\ pc'[f] = "save" /\ \A h \in Handles : h # f => pc'[h] = pc[h]
      /\ node'[f] = x /\ \A h \in Handles : h # f => node'[h] = node[h]
      /\ pushed'[f] = pushed[f] + 1 /\ pushed[f] \in Nat
  BY <1>1, <1>2
<1>5. /\ ~Begun(f) /\ Gone(f) = 0 /\ ~spawned /\ Saved(f) = pushed[f]
      /\ Len(node[f].queue) = pushed[f] /\ \A j \in 1..pushed[f] : node[f].queue[j] = <<f, j>>
      /\ node[f].project = Proj[f] /\ db.project = Proj[f]
  BY <1>1 DEF AloneInvariant, FlowSound, Begun, Settled, Saved
<1>6. Saved(f)' = Saved(f)
  BY <1>4, <1>5 DEF Saved
<1>7. QueueSound(f)' /\ Gone(f)' = 0
  BY <1>1, <1>5, <1>6, QueueKept
<1>8. NodeSound'
  BY <1>1, <1>2, <1>3, <1>4 DEF AloneInvariant, NodeSound
<1>9. \A r \in Regs : RegSound(f, r)'
  BY <1>1, <1>4, RegsKept DEF Settled
<1>10. /\ Len(x.queue) = pushed[f] + 1
       /\ \A j \in 1..(pushed[f] + 1) : x.queue[j] = <<f, j>>
  <2>1. node[f].queue \in Seq(Order) /\ <<f, pushed[f] + 1>> \in Order
    BY <1>1, <1>2, NodeFacts DEF Order
  <2> DEFINE q == node[f].queue
             o == <<f, pushed[f] + 1>>
  <2>2. /\ Len(Append(q, o)) = Len(q) + 1 /\ Append(q, o)[Len(q) + 1] = o
        /\ \A j \in 1..Len(q) : Append(q, o)[j] = q[j]
    BY <2>1, AppendProperties
  <2> HIDE DEF q
  <2>3. x.queue = Append(q, o) /\ Len(q) = pushed[f] /\ \A j \in 1..pushed[f] : q[j] = <<f, j>>
    BY <1>3, <1>5 DEF q
  <2> QED  BY <1>4, <2>2, <2>3
<1>11. /\ Creator = f => node[f].state = "QUEUED"
       /\ Creator # f => db.state # "QUEUED" /\ node[f].state # "QUEUED"
  BY DEF AloneInvariant, FlowSound
<1>12. Len(node'[f].queue) = pushed'[f] /\ \A j \in 1..pushed'[f] : node'[f].queue[j] = <<f, j>>
  BY <1>4, <1>10
<1>13. /\ pc'[f] = "save" /\ pushed'[f] > 0 /\ ~spawned' /\ Gone(f)' = 0
       /\ node'[f].project = Proj[f] /\ db'.project = Proj[f]
       /\ Creator = f => node'[f].state = "QUEUED"
       /\ Creator # f => db'.state # "QUEUED" /\ node'[f].state # "QUEUED"
  BY <1>1, <1>3, <1>4, <1>5, <1>7, <1>11
<1>14. FlowSound(f)'
  BY <1>12, <1>13 DEF FlowSound
<1> QED  BY <1>1, <1>5, <1>7, <1>8, <1>9, <1>14, QuietStep

\* The queue of the handle is that of the record and the order appended last.
LEMMA SavedQueue ==
  ASSUME TypeOK, NEW f, Alone(f), AloneInvariant(f), pc[f] = "save"
  PROVE  node[f].queue = Append(db.queue, <<f, pushed[f]>>) /\ <<f, pushed[f]>> \in Order
<1>1. /\ Gone(f) = 0 /\ Len(node[f].queue) = pushed[f] /\ pushed[f] > 0
      /\ \A j \in 1..pushed[f] : node[f].queue[j] = <<f, j>>
      /\ Saved(f) = pushed[f] - 1 /\ \A j \in DOMAIN db.queue : db.queue[j] = <<f, Gone(f) + j>>
  BY DEF AloneInvariant, FlowSound, QueueSound, Begun, Settled, Saved
<1> DEFINE q == db.queue
           p == node[f].queue
           o == <<f, pushed[f]>>
<1>2. /\ q \in Seq(Order) /\ p \in Seq(Order) /\ f \in Flows /\ pushed[f] \in 0..MaxBatch
      /\ DOMAIN q = 1..Len(q) /\ MaxBatch \in Nat
  BY NodeFacts, AloneFacts, QueueAssumption
<1>3. o \in Order /\ Len(q) = pushed[f] - 1
  <2>1. pushed[f] \in 1..MaxBatch
    BY <1>1, <1>2
  <2>2. o \in Order
    BY <1>2, <2>1 DEF Order
  <2>3. Len(q) = pushed[f] - 1
    BY <1>1, <1>2 DEF Gone
  <2> QED  BY <2>2, <2>3
<1>4. /\ Append(q, o) \in Seq(Order) /\ Len(Append(q, o)) = Len(q) + 1
      /\ Append(q, o)[Len(q) + 1] = o /\ \A j \in 1..Len(q) : Append(q, o)[j] = q[j]
  BY <1>2, <1>3, AppendProperties
<1>5. \A j \in 1..Len(q) : q[j] = <<f, j>>
  BY <1>1, <1>2
<1>6. Len(p) = pushed[f] /\ \A j \in 1..pushed[f] : p[j] = <<f, j>>
  BY <1>1
<1> HIDE DEF q, p
<1>7. Len(p) = Len(Append(q, o)) /\ \A j \in 1..Len(p) : p[j] = Append(q, o)[j]
  <2>1. Len(q) \in Nat /\ Len(p) = Len(q) + 1
    BY <1>2, <1>3, <1>6
  <2> SUFFICES ASSUME NEW j \in 1..Len(p) PROVE p[j] = Append(q, o)[j]
    BY <1>4, <2>1
  <2>2. CASE j \in 1..Len(q)
    BY <1>4, <1>5, <1>6, <2>2
  <2>3. CASE j = Len(q) + 1
    BY <1>3, <1>4, <1>6, <2>1, <2>3
  <2> QED  BY <2>1, <2>2, <2>3
<1>8. p = Append(q, o)
  BY <1>2, <1>4, <1>7, SeqEqual
<1> QED  BY <1>3, <1>8 DEF p, q

LEMMA SaveQueueAlone ==
  ASSUME TypeOK, NEW f, Alone(f), AloneInvariant(f), SaveQueue(f)
  PROVE  AloneInvariant(f)' /\ db'.queue = node[f].queue
<1>1. /\ pc[f] = "save" /\ db' = [db EXCEPT !.queue = node[f].queue] /\ chain' = chain
      /\ pc' = [pc EXCEPT ![f] = IF pushed[f] < Batch[f] THEN "push" ELSE "resume"]
      /\ UNCHANGED <<node, pushed, spawned, slave, opened, dying, taken, runs, dropped>>
  BY AloneFacts DEF SaveQueue, Alone
<1>2. f \in Handles /\ pc \in [Handles -> FlowPc] /\ f \in Flows /\ db \in Node /\ MaxBatch \in Nat
      /\ pushed[f] \in Nat
  BY AloneFacts, QueueAssumption DEF TypeOK
<1>3. /\ db'.state = db.state /\ db'.project = db.project /\ db'.queue = node[f].queue
      /\ pc'[f] \in {"push", "resume"} /\ \A h \in Handles : h # f => pc'[h] = pc[h]
  BY <1>1, <1>2 DEF Node
<1>4. /\ ~Begun(f) /\ Gone(f) = 0 /\ ~spawned /\ pushed[f] > 0 /\ Saved(f) = pushed[f] - 1
      /\ Len(node[f].queue) = pushed[f] /\ \A j \in 1..pushed[f] : node[f].queue[j] = <<f, j>>
      /\ node[f].project = Proj[f] /\ db.project = Proj[f]
      /\ Creator = f => node[f].state = "QUEUED"
      /\ Creator # f => db.state # "QUEUED" /\ node[f].state # "QUEUED"
  BY <1>1 DEF AloneInvariant, FlowSound, Begun, Settled, Saved
<1>5. Saved(f)' = pushed[f]
  BY <1>1, <1>3 DEF Saved
<1>6. Gone(f)' = 0
  BY <1>2, <1>3, <1>4, <1>5 DEF Gone
<1>7. QueueSound(f)'
  <2>1. DOMAIN node[f].queue = 1..pushed[f]
    BY <1>2, <1>4, NodeFacts
  <2>2. \A j \in DOMAIN db'.queue : db'.queue[j] = <<f, Gone(f)' + j>>
    BY <1>2, <1>3, <1>4, <1>6, <2>1
  <2>3. \A i \in 1..MaxBatch : runs[<<f, i>>] > 0 => i <= Gone(f)
    BY DEF AloneInvariant, QueueSound
  <2>4. Len(db'.queue) <= Saved(f)'
    BY <1>2, <1>3, <1>4, <1>5
  <2> QED  BY <1>1, <1>4, <1>6, <2>2, <2>3, <2>4 DEF QueueSound
<1>8. NodeSound'
  BY <1>1, <1>3 DEF AloneInvariant, NodeSound
<1>9. \A r \in Regs : RegSound(f, r)'
  BY <1>1, <1>3, RegsKept DEF Settled
<1>10. FlowSound(f)'
  BY <1>1, <1>3, <1>4, <1>6 DEF FlowSound
<1> QED  BY <1>1, <1>3, <1>4, <1>7, <1>8, <1>9, <1>10, QuietStep

\* A handler that is triggered before draining has begun starts one chain at most.
LEMMA StartsStep ==
  ASSUME TypeOK, NEW f, Alone(f), AloneInvariant(f), ~Begun(f), NEW h \in Handles, Trigger(h, 1),
         UNCHANGED slave, Drainer(f, <<h, 1>>)' \/ chain' = chain, Gone(f)' = 0,
         NodeSound', QueueSound(f)', FlowSound(f)', \A r \in Regs : RegSound(f, r)'
  PROVE  AloneInvariant(f)'
<1> SUFFICES ASSUME NEW c \in Chains PROVE ChainSound(f, c)' /\ SlaveSound(f, c)'
  BY DEF AloneInvariant
<1>1. chain[c].pc = "off" /\ slave'[c].pc = "off"
  BY Quiet
<1>2. chain'[c] = chain[c] \/ (c = <<h, 1>> /\ chain'[c].pc = "pull" /\ chain' # chain)
  BY <1>1 DEF Trigger, TypeOK, Chain
<1>3. CASE chain'[c] = chain[c]
  BY <1>1, <1>3 DEF ChainSound, SlaveSound
<1>4. CASE c = <<h, 1>> /\ chain'[c].pc = "pull" /\ chain' # chain
  <2>1. Drainer(f, c)'
    BY <1>4
  <2> QED  BY <1>1, <1>4, <2>1 DEF ChainSound, SlaveSound
<1> QED  BY <1>2, <1>3, <1>4

LEMMA ResumeAlone ==
  ASSUME TypeOK, NEW f, Alone(f), AloneInvariant(f), Resume(f)
  PROVE  AloneInvariant(f)'
<1>1. /\ pc[f] = "resume" /\ Trigger(f, 1)
      /\ pc' = [pc EXCEPT ![f] = IF f = Creator THEN "start" ELSE "poll"]
      /\ UNCHANGED <<db, node, pushed, spawned, slave, opened, dying, taken, runs, dropped>>
  BY DEF Resume
<1>2. f \in Handles /\ pc \in [Handles -> FlowPc]
  BY AloneFacts DEF TypeOK
<1>3. /\ pc'[f] = (IF f = Creator THEN "start" ELSE "poll")
      /\ \A h \in Handles : h # f => pc'[h] = pc[h]
  BY <1>1, <1>2
<1>4. /\ ~Begun(f) /\ Gone(f) = 0 /\ ~spawned
      /\ node[f].project = Proj[f] /\ db.project = Proj[f]
      /\ Creator = f => node[f].state = "QUEUED"
      /\ Creator # f => db.state # "QUEUED" /\ node[f].state # "QUEUED"
  BY <1>1 DEF AloneInvariant, FlowSound, Begun, Settled
<1>5. Saved(f)' = Saved(f)
  BY <1>1, <1>3 DEF Saved
<1>6. QueueSound(f)' /\ Gone(f)' = 0
  BY <1>1, <1>4, <1>5, QueueKept
<1>7. NodeSound'
  BY <1>1 DEF AloneInvariant, NodeSound
<1>8. \A r \in Regs : RegSound(f, r)'
  BY <1>1, <1>3, RegsKept DEF Settled
<1>9. FlowSound(f)'
  BY <1>1, <1>3, <1>4, <1>6 DEF FlowSound, Settled
<1>10. Drainer(f, <<f, 1>>)' \/ chain' = chain
  <2>1. CASE Creator = f
    BY <1>1, <1>4, <2>1 DEF Trigger, Ready
  <2>2. CASE Creator # f
    BY <1>3, <2>2 DEF Drainer, Settled
  <2> QED  BY <2>1, <2>2
<1> QED  BY <1>1, <1>2, <1>4, <1>6, <1>7, <1>8, <1>9, <1>10, StartsStep

LEMMA StartAlone ==
  ASSUME TypeOK, NEW f, Alone(f), AloneInvariant(f), Start(f)
  PROVE  AloneInvariant(f)'
<1>1. /\ pc[f] = "start" /\ f = Creator /\ pc' = [pc EXCEPT ![f] = "poll"]
      /\ db' \in {db, [db EXCEPT !.state = node[f].state, !.running = TRUE]}
      /\ UNCHANGED <<node, pushed, chain, slave, opened, dying, taken, runs, dropped>>
  BY AloneFacts DEF Start
<1>2. f \in Handles /\ pc \in [Handles -> FlowPc] /\ db \in Node
  BY AloneFacts DEF TypeOK
<1>3. pc'[f] = "poll" /\ \A h \in Handles : h # f => pc'[h] = pc[h]
  BY <1>1, <1>2
<1>4. db'.queue = db.queue /\ db'.project = db.project /\ db'.state \in {db.state, node[f].state}
  BY <1>1, <1>2 DEF Node
<1>5. /\ ~Begun(f) /\ Gone(f) = 0 /\ node[f].state = "QUEUED"
      /\ node[f].project = Proj[f] /\ db.project = Proj[f]
  BY <1>1 DEF AloneInvariant, FlowSound, Begun, Settled
<1>6. Saved(f)' = Saved(f)
  BY <1>1, <1>3 DEF Saved
<1>7. QueueSound(f)' /\ Gone(f)' = 0
  BY <1>1, <1>4, <1>5, <1>6, QueueKept
<1>8. NodeSound'
  BY <1>1, <1>2, <1>4 DEF AloneInvariant, NodeSound
<1>9. \A r \in Regs : RegSound(f, r)'
  BY <1>1, <1>3, RegsKept DEF Settled
<1>10. FlowSound(f)'
  BY <1>1, <1>3, <1>4, <1>5, <1>7 DEF FlowSound, Settled
<1> QED  BY <1>1, <1>5, <1>7, <1>8, <1>9, <1>10, QuietStep

LEMMA PollAlone ==
  ASSUME TypeOK, NEW f, Alone(f), AloneInvariant(f), Poll(f)
  PROVE  AloneInvariant(f)'
<1>1. /\ pc[f] = "poll" /\ pc' = [pc EXCEPT ![f] = "ready"]
      /\ UNCHANGED <<db, node, pushed, spawned, chain, slave, opened, dying, taken, runs, dropped>>
  BY DEF Poll
<1>2. f \in Handles /\ pc \in [Handles -> FlowPc] /\ f \notin Regs /\ \A r \in Regs : r \in Handles
  BY AloneFacts DEF TypeOK
<1>3. pc'[f] = "ready" /\ \A h \in Handles : h # f => pc'[h] = pc[h]
  BY <1>1, <1>2
<1>4. Saved(f)' = Saved(f)
  BY <1>1, <1>3 DEF Saved
<1>5. QueueSound(f)' /\ Gone(f)' = Gone(f)
  BY <1>1, <1>4, QueueKept
<1>6. NodeSound'
  BY <1>1 DEF AloneInvariant, NodeSound
<1>7. Begun(f)' <=> Begun(f)
  BY <1>1, <1>2, <1>3 DEF Begun, Settled
<1>8. FlowSound(f)'
  BY <1>1, <1>3, <1>5, <1>7 DEF AloneInvariant, FlowSound, Settled
<1>9. \A r \in Regs : RegSound(f, r)'
  BY <1>1, <1>2, <1>3 DEF AloneInvariant, RegSound, Settled
<1>10. \A c \in Chains : ChainSound(f, c)' /\ SlaveSound(f, c)'
  <2> TAKE c \in Chains
  <2>1. Drainer(f, c)' <=> Drainer(f, c)
    BY <1>1, <1>2, <1>3 DEF Drainer, Settled
  <2> QED  BY <1>1, <1>5, <2>1 DEF AloneInvariant, ChainSound, SlaveSound
<1> QED  BY <1>5, <1>6, <1>8, <1>9, <1>10 DEF AloneInvariant

LEMMA FlowAlone ==
  ASSUME TypeOK, NEW f, Alone(f), AloneInvariant(f), FlowStep(f)
  PROVE  AloneInvariant(f)'
<1>1. pc[f] # "claim"
  BY DEF AloneInvariant, FlowSound, Settled
<1>2. ~Claim(f)
  BY <1>1 DEF Claim
<1> QED
  BY <1>2, LoadAlone, SaveAllAlone, PushAlone, SaveQueueAlone, ResumeAlone, StartAlone, PollAlone
  DEF FlowStep

\* What is known while the process registers.
LEMMA Registers ==
  ASSUME TypeOK, NEW f, Alone(f), AloneInvariant(f), NEW r \in Regs,
         pc[r] \in {"saveall", "event", "update"} \/ RegRead(r)
  PROVE  /\ ~Begun(f) /\ Gone(f) = 0 /\ Creator = f /\ pc[f] \in Settled
         /\ node[f].state = "QUEUED" /\ node[f].project = Proj[f] /\ db.project = Proj[f]
         /\ f # r /\ r \in Handles /\ \A s \in Regs : s = r
<1>1. Creator = f /\ pc[f] \in Settled
  <2>1. CASE RegRead(r)
    <3>1. spawned /\ db.state = "QUEUED"
      BY <2>1 DEF RegRead, Alone
    <3> QED  BY <3>1 DEF AloneInvariant, FlowSound
  <2>2. CASE pc[r] \in {"saveall", "event", "update"}
    BY <2>2 DEF AloneInvariant, RegSound
  <2> QED  BY <2>1, <2>2
<1>2. f # r /\ r \in Handles /\ \A s \in Regs : s = r
  BY AloneFacts DEF Alone
<1>3. pc[r] # "done"
  BY DEF RegRead
<1>4. ~Begun(f)
  BY <1>1, <1>2, <1>3 DEF Begun
<1> QED  BY <1>1, <1>2, <1>4 DEF AloneInvariant, FlowSound, Settled

\* A registration goes on: it leaves the request, the queue and the project alone.
LEMMA RegMoves ==
  ASSUME TypeOK, NEW f, Alone(f), AloneInvariant(f), NEW r \in Regs,
         ~Begun(f), Gone(f) = 0, Creator = f, pc[f] \in Settled,
         pc'[f] = pc[f], node'[f] = node[f], db'.queue = db.queue, db'.project = db.project,
         UNCHANGED <<pushed, spawned, taken, runs>>
  PROVE  QueueSound(f)' /\ FlowSound(f)' /\ Gone(f)' = 0
<1>1. Saved(f)' = Saved(f)
  BY DEF Saved
<1>2. QueueSound(f)' /\ Gone(f)' = 0
  BY <1>1, QueueKept
<1> QED  BY <1>2 DEF AloneInvariant, FlowSound, Settled

LEMMA RegAlone ==
  ASSUME TypeOK, NEW f, Alone(f), AloneInvariant(f), NEW r \in Regs, RegStep(r)
  PROVE  AloneInvariant(f)'
<1>1. /\ ~Begun(f) /\ Gone(f) = 0 /\ Creator = f /\ pc[f] \in Settled
      /\ db.project = Proj[f] /\ f # r /\ r \in Handles /\ \A s \in Regs : s = r
  BY Registers DEF RegStep, RegSaveAll, RegEvent, RegUpdate
<1>2. /\ node \in [Handles -> Node] /\ pc \in [Handles -> FlowPc] /\ db \in Node /\ f \in Handles
      /\ ~Dead /\ \A x : Write(x) = x
  BY AloneFacts DEF TypeOK
<1>3. db.state # "STOPPED" /\ \A h \in Handles : node[h].state # "STOPPED"
  BY DEF AloneInvariant, NodeSound
<1>4. CASE RegRead(r)
  <2> DEFINE x == [db EXCEPT !.running = TRUE]
  <2>1. /\ node' = [node EXCEPT ![r] = x] /\ pc' = [pc EXCEPT ![r] = "saveall"]
        /\ UNCHANGED <<db, pushed, spawned, chain, slave, opened, dying, taken, runs, dropped>>
    BY <1>4 DEF RegRead
  <2>2. x.project = db.project /\ x.queue = db.queue /\ x.state = db.state
    BY <1>2 DEF Node
  <2> HIDE DEF x
  <2>3. /\ pc'[r] = "saveall" /\ pc'[f] = pc[f] /\ node'[r] = x /\ node'[f] = node[f]
        /\ \A h \in Handles : node'[h] \in {node[h], x}
    BY <1>1, <1>2, <2>1
  <2>4. QueueSound(f)' /\ FlowSound(f)'
    BY <1>1, <2>1, <2>3, RegMoves
  <2>5. NodeSound'
    BY <1>3, <2>1, <2>2, <2>3, NodeKept
  <2>6. \A s \in Regs : RegSound(f, s)'
    BY <1>1, <2>1, <2>2, <2>3 DEF RegSound
  <2> QED  BY <1>1, <2>1, <2>4, <2>5, <2>6, QuietStep
<1>5. CASE RegSaveAll(r)
  <2>1. /\ pc[r] = "saveall" /\ db' = node[r] /\ pc' = [pc EXCEPT ![r] = "event"]
        /\ UNCHANGED <<node, pushed, spawned, chain, slave, opened, dying, taken, runs, dropped>>
    BY <1>2, <1>5 DEF RegSaveAll
  <2>2. node[r].queue = db.queue /\ node[r].project = Proj[f]
    BY <2>1 DEF AloneInvariant, RegSound
  <2>3. pc'[r] = "event" /\ pc'[f] = pc[f]
    BY <1>1, <1>2, <2>1
  <2>4. QueueSound(f)' /\ FlowSound(f)'
    BY <1>1, <2>1, <2>2, <2>3, RegMoves
  <2>5. NodeSound'
    BY <1>1, <1>3, <2>1, NodeKept
  <2>6. \A s \in Regs : RegSound(f, s)'
    BY <1>1, <2>1, <2>2, <2>3 DEF RegSound
  <2> QED  BY <1>1, <2>1, <2>4, <2>5, <2>6, QuietStep
<1>6. CASE RegEvent(r)
  <2> DEFINE x == [db EXCEPT !.state = "IDLE"]
  <2>1. /\ node' = [node EXCEPT ![r] = x] /\ pc' = [pc EXCEPT ![r] = "update"]
        /\ UNCHANGED <<db, pushed, spawned, chain, slave, opened, dying, taken, runs, dropped>>
    BY <1>2, <1>6 DEF RegEvent
  <2>2. x.project = db.project /\ x.state = "IDLE"
    BY <1>2 DEF Node
  <2> HIDE DEF x
  <2>3. /\ pc'[r] = "update" /\ pc'[f] = pc[f] /\ node'[r] = x /\ node'[f] = node[f]
        /\ \A h \in Handles : node'[h] \in {node[h], x}
    BY <1>1, <1>2, <2>1
  <2>4. QueueSound(f)' /\ FlowSound(f)'
    BY <1>1, <2>1, <2>3, RegMoves
  <2>5. NodeSound'
    BY <1>3, <2>1, <2>2, <2>3, NodeKept
  <2>6. \A s \in Regs : RegSound(f, s)'
    BY <1>1, <2>1, <2>2, <2>3 DEF RegSound
  <2> QED  BY <1>1, <2>1, <2>4, <2>5, <2>6, QuietStep
<1>7. CASE RegUpdate(r)
  <2>1. /\ db' = [db EXCEPT !.state = node[r].state, !.running = node[r].running]
        /\ pc[r] = "update" /\ pc' = [pc EXCEPT ![r] = "done"] /\ Trigger(r, 1)
        /\ UNCHANGED <<node, pushed, spawned, slave, opened, dying, taken, runs, dropped>>
    BY <1>2, <1>7 DEF RegUpdate
  <2>2. db'.queue = db.queue /\ db'.project = db.project /\ db'.state = node[r].state
    BY <1>2, <2>1 DEF Node
  <2>3. pc'[r] = "done" /\ pc'[f] = pc[f]
    BY <1>1, <1>2, <2>1
  <2>4. QueueSound(f)' /\ FlowSound(f)' /\ Gone(f)' = 0
    BY <1>1, <2>1, <2>2, <2>3, RegMoves
  <2>5. NodeSound'
    BY <1>1, <1>3, <2>1, <2>2, NodeKept
  <2>6. node[r].project = Proj[f]
    BY <2>1 DEF AloneInvariant, RegSound
  <2>7. \A s \in Regs : RegSound(f, s)'
    BY <1>1, <2>1, <2>3, <2>6 DEF RegSound
  <2>8. Drainer(f, <<r, 1>>)'
    BY <1>1, <2>3 DEF Drainer
  <2> QED  BY <1>1, <2>1, <2>4, <2>5, <2>7, <2>8, StartsStep
<1> QED  BY <1>4, <1>5, <1>6, <1>7 DEF RegStep

\* The order in front of the queue, and what is behind it.
LEMMA FrontOfQueue ==
  ASSUME TypeOK, NEW f, Alone(f), AloneInvariant(f), db.queue # << >>
  PROVE  /\ Head(db.queue) = <<f, Gone(f) + 1>> /\ Head(db.queue) \in Order
         /\ Len(db.queue) > 0 /\ Tail(db.queue) \in Seq(Order)
         /\ Len(Tail(db.queue)) = Len(db.queue) - 1
         /\ \A j \in 1..Len(Tail(db.queue)) : Tail(db.queue)[j] = <<f, Gone(f) + 1 + j>>
         /\ Gone(f) + 1 \in 1..MaxBatch
<1> DEFINE q == db.queue
           g == Gone(f)
<1>1. /\ q \in Seq(Order) /\ Len(q) \in Nat /\ DOMAIN q = 1..Len(q) /\ g \in Nat
      /\ \A j \in DOMAIN q : q[j] = <<f, g + j>>
      /\ Saved(f) \in Nat /\ Saved(f) <= pushed[f] /\ pushed[f] \in 0..MaxBatch /\ MaxBatch \in Nat
      /\ g = Saved(f) - Len(q)
  BY AloneFacts, QueueAssumption DEF AloneInvariant, QueueSound, Gone
<1>2. /\ Head(q) \in Order /\ Tail(q) \in Seq(Order) /\ Len(Tail(q)) = Len(q) - 1
      /\ \A i \in 1..Len(Tail(q)) : Tail(q)[i] = q[i + 1]
  BY <1>1, HeadTailProperties
<1>3. Len(q) > 0 /\ Head(q) = q[1]
  BY <1>1, EmptySeq
<1> HIDE DEF q, g
<1>4. Head(q) = <<f, g + 1>>
  BY <1>1, <1>3
<1>5. \A j \in 1..Len(Tail(q)) : Tail(q)[j] = <<f, g + 1 + j>>
  <2> TAKE j \in 1..Len(Tail(q))
  <2>1. j + 1 \in 1..Len(q) /\ Tail(q)[j] = q[j + 1] /\ g + (j + 1) = g + 1 + j
    BY <1>1, <1>2
  <2> QED  BY <1>1, <2>1
<1>6. g + 1 \in 1..MaxBatch
  BY <1>1, <1>3
<1> QED  BY <1>2, <1>3, <1>4, <1>5, <1>6 DEF q, g

\* The queue without its first order is saved.
LEMMA TailSaved ==
  ASSUME TypeOK, NEW f, Alone(f), AloneInvariant(f), db.queue # << >>, Head(db.queue) \in taken,
         db'.queue = Tail(db.queue), Saved(f)' = Saved(f), UNCHANGED <<taken, runs>>
  PROVE  QueueSound(f)' /\ Gone(f)' = Gone(f) + 1
<1>1. /\ Len(db'.queue) = Len(db.queue) - 1 /\ Len(db.queue) \in Nat /\ Saved(f) \in Nat
      /\ Len(db.queue) > 0 /\ db'.queue \in Seq(Order) /\ Gone(f) \in Nat
      /\ \A j \in 1..Len(db'.queue) : db'.queue[j] = <<f, Gone(f) + 1 + j>>
      /\ <<f, Gone(f) + 1>> \in taken
  BY AloneFacts, FrontOfQueue
<1>2. Gone(f)' = Gone(f) + 1
  BY <1>1 DEF Gone
<1>3. /\ Len(db.queue) <= Saved(f) /\ \A i \in 1..Gone(f) : <<f, i>> \in taken
      /\ \A i \in 1..MaxBatch : runs[<<f, i>>] > 0 => i <= Gone(f)
  BY DEF AloneInvariant, QueueSound
<1>4. Len(db'.queue) <= Saved(f)'
  BY <1>1, <1>3
<1>5. \A j \in DOMAIN db'.queue : db'.queue[j] = <<f, Gone(f)' + j>>
  <2>1. DOMAIN db'.queue = 1..Len(db'.queue)
    BY <1>1
  <2> QED  BY <1>1, <1>2, <2>1
<1>6. \A i \in 1..Gone(f)' : <<f, i>> \in taken'
  <2> TAKE i \in 1..Gone(f)'
  <2>1. i \in 1..Gone(f) \/ i = Gone(f) + 1
    BY <1>1, <1>2
  <2> QED  BY <1>1, <1>3, <2>1
<1>7. \A i \in 1..MaxBatch : runs'[<<f, i>>] > 0 => i <= Gone(f)'
  BY <1>1, <1>2, <1>3
<1> QED  BY <1>2, <1>4, <1>5, <1>6, <1>7 DEF QueueSound

\* An order is counted as executed: it was handed out.
LEMMA RunsCounted ==
  ASSUME TypeOK, NEW f, Alone(f), AloneInvariant(f), NEW i \in 1..Gone(f), i <= MaxBatch,
         runs' = Counted(<<f, i>>), db'.queue = db.queue, Saved(f)' = Saved(f), UNCHANGED taken
  PROVE  /\ QueueSound(f)' /\ Gone(f)' = Gone(f)
         /\ {o \in Order : runs'[o] > 0} = {o \in Order : runs[o] > 0} \cup {<<f, i>>}
<1>1. Gone(f)' = Gone(f) /\ Gone(f) \in Nat
  BY AloneFacts DEF Gone
<1>2. <<f, i>> \in Order
  BY <1>1, AloneFacts, QueueAssumption DEF Order
<1>3. runs \in [Order -> 0..MaxRuns] /\ MaxRuns \in Nat \ {0}
  BY QueueAssumption DEF TypeOK
<1>4. /\ \A o \in Order : o # <<f, i>> => runs'[o] = runs[o]
      /\ runs'[<<f, i>>] > 0
  BY <1>2, <1>3 DEF Counted
<1>5. \A k \in 1..MaxBatch : <<f, k>> \in Order
  BY AloneFacts DEF Order
<1>6. \A k \in 1..MaxBatch : runs'[<<f, k>>] > 0 => k <= Gone(f)'
  <2> SUFFICES ASSUME NEW k \in 1..MaxBatch, runs'[<<f, k>>] > 0 PROVE k <= Gone(f)
    BY <1>1
  <2>1. CASE k = i
    BY <1>1, <2>1
  <2>2. CASE k # i
    <3>1. runs'[<<f, k>>] = runs[<<f, k>>]
      BY <1>4, <1>5, <2>2
    <3> QED  BY <3>1 DEF AloneInvariant, QueueSound
  <2> QED  BY <2>1, <2>2
<1>7. QueueSound(f)'
  BY <1>1, <1>6 DEF AloneInvariant, QueueSound
<1> QED  BY <1>1, <1>2, <1>4, <1>7

\* A step of the chain that runs, or of its slave's side.
LEMMA DrainStep ==
  ASSUME TypeOK, NEW f, Alone(f), AloneInvariant(f), NEW c \in Chains, chain[c].pc # "off",
         UNCHANGED <<pc, pushed, spawned, dying, dropped>>,
         db'.project = db.project, db'.state \in {db.state, "IDLE", "BUSY"},
         \A h \in Handles : node'[h].state = node[h].state /\ node'[h].project = node[h].project,
         \A d \in Chains : d # c => chain'[d] = chain[d] /\ slave'[d] = slave[d],
         QueueSound(f)', ChainSound(f, c)', SlaveSound(f, c)'
  PROVE  AloneInvariant(f)'
<1>1. /\ Begun(f) /\ \A r \in Regs : pc[r] # "saveall"
      /\ f \in Handles /\ \A r \in Regs : r \in Handles
  BY AloneFacts, ChainBegun
<1>2. NodeSound'
  BY DEF AloneInvariant, NodeSound
<1>3. FlowSound(f)'
  BY <1>1 DEF AloneInvariant, FlowSound, Begun, Settled
<1>4. \A r \in Regs : RegSound(f, r)'
  BY <1>1 DEF AloneInvariant, RegSound
<1>5. \A d \in Chains : ChainSound(f, d)' /\ SlaveSound(f, d)'
  <2> TAKE d \in Chains
  <2>1. CASE d = c
    BY <2>1
  <2>2. CASE d # c
    <3>1. chain'[d].pc = "off" /\ slave'[d].pc = "off"
      BY <2>2, OthersOff
    <3> QED  BY <3>1 DEF ChainSound, SlaveSound
  <2> QED  BY <2>1, <2>2
<1> QED  BY <1>2, <1>3, <1>4, <1>5 DEF AloneInvariant

\* The chain that runs moves on.
LEMMA ChainAlone ==
  ASSUME TypeOK, NEW f, Alone(f), AloneInvariant(f), NEW c \in Chains, ChainStep(c)
  PROVE  AloneInvariant(f)'
<1>1. chain[c].pc # "off"
  BY DEF ChainStep, DrainEmpty, Shift, SaveShift, ExecOpen, ExecProject, ExecScan, ExecDone,
         SlaveOpened, SlaveProjectDone
<1>2. ChainSound(f, c) /\ SlaveSound(f, c)
  BY DEF AloneInvariant
<1>3. Begun(f) /\ Drainer(f, c) /\ node[c[1]].project = Proj[f]
  BY <1>1, ChainBegun
<1>4. /\ c[1] \in Handles /\ Gone(f) \in Nat /\ ~Dead /\ \A x : Write(x) = x
      /\ node \in [Handles -> Node] /\ db \in Node /\ chain \in [Chains -> Chain]
      /\ slave \in [Chains -> Pull] /\ f \in Flows /\ MaxBatch \in Nat \ {0}
      /\ Kind[f] \in {"open", "adopt"} /\ Suspends(f)
  BY AloneFacts, QueueAssumption DEF TypeOK, Alone
<1>5. IsOpen(<<f, 1>>) /\ ~IsProject(<<f, 1>>) /\ ~IsScan(<<f, 1>>)
  BY <1>4 DEF IsOpen, IsProject, IsScan
<1>6. ASSUME UNCHANGED pc PROVE Drainer(f, c)'
  BY <1>3, <1>6 DEF Drainer
<1>7. CASE DrainEmpty(c)
  <2>1. /\ chain[c].pc = "pull" /\ node' = [node EXCEPT ![c[1]].queue = << >>]
        /\ chain' = [chain EXCEPT ![c] = Off]
        /\ UNCHANGED <<db, pc, pushed, spawned, slave, opened, dying, taken, runs, dropped>>
    BY <1>7 DEF DrainEmpty
  <2>2. \A h \in Handles : node'[h].state = node[h].state /\ node'[h].project = node[h].project
    BY <1>4, <2>1 DEF Node
  <2>3. chain'[c].pc = "off" /\ \A d \in Chains : d # c => chain'[d] = chain[d]
    BY <1>4, <2>1, ChainFacts
  <2>4. Saved(f)' = Saved(f)
    BY <2>1 DEF Saved
  <2>5. QueueSound(f)'
    BY <2>1, <2>4, QueueKept
  <2>6. ChainSound(f, c)' /\ SlaveSound(f, c)'
    BY <1>2, <2>1, <2>3 DEF ChainSound, SlaveSound
  <2> QED  BY <1>1, <2>1, <2>2, <2>3, <2>5, <2>6, DrainStep
<1>8. CASE Shift(c)
  <2> DEFINE x == [pc |-> "save", order |-> Head(db.queue)]
  <2>1. /\ chain[c].pc = "pull" /\ node' = [node EXCEPT ![c[1]].queue = Tail(db.queue)]
        /\ db.queue # << >> /\ chain' = [chain EXCEPT ![c] = x]
        /\ taken' = taken \cup {Head(db.queue)}
        /\ UNCHANGED <<db, pc, pushed, spawned, slave, opened, dying, runs, dropped>>
    BY <1>8 DEF Shift
  <2>2. /\ \A h \in Handles : node'[h].state = node[h].state /\ node'[h].project = node[h].project
        /\ node'[c[1]].queue = Tail(db.queue)
    BY <1>4, <2>1 DEF Node
  <2>3. chain'[c] = x /\ \A d \in Chains : d # c => chain'[d] = chain[d]
    BY <1>4, <2>1
  <2>4. Gone(f) = 0 /\ Head(db.queue) = <<f, 1>>
    BY <1>2, <2>1, FrontOfQueue DEF ChainSound
  <2>5. Saved(f)' = Saved(f)
    BY <2>1 DEF Saved
  <2>6. QueueSound(f)' /\ Gone(f)' = 0
    BY <2>1, <2>4, <2>5, QueueKept
  <2>7. ChainSound(f, c)' /\ SlaveSound(f, c)'
    BY <1>2, <1>6, <2>1, <2>2, <2>3, <2>4, <2>6 DEF ChainSound, SlaveSound
  <2> QED  BY <1>1, <2>1, <2>2, <2>3, <2>6, <2>7, DrainStep
<1>9. CASE SaveShift(c)
  <2>1. /\ chain[c].pc = "save" /\ db' = [db EXCEPT !.queue = node[c[1]].queue]
        /\ chain' = [chain EXCEPT ![c].pc = "exec"]
        /\ UNCHANGED <<node, pc, pushed, spawned, slave, opened, dying, taken, runs, dropped>>
    BY <1>4, <1>9 DEF SaveShift
  <2>2. /\ Gone(f) = 0 /\ db.queue # << >> /\ node[c[1]].queue = Tail(db.queue)
        /\ chain[c].order = <<f, 1>> /\ Head(db.queue) = <<f, 1>> /\ <<f, 1>> \in taken
    BY <1>2, <2>1, FrontOfQueue DEF ChainSound
  <2>3. /\ chain'[c].pc = "exec" /\ chain'[c].order = chain[c].order
        /\ \A d \in Chains : d # c => chain'[d] = chain[d]
        /\ db'.queue = Tail(db.queue) /\ db'.state = db.state /\ db'.project = db.project
    BY <1>4, <2>1, <2>2 DEF Node, Chain
  <2>4. Saved(f)' = Saved(f)
    BY <2>1 DEF Saved
  <2>5. QueueSound(f)' /\ Gone(f)' = 1
    BY <2>1, <2>2, <2>3, <2>4, TailSaved
  <2>6. ChainSound(f, c)' /\ SlaveSound(f, c)'
    BY <1>2, <1>6, <2>1, <2>2, <2>3, <2>5 DEF ChainSound, SlaveSound
  <2> QED  BY <1>1, <2>1, <2>3, <2>5, <2>6, DrainStep
<1>10. CASE ExecOpen(c)
  <2>1. /\ chain[c].pc = "exec" /\ Gone(f) = 1 /\ chain[c].order = <<f, 1>>
        /\ slave[c].pc = "off"
    BY <1>2, <1>10 DEF ExecOpen, ChainSound, SlaveSound
  <2>2. /\ runs' = Counted(<<f, 1>>) /\ db' \in {db, [db EXCEPT !.state = "BUSY"]}
        /\ \E v \in {"waiting", "loading"} : chain' = [chain EXCEPT ![c].pc = v]
        /\ UNCHANGED <<node, pc, pushed, spawned, slave, opened, dying, taken, dropped>>
    BY <1>4, <1>10, <2>1 DEF ExecOpen, Busy
  <2>3. /\ chain'[c].pc \in {"waiting", "loading"} /\ chain'[c].order = chain[c].order
        /\ \A d \in Chains : d # c => chain'[d] = chain[d]
    BY <1>4, <2>2 DEF Chain
  <2>4. /\ db'.queue = db.queue /\ db'.state \in {db.state, "BUSY"} /\ db'.project = db.project
    BY <1>4, <2>2 DEF Node
  <2>5. Saved(f)' = Saved(f)
    BY <2>2 DEF Saved
  <2>6. QueueSound(f)' /\ Gone(f)' = 1
    BY <1>4, <2>1, <2>2, <2>4, <2>5, RunsCounted
  <2>7. ChainSound(f, c)' /\ SlaveSound(f, c)'
    BY <1>2, <1>6, <2>1, <2>2, <2>3, <2>6 DEF ChainSound, SlaveSound
  <2> QED  BY <1>1, <2>2, <2>3, <2>4, <2>6, <2>7, DrainStep
<1>11. ~ExecProject(c) /\ ~ExecScan(c)
  BY <1>2, <1>5 DEF ExecProject, ExecScan, ChainSound
<1>12. CASE ExecDone(c)
  <2> DEFINE x == [pc |-> "pull", order |-> None]
  <2>1. /\ chain[c].pc = "reply" /\ chain' = [chain EXCEPT ![c] = x] /\ db.queue = << >>
        /\ UNCHANGED <<db, node, pc, pushed, spawned, slave, opened, dying, taken, runs, dropped>>
    BY <1>2, <1>12 DEF ExecDone, ChainSound
  <2>2. chain'[c] = x /\ \A d \in Chains : d # c => chain'[d] = chain[d]
    BY <1>4, <2>1
  <2>3. Saved(f)' = Saved(f)
    BY <2>1 DEF Saved
  <2>4. QueueSound(f)'
    BY <2>1, <2>3, QueueKept
  <2>5. ChainSound(f, c)' /\ SlaveSound(f, c)'
    BY <1>2, <1>6, <2>1, <2>2 DEF ChainSound, SlaveSound
  <2> QED  BY <1>1, <2>1, <2>2, <2>4, <2>5, DrainStep
<1>13. CASE SlaveOpened(c)
  <2> DEFINE y == [SlaveOff EXCEPT !.pc = "check", !.idle = TRUE]
  <2>1. /\ chain[c].pc = "loading" /\ opened' = opened \cup {Proj[f]}
        /\ chain' = [chain EXCEPT ![c].pc = "waiting"] /\ slave' = [slave EXCEPT ![c] = y]
        /\ UNCHANGED <<db, node, pc, pushed, spawned, dying, taken, runs, dropped>>
    BY <1>3, <1>13 DEF SlaveOpened
  <2>2. y.pc = "check"
    BY DEF SlaveOff
  <2> HIDE DEF y
  <2>3. /\ chain'[c].pc = "waiting" /\ slave'[c].pc = "check"
        /\ \A d \in Chains : d # c => chain'[d] = chain[d] /\ slave'[d] = slave[d]
    BY <1>4, <2>1, <2>2 DEF Chain
  <2>4. Saved(f)' = Saved(f)
    BY <2>1 DEF Saved
  <2>5. QueueSound(f)' /\ Gone(f)' = 1
    BY <1>2, <2>1, <2>4, QueueKept DEF ChainSound
  <2>6. ChainSound(f, c)' /\ SlaveSound(f, c)'
    BY <1>6, <2>1, <2>3, <2>5 DEF ChainSound, SlaveSound
  <2> QED  BY <1>1, <2>1, <2>3, <2>5, <2>6, DrainStep
<1>14. ~SlaveProjectDone(c)
  BY <1>2 DEF SlaveProjectDone, ChainSound
<1> QED  BY <1>7, <1>8, <1>9, <1>10, <1>11, <1>12, <1>13, <1>14 DEF ChainStep

\* The slave goes on while the chain waits for it.
LEMMA SlaveAlone ==
  ASSUME TypeOK, NEW f, Alone(f), AloneInvariant(f), NEW c \in Chains, SlaveStep(c)
  PROVE  AloneInvariant(f)'
<1>1. slave[c].pc # "off"
  BY DEF SlaveStep, SlaveCheck, SlaveAskEmpty, SlaveAsk, SlaveSave, SlaveReply, SlaveExec,
         SlaveProject
<1>2. ChainSound(f, c) /\ SlaveSound(f, c)
  BY DEF AloneInvariant
<1>3. chain[c].pc = "waiting" /\ Proj[f] \in opened /\ Gone(f) >= 1
  BY <1>1, <1>2 DEF SlaveSound, ChainSound
<1>4. /\ Gone(f) \in Nat /\ ~Dead /\ \A x : Write(x) = x
      /\ db \in Node /\ chain \in [Chains -> Chain] /\ slave \in [Chains -> Pull]
      /\ Kind[f] \in {"open", "adopt"} /\ Suspends(f) /\ OrmBindsEngine
  BY AloneFacts DEF TypeOK, Alone
<1>5. Drainer(f, c)
  BY <1>3, ChainBegun
<1>6. ASSUME UNCHANGED pc PROVE Drainer(f, c)' /\ (UNCHANGED pushed => Saved(f)' = Saved(f))
  BY <1>5, <1>6 DEF Drainer, Saved
<1>7. CASE SlaveCheck(c)
  <2>1. UNCHANGED <<db, node, pc, pushed, spawned, opened, dying, taken, runs, dropped>>
    BY <1>7 DEF SlaveCheck
  <2>2. QueueSound(f)' /\ Gone(f)' = Gone(f)
    BY <1>6, <2>1, QueueKept
  <2>3. /\ \A d \in Chains : d # c => chain'[d] = chain[d] /\ slave'[d] = slave[d]
        /\ \/ chain'[c].pc = "reply" /\ slave'[c].pc = "off" /\ db.queue = << >>
           \/ chain'[c].pc = "waiting" /\ slave'[c].pc = "ask"
    BY <1>3, <1>4, <1>7 DEF SlaveCheck, Chain, Pull
  <2>4. ChainSound(f, c)' /\ SlaveSound(f, c)'
    BY <1>3, <1>6, <2>1, <2>2, <2>3 DEF ChainSound, SlaveSound
  <2> QED  BY <1>3, <2>1, <2>2, <2>3, <2>4, DrainStep
<1>8. CASE SlaveAskEmpty(c)
  <2>1. /\ slave' = [slave EXCEPT ![c].pc = "off"]
        /\ UNCHANGED <<db, node, pc, pushed, spawned, chain, opened, dying, taken, runs, dropped>>
    BY <1>8 DEF SlaveAskEmpty
  <2>2. QueueSound(f)' /\ Gone(f)' = Gone(f)
    BY <1>6, <2>1, QueueKept
  <2>3. slave'[c].pc = "off" /\ \A d \in Chains : d # c => slave'[d] = slave[d]
    BY <1>4, <2>1 DEF Pull
  <2>4. ChainSound(f, c)' /\ SlaveSound(f, c)'
    BY <1>3, <1>6, <2>1, <2>2, <2>3 DEF ChainSound, SlaveSound
  <2> QED  BY <1>3, <2>1, <2>2, <2>3, <2>4, DrainStep
<1>9. CASE SlaveAsk(c)
  <2>1. /\ slave' = [slave EXCEPT ![c].pc = "save", ![c].order = Head(db.queue),
                                  ![c].rest = Tail(db.queue)]
        /\ db.queue # << >> /\ taken' = taken \cup {Head(db.queue)}
        /\ UNCHANGED <<db, node, pc, pushed, spawned, chain, opened, dying, runs, dropped>>
    BY <1>9 DEF SlaveAsk
  <2>2. QueueSound(f)' /\ Gone(f)' = Gone(f)
    BY <1>6, <2>1, QueueKept
  <2>3. /\ slave'[c].pc = "save" /\ slave'[c].order = Head(db.queue)
        /\ slave'[c].rest = Tail(db.queue) /\ \A d \in Chains : d # c => slave'[d] = slave[d]
    BY <1>4, <2>1 DEF Pull
  <2>4. ChainSound(f, c)' /\ SlaveSound(f, c)'
    BY <1>3, <1>6, <2>1, <2>2, <2>3 DEF ChainSound, SlaveSound
  <2> QED  BY <1>3, <2>1, <2>2, <2>3, <2>4, DrainStep
<1>10. CASE SlaveSave(c)
  <2>1. /\ slave[c].pc = "save" /\ db' = [db EXCEPT !.queue = slave[c].rest]
        /\ slave' = [slave EXCEPT ![c].pc = "reply", ![c].rest = << >>]
        /\ UNCHANGED <<node, pc, pushed, spawned, chain, opened, dying, taken, runs, dropped>>
    BY <1>4, <1>10 DEF SlaveSave
  <2>2. /\ db.queue # << >> /\ slave[c].order = Head(db.queue) /\ Head(db.queue) \in taken
        /\ slave[c].rest = Tail(db.queue) /\ Head(db.queue) = <<f, Gone(f) + 1>>
    BY <1>2, <2>1, FrontOfQueue DEF SlaveSound
  <2>3. db'.queue = Tail(db.queue) /\ db'.state = db.state /\ db'.project = db.project
    BY <1>4, <2>1, <2>2 DEF Node
  <2>4. QueueSound(f)' /\ Gone(f)' = Gone(f) + 1
    BY <1>6, <2>1, <2>2, <2>3, TailSaved
  <2>5. /\ slave'[c].pc = "reply" /\ slave'[c].order = slave[c].order
        /\ \A d \in Chains : d # c => slave'[d] = slave[d]
    BY <1>4, <2>1 DEF Pull
  <2>6. ChainSound(f, c)'
    BY <1>3, <1>4, <1>6, <2>1, <2>4 DEF ChainSound
  <2>7. SlaveSound(f, c)'
    BY <1>3, <1>4, <2>1, <2>2, <2>4, <2>5 DEF SlaveSound
  <2> QED  BY <1>3, <2>1, <2>3, <2>4, <2>5, <2>6, <2>7, DrainStep
<1>11. CASE SlaveReply(c)
  <2>1. /\ slave[c].pc = "reply" /\ slave' = [slave EXCEPT ![c].pc = "exec"]
        /\ UNCHANGED <<db, node, pc, pushed, spawned, chain, opened, dying, taken, runs, dropped>>
    BY <1>11 DEF SlaveReply
  <2>2. QueueSound(f)' /\ Gone(f)' = Gone(f)
    BY <1>6, <2>1, QueueKept
  <2>3. /\ slave'[c].pc = "exec" /\ slave'[c].order = slave[c].order
        /\ \A d \in Chains : d # c => slave'[d] = slave[d]
    BY <1>4, <2>1 DEF Pull
  <2>4. ChainSound(f, c)' /\ SlaveSound(f, c)'
    BY <1>2, <1>3, <1>6, <2>1, <2>2, <2>3 DEF ChainSound, SlaveSound
  <2> QED  BY <1>3, <2>1, <2>2, <2>3, <2>4, DrainStep
<1>12. CASE SlaveExec(c)
  <2> DEFINE o == slave[c].order
  <2>1. slave[c].pc = "exec" /\ Gone(f) >= 2 /\ o = <<f, Gone(f)>>
    BY <1>2, <1>12 DEF SlaveExec, SlaveSound
  <2>2. o[1] = f /\ o[2] = Gone(f) /\ IsScan(o) /\ ~IsProject(o)
    BY <1>4, <2>1 DEF IsOpen, IsProject, IsScan
  <2>3. /\ runs' = Counted(o) /\ slave' = [slave EXCEPT ![c].order = None, ![c].pc = "ask"]
        /\ UNCHANGED <<db, node, pc, pushed, spawned, chain, opened, dying, taken, dropped>>
    BY <1>3, <1>12, <2>2 DEF SlaveExec
  <2>4. Gone(f) <= MaxBatch
    BY AloneFacts, QueueAssumption DEF Gone
  <2>5. QueueSound(f)' /\ Gone(f)' = Gone(f)
    BY <1>4, <1>6, <2>1, <2>3, <2>4, RunsCounted
  <2>6. slave'[c].pc = "ask" /\ \A d \in Chains : d # c => slave'[d] = slave[d]
    BY <1>4, <2>3 DEF Pull
  <2>7. ChainSound(f, c)' /\ SlaveSound(f, c)'
    BY <1>3, <1>6, <2>3, <2>5, <2>6 DEF ChainSound, SlaveSound
  <2> QED  BY <1>3, <2>3, <2>5, <2>6, <2>7, DrainStep
<1>13. ~SlaveProject(c)
  BY <1>2 DEF SlaveProject, SlaveSound
<1> QED  BY <1>7, <1>8, <1>9, <1>10, <1>11, <1>12, <1>13 DEF SlaveStep

\* The state IDLE that the slave saves disturbs nothing.
LEMMA IdleAlone ==
  ASSUME TypeOK, NEW f, Alone(f), AloneInvariant(f), NEW c \in Chains, SlaveIdle(c)
  PROVE  AloneInvariant(f)'
<1>1. /\ db' = [db EXCEPT !.state = "IDLE"] /\ slave' = [slave EXCEPT ![c].idle = FALSE]
      /\ UNCHANGED <<node, pc, pushed, spawned, chain, opened, dying, taken, runs, dropped>>
  BY AloneFacts DEF SlaveIdle
<1>2. db'.queue = db.queue /\ db'.project = db.project /\ db'.state = "IDLE"
  BY <1>1 DEF TypeOK, Node
<1>3. \A d \in Chains : /\ slave'[d].pc = slave[d].pc /\ slave'[d].order = slave[d].order
                        /\ slave'[d].rest = slave[d].rest
  BY <1>1 DEF TypeOK, Pull
<1>4. Saved(f)' = Saved(f)
  BY <1>1 DEF Saved
<1>5. QueueSound(f)' /\ Gone(f)' = Gone(f)
  BY <1>1, <1>2, <1>4, QueueKept
<1>6. NodeSound'
  BY <1>1, <1>2 DEF AloneInvariant, NodeSound
<1>7. FlowSound(f)'
  BY <1>1, <1>2, <1>5 DEF AloneInvariant, FlowSound, Begun
<1>8. \A r \in Regs : RegSound(f, r)'
  BY <1>1, <1>2 DEF AloneInvariant, RegSound
<1>9. \A d \in Chains : ChainSound(f, d)' /\ SlaveSound(f, d)'
  BY <1>1, <1>2, <1>3, <1>5 DEF AloneInvariant, ChainSound, SlaveSound, Drainer
<1> QED  BY <1>5, <1>6, <1>7, <1>8, <1>9 DEF AloneInvariant

LEMMA InitAlone ==
  ASSUME NEW f, Alone(f), Init
  PROVE  AloneInvariant(f)
<1>1. f \in Flows /\ f \notin Regs /\ Handles = {f} \cup Regs /\ Creator \in {f, None}
      /\ None \notin Flows /\ None \notin Regs /\ (Creator = f => Assigned = Proj[f]) /\ MaxBatch \in Nat
  BY QueueAssumption DEF Alone, Handles
<1>2. /\ pc = [h \in Handles |-> IF h = Creator THEN "push" ELSE "load"] /\ pushed[f] = 0
      /\ db.queue = << >> /\ db.project = Assigned /\ \A h \in Handles : node[h] = db
      /\ db.state = (IF Creator = None THEN "IDLE" ELSE "QUEUED") /\ spawned = FALSE
      /\ \A c \in Chains : chain[c].pc = "off" /\ slave[c].pc = "off"
      /\ dying = FALSE /\ taken = {} /\ dropped = {} /\ runs = [o \in Order |-> 0]
  BY <1>1 DEF Init, Off, SlaveOff
<1>3. /\ pc[f] = (IF Creator = f THEN "push" ELSE "load")
      /\ \A r \in Regs : pc[r] = "load"
  BY <1>1, <1>2
<1>4. Len(db.queue) = 0 /\ DOMAIN db.queue = {}
  BY <1>2
<1>5. Saved(f) = 0 /\ Gone(f) = 0
  BY <1>2, <1>3, <1>4 DEF Saved, Gone
<1>6. QueueSound(f)
  <2>1. \A i \in 1..MaxBatch : runs[<<f, i>>] = 0
    BY <1>1, <1>2 DEF Order
  <2> QED  BY <1>4, <1>5, <2>1 DEF QueueSound
<1>7. NodeSound
  BY <1>2 DEF NodeSound
<1>8. FlowSound(f)
  BY <1>1, <1>2, <1>3, <1>4, <1>5 DEF FlowSound
<1>9. \A r \in Regs : RegSound(f, r)
  BY <1>3 DEF RegSound
<1>10. \A c \in Chains : ChainSound(f, c) /\ SlaveSound(f, c)
  BY <1>2 DEF ChainSound, SlaveSound
<1> QED  BY <1>6, <1>7, <1>8, <1>9, <1>10 DEF AloneInvariant

LEMMA AloneStep ==
  ASSUME TypeOK, NEW f, Alone(f), AloneInvariant(f), [Next]_vars
  PROVE  AloneInvariant(f)'
<1>1. CASE UNCHANGED vars
  BY <1>1 DEF vars, AloneInvariant, NodeSound, QueueSound, FlowSound, RegSound, ChainSound,
              SlaveSound, Drainer, Begun, Saved, Gone
<1>2. ASSUME NEW g \in Flows, FlowStep(g) PROVE AloneInvariant(f)'
  BY <1>2, FlowAlone DEF Alone
<1>3. ASSUME NEW r \in Regs, RegStep(r) PROVE AloneInvariant(f)'
  BY <1>3, RegAlone
<1>4. ASSUME NEW c \in Chains, ChainStep(c) \/ SlaveStep(c) \/ SlaveIdle(c) \/ Fault(c)
      PROVE  AloneInvariant(f)'
  <2>1. ~Fault(c)
    BY DEF Fault, ExecFailed, SlaveFailed, SlaveReplyLost, Alone
  <2> QED  BY <1>4, <2>1, ChainAlone, SlaveAlone, IdleAlone
<1>5. ~Killed
  BY DEF Killed, AloneInvariant, NodeSound
<1> QED  BY <1>1, <1>2, <1>3, <1>4, <1>5 DEF Next

\* The invariant of a request that is alone, with the types.
LEMMA AloneHolds ==
  ASSUME NEW f, Alone(f)
  PROVE  Spec => [](TypeOK /\ AloneInvariant(f))
<1>1. Init => TypeOK /\ AloneInvariant(f)
  BY InitType, InitAlone
<1>2. TypeOK /\ AloneInvariant(f) /\ [Next]_vars => (TypeOK /\ AloneInvariant(f))'
  BY StepType, AloneStep
<1> QED  BY <1>1, <1>2, PTL DEF Spec

\* An open() that nobody disturbs loses no order: each one that was saved waits in the
\* record or was handed out.
THEOREM NothingLostHolds ==
  ASSUME NEW f, Alone(f)
  PROVE  Spec => []NothingLost
<1>1. ASSUME TypeOK, AloneInvariant(f) PROVE NothingLost
  <2> SUFFICES ASSUME NEW g \in Flows, NEW i \in 1..pushed[g], pc[g] # "save"
               PROVE  <<g, i>> \in taken \cup Elements(db.queue)
    BY DEF NothingLost
  <2>1. g = f /\ i \in 1..Saved(f) /\ Gone(f) \in Nat /\ Saved(f) \in Nat
    BY <1>1, AloneFacts DEF Alone, Saved
  <2>2. CASE i <= Gone(f)
    BY <1>1, <2>1, <2>2 DEF AloneInvariant, QueueSound
  <2>3. CASE i > Gone(f)
    <3> DEFINE j == i - Gone(f)
    <3>1. j \in DOMAIN db.queue /\ Gone(f) + j = i
      BY <1>1, <2>1, <2>3, AloneFacts DEF Gone
    <3>2. db.queue[j] = <<f, i>>
      BY <1>1, <3>1 DEF AloneInvariant, QueueSound
    <3> QED  BY <2>1, <3>1, <3>2 DEF Elements
  <2> QED  BY <2>1, <2>2, <2>3
<1>2. TypeOK /\ AloneInvariant(f) => NothingLost
  BY <1>1
<1> QED  BY <1>2, AloneHolds, PTL

\* The slave refuses none of its scans: each is handed out after the project is open.
THEOREM NoneRefusedHolds ==
  ASSUME NEW f, Alone(f)
  PROVE  Spec => []NoneRefused
<1>1. AloneInvariant(f) => NoneRefused
  BY DEF AloneInvariant, NodeSound, NoneRefused
<1> QED  BY <1>1, AloneHolds, PTL

-----------------------------------------------------------------------------
(* A request that is alone keeps the promise of OrderBook.                 *)

\* The order in hand, as KeepsBook reads it off the chains.
InHand(ch, sl) ==
  {ch[c].order : c \in {d \in Chains : ch[d].pc = "exec"}}
  \cup {sl[c].order : c \in {d \in Chains : sl[d].pc \in {"reply", "exec"}}}

LEMMA NoneInHand ==
  ASSUME NEW ch, NEW sl, \A c \in Chains : ch[c].pc # "exec" /\ sl[c].pc \notin {"reply", "exec"}
  PROVE  InHand(ch, sl) = {}
BY DEF InHand

\* With one chain that may run, the order is in its hands.
LEMMA OneInHand ==
  ASSUME NEW ch, NEW sl, NEW c \in Chains,
         \A d \in Chains : d # c => ch[d].pc = "off" /\ sl[d].pc = "off"
  PROVE  InHand(ch, sl) = IF ch[c].pc = "exec"
                          THEN IF sl[c].pc \in {"reply", "exec"} THEN {ch[c].order, sl[c].order}
                                                                ELSE {ch[c].order}
                          ELSE IF sl[c].pc \in {"reply", "exec"} THEN {sl[c].order} ELSE {}
BY DEF InHand

\* A step of the chain that runs leaves the others off, so that what is in hand before
\* and after it is what this chain, or its slave, has.
LEMMA HandOfStep ==
  ASSUME TypeOK, NEW f, Alone(f), AloneInvariant(f), NEW c \in Chains, chain[c].pc # "off",
         \A d \in Chains : d # c => chain'[d] = chain[d] /\ slave'[d] = slave[d],
         slave[c].pc # "off" => chain[c].pc # "exec", slave'[c].pc # "off" => chain'[c].pc # "exec"
  PROVE  /\ InHand(chain, slave) = (CASE chain[c].pc = "exec" -> {chain[c].order}
                                      [] slave[c].pc \in {"reply", "exec"} -> {slave[c].order}
                                      [] OTHER -> {})
         /\ InHand(chain', slave') = (CASE chain'[c].pc = "exec" -> {chain'[c].order}
                                        [] slave'[c].pc \in {"reply", "exec"} -> {slave'[c].order}
                                        [] OTHER -> {})
<1>1. \A d \in Chains : d # c => chain[d].pc = "off" /\ slave[d].pc = "off"
  BY OthersOff
<1>2. \A d \in Chains : d # c => chain'[d].pc = "off" /\ slave'[d].pc = "off"
  BY <1>1
<1>3. InHand(chain, slave) = IF chain[c].pc = "exec"
        THEN IF slave[c].pc \in {"reply", "exec"} THEN {chain[c].order, slave[c].order}
                                                  ELSE {chain[c].order}
        ELSE IF slave[c].pc \in {"reply", "exec"} THEN {slave[c].order} ELSE {}
  BY <1>1, OneInHand
<1>4. InHand(chain', slave') = IF chain'[c].pc = "exec"
        THEN IF slave'[c].pc \in {"reply", "exec"} THEN {chain'[c].order, slave'[c].order}
                                                   ELSE {chain'[c].order}
        ELSE IF slave'[c].pc \in {"reply", "exec"} THEN {slave'[c].order} ELSE {}
  BY <1>2, OneInHand
<1> QED  BY <1>3, <1>4

Executed(rn) == {o \in Order : rn[o] > 0}

\* The four kinds of steps, in the terms of OrderBook.
Stutters == UNCHANGED <<db.queue, InHand(chain, slave), Executed(runs)>>

Submits(o) ==
  /\ o \in Order /\ o \notin Executed(runs) \cup InHand(chain, slave)
  /\ \A j \in DOMAIN db.queue : db.queue[j] # o
  /\ db'.queue = Append(db.queue, o)
  /\ UNCHANGED <<InHand(chain, slave), Executed(runs)>>

HandsOut ==
  /\ db.queue # << >> /\ InHand(chain, slave) = {}
  /\ InHand(chain, slave)' = {Head(db.queue)} /\ db'.queue = Tail(db.queue)
  /\ UNCHANGED Executed(runs)

Starts ==
  /\ InHand(chain, slave) # {} /\ InHand(chain, slave)' = {}
  /\ Executed(runs)' = Executed(runs) \cup InHand(chain, slave)
  /\ UNCHANGED db.queue

BookStep == Stutters \/ (\E o \in Order : Submits(o)) \/ HandsOut \/ Starts

LEMMA BookStepIsBooks == BookStep => [Book!Next]_Book!bookVars
BY DEF BookStep, Stutters, Submits, HandsOut, Starts, InHand, Executed, Book!Next, Book!bookVars,
       Book!Submit, Book!HandOut, Book!Start

LEMMA NothingInHand ==
  ASSUME TypeOK, NEW f, Alone(f), AloneInvariant(f), ~Begun(f)
  PROVE  InHand(chain, slave) = {}
<1>1. \A c \in Chains : chain[c].pc = "off" /\ slave[c].pc = "off"
  BY Quiet
<1> QED  BY <1>1, NoneInHand

\* Appending an order submits it, everything else that the request does is invisible.
LEMMA FlowBook ==
  ASSUME TypeOK, NEW f, Alone(f), AloneInvariant(f), FlowStep(f)
  PROVE  BookStep
<1>1. CASE SaveQueue(f)
  <2> DEFINE o == <<f, pushed[f]>>
  <2>1. pc[f] = "save" /\ UNCHANGED <<chain, slave, runs>>
    BY <1>1, AloneFacts DEF SaveQueue, Alone
  <2>2. ~Begun(f) /\ Saved(f) = pushed[f] - 1 /\ pushed[f] > 0
    BY <2>1 DEF Begun, Settled, Saved, AloneInvariant, FlowSound
  <2>3. InHand(chain, slave) = {}
    BY <2>2, NothingInHand
  <2>4. db'.queue = Append(db.queue, o) /\ o \in Order
    BY <1>1, <2>1, SaveQueueAlone, SavedQueue
  <2>5. pushed[f] \in 1..MaxBatch /\ Len(db.queue) \in Nat /\ Gone(f) = Saved(f) - Len(db.queue)
    BY <2>2, AloneFacts, QueueAssumption DEF Gone
  <2>6. ~(runs[o] > 0)
    BY <2>2, <2>5 DEF AloneInvariant, QueueSound
  <2>7. \A j \in DOMAIN db.queue : db.queue[j] # o
    <3> SUFFICES ASSUME NEW j \in 1..Len(db.queue), db.queue[j] = o PROVE FALSE
      BY AloneFacts
    <3>1. db.queue[j] = <<f, Gone(f) + j>>
      BY AloneFacts DEF AloneInvariant, QueueSound
    <3>2. Gone(f) + j = pushed[f] /\ Gone(f) + j <= Saved(f)
      BY <2>5, <3>1, AloneFacts
    <3> QED  BY <2>2, <2>5, <3>2
  <2> QED  BY <2>1, <2>3, <2>4, <2>6, <2>7 DEF BookStep, Submits, Executed
<1>2. CASE Poll(f)
  BY <1>2 DEF Poll, BookStep, Stutters, Executed, InHand
<1>3. CASE Load(f) \/ SaveAll(f) \/ Push(f) \/ Start(f) \/ Resume(f)
  <2>1. ~Begun(f)
    BY <1>3, AloneFacts DEF Begun, Settled, Load, SaveAll, Push, Start, Resume
  <2>2. \A c \in Chains : chain[c].pc = "off" /\ slave[c].pc = "off"
    BY <2>1, Quiet
  <2>3. slave' = slave /\ runs' = runs /\ (chain' = chain \/ Trigger(f, 1))
    BY <1>3 DEF Load, SaveAll, Push, Start, Resume
  <2>4. \A c \in Chains : chain'[c].pc # "exec"
    BY <2>2, <2>3, TriggerType
  <2>5. InHand(chain, slave)' = {} /\ InHand(chain, slave) = {}
    BY <2>2, <2>3, <2>4, NoneInHand
  <2>6. db'.queue = db.queue
    <3>1. CASE SaveAll(f)
      <4>1. db' = node[f] /\ node[f].queue = << >> /\ Gone(f) = 0 /\ Saved(f) = 0
        BY <2>1, <3>1, AloneFacts DEF SaveAll, AloneInvariant, FlowSound, Saved
      <4> QED  BY <4>1, AloneFacts, EmptySeq DEF Gone
    <3>2. CASE Start(f)
      <4>1. db \in Node /\ \A x : Write(x) = x
        BY AloneFacts DEF TypeOK
      <4>2. db' \in {db, [db EXCEPT !.state = node[f].state, !.running = TRUE]}
        BY <3>2, <4>1 DEF Start
      <4> QED  BY <4>1, <4>2 DEF Node
    <3>3. CASE Load(f) \/ Push(f) \/ Resume(f)
      BY <3>3 DEF Load, Push, Resume
    <3> QED  BY <1>3, <3>1, <3>2, <3>3
  <2> QED  BY <2>3, <2>5, <2>6 DEF BookStep, Stutters, Executed
<1>4. ~Claim(f)
  BY DEF Claim, AloneInvariant, FlowSound, Settled
<1> QED  BY <1>1, <1>2, <1>3, <1>4 DEF FlowStep

LEMMA RegBook ==
  ASSUME TypeOK, NEW f, Alone(f), AloneInvariant(f), NEW r \in Regs, RegStep(r)
  PROVE  BookStep
<1>1. ~Begun(f)
  BY Registers DEF RegStep, RegSaveAll, RegEvent, RegUpdate
<1>2. \A c \in Chains : chain[c].pc = "off" /\ slave[c].pc = "off"
  BY <1>1, Quiet
<1>3. slave' = slave /\ runs' = runs /\ (chain' = chain \/ Trigger(r, 1))
  BY DEF RegStep, RegRead, RegSaveAll, RegEvent, RegUpdate
<1>4. \A c \in Chains : chain'[c].pc # "exec"
  BY <1>2, <1>3, TriggerType
<1>5. InHand(chain, slave)' = {} /\ InHand(chain, slave) = {}
  BY <1>2, <1>3, <1>4, NoneInHand
<1>6. db'.queue = db.queue
  <2>1. CASE RegSaveAll(r)
    <3>1. db' = node[r] /\ node[r].queue = db.queue
      BY <2>1, AloneFacts DEF RegSaveAll, AloneInvariant, RegSound
    <3> QED  BY <3>1
  <2>2. CASE RegUpdate(r)
    <3>1. db \in Node /\ \A x : Write(x) = x
      BY AloneFacts DEF TypeOK
    <3>2. db' = [db EXCEPT !.state = node[r].state, !.running = node[r].running]
      BY <2>2, <3>1 DEF RegUpdate
    <3> QED  BY <3>1, <3>2 DEF Node
  <2>3. CASE RegRead(r) \/ RegEvent(r)
    BY <2>3 DEF RegRead, RegEvent
  <2> QED  BY <2>1, <2>2, <2>3 DEF RegStep
<1> QED  BY <1>3, <1>5, <1>6 DEF BookStep, Stutters, Executed

\* The chain hands out the first order when it saves the queue without it, and starts it
\* when it asks the slave to open the project.
LEMMA ChainBook ==
  ASSUME TypeOK, NEW f, Alone(f), AloneInvariant(f), NEW c \in Chains, ChainStep(c)
  PROVE  BookStep
<1>1. chain[c].pc # "off"
  BY DEF ChainStep, DrainEmpty, Shift, SaveShift, ExecOpen, ExecProject, ExecScan, ExecDone,
         SlaveOpened, SlaveProjectDone
<1>2. ChainSound(f, c) /\ SlaveSound(f, c)
  BY DEF AloneInvariant
<1>3. /\ ~Dead /\ \A x : Write(x) = x /\ Gone(f) \in Nat
      /\ db \in Node /\ chain \in [Chains -> Chain] /\ slave \in [Chains -> Pull]
      /\ Kind[f] \in {"open", "adopt"} /\ Suspends(f)
  BY AloneFacts DEF TypeOK, Alone
<1>4. IsOpen(<<f, 1>>) /\ ~IsProject(<<f, 1>>) /\ ~IsScan(<<f, 1>>)
  BY <1>3 DEF IsOpen, IsProject, IsScan
<1>5. ~ExecProject(c) /\ ~ExecScan(c) /\ ~SlaveProjectDone(c)
  BY <1>2, <1>4 DEF ExecProject, ExecScan, SlaveProjectDone, ChainSound
<1>6. CASE DrainEmpty(c) \/ Shift(c) \/ ExecDone(c) \/ SlaveOpened(c)
  <2>1. /\ chain[c].pc \in {"pull", "reply", "loading"} /\ slave[c].pc = "off"
        /\ UNCHANGED <<db, runs>>
    BY <1>2, <1>6 DEF DrainEmpty, Shift, ExecDone, SlaveOpened, SlaveSound
  <2>2. /\ chain'[c].pc \in {"off", "save", "pull", "waiting"} /\ slave'[c].pc \in {"off", "check"}
        /\ \A d \in Chains : d # c => chain'[d] = chain[d] /\ slave'[d] = slave[d]
    <3>1. CASE DrainEmpty(c)
      BY <1>3, <2>1, <3>1, ChainFacts DEF DrainEmpty
    <3>2. CASE Shift(c) \/ ExecDone(c)
      BY <1>3, <2>1, <3>2 DEF Shift, ExecDone
    <3>3. CASE SlaveOpened(c)
      <4> DEFINE y == [SlaveOff EXCEPT !.pc = "check", !.idle = TRUE]
      <4>1. chain' = [chain EXCEPT ![c].pc = "waiting"] /\ slave' = [slave EXCEPT ![c] = y]
        BY <3>3 DEF SlaveOpened
      <4>2. y.pc = "check"
        BY DEF SlaveOff
      <4> HIDE DEF y
      <4> QED  BY <1>3, <4>1, <4>2 DEF Chain
    <3> QED  BY <1>6, <3>1, <3>2, <3>3
  <2>3. InHand(chain, slave) = {} /\ InHand(chain', slave') = {}
    BY <1>1, <2>1, <2>2, HandOfStep
  <2> QED  BY <2>1, <2>3 DEF BookStep, Stutters, Executed, InHand
<1>7. CASE SaveShift(c)
  <2>1. /\ chain[c].pc = "save" /\ db' = [db EXCEPT !.queue = node[c[1]].queue]
        /\ chain' = [chain EXCEPT ![c].pc = "exec"] /\ UNCHANGED <<slave, runs>>
        /\ slave[c].pc = "off"
    BY <1>2, <1>3, <1>7 DEF SaveShift, SlaveSound
  <2>2. /\ Gone(f) = 0 /\ db.queue # << >> /\ node[c[1]].queue = Tail(db.queue)
        /\ chain[c].order = <<f, 1>>
    BY <1>2, <2>1 DEF ChainSound
  <2>3. /\ chain'[c].pc = "exec" /\ chain'[c].order = <<f, 1>> /\ db'.queue = Tail(db.queue)
        /\ \A d \in Chains : d # c => chain'[d] = chain[d] /\ slave'[d] = slave[d]
    BY <1>3, <2>1, <2>2 DEF Node, Chain
  <2>4. InHand(chain, slave) = {} /\ InHand(chain', slave') = {<<f, 1>>}
    BY <1>1, <2>1, <2>3, HandOfStep
  <2>5. Head(db.queue) = <<f, 1>>
    BY <2>2, FrontOfQueue
  <2> QED  BY <2>1, <2>2, <2>3, <2>4, <2>5 DEF BookStep, HandsOut, Executed, InHand
<1>8. CASE ExecOpen(c)
  <2>1. /\ chain[c].pc = "exec" /\ slave[c].pc = "off" /\ chain[c].order = <<f, 1>> /\ Gone(f) = 1
    BY <1>2, <1>8 DEF ExecOpen, ChainSound, SlaveSound
  <2>2. /\ runs' = Counted(<<f, 1>>) /\ db' \in {db, [db EXCEPT !.state = "BUSY"]}
        /\ \E v \in {"waiting", "loading"} : chain' = [chain EXCEPT ![c].pc = v]
        /\ UNCHANGED <<slave, pc, pushed, taken>>
    BY <1>3, <1>8, <2>1 DEF ExecOpen, Busy
  <2>3. /\ chain'[c].pc \in {"waiting", "loading"} /\ db'.queue = db.queue
        /\ \A d \in Chains : d # c => chain'[d] = chain[d] /\ slave'[d] = slave[d]
    BY <1>3, <2>2 DEF Node, Chain
  <2>4. InHand(chain, slave) = {<<f, 1>>} /\ InHand(chain', slave') = {}
    BY <1>1, <2>1, <2>2, <2>3, HandOfStep
  <2>5. Saved(f)' = Saved(f)
    BY <2>2 DEF Saved
  <2>6. 1 \in 1..Gone(f) /\ 1 <= MaxBatch
    BY <2>1, QueueAssumption
  <2>7. Executed(runs') = Executed(runs) \cup {<<f, 1>>}
    BY <2>2, <2>3, <2>5, <2>6, RunsCounted DEF Executed
  <2> QED  BY <2>3, <2>4, <2>7 DEF BookStep, Starts, InHand, Executed
<1> QED  BY <1>5, <1>6, <1>7, <1>8 DEF ChainStep

\* The slave is handed the other orders, and starts each of them before it asks again.
LEMMA SlaveBook ==
  ASSUME TypeOK, NEW f, Alone(f), AloneInvariant(f), NEW c \in Chains, SlaveStep(c)
  PROVE  BookStep
<1>1. slave[c].pc # "off"
  BY DEF SlaveStep, SlaveCheck, SlaveAskEmpty, SlaveAsk, SlaveSave, SlaveReply, SlaveExec,
         SlaveProject
<1>2. SlaveSound(f, c)
  BY DEF AloneInvariant
<1>3. chain[c].pc = "waiting" /\ Proj[f] \in opened
  BY <1>1, <1>2 DEF SlaveSound
<1>4. /\ Gone(f) \in Nat /\ ~Dead /\ \A x : Write(x) = x
      /\ db \in Node /\ chain \in [Chains -> Chain] /\ slave \in [Chains -> Pull]
      /\ Kind[f] \in {"open", "adopt"} /\ Suspends(f) /\ OrmBindsEngine
  BY AloneFacts DEF TypeOK, Alone
<1>5. ~SlaveProject(c)
  BY <1>2 DEF SlaveProject, SlaveSound
<1>6. CASE SlaveCheck(c) \/ SlaveAskEmpty(c) \/ SlaveAsk(c)
  <2>1. slave[c].pc \in {"check", "ask"} /\ UNCHANGED <<db, runs>>
    BY <1>6 DEF SlaveCheck, SlaveAskEmpty, SlaveAsk
  <2>2. /\ chain'[c].pc \in {"reply", "waiting"} /\ slave'[c].pc \in {"off", "ask", "save"}
        /\ \A d \in Chains : d # c => chain'[d] = chain[d] /\ slave'[d] = slave[d]
    BY <1>3, <1>4, <1>6 DEF SlaveCheck, SlaveAskEmpty, SlaveAsk, Chain, Pull
  <2>3. InHand(chain, slave) = {} /\ InHand(chain', slave') = {}
    BY <1>3, <2>1, <2>2, HandOfStep
  <2> QED  BY <2>1, <2>3 DEF BookStep, Stutters, Executed, InHand
<1>7. CASE SlaveSave(c)
  <2>1. /\ slave[c].pc = "save" /\ db' = [db EXCEPT !.queue = slave[c].rest]
        /\ slave' = [slave EXCEPT ![c].pc = "reply", ![c].rest = << >>]
        /\ UNCHANGED <<chain, runs>>
    BY <1>4, <1>7 DEF SlaveSave
  <2>2. /\ db.queue # << >> /\ slave[c].order = Head(db.queue) /\ slave[c].rest = Tail(db.queue)
    BY <1>2, <2>1 DEF SlaveSound
  <2>3. /\ slave'[c].pc = "reply" /\ slave'[c].order = Head(db.queue) /\ db'.queue = Tail(db.queue)
        /\ \A d \in Chains : d # c => chain'[d] = chain[d] /\ slave'[d] = slave[d]
    BY <1>4, <2>1, <2>2 DEF Pull, Node
  <2>4. InHand(chain, slave) = {} /\ InHand(chain', slave') = {Head(db.queue)}
    BY <1>3, <2>1, <2>3, HandOfStep
  <2> QED  BY <2>1, <2>2, <2>3, <2>4 DEF BookStep, HandsOut, Executed, InHand
<1>8. CASE SlaveReply(c)
  <2>1. /\ slave[c].pc = "reply" /\ slave' = [slave EXCEPT ![c].pc = "exec"]
        /\ UNCHANGED <<db, chain, runs>>
    BY <1>8 DEF SlaveReply
  <2>2. /\ slave'[c].pc = "exec" /\ slave'[c].order = slave[c].order
        /\ \A d \in Chains : d # c => chain'[d] = chain[d] /\ slave'[d] = slave[d]
    BY <1>4, <2>1 DEF Pull
  <2>3. InHand(chain, slave) = {slave[c].order} /\ InHand(chain', slave') = {slave[c].order}
    BY <1>3, <2>1, <2>2, HandOfStep
  <2> QED  BY <2>1, <2>3 DEF BookStep, Stutters, Executed, InHand
<1>9. CASE SlaveExec(c)
  <2> DEFINE o == slave[c].order
  <2>1. slave[c].pc = "exec" /\ Gone(f) >= 2 /\ o = <<f, Gone(f)>>
    BY <1>2, <1>9 DEF SlaveExec, SlaveSound
  <2>2. o[1] = f /\ o[2] = Gone(f) /\ IsScan(o) /\ ~IsProject(o)
    BY <1>4, <2>1 DEF IsOpen, IsProject, IsScan
  <2>3. /\ runs' = Counted(o) /\ slave' = [slave EXCEPT ![c].order = None, ![c].pc = "ask"]
        /\ UNCHANGED <<db, pc, pushed, taken, chain>>
    BY <1>3, <1>9, <2>2 DEF SlaveExec
  <2>4. Gone(f) <= MaxBatch /\ Gone(f) \in 1..Gone(f)
    BY <1>4, <2>1, AloneFacts, QueueAssumption DEF Gone
  <2>5. Saved(f)' = Saved(f)
    BY <2>3 DEF Saved
  <2>6. Executed(runs') = Executed(runs) \cup {o}
    BY <2>1, <2>3, <2>4, <2>5, RunsCounted DEF Executed
  <2>7. slave'[c].pc = "ask" /\ \A d \in Chains : d # c => chain'[d] = chain[d] /\ slave'[d] = slave[d]
    BY <1>4, <2>3 DEF Pull
  <2>8. InHand(chain, slave) = {o} /\ InHand(chain', slave') = {}
    BY <1>3, <2>1, <2>3, <2>7, HandOfStep
  <2> QED  BY <2>3, <2>6, <2>8 DEF BookStep, Starts, InHand, Executed
<1> QED  BY <1>5, <1>6, <1>7, <1>8, <1>9 DEF SlaveStep

LEMMA IdleBook ==
  ASSUME TypeOK, NEW f, Alone(f), AloneInvariant(f), NEW c \in Chains, SlaveIdle(c)
  PROVE  BookStep
<1>1. /\ db' = [db EXCEPT !.state = "IDLE"] /\ slave' = [slave EXCEPT ![c].idle = FALSE]
      /\ UNCHANGED <<chain, runs>>
  BY AloneFacts DEF SlaveIdle
<1>2. db'.queue = db.queue
  BY <1>1 DEF TypeOK, Node
<1>3. \A d \in Chains : slave'[d].pc = slave[d].pc /\ slave'[d].order = slave[d].order
  BY <1>1 DEF TypeOK, Pull
<1>4. InHand(chain', slave') = InHand(chain, slave)
  BY <1>1, <1>3 DEF InHand
<1> QED  BY <1>1, <1>2, <1>4 DEF BookStep, Stutters, Executed, InHand

LEMMA NextBook ==
  ASSUME TypeOK, NEW f, Alone(f), AloneInvariant(f), [Next]_vars
  PROVE  BookStep
<1>1. CASE UNCHANGED vars
  BY <1>1 DEF vars, BookStep, Stutters, InHand, Executed
<1>2. ASSUME NEW g \in Flows, FlowStep(g) PROVE BookStep
  BY <1>2, FlowBook DEF Alone
<1>3. ASSUME NEW r \in Regs, RegStep(r) PROVE BookStep
  BY <1>3, RegBook
<1>4. ASSUME NEW c \in Chains, ChainStep(c) \/ SlaveStep(c) \/ SlaveIdle(c) \/ Fault(c)
      PROVE  BookStep
  <2>1. ~Fault(c)
    BY DEF Fault, ExecFailed, SlaveFailed, SlaveReplyLost, Alone
  <2> QED  BY <1>4, <2>1, ChainBook, SlaveBook, IdleBook
<1>5. ~Killed
  BY DEF Killed, AloneInvariant, NodeSound
<1> QED  BY <1>1, <1>2, <1>3, <1>4, <1>5 DEF Next

\* A request that is alone implements OrderBook: its orders are started one at a time,
\* once each, in the order it appended them, whoever pops them off the queue.
THEOREM KeepsBookHolds ==
  ASSUME NEW f, Alone(f)
  PROVE  Spec => KeepsBook
<1>1. Init => Book!Init
  <2> SUFFICES ASSUME Init PROVE Book!Init
    OBVIOUS
  <2>1. /\ db.queue = << >> /\ runs = [o \in Order |-> 0]
        /\ \A c \in Chains : chain[c].pc = "off" /\ slave[c].pc = "off"
    BY DEF Init, Off, SlaveOff
  <2>2. InHand(chain, slave) = {}
    BY <2>1, NoneInHand
  <2> QED  BY <2>1, <2>2 DEF Book!Init, InHand
<1>2. TypeOK /\ AloneInvariant(f) /\ [Next]_vars => [Book!Next]_Book!bookVars
  BY NextBook, BookStepIsBooks
<1> QED  BY <1>1, <1>2, AloneHolds, PTL DEF Spec, KeepsBook, Book!Spec
=============================================================================
