------------------------- MODULE DetectorPoolProofs -------------------------
(***************************************************************************)
(* Proofs about DetectorPool, for any number of files and of workers, with *)
(* and without failures.                                                   *)
(***************************************************************************)
EXTENDS DetectorPool, SequenceTheorems, FunctionTheorems, FiniteSetTheorems, TLAPS

-----------------------------------------------------------------------------
(* Type correctness.                                                       *)

LEMMA InitType == Init => TypeOK
<1> SUFFICES ASSUME Init PROVE TypeOK
  OBVIOUS
<1>1. setup \in 0..PoolSize /\ processed \in Nat
  BY PoolAssumption DEF Init
<1>2. free \in Seq(Workers) /\ outbox \in Seq(Result) /\ heard \in Seq(Result)
  BY EmptySeq DEF Init
<1>3. hand \in [Workers -> Files \cup {None}] /\ result \in [Workers -> Result \cup {None}]
  BY DEF Init
<1> QED
  BY <1>1, <1>2, <1>3 DEF Init, TypeOK

\* The stack without its last element, and with one more.
LEMMA StackFacts ==
  ASSUME NEW s \in Seq(Workers)
  PROVE  /\ Len(s) \in Nat
         /\ \A n \in 0..Len(s) : /\ SubSeq(s, 1, n) \in Seq(Workers) /\ Len(SubSeq(s, 1, n)) = n
                                 /\ \A i \in 1..n : SubSeq(s, 1, n)[i] = s[i]
         /\ s # << >> => Len(s) \in Nat \ {0} /\ Last(s) \in Workers
<1>1. Len(s) \in Nat /\ (s # << >> => Len(s) \in Nat \ {0})
  BY EmptySeq
<1>2. ASSUME NEW n \in 0..Len(s)
      PROVE  /\ SubSeq(s, 1, n) \in Seq(Workers) /\ Len(SubSeq(s, 1, n)) = n
             /\ \A i \in 1..n : SubSeq(s, 1, n)[i] = s[i]
  <2>1. \A i \in 1..n : s[i] \in Workers
    BY <1>1, ElementOfSeq
  <2> QED
    BY <1>1, <2>1, SubSeqProperties
<1>3. s # << >> => Last(s) \in Workers
  BY <1>1, ElementOfSeq DEF Last
<1> QED
  BY <1>1, <1>2, <1>3

LEMMA HandOutType ==
  ASSUME NEW stack \in Seq(Workers), Distinct(stack), HandOutAll(stack)
  PROVE  /\ free' \in Seq(Workers)
         /\ hand' \in [Workers -> Files \cup {None}]
         /\ delayed' \in SUBSET Files
<1> DEFINE n == Len(stack)
<1>1. n \in Nat /\ FileCount \in Nat
  BY StackFacts, PoolAssumption
<1>2. free' \in Seq(Workers)
  <2>1. (IF n > FileCount THEN n - FileCount ELSE 0) \in 0..n
    BY <1>1
  <2> QED
    BY <2>1, StackFacts DEF HandOutAll
<1>3. hand' \in [Workers -> Files \cup {None}]
  <2> SUFFICES ASSUME NEW w \in Workers, NEW i \in 1..n, stack[i] = w, n + 1 - i <= FileCount
               PROVE  n + 1 - (CHOOSE j \in 1..n : stack[j] = w) \in Files
    BY DEF HandOutAll
  <2>1. \A j \in 1..n : stack[j] = w => j = i
    BY LenProperties DEF Distinct
  <2>2. (CHOOSE j \in 1..n : stack[j] = w) = i
    BY <2>1
  <2>3. n + 1 - i \in Files
    BY <1>1 DEF Files
  <2> QED
    BY <2>2, <2>3
<1> QED
  BY <1>2, <1>3 DEF HandOutAll

LEMMA StepType ==
  ASSUME TypeOK, PoolInvariant, [Next]_vars
  PROVE  TypeOK'
<1> USE PoolAssumption, NoneAssumption DEF TypeOK, Running, Result
<1>1. CASE Spawn
  <2>1. PICK started \in BOOLEAN :
          LET stack == IF started THEN Append(free, setup + 1) ELSE free IN
          IF setup + 1 = PoolSize /\ stack # << >>
          THEN HandOutAll(stack)
          ELSE free' = stack /\ UNCHANGED <<hand, delayed>>
    BY <1>1 DEF Spawn
  <2> DEFINE stack == IF started THEN Append(free, setup + 1) ELSE free
  <2>2. setup + 1 \in Workers /\ setup' \in 0..PoolSize
    BY <1>1 DEF Spawn, Workers
  <2>3. stack \in Seq(Workers)
    BY <2>2, AppendProperties
  <2>4. Distinct(stack)
    <3>1. \A i \in DOMAIN free : free[i] # setup + 1
      <4>1. \A i \in DOMAIN free : free[i] \in 1..setup
        BY DEF PoolInvariant, SetUpFirst, Started, OnStack
      <4> QED
        BY <4>1
    <3> QED
      BY <2>2, <3>1, AppendProperties, LenProperties DEF PoolInvariant, PoolConserved, Distinct
  <2>5. /\ free' \in Seq(Workers)
        /\ hand' \in [Workers -> Files \cup {None}]
        /\ delayed' \in SUBSET Files
    BY <2>1, <2>3, <2>4, HandOutType
  <2> QED
    BY <1>1, <2>2, <2>5 DEF Spawn
<1>2. CASE NothingLeft \/ End
  BY <1>2 DEF NothingLeft, End
<1>3. CASE Hear
  <2>1. Append(heard, Head(outbox)) \in Seq(Result) /\ Tail(outbox) \in Seq(Result)
    BY <1>3, HeadTailProperties, AppendProperties DEF Hear
  <2> QED
    BY <1>3, <2>1 DEF Hear
<1>4. CASE Exit
  BY <1>4 DEF Exit
<1>5. ASSUME NEW f \in Files, Retry(f) PROVE TypeOK'
  <2>1. Last(free) \in Workers /\ Front(free) \in Seq(Workers)
    BY <1>5, StackFacts DEF Retry, Front
  <2> QED
    BY <1>5, <2>1 DEF Retry
<1>6. ASSUME NEW w \in Workers, Analyse(w) PROVE TypeOK'
  BY <1>6 DEF Analyse
<1>7. ASSUME NEW w \in Workers, Listen(w) PROVE TypeOK'
  <2>1. result[w] \in Result
    BY <1>7 DEF Listen
  <2>2. Append(free, w) \in Seq(Workers) /\ Append(outbox, result[w]) \in Seq(Result)
    BY <2>1, AppendProperties
  <2> QED
    BY <1>7, <2>2 DEF Listen
<1>8. ASSUME NEW w \in Workers, Crash(w) PROVE TypeOK'
  BY <1>8 DEF Crash
<1>9. CASE UNCHANGED vars
  BY <1>9 DEF vars
<1> QED
  BY <1>1, <1>2, <1>3, <1>4, <1>5, <1>6, <1>7, <1>8, <1>9 DEF Next

-----------------------------------------------------------------------------
(* The results that left the scheduler.                                    *)

LEMMA SentFacts ==
  ASSUME TypeOK
  PROVE  /\ Sent \in Seq(Result) /\ Len(Sent) \in Nat /\ DOMAIN Sent = 1..Len(Sent)
         /\ \A i \in 1..Len(Sent) : Sent[i] \in Result
BY ConcatProperties, LenProperties, ElementOfSeq DEF TypeOK, Sent

LEMMA HearSent ==
  ASSUME TypeOK, Hear
  PROVE  Sent' = Sent
<1> DEFINE h == Append(heard, Head(outbox))
           t == Tail(outbox)
<1>1. /\ heard \in Seq(Result) /\ outbox \in Seq(Result) /\ outbox # << >>
      /\ Len(heard) \in Nat /\ Len(outbox) \in Nat /\ heard' = h /\ outbox' = t
  BY LenProperties DEF TypeOK, Hear
<1>2. Head(outbox) = outbox[1] /\ Head(outbox) \in Result
  BY <1>1, HeadTailProperties
<1>3. h \in Seq(Result) /\ Len(h) = Len(heard) + 1
      /\ (\A i \in 1..Len(heard) : h[i] = heard[i]) /\ h[Len(heard) + 1] = outbox[1]
  BY <1>1, <1>2, AppendProperties
<1>4. t \in Seq(Result) /\ Len(t) = Len(outbox) - 1 /\ \A i \in 1..Len(t) : t[i] = outbox[i + 1]
  BY <1>1, HeadTailProperties
<1> HIDE DEF h, t
<1>5. /\ h \o t \in Seq(Result) /\ Len(h \o t) = Len(heard) + Len(outbox)
      /\ \A i \in 1..(Len(heard) + Len(outbox)) :
           (h \o t)[i] = IF i <= Len(h) THEN h[i] ELSE t[i - Len(h)]
  <2>1. /\ h \o t \in Seq(Result) /\ Len(h \o t) = Len(h) + Len(t)
        /\ \A i \in 1..(Len(h) + Len(t)) :
             (h \o t)[i] = IF i <= Len(h) THEN h[i] ELSE t[i - Len(h)]
    BY <1>3, <1>4, ConcatProperties
  <2>2. Len(h) + Len(t) = Len(heard) + Len(outbox)
    BY <1>1, <1>3, <1>4
  <2> QED
    BY <2>1, <2>2
<1>6. /\ heard \o outbox \in Seq(Result) /\ Len(heard \o outbox) = Len(heard) + Len(outbox)
      /\ \A i \in 1..(Len(heard) + Len(outbox)) :
           (heard \o outbox)[i] = IF i <= Len(heard) THEN heard[i] ELSE outbox[i - Len(heard)]
  BY <1>1, ConcatProperties
<1>7. \A i \in 1..(Len(heard) + Len(outbox)) : (h \o t)[i] = (heard \o outbox)[i]
  <2> SUFFICES ASSUME NEW i \in 1..(Len(heard) + Len(outbox))
               PROVE  (h \o t)[i] = (heard \o outbox)[i]
    OBVIOUS
  <2>1. CASE i <= Len(heard)
    <3>1. i \in 1..Len(heard) /\ i <= Len(h)
      BY <1>1, <1>3, <2>1
    <3> QED
      BY <1>3, <1>5, <1>6, <2>1, <3>1
  <2>2. CASE i = Len(heard) + 1
    <3>1. i <= Len(h) /\ ~(i <= Len(heard)) /\ i - Len(heard) = 1
      BY <1>1, <1>3, <2>2
    <3> QED
      BY <1>3, <1>5, <1>6, <2>2, <3>1
  <2>3. CASE i > Len(heard) + 1
    <3>1. /\ i - Len(h) \in 1..Len(t) /\ (i - Len(h)) + 1 = i - Len(heard)
          /\ ~(i <= Len(h)) /\ ~(i <= Len(heard))
      BY <1>1, <1>3, <1>4, <2>3
    <3>2. t[i - Len(h)] = outbox[i - Len(heard)]
      BY <1>4, <3>1
    <3> QED
      BY <1>5, <1>6, <3>1, <3>2
  <2>4. i <= Len(heard) \/ i = Len(heard) + 1 \/ i > Len(heard) + 1
    BY <1>1
  <2> QED
    BY <2>1, <2>2, <2>3, <2>4
<1>8. h \o t = heard \o outbox
  BY <1>5, <1>6, <1>7, SeqEqual
<1> QED
  BY <1>1, <1>8 DEF Sent

LEMMA ListenSent ==
  ASSUME TypeOK, NEW w \in Workers, Listen(w)
  PROVE  /\ result[w] \in Result /\ Sent' = Append(Sent, result[w])
         /\ Len(Sent') = Len(Sent) + 1
         /\ \A i \in 1..Len(Sent) : Sent'[i] = Sent[i]
         /\ Sent'[Len(Sent) + 1] = result[w]
         /\ FilesOf(Sent') = FilesOf(Sent) \cup {result[w].file}
<1>1. /\ heard \in Seq(Result) /\ outbox \in Seq(Result) /\ result[w] \in Result
      /\ heard' = heard /\ outbox' = Append(outbox, result[w])
  BY DEF TypeOK, Listen
<1>2. Append(outbox, result[w]) = outbox \o <<result[w]>> /\ <<result[w]>> \in Seq(Result)
  BY <1>1, AppendIsConcat
<1>3. heard \o (outbox \o <<result[w]>>) = (heard \o outbox) \o <<result[w]>>
  BY <1>1, <1>2, ConcatAssociative
<1>4. Sent' = Append(Sent, result[w])
  BY <1>1, <1>2, <1>3, SentFacts, AppendIsConcat DEF Sent
<1>5. /\ Len(Sent') = Len(Sent) + 1
      /\ \A i \in 1..Len(Sent) : Sent'[i] = Sent[i]
      /\ Sent'[Len(Sent) + 1] = result[w]
  BY <1>1, <1>4, SentFacts, AppendProperties
<1>6. DOMAIN Sent' = 1..(Len(Sent) + 1) /\ DOMAIN Sent = 1..Len(Sent) /\ Len(Sent) \in Nat
  <2>1. Sent' \in Seq(Result)
    BY <1>1, <1>4, SentFacts, AppendProperties
  <2> QED
    BY <2>1, <1>5, SentFacts, LenProperties
<1>7. FilesOf(Sent') = FilesOf(Sent) \cup {result[w].file}
  BY <1>5, <1>6 DEF FilesOf
<1> QED
  BY <1>1, <1>4, <1>5, <1>7

-----------------------------------------------------------------------------
(* The invariant.                                                          *)

LEMMA InvariantInit == Init => PoolInvariant
<1> SUFFICES ASSUME Init PROVE PoolInvariant
  OBVIOUS
<1>1. Sent = << >> /\ Len(Sent) = 0
  BY DEF Init, Sent
<1>2. InHand = {} /\ WithResult = {} /\ OnStack = {} /\ Started = {}
  BY DEF Init, InHand, WithResult, OnStack, Started
<1>3. FilesOf(Sent) = {}
  BY <1>1 DEF FilesOf
<1>4. PoolConserved
  BY <1>2 DEF Init, PoolConserved, Distinct
<1>5. FileOnce
  BY <1>1, <1>2, <1>3 DEF Init, FileOnce
<1>6. SetUpFirst
  BY <1>1, <1>2 DEF Init, SetUpFirst
<1>7. EndCounted
  BY <1>1, <1>2, NoneAssumption DEF Init, EndCounted
<1> QED
  BY <1>4, <1>5, <1>6, <1>7 DEF PoolInvariant

LEMMA SpawnStep ==
  ASSUME TypeOK, PoolInvariant, Spawn
  PROVE  PoolInvariant'
<1> USE PoolAssumption, NoneAssumption
<1> DEFINE full(stack) == setup + 1 = PoolSize /\ stack # << >>
<1>1. /\ setup < PoolSize /\ setup' = setup + 1 /\ setup \in Nat
      /\ InHand = {} /\ WithResult = {} /\ delayed = {} /\ Sent = << >>
      /\ exit = None /\ ~told
  BY DEF Spawn, Running, PoolInvariant, SetUpFirst, EndCounted, TypeOK
<1>2. PICK stack \in Seq(Workers) :
        /\ stack = free \/ stack = Append(free, setup + 1)
        /\ \/ HandOutAll(stack) /\ setup + 1 = PoolSize
           \/ free' = stack /\ UNCHANGED <<hand, delayed>>
  <2>1. free \in Seq(Workers) /\ Append(free, setup + 1) \in Seq(Workers)
    BY <1>1, AppendProperties DEF TypeOK, Workers
  <2> QED
    BY <2>1 DEF Spawn
<1>3. /\ Len(stack) \in Nat /\ DOMAIN stack = 1..Len(stack)
      /\ Distinct(stack) /\ \A i \in DOMAIN stack : stack[i] \in 1..(setup + 1)
  <2>1. \A i \in DOMAIN free : free[i] \in 1..setup
    BY DEF PoolInvariant, SetUpFirst, Started, OnStack
  <2>2. free \in Seq(Workers) /\ setup + 1 \in Workers /\ Distinct(free)
    BY <1>1 DEF TypeOK, Workers, PoolInvariant, PoolConserved
  <2>3. CASE stack = free
    <3>1. Len(free) \in Nat /\ DOMAIN free = 1..Len(free)
      BY <2>2, LenProperties
    <3>2. \A i \in DOMAIN free : free[i] \in 1..(setup + 1)
      BY <1>1, <2>1
    <3> QED
      BY <2>2, <2>3, <3>1, <3>2
  <2>4. CASE stack = Append(free, setup + 1)
    <3>1. /\ Len(stack) = Len(free) + 1 /\ stack[Len(free) + 1] = setup + 1
          /\ \A i \in 1..Len(free) : stack[i] = free[i]
          /\ Len(free) \in Nat /\ DOMAIN free = 1..Len(free) /\ DOMAIN stack = 1..Len(stack)
      BY <2>2, <2>4, AppendProperties, LenProperties
    <3>2. \A i \in 1..Len(free) : free[i] \in 1..setup
      BY <2>1, <3>1
    <3>3. \A i \in DOMAIN stack :
            \/ i \in 1..Len(free) /\ stack[i] = free[i]
            \/ i = Len(free) + 1 /\ stack[i] = setup + 1
      BY <3>1
    <3>4. \A i \in DOMAIN stack : stack[i] \in 1..(setup + 1)
      BY <1>1, <3>2, <3>3
    <3>5. \A i, j \in DOMAIN stack : i # j => stack[i] # stack[j]
      <4>1. \A i \in 1..Len(free) : free[i] # setup + 1
        BY <1>1, <3>2
      <4>2. \A i, j \in 1..Len(free) : i # j => free[i] # free[j]
        BY <2>2, <3>1 DEF Distinct
      <4> QED
        BY <3>3, <4>1, <4>2
    <3>6. Len(stack) \in Nat
      BY <3>1
    <3> QED
      BY <3>1, <3>4, <3>5, <3>6 DEF Distinct
  <2> QED
    BY <1>2, <2>3, <2>4
<1>4. /\ Sent' = Sent /\ WithResult' = {}
      /\ UNCHANGED <<result, processed, ending, outbox, exit, heard, told, up>>
  BY <1>1 DEF Spawn, Sent, WithResult
<1>5. EndCounted'
  BY <1>1, <1>4 DEF PoolInvariant, EndCounted
<1>6. CASE free' = stack /\ UNCHANGED <<hand, delayed>>
  <2>1. InHand' = {} /\ OnStack' = {stack[i] : i \in DOMAIN stack}
    BY <1>1, <1>6 DEF InHand, OnStack
  <2>2. PoolConserved'
    BY <1>3, <1>4, <1>6, <2>1 DEF PoolConserved
  <2>3. FileOnce'
    BY <1>1, <1>4, <1>6, <2>1 DEF FileOnce, FilesOf
  <2>4. SetUpFirst'
    BY <1>1, <1>3, <1>4, <1>6, <2>1 DEF SetUpFirst, Started
  <2> QED
    BY <1>5, <2>2, <2>3, <2>4 DEF PoolInvariant
<1>7. CASE HandOutAll(stack) /\ setup + 1 = PoolSize
  <2> DEFINE n == Len(stack)
             m == IF n > FileCount THEN n - FileCount ELSE 0
  <2>1. /\ m \in 0..n /\ free' = SubSeq(stack, 1, m) /\ DOMAIN free' = 1..m
        /\ \A i \in 1..m : free'[i] = stack[i] /\ n + 1 - i > FileCount
    <3>1. m \in 0..n /\ \A i \in 1..m : n + 1 - i > FileCount
      BY <1>3
    <3>2. free' = SubSeq(stack, 1, m)
      BY <1>7 DEF HandOutAll
    <3>3. free' \in Seq(Workers) /\ Len(free') = m /\ \A i \in 1..m : free'[i] = stack[i]
      BY <1>2, <3>1, <3>2, StackFacts
    <3> QED
      BY <3>1, <3>2, <3>3, LenProperties
  <2>2. \A w \in InHand' : \E i \in 1..n : /\ stack[i] = w /\ n + 1 - i <= FileCount
                                           /\ hand'[w] = n + 1 - i
    <3> SUFFICES ASSUME NEW w \in Workers, hand'[w] # None
                 PROVE  \E i \in 1..n : /\ stack[i] = w /\ n + 1 - i <= FileCount
                                        /\ hand'[w] = n + 1 - i
      BY DEF InHand
    <3>1. PICK i \in 1..n : stack[i] = w /\ n + 1 - i <= FileCount
      BY <1>7 DEF HandOutAll
    <3>2. (CHOOSE j \in 1..n : stack[j] = w) = i
      BY <1>3, <3>1 DEF Distinct
    <3>3. hand'[w] = n + 1 - (CHOOSE j \in 1..n : stack[j] = w)
      BY <1>7, <3>1 DEF HandOutAll
    <3> QED
      BY <3>1, <3>2, <3>3
  <2>3. delayed' = {f \in Files : f > n}
    BY <1>7 DEF HandOutAll
  <2> HIDE DEF m, n
  <2>4. n \in Nat /\ DOMAIN stack = 1..n
    BY <1>3 DEF n
  <2>5. PoolConserved'
    <3>1. Distinct(free')
      BY <1>3, <2>1, <2>4 DEF Distinct
    <3>2. OnStack' \cap InHand' = {}
      <4> SUFFICES ASSUME NEW j \in 1..m, free'[j] \in InHand' PROVE FALSE
        BY <2>1 DEF OnStack
      <4>1. PICK i \in 1..n : stack[i] = free'[j] /\ n + 1 - i <= FileCount
        BY <2>2
      <4>2. m \in 0..n /\ j \in 1..n /\ stack[j] = free'[j] /\ n + 1 - j > FileCount
        BY <2>1, <2>4
      <4>3. i = j
        BY <1>3, <2>4, <4>1, <4>2 DEF Distinct
      <4>4. n + 1 - j <= FileCount
        BY <4>1, <4>3
      <4> QED
        BY <2>4, <4>2, <4>4
    <3> QED
      BY <1>4, <3>1, <3>2 DEF PoolConserved
  <2>6. FileOnce'
    <3>1. \A w \in InHand' : hand'[w] \notin delayed'
      BY <2>2, <2>3, <2>4
    <3>2. \A v, w \in InHand' : hand'[v] = hand'[w] => v = w
      BY <2>2, <2>4
    <3>3. FilesOf(Sent') = {} /\ DOMAIN Sent' = {}
      BY <1>1, <1>4 DEF FilesOf
    <3> QED
      BY <1>4, <3>1, <3>2, <3>3 DEF FileOnce
  <2>7. SetUpFirst'
    <3>1. OnStack' \subseteq 1..(setup + 1)
      BY <1>3, <2>1, <2>4 DEF OnStack
    <3>2. InHand' \subseteq 1..(setup + 1)
      BY <1>3, <2>2, <2>4
    <3> QED
      BY <1>1, <1>4, <1>7, <3>1, <3>2 DEF SetUpFirst, Started
  <2> QED
    BY <1>5, <2>5, <2>6, <2>7 DEF PoolInvariant
<1> QED
  BY <1>2, <1>6, <1>7

\* An idle turn of the scheduler's end, or of the detector, moves no file.
LEMMA EndStep ==
  ASSUME TypeOK, PoolInvariant,
         NothingLeft \/ End \/ Exit \/ (\E w \in Workers : Crash(w)) \/ UNCHANGED vars
  PROVE  PoolInvariant'
<1>1. /\ UNCHANGED <<setup, free, hand, result, delayed, processed, ending, outbox, heard>>
      /\ Sent' = Sent /\ InHand' = InHand /\ WithResult' = WithResult
      /\ OnStack' = OnStack /\ Started' = Started
  BY DEF NothingLeft, End, Exit, Crash, vars, Sent, InHand, WithResult, OnStack, Started
<1>2. PoolConserved' /\ FileOnce' /\ SetUpFirst'
  BY <1>1 DEF PoolInvariant, PoolConserved, FileOnce, SetUpFirst, FilesOf, Distinct
<1>3. EndCounted'
  <2>1. processed' = Len(Sent') /\ (ending' => processed' >= FileCount)
    BY <1>1 DEF PoolInvariant, EndCounted
  <2>2. exit' = 0 => ending' \/ Started' = {}
    BY <1>1 DEF PoolInvariant, EndCounted, NothingLeft, End, Exit, Crash, vars
  <2>3. told' => exit' = 0 /\ outbox' = << >>
    BY <1>1, NoneAssumption
    DEF PoolInvariant, EndCounted, NothingLeft, End, Exit, Crash, vars, Running, TypeOK
  <2> QED
    BY <2>1, <2>2, <2>3 DEF EndCounted
<1> QED
  BY <1>2, <1>3 DEF PoolInvariant

LEMMA HearStep ==
  ASSUME TypeOK, PoolInvariant, Hear
  PROVE  PoolInvariant'
<1>1. /\ UNCHANGED <<setup, free, hand, result, delayed, processed, ending, exit, told>>
      /\ Sent' = Sent /\ InHand' = InHand /\ WithResult' = WithResult
      /\ OnStack' = OnStack /\ Started' = Started
  BY HearSent DEF Hear, InHand, WithResult, OnStack, Started
<1>2. PoolConserved' /\ FileOnce' /\ SetUpFirst'
  BY <1>1 DEF PoolInvariant, PoolConserved, FileOnce, SetUpFirst, FilesOf, Distinct
<1>3. ~told
  BY DEF PoolInvariant, EndCounted, Hear
<1>4. EndCounted'
  BY <1>1, <1>3 DEF PoolInvariant, EndCounted
<1> QED
  BY <1>2, <1>4 DEF PoolInvariant

LEMMA RetryStep ==
  ASSUME TypeOK, PoolInvariant, NEW f \in Files, Retry(f)
  PROVE  PoolInvariant'
<1> DEFINE n == Len(free)
           b == Last(free)
<1>1. n \in Nat \ {0} /\ DOMAIN free = 1..n /\ b = free[n] /\ b \in Workers /\ b \in OnStack
  BY StackFacts, LenProperties DEF TypeOK, Retry, Last, OnStack
<1>2. DOMAIN free' = 1..(n - 1) /\ \A i \in 1..(n - 1) : free'[i] = free[i]
  <2>1. free' = SubSeq(free, 1, n - 1) /\ n - 1 \in 0..n /\ free \in Seq(Workers)
    BY <1>1 DEF Retry, Front, TypeOK
  <2>2. /\ SubSeq(free, 1, n - 1) \in Seq(Workers) /\ Len(SubSeq(free, 1, n - 1)) = n - 1
        /\ \A i \in 1..(n - 1) : SubSeq(free, 1, n - 1)[i] = free[i]
    BY <2>1, StackFacts
  <2> QED
    BY <2>1, <2>2, LenProperties
<1> HIDE DEF n, b
<1>3. /\ hand' = [hand EXCEPT ![b] = f] /\ delayed' = delayed \ {f} /\ f \in delayed
      /\ UNCHANGED <<setup, result, processed, ending, outbox, exit, heard, told>>
      /\ exit = None /\ Sent' = Sent /\ WithResult' = WithResult
  BY DEF Retry, b, Running, Sent, WithResult
<1>4. InHand' = InHand \cup {b} /\ hand'[b] = f /\ \A w \in InHand : hand'[w] = hand[w] /\ w # b
  <2>1. f # None
    BY NoneAssumption
  <2>2. b \notin InHand
    BY <1>1 DEF PoolInvariant, PoolConserved
  <2> QED
    BY <1>1, <1>3, <2>1, <2>2 DEF InHand, TypeOK
<1>5. OnStack' \subseteq OnStack \ {b}
  <2> SUFFICES ASSUME NEW i \in 1..(n - 1) PROVE free[i] \in OnStack \ {b}
    BY <1>2 DEF OnStack
  <2>1. i \in DOMAIN free /\ n \in DOMAIN free /\ i # n
    BY <1>1
  <2> QED
    BY <1>1, <2>1 DEF OnStack, PoolInvariant, PoolConserved, Distinct
<1>6. PoolConserved'
  <2>1. Distinct(free')
    <3>1. \A i \in 1..(n - 1) : i \in DOMAIN free
      BY <1>1
    <3> QED
      BY <1>2, <3>1 DEF PoolInvariant, PoolConserved, Distinct
  <2>2. b \notin WithResult
    BY <1>1 DEF PoolInvariant, PoolConserved
  <2> QED
    BY <1>3, <1>4, <1>5, <2>1, <2>2 DEF PoolInvariant, PoolConserved
<1>7. FileOnce'
  BY <1>3, <1>4 DEF PoolInvariant, FileOnce, FilesOf
<1>8. SetUpFirst'
  <2>1. setup = PoolSize /\ setup' = setup
    BY <1>3, PoolAssumption DEF PoolInvariant, SetUpFirst, TypeOK
  <2>2. Started' \subseteq Started
    BY <1>1, <1>3, <1>4, <1>5 DEF Started
  <2> QED
    BY <2>1, <2>2, PoolAssumption DEF PoolInvariant, SetUpFirst
<1>9. EndCounted'
  BY <1>3, NoneAssumption DEF PoolInvariant, EndCounted
<1> QED
  BY <1>6, <1>7, <1>8, <1>9 DEF PoolInvariant

LEMMA AnalyseStep ==
  ASSUME TypeOK, PoolInvariant, NEW w \in Workers, Analyse(w)
  PROVE  PoolInvariant'
<1>1. /\ w \in InHand /\ hand' = [hand EXCEPT ![w] = None] /\ exit = None
      /\ UNCHANGED <<setup, free, delayed, processed, ending, outbox, exit, heard, told>>
      /\ Sent' = Sent /\ OnStack' = OnStack
  BY DEF Analyse, Running, InHand, Sent, OnStack
<1>2. PICK ok \in BOOLEAN : result' = [result EXCEPT ![w] = [file |-> hand[w], success |-> ok]]
  BY DEF Analyse
<1>3. hand[w] \in Files /\ [file |-> hand[w], success |-> ok] \in Result
  BY <1>1 DEF TypeOK, InHand, Result
<1>4. InHand' = InHand \ {w} /\ \A v \in InHand' : hand'[v] = hand[v]
  BY <1>1 DEF InHand, TypeOK
<1>5. /\ WithResult' = WithResult \cup {w} /\ result'[w].file = hand[w]
      /\ \A v \in WithResult : result'[v] = result[v] /\ v # w
  <2>1. w \notin WithResult
    BY <1>1 DEF PoolInvariant, PoolConserved
  <2>2. [file |-> hand[w], success |-> ok] # None
    BY <1>3, NoneAssumption
  <2> QED
    BY <1>2, <2>1, <2>2 DEF WithResult, TypeOK
<1>6. PoolConserved'
  BY <1>1, <1>4, <1>5 DEF PoolInvariant, PoolConserved, Distinct
<1>7. FileOnce'
  BY <1>1, <1>4, <1>5 DEF PoolInvariant, FileOnce, FilesOf
<1>8. SetUpFirst'
  <2>1. setup = PoolSize /\ setup' = setup
    BY <1>1, PoolAssumption DEF PoolInvariant, SetUpFirst, TypeOK
  <2>2. Started' \subseteq Started
    BY <1>1, <1>4, <1>5 DEF Started
  <2> QED
    BY <2>1, <2>2, PoolAssumption DEF PoolInvariant, SetUpFirst
<1>9. EndCounted'
  BY <1>1, NoneAssumption DEF PoolInvariant, EndCounted
<1> QED
  BY <1>6, <1>7, <1>8, <1>9 DEF PoolInvariant

LEMMA ListenStep ==
  ASSUME TypeOK, PoolInvariant, NEW w \in Workers, Listen(w)
  PROVE  PoolInvariant'
<1> DEFINE n == Len(free)
<1>1. /\ w \in WithResult /\ result' = [result EXCEPT ![w] = None] /\ exit = None
      /\ free' = Append(free, w) /\ processed' = processed + 1
      /\ ending' = (ending \/ (Len(free') = PoolSize /\ processed' = FileCount))
      /\ UNCHANGED <<setup, hand, delayed, exit, told>> /\ InHand' = InHand
  BY DEF Listen, Running, WithResult, InHand
<1>2. /\ n \in Nat /\ DOMAIN free = 1..n /\ DOMAIN free' = 1..(n + 1)
      /\ free'[n + 1] = w /\ \A i \in 1..n : free'[i] = free[i]
  BY <1>1, AppendProperties, LenProperties DEF TypeOK
<1> HIDE DEF n
<1>3. OnStack' = OnStack \cup {w}
  BY <1>2 DEF OnStack
<1>4. WithResult' = WithResult \ {w} /\ \A v \in WithResult' : result'[v] = result[v]
  BY <1>1 DEF WithResult, TypeOK
<1>5. w \notin OnStack /\ w \notin InHand
  BY <1>1 DEF PoolInvariant, PoolConserved
<1>6. PoolConserved'
  <2>1. Distinct(free')
    <3>1. \A i \in 1..n : free[i] # w
      BY <1>2, <1>5 DEF OnStack
    <3>2. \A i \in DOMAIN free' : i \in 1..n \/ i = n + 1
      BY <1>2
    <3> QED
      BY <1>2, <3>1, <3>2 DEF PoolInvariant, PoolConserved, Distinct
  <2> QED
    BY <1>1, <1>3, <1>4, <1>5, <2>1 DEF PoolInvariant, PoolConserved
<1>7. /\ FilesOf(Sent') = FilesOf(Sent) \cup {result[w].file}
      /\ Len(Sent') = Len(Sent) + 1 /\ Len(Sent) \in Nat
      /\ DOMAIN Sent = 1..Len(Sent) /\ DOMAIN Sent' = 1..Len(Sent')
      /\ \A i \in 1..Len(Sent) : Sent'[i] = Sent[i]
      /\ Sent'[Len(Sent) + 1] = result[w]
  <2>1. Sent' \in Seq(Result) /\ DOMAIN Sent' = 1..Len(Sent')
    BY ListenSent, SentFacts, AppendProperties, LenProperties
  <2> QED
    BY <2>1, ListenSent, SentFacts
<1>8. FileOnce'
  <2>1. result[w].file \notin delayed /\ result[w].file \notin FilesOf(Sent)
    BY <1>1 DEF PoolInvariant, FileOnce
  <2>2. \A i, j \in DOMAIN Sent' : Sent'[i].file = Sent'[j].file => i = j
    <3>1. \A i \in 1..Len(Sent) : Sent[i].file # result[w].file
      BY <1>7, <2>1 DEF FilesOf
    <3>2. \A i \in DOMAIN Sent' : i \in 1..Len(Sent) \/ i = Len(Sent) + 1
      BY <1>7
    <3>3. \A i, j \in 1..Len(Sent) : Sent[i].file = Sent[j].file => i = j
      BY <1>7 DEF PoolInvariant, FileOnce
    <3> QED
      BY <1>7, <3>1, <3>2, <3>3
  <2>3. \A v \in WithResult' : v # w /\ result'[v].file # result[w].file
    BY <1>1, <1>4 DEF PoolInvariant, FileOnce
  <2>4. \A v \in InHand : hand[v] # result[w].file
    BY <1>1 DEF PoolInvariant, FileOnce
  <2> QED
    BY <1>1, <1>4, <1>7, <2>1, <2>2, <2>3, <2>4 DEF PoolInvariant, FileOnce
<1>9. SetUpFirst'
  <2>1. setup = PoolSize /\ setup' = setup
    BY <1>1, PoolAssumption DEF PoolInvariant, SetUpFirst, TypeOK
  <2>2. Started' \subseteq Started
    BY <1>1, <1>3, <1>4 DEF Started
  <2> QED
    BY <2>1, <2>2, PoolAssumption DEF PoolInvariant, SetUpFirst
<1>10. EndCounted'
  <2>1. processed = Len(Sent) /\ (ending => processed >= FileCount) /\ (told => exit = 0)
    BY DEF PoolInvariant, EndCounted
  <2>2. ~told' /\ exit' # 0
    BY <1>1, <2>1, NoneAssumption
  <2>3. processed' = Len(Sent')
    BY <1>1, <1>7, <2>1
  <2>4. ASSUME ending' PROVE processed' >= FileCount
    <3>1. ending \/ processed' = FileCount
      BY <1>1, <2>4
    <3>2. processed \in Nat /\ processed' = processed + 1 /\ FileCount \in Nat
      BY <1>1, <1>7, <2>1, PoolAssumption
    <3> QED
      BY <2>1, <3>1, <3>2
  <2> QED
    BY <2>2, <2>3, <2>4 DEF EndCounted
<1> QED
  BY <1>6, <1>8, <1>9, <1>10 DEF PoolInvariant

LEMMA InvariantStep ==
  ASSUME TypeOK, PoolInvariant, [Next]_vars
  PROVE  PoolInvariant'
BY SpawnStep, EndStep, HearStep, RetryStep, AnalyseStep, ListenStep DEF Next

\* Type correctness and the invariant need each other.
LEMMA Inductive == Spec => [](TypeOK /\ PoolInvariant)
<1>1. Init => TypeOK /\ PoolInvariant
  BY InitType, InvariantInit
<1>2. TypeOK /\ PoolInvariant /\ [Next]_vars => (TypeOK /\ PoolInvariant)'
  BY StepType, InvariantStep
<1> QED
  BY <1>1, <1>2, PTL DEF Spec

-----------------------------------------------------------------------------
(* Counting.                                                               *)

\* No file is reported twice, so that there are not more results than files,
\* and as many only when all files were reported.
LEMMA Pigeons ==
  ASSUME TypeOK, PoolInvariant
  PROVE  /\ Len(Sent) <= FileCount
         /\ Len(Sent) = FileCount => FilesOf(Sent) = Files
<1> DEFINE n == Len(Sent)
           about == [i \in 1..n |-> Sent[i].file]
<1>1. n \in Nat /\ DOMAIN Sent = 1..n /\ \A i \in 1..n : Sent[i] \in Result
  BY SentFacts
<1> HIDE DEF n
<1>2. about \in [1..n -> Files]
  BY <1>1 DEF Result
<1>3. \A i, j \in 1..n : about[i] = about[j] => i = j
  BY <1>1 DEF PoolInvariant, FileOnce
<1>4. about \in Injection(1..n, Files)
  <2> HIDE DEF about
  <2> QED
    BY <1>2, <1>3, Fun_IsInj
<1>5. /\ IsFiniteSet(1..n) /\ Cardinality(1..n) = n
      /\ IsFiniteSet(Files) /\ Cardinality(Files) = FileCount
  BY <1>1, FS_Interval, PoolAssumption DEF Files
<1>6. n <= FileCount /\ (n = FileCount => about \in Surjection(1..n, Files))
  <2> HIDE DEF about
  <2> QED
    BY <1>4, <1>5, FS_Injection
<1>7. ASSUME n = FileCount PROVE FilesOf(Sent) = Files
  <2>1. \A f \in Files : \E i \in 1..n : about[i] = f
    <3> HIDE DEF about
    <3>1. about \in Surjection(1..n, Files)
      BY <1>6, <1>7
    <3> QED
      BY <3>1 DEF Surjection
  <2>2. \A i \in 1..n : Sent[i].file \in Files
    BY <1>1 DEF Result
  <2> QED
    BY <1>1, <2>1, <2>2 DEF FilesOf
<1> QED
  BY <1>6, <1>7 DEF n

LEMMA CountedFact ==
  ASSUME TypeOK, PoolInvariant
  PROVE  Counted
BY Pigeons DEF PoolInvariant, EndCounted, Counted

\* What the detector read when the scheduler ended with success, all results
\* were read and there is a worker.
LEMMA AllHeard ==
  ASSUME TypeOK, PoolInvariant, exit = 0, outbox = << >>, Started # {}
  PROVE  FilesOf(heard) = Files /\ Len(heard) = FileCount
<1>1. Sent = heard
  BY ConcatEmptySeq DEF TypeOK, Sent
<1>2. processed = Len(Sent) /\ processed >= FileCount
  BY DEF PoolInvariant, EndCounted
<1>3. Len(Sent) = FileCount /\ FilesOf(Sent) = Files
  BY <1>2, Pigeons, SentFacts, PoolAssumption
<1> QED
  BY <1>1, <1>3

-----------------------------------------------------------------------------
(* Theorems.                                                               *)

\* Every state of the pool is well typed: no worker beyond the pool, no file
\* beyond the list is ever used.
THEOREM TypeCorrect == Spec => []TypeOK
BY Inductive, PTL

\* The scheduler posts a file only to a worker that has no other, whatever the
\* order of results, timers and starts.
THEOREM PoolConservedHolds == Spec => []PoolConserved
<1>1. TypeOK /\ PoolInvariant => PoolConserved
  BY DEF PoolInvariant
<1> QED
  BY <1>1, Inductive, PTL

\* No file is analysed or reported twice.
THEOREM FileOnceHolds == Spec => []FileOnce
<1>1. TypeOK /\ PoolInvariant => FileOnce
  BY DEF PoolInvariant
<1> QED
  BY <1>1, Inductive, PTL

\* The counter of the scheduler never passes the number of files: the test
\* for equality that detects the end is not jumped over.
THEOREM CountedHolds == Spec => []Counted
<1>1. TypeOK /\ PoolInvariant => Counted
  BY CountedFact
<1> QED
  BY <1>1, Inductive, PTL

\* The observer that is told of the end has the result of every file, once.
THEOREM ListCompleteHolds == Spec => []ListComplete
<1>1. TypeOK /\ PoolInvariant => ListComplete
  BY AllHeard DEF PoolInvariant, EndCounted, ListComplete
<1> QED
  BY <1>1, Inductive, PTL

\* The threads together implement FileSurvey: a result that the detector reads
\* is a report, the end it is told of closes the survey, everything else is
\* hidden.
THEOREM KeepsSurveyHolds == Spec => KeepsSurvey
<1> DEFINE report == [i \in DOMAIN heard |-> heard[i].file]
           closed == told /\ Started # {}
<1>1. Init => Survey!Init
  BY DEF Init, Survey!Init
<1>2. ASSUME TypeOK, PoolInvariant, TypeOK', PoolInvariant', [Next]_vars
      PROVE  [Survey!Next]_Survey!surveyVars
  <2> DEFINE same == heard' = heard /\ closed' = closed
  <2>1. same => UNCHANGED Survey!surveyVars
    BY DEF Survey!surveyVars
  <2>2. ~Running \/ ~told
    BY <1>2, NoneAssumption DEF PoolInvariant, EndCounted, Running
  <2>3. CASE Spawn \/ NothingLeft \/ End
    <3>1. heard' = heard /\ told' = told /\ ~told
      BY <2>2, <2>3 DEF Spawn, NothingLeft, End
    <3>2. same
      BY <3>1
    <3> QED
      BY <2>1, <3>2
  <2>4. CASE \E f \in Files : Retry(f)
    <3>1. same
      BY <2>2, <2>4 DEF Retry
    <3> QED
      BY <2>1, <3>1
  <2>5. CASE \E w \in Workers : Analyse(w) \/ Listen(w) \/ Crash(w)
    <3>1. same
      BY <2>2, <2>5 DEF Analyse, Listen, Crash
    <3> QED
      BY <2>1, <3>1
  <2>6. CASE UNCHANGED vars
    <3>1. same
      BY <2>6 DEF vars, Started, OnStack, InHand, WithResult
    <3> QED
      BY <2>1, <3>1
  <2>7. CASE Hear
    <3> DEFINE r == Head(outbox)
               n == Len(heard)
    <3>1. /\ ~told /\ told' = told /\ outbox \in Seq(Result) /\ outbox # << >>
          /\ heard \in Seq(Result) /\ heard' = Append(heard, r)
      BY <1>2, <2>7 DEF Hear, TypeOK, PoolInvariant, EndCounted
    <3>2. r = outbox[1] /\ r \in Result
      BY <3>1, HeadTailProperties
    <3>3. /\ n \in Nat /\ DOMAIN heard = 1..n /\ DOMAIN heard' = 1..(n + 1)
          /\ heard'[n + 1] = r /\ \A i \in 1..n : heard'[i] = heard[i]
      <4> HIDE DEF r
      <4> QED
        BY <3>1, <3>2, AppendProperties, LenProperties
    <3>4. r.file \in Files /\ r.file \notin {heard[i].file : i \in DOMAIN heard}
      <4>1. /\ Sent \in Seq(Result) /\ Len(Sent) = n + Len(outbox) /\ Len(outbox) \in Nat \ {0}
            /\ DOMAIN Sent = 1..Len(Sent)
            /\ \A i \in 1..(n + Len(outbox)) :
                 Sent[i] = IF i <= n THEN heard[i] ELSE outbox[i - n]
        <5> HIDE DEF r
        <5> QED
          BY <3>1, EmptySeq, ConcatProperties, LenProperties DEF Sent
      <4>2. n + 1 \in DOMAIN Sent /\ Sent[n + 1] = r
        BY <3>2, <3>3, <4>1
      <4>3. \A i \in 1..n : i \in DOMAIN Sent /\ Sent[i] = heard[i] /\ i # n + 1
        BY <3>3, <4>1
      <4>4. \A i \in 1..n : heard[i].file # r.file
        BY <1>2, <4>2, <4>3 DEF PoolInvariant, FileOnce
      <4> QED
        BY <3>2, <3>3, <4>4 DEF Result
    <3>5. report' = Append(report, r.file)
      <4> HIDE DEF r
      <4>1. \A i \in 1..n : heard[i].file \in Files
        <5>1. \A i \in 1..n : heard[i] \in Result
          BY <3>1, <3>3, ElementOfSeq
        <5> QED
          BY <5>1 DEF Result
      <4>2. report \in Seq(Files) /\ Len(report) = n /\ \A i \in 1..n : report[i] = heard[i].file
        BY <3>3, <4>1, SeqDef
      <4>3. /\ Append(report, r.file) \in Seq(Files) /\ Len(Append(report, r.file)) = n + 1
            /\ Append(report, r.file)[n + 1] = r.file
            /\ \A i \in 1..n : Append(report, r.file)[i] = report[i]
        BY <3>3, <3>4, <4>2, AppendProperties
      <4>4. report' \in Seq(Files) /\ Len(report') = n + 1
            /\ \A i \in 1..(n + 1) : report'[i] = heard'[i].file
        <5>1. \A i \in 1..(n + 1) : heard'[i].file \in Files
          BY <3>3, <3>4, <4>1
        <5> QED
          BY <3>3, <5>1, SeqDef
      <4> HIDE DEF report
      <4> QED
        BY <3>3, <4>2, <4>3, <4>4, SeqEqual
    <3> HIDE DEF r
    <3>6. \E f \in Files : Survey!Report(f)
      <4> SUFFICES \E f \in Files :
                     /\ ~closed
                     /\ f \notin {report[i] : i \in DOMAIN report}
                     /\ report' = Append(report, f)
                     /\ closed' = closed
        BY DEF Survey!Report, Survey!Reported
      <4> QED
        BY <3>1, <3>3, <3>4, <3>5
    <3> QED
      BY <3>6 DEF Survey!Next
  <2>8. CASE Exit
    <3>1. heard' = heard /\ ~told /\ outbox = << >> /\ told' = (exit = 0) /\ Started' = Started
      BY <2>8 DEF Exit, Started, OnStack, InHand, WithResult
    <3>2. CASE exit = 0 /\ Started # {}
      <4>1. FilesOf(heard) = Files
        BY <1>2, <3>1, <3>2, AllHeard
      <4>2. Survey!Close
        BY <3>1, <3>2, <4>1 DEF Survey!Close, Survey!Reported, FilesOf
      <4> QED
        BY <4>2 DEF Survey!Next
    <3>3. CASE ~(exit = 0 /\ Started # {})
      BY <2>1, <3>1, <3>3
    <3> QED
      BY <3>2, <3>3
  <2> QED
    BY <1>2, <2>3, <2>4, <2>5, <2>6, <2>7, <2>8 DEF Next
<1> QED
  BY <1>1, <1>2, Inductive, PTL DEF Spec, KeepsSurvey, Survey!Spec
=============================================================================
