----------------------------- MODULE OrderBook ------------------------------
(***************************************************************************)
(* What the waiting queue of a node promises to a user whose orders it     *)
(* holds: orders are started in the order they were submitted, one at a    *)
(* time, and each of them once.                                            *)
(***************************************************************************)
EXTENDS Sequences

CONSTANT Order

VARIABLES
  waiting,  \* the orders submitted and not yet handed out
  inHand,   \* the order handed out and not yet started, if any
  started   \* the orders started

bookVars == <<waiting, inHand, started>>

Init == waiting = << >> /\ inHand = {} /\ started = {}

Submit(o) ==
  /\ o \notin started \cup inHand
  /\ \A j \in DOMAIN waiting : waiting[j] # o
  /\ waiting' = Append(waiting, o)
  /\ UNCHANGED <<inHand, started>>

HandOut ==
  /\ waiting # << >>
  /\ inHand = {}
  /\ inHand' = {Head(waiting)}
  /\ waiting' = Tail(waiting)
  /\ UNCHANGED started

Start ==
  /\ inHand # {}
  /\ started' = started \cup inHand
  /\ inHand' = {}
  /\ UNCHANGED waiting

Next == (\E o \in Order : Submit(o)) \/ HandOut \/ Start

Spec == Init /\ [][Next]_bookVars
=============================================================================
