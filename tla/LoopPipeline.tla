---------------------------- MODULE LoopPipeline ----------------------------
(***************************************************************************)
(* What the strict loop-closure pipeline promises, without its threads:    *)
(* every loop is adjusted on its own, after the loops detected before it,  *)
(* and applied before the next adjustment begins.                          *)
(***************************************************************************)
EXTENDS Naturals, Sequences

CONSTANT MaxGen   \* bound on the generations of the loops

VARIABLES
  waiting,    \* loops not adjusted yet, in order of detection
  current,    \* the loop being adjusted or applied, 0 when there is none
  ready,      \* is the adjustment of that loop complete?
  done        \* loops applied to the map, in order

vars == <<waiting, current, ready, done>>

TypeOK ==
  /\ waiting \in Seq(1 .. MaxGen)
  /\ current \in 0 .. MaxGen
  /\ ready \in BOOLEAN
  /\ done \in Seq(1 .. MaxGen)

Init == waiting = <<>> /\ current = 0 /\ ready = FALSE /\ done = <<>>

\* Generations only grow, and scan-to-map loops take some of them.
Detect(g) ==
  /\ \A i \in 1 .. Len(waiting) : waiting[i] < g
  /\ \A i \in 1 .. Len(done) : done[i] < g
  /\ current < g
  /\ waiting' = Append(waiting, g)
  /\ UNCHANGED <<current, ready, done>>

Adjust ==
  /\ current = 0 /\ waiting # <<>>
  /\ current' = Head(waiting)
  /\ waiting' = Tail(waiting)
  /\ UNCHANGED <<ready, done>>

Complete ==
  /\ current # 0 /\ ~ready
  /\ ready' = TRUE
  /\ UNCHANGED <<waiting, current, done>>

Apply ==
  /\ current # 0 /\ ready
  /\ done' = Append(done, current)
  /\ current' = 0 /\ ready' = FALSE
  /\ UNCHANGED waiting

Next == (\E g \in 1 .. MaxGen : Detect(g)) \/ Adjust \/ Complete \/ Apply

Spec == Init /\ [][Next]_vars
=============================================================================
