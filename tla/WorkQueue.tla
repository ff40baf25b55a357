------------------------------ MODULE WorkQueue ------------------------------
(***************************************************************************)
(* What a pool of workers promises its callers: a bounded first-in         *)
(* first-out queue.  Work is accepted while the queue is open and has      *)
(* room, every accepted item is started once and in order, also after the  *)
(* queue has been closed.                                                  *)
(***************************************************************************)
EXTENDS Naturals, Sequences

CONSTANTS Work,      \* the items of work
          Capacity,  \* how many may wait
          Parallel   \* the slots in which items are worked on, one at a time

VARIABLES waiting,   \* accepted, not started
          active,    \* started, not completed
          open

vars == <<waiting, active, open>>

Init == waiting = << >> /\ active = {} /\ open = TRUE

Accept(x) ==
  /\ open
  /\ Len(waiting) < Capacity
  /\ waiting' = Append(waiting, x)
  /\ UNCHANGED <<active, open>>

\* An item is started in a free slot.
Start(s) ==
  /\ waiting # << >>
  /\ \A a \in active : a[1] # s
  /\ active' = active \cup {<<s, Head(waiting)>>}
  /\ waiting' = Tail(waiting)
  /\ UNCHANGED open

Complete(a) ==
  /\ a \in active
  /\ active' = active \ {a}
  /\ UNCHANGED <<waiting, open>>

Close ==
  /\ open' = FALSE
  /\ UNCHANGED <<waiting, active>>

Next ==
  \/ \E x \in Work : Accept(x)
  \/ \E s \in Parallel : Start(s)
  \/ \E a \in active : Complete(a)
  \/ Close

Spec == Init /\ [][Next]_vars
=============================================================================
