------------------------------ MODULE EventQueue ------------------------------
(***************************************************************************)
(* What the event ring of universal_pipeline.c promises: a bounded first   *)
(* in, first out queue.  An event that is offered is either accepted or    *)
(* counted as lost; an accepted event is handed to one consumer, in the    *)
(* order of acceptance, and does not change while it is read.  An event is *)
(* lost as "full" only while Capacity events are waiting or being read.    *)
(***************************************************************************)
EXTENDS Naturals, Sequences, FiniteSets

CONSTANTS
  Consumers,   \* threads that drain the queue
  Events,      \* what is offered
  Capacity,    \* how many accepted events may wait
  Nothing      \* no event

VARIABLES queue, reading, lost

qvars == <<queue, reading, lost>>

LossKinds == {"full", "contention", "disabled"}

QInit ==
  /\ queue = <<>>
  /\ reading = [c \in Consumers |-> Nothing]
  /\ lost = [k \in LossKinds |-> 0]

Accept ==
  /\ Len(queue) < Capacity
  /\ \E e \in Events : queue' = Append(queue, e)
  /\ UNCHANGED <<reading, lost>>

Lose(k) ==
  /\ k = "full" =>
       Len(queue) + Cardinality({c \in Consumers : reading[c] # Nothing}) >= Capacity
  /\ lost' = [lost EXCEPT ![k] = @ + 1]
  /\ UNCHANGED <<queue, reading>>

Take(c) ==
  /\ queue # <<>>
  /\ reading[c] = Nothing
  /\ reading' = [reading EXCEPT ![c] = Head(queue)]
  /\ queue' = Tail(queue)
  /\ UNCHANGED lost

Done(c) ==
  /\ reading' = [reading EXCEPT ![c] = Nothing]
  /\ UNCHANGED <<queue, lost>>

QNext ==
  \/ Accept
  \/ \E k \in LossKinds : Lose(k)
  \/ \E c \in Consumers : Take(c) \/ Done(c)

QSpec == QInit /\ [][QNext]_qvars
=============================================================================
