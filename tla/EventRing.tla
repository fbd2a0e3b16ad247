------------------------------ MODULE EventRing ------------------------------
(***************************************************************************)
(* The telemetry event ring of universal_pipeline.c: a fixed array of      *)
(* slots with sequence numbers, many producers (the hooks, on the game's   *)
(* threads) and a consumer (the telemetry thread).  Nobody waits: a        *)
(* producer that finds the ring full, disturbed too often or disabled      *)
(* drops its event and counts it.                                          *)
(*                                                                         *)
(* Positions are 32-bit: they are compared by their signed difference and  *)
(* wrap around.  Wrap is 2^32 in the code.  One action is one access to    *)
(* shared memory; a payload is the number of the call that offered it.     *)
(***************************************************************************)
EXTENDS Integers, Sequences, FiniteSets

CONSTANTS
  Producers,   \* threads that call gu_event_try_emit
  Consumers,   \* threads that call gu_event_drain
  Capacity,    \* GU_EVENT_RING_CAPACITY
  CasRetries,  \* GU_EVENT_CAS_RETRIES
  DrainLimit,  \* maximum_events of a drain
  Wrap,        \* number of positions: 2^32 in the code
  Start,       \* the position reached so far by an empty ring: 0 when fresh
  MaxEmits     \* bound: calls of gu_event_try_emit.  The ring relies on no
               \* producer sleeping through half the positions.

ASSUME RingAssumption ==
  /\ Capacity \in Nat \ {0, 1}
  /\ CasRetries \in Nat \ {0}
  /\ DrainLimit \in Nat \ {0}
  /\ Wrap \in Nat \ {0}
  /\ Wrap % (2 * Capacity) = 0
  /\ Start \in 0 .. Wrap - 1
  /\ MaxEmits \in Nat
  /\ MaxEmits + Capacity < Wrap \div 2
  /\ IsFiniteSet(Producers) /\ IsFiniteSet(Consumers)

Positions == 0 .. Wrap - 1
Slots     == 0 .. Capacity - 1
LossKinds == {"full", "contention", "disabled"}

Slot(position) == position % Capacity

Plus(position, n) == (position + n) % Wrap
Difference(a, b) == \* signed, modulo Wrap
  LET d == (a - b) % Wrap IN IF d < Wrap \div 2 THEN d ELSE d - Wrap

VARIABLES
  enqueue_position, dequeue_position, enabled,
  sequence,        \* slot -> slots[].sequence
  payload,         \* slot -> slots[].event, without its sequence field
  stamp,           \* slot -> slots[].event.sequence
  lost,            \* lost_full, lost_contention, lost_disabled
  consumed_total,  \* summary->consumed_total
  offered,         \* calls of gu_event_try_emit so far
  em,              \* per producer: where it is and its locals
  co               \* per consumer: where it is and its locals

ring == <<enqueue_position, dequeue_position, sequence, payload, stamp>>
vars == <<enqueue_position, dequeue_position, enabled, sequence, payload, stamp,
          lost, consumed_total, offered, em, co>>

NoEmit    == [pc |-> "idle", event |-> 0, position |-> 0, retries |-> 0]
NoConsume == [pc |-> "idle", position |-> 0, event |-> 0, stamp |-> 0, consumed |-> 0]

\* gu_event_ring_initialize, and the empty ring after Start events.
Init ==
  /\ enqueue_position = Start
  /\ dequeue_position = Start
  /\ enabled = TRUE
  /\ sequence = [s \in Slots |->
       Plus(Start, CHOOSE i \in Slots : Slot(Plus(Start, i)) = s)]
  /\ payload = [s \in Slots |-> 0]
  /\ stamp = [s \in Slots |-> 0]
  /\ lost = [k \in LossKinds |-> 0]
  /\ consumed_total = 0
  /\ offered = 0
  /\ em = [p \in Producers |-> NoEmit]
  /\ co = [c \in Consumers |-> NoConsume]

-----------------------------------------------------------------------------
(***************************************************************************)
(* gu_event_try_emit                                                       *)
(***************************************************************************)
Producing(p, r) == em' = [em EXCEPT ![p] = r]

Drop(p, kind) ==
  /\ lost' = [lost EXCEPT ![kind] = @ + 1]
  /\ Producing(p, NoEmit)

\* The next round of the bounded loop, or a loss to contention.
Again(p, position) ==
  IF em[p].retries + 1 < CasRetries
  THEN /\ Producing(p, [em[p] EXCEPT !.pc = "look", !.position = position,
                                     !.retries = @ + 1])
       /\ UNCHANGED lost
  ELSE Drop(p, "contention")

EmitCall(p) ==
  /\ em[p].pc = "idle"
  /\ offered < MaxEmits
  /\ offered' = offered + 1
  /\ IF enabled
     THEN /\ Producing(p, [NoEmit EXCEPT !.pc = "position", !.event = offered + 1])
          /\ UNCHANGED lost
     ELSE Drop(p, "disabled")
  /\ UNCHANGED <<ring, enabled, consumed_total, co>>

EmitPosition(p) ==
  /\ em[p].pc = "position"
  /\ Producing(p, [em[p] EXCEPT !.pc = "look", !.position = enqueue_position])
  /\ UNCHANGED <<ring, enabled, lost, consumed_total, offered, co>>

\* Mutant: a full slot is taken for a free one.
EmitLookEager(p) ==
  /\ em[p].pc = "look"
  /\ Producing(p, [em[p] EXCEPT !.pc = "cas"])
  /\ UNCHANGED <<ring, enabled, lost, consumed_total, offered, co>>

\* Mutant: a producer that finds the ring full looks again.
EmitLookWaits(p) ==
  /\ em[p].pc = "look"
  /\ LET d == Difference(sequence[Slot(em[p].position)], em[p].position)
     IN  Producing(p, CASE d = 0 -> [em[p] EXCEPT !.pc = "cas"]
                        [] d < 0 -> em[p]
                        [] d > 0 -> [em[p] EXCEPT !.pc = "reload"])
  /\ UNCHANGED <<ring, enabled, lost, consumed_total, offered, co>>

EmitLook(p) ==
  /\ em[p].pc = "look"
  /\ LET d == Difference(sequence[Slot(em[p].position)], em[p].position)
     IN  \/ /\ d = 0
            /\ Producing(p, [em[p] EXCEPT !.pc = "cas"])
            /\ UNCHANGED lost
         \/ /\ d < 0
            /\ Drop(p, "full")
         \/ /\ d > 0
            /\ Producing(p, [em[p] EXCEPT !.pc = "reload"])
            /\ UNCHANGED lost
  /\ UNCHANGED <<ring, enabled, consumed_total, offered, co>>

EmitReload(p) ==
  /\ em[p].pc = "reload"
  /\ Again(p, enqueue_position)
  /\ UNCHANGED <<ring, enabled, consumed_total, offered, co>>

EmitCas(p) ==
  /\ em[p].pc = "cas"
  /\ IF enqueue_position = em[p].position
     THEN /\ enqueue_position' = Plus(em[p].position, 1)
          /\ Producing(p, [em[p] EXCEPT !.pc = "write"])
          /\ UNCHANGED lost
     ELSE /\ Again(p, enqueue_position)
          /\ UNCHANGED enqueue_position
  /\ UNCHANGED <<dequeue_position, sequence, payload, stamp, enabled,
                 consumed_total, offered, co>>

EmitWrite(p) ==
  /\ em[p].pc = "write"
  /\ payload' = [payload EXCEPT ![Slot(em[p].position)] = em[p].event]
  /\ Producing(p, [em[p] EXCEPT !.pc = "stamp"])
  /\ UNCHANGED <<enqueue_position, dequeue_position, sequence, stamp, enabled, lost,
                 consumed_total, offered, co>>

\* Mutant: the stamp of the slot's last event is left in place.
EmitStampMissing(p) ==
  /\ em[p].pc = "stamp"
  /\ Producing(p, [em[p] EXCEPT !.pc = "publish"])
  /\ UNCHANGED <<ring, enabled, lost, consumed_total, offered, co>>

EmitStamp(p) ==
  /\ em[p].pc = "stamp"
  /\ stamp' = [stamp EXCEPT ![Slot(em[p].position)] = em[p].position]
  /\ Producing(p, [em[p] EXCEPT !.pc = "publish"])
  /\ UNCHANGED <<enqueue_position, dequeue_position, sequence, payload, enabled, lost,
                 consumed_total, offered, co>>

EmitPublish(p) ==
  /\ em[p].pc = "publish"
  /\ sequence' = [sequence EXCEPT ![Slot(em[p].position)] = Plus(em[p].position, 1)]
  /\ Producing(p, NoEmit)
  /\ UNCHANGED <<enqueue_position, dequeue_position, payload, stamp, enabled, lost,
                 consumed_total, offered, co>>

-----------------------------------------------------------------------------
(***************************************************************************)
(* gu_event_drain: gu_event_try_consume until it fails or the limit is     *)
(* reached; the telemetry thread comes back for another drain.             *)
(***************************************************************************)
Consuming(c, r) == co' = [co EXCEPT ![c] = r]

DrainPosition(c) ==
  /\ co[c].pc = "idle"
  /\ Consuming(c, [co[c] EXCEPT !.pc = "look", !.position = dequeue_position])
  /\ UNCHANGED <<ring, enabled, lost, consumed_total, offered, em>>

DrainLook(c) ==
  /\ co[c].pc = "look"
  /\ LET s == Slot(co[c].position)
     IN  Consuming(c, IF Difference(sequence[s], Plus(co[c].position, 1)) = 0
                      THEN [co[c] EXCEPT !.pc = "cas"] ELSE NoConsume)
  /\ UNCHANGED <<ring, enabled, lost, consumed_total, offered, em>>

DrainCas(c) ==
  /\ co[c].pc = "cas"
  /\ IF dequeue_position = co[c].position
     THEN /\ dequeue_position' = Plus(co[c].position, 1)
          /\ Consuming(c, [co[c] EXCEPT !.pc = "copy"])
     ELSE /\ Consuming(c, NoConsume)
          /\ UNCHANGED dequeue_position
  /\ UNCHANGED <<enqueue_position, sequence, payload, stamp, enabled, lost,
                 consumed_total, offered, em>>

DrainCopy(c) ==
  /\ co[c].pc = "copy"
  /\ Consuming(c, [co[c] EXCEPT !.pc = "copy_rest", !.stamp = stamp[Slot(co[c].position)]])
  /\ UNCHANGED <<ring, enabled, lost, consumed_total, offered, em>>

DrainCopyRest(c) ==
  /\ co[c].pc = "copy_rest"
  /\ Consuming(c, [co[c] EXCEPT !.pc = "release", !.event = payload[Slot(co[c].position)]])
  /\ UNCHANGED <<ring, enabled, lost, consumed_total, offered, em>>

\* The slot goes back to the producers one round later; then the summary
\* counts the event and the drain goes on or ends.
DrainRelease(c) ==
  /\ co[c].pc = "release"
  /\ sequence' = [sequence EXCEPT ![Slot(co[c].position)] = Plus(co[c].position, Capacity)]
  /\ consumed_total' = consumed_total + 1
  /\ Consuming(c, IF co[c].consumed + 1 < DrainLimit
                  THEN [NoConsume EXCEPT !.consumed = co[c].consumed + 1]
                  ELSE NoConsume)
  /\ UNCHANGED <<enqueue_position, dequeue_position, payload, stamp, enabled, lost,
                 offered, em>>

-----------------------------------------------------------------------------
\* gu_behavior_enable and gu_behavior_disable set the flag; events already
\* admitted go on.
Enable ==
  /\ ~enabled
  /\ enabled' = TRUE
  /\ UNCHANGED <<ring, lost, consumed_total, offered, em, co>>

Disable ==
  /\ enabled
  /\ enabled' = FALSE
  /\ UNCHANGED <<ring, lost, consumed_total, offered, em, co>>

Emit(p) ==
  \/ EmitPosition(p) \/ EmitLook(p) \/ EmitReload(p) \/ EmitCas(p)
  \/ EmitWrite(p) \/ EmitStamp(p) \/ EmitPublish(p)

Drain(c) ==
  \/ DrainPosition(c) \/ DrainLook(c) \/ DrainCas(c)
  \/ DrainCopy(c) \/ DrainCopyRest(c) \/ DrainRelease(c)

Next ==
  \/ \E p \in Producers : EmitCall(p) \/ Emit(p)
  \/ \E c \in Consumers : Drain(c)
  \/ Enable
  \/ Disable

Spec == Init /\ [][Next]_vars
-----------------------------------------------------------------------------
(***************************************************************************)
(* Properties.                                                             *)
(***************************************************************************)
Writing(p) == em[p].pc \in {"write", "stamp", "publish"}
Reading(c) == co[c].pc \in {"copy", "copy_rest", "release"}

\* Every variable has its type.
TypeOK ==
  /\ enqueue_position \in Positions /\ dequeue_position \in Positions
  /\ enabled \in BOOLEAN
  /\ sequence \in [Slots -> Positions]
  /\ payload \in [Slots -> Nat]
  /\ stamp \in [Slots -> Positions]
  /\ lost \in [LossKinds -> Nat]
  /\ consumed_total \in Nat /\ offered \in 0 .. MaxEmits
  /\ em \in [Producers -> [pc : {"idle", "position", "look", "reload", "cas",
                                 "write", "stamp", "publish"},
                           event : Nat, position : Positions, retries : 0 .. CasRetries - 1]]
  /\ co \in [Consumers -> [pc : {"idle", "look", "cas", "copy", "copy_rest", "release"},
                           position : Positions, event : Nat, stamp : Positions,
                           consumed : 0 .. DrainLimit - 1]]

\* A slot has one user at a time: two producers never write it together, and
\* nobody writes what a consumer is reading.
SlotHasOneUser ==
  /\ \A p, q \in Producers : p # q /\ Writing(p) /\ Writing(q) =>
       Slot(em[p].position) # Slot(em[q].position)
  /\ \A c, d \in Consumers : c # d /\ Reading(c) /\ Reading(d) =>
       Slot(co[c].position) # Slot(co[d].position)
  /\ \A p \in Producers, c \in Consumers : Writing(p) /\ Reading(c) =>
       Slot(em[p].position) # Slot(co[c].position)

\* What a consumer copies out of a slot is whole: the payload and the stamp of
\* one emission, stamped with the position it is consumed at, although both
\* are copied field by field and the numbers wrap around.
CopyIntact ==
  \A c \in Consumers : co[c].pc = "release" =>
    /\ co[c].stamp = co[c].position
    /\ co[c].event = payload[Slot(co[c].position)]
    /\ co[c].event # 0

Sum == lost["full"] + lost["contention"] + lost["disabled"]

\* No event disappears: every call is still running, was counted as lost with
\* a reason, or took a position; every position taken by a consumer is being
\* read or was counted in the summary.
EveryEventAccounted ==
  /\ offered = Sum + ((enqueue_position - Start) % Wrap)
       + Cardinality({p \in Producers : em[p].pc \in {"position", "look", "reload", "cas"}})
  /\ (dequeue_position - Start) % Wrap =
       consumed_total + Cardinality({c \in Consumers : Reading(c)})

\* What every step keeps: positions and slots agree, a slot has one user at a
\* time, a copy taken from it is whole, and every event is accounted for.
RingInv == TypeOK /\ SlotHasOneUser /\ CopyIntact /\ EveryEventAccounted

\* Nobody waits: an emission ends as long as its own thread runs, whatever the
\* others do: one may have stopped for good between taking a position and
\* publishing it, and nobody need ever drain the ring.
EmitNeverWaits ==
  \A p \in Producers : WF_vars(Emit(p)) => []<>(em[p].pc = "idle")

-----------------------------------------------------------------------------
(***************************************************************************)
(* The queue this implements.  A position is in the queue from the CAS     *)
(* that takes it until the CAS that removes it; until it is published, its *)
(* event is still in the producer's hands.                                 *)
(***************************************************************************)
EventAt(position) ==
  LET writers == {p \in Producers : Writing(p) /\ em[p].position = position}
  IN  IF writers # {} THEN em[CHOOSE p \in writers : TRUE].event
      ELSE payload[Slot(position)]

QueueMapped ==
  [i \in 1 .. (enqueue_position - dequeue_position) % Wrap |->
     EventAt(Plus(dequeue_position, i - 1))]

ReadingMapped ==
  [c \in Consumers |-> IF Reading(c) THEN payload[Slot(co[c].position)] ELSE 0]

Queue == INSTANCE EventQueue WITH
  Events <- 1 .. MaxEmits, Nothing <- 0,
  queue <- QueueMapped, reading <- ReadingMapped

\* The ring is a bounded FIFO queue that counts what it drops, and says "full"
\* only when it is.
IsQueue == Queue!QSpec
=============================================================================
