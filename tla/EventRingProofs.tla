---------------------------- MODULE EventRingProofs ----------------------------
(***************************************************************************)
(* Proofs about EventRing for any number of producers and consumers, any   *)
(* capacity, wrap and start: the invariant of the ring, and that it is the *)
(* queue of EventQueue when one thread drains it.                          *)
(*                                                                         *)
(* Positions wrap, but fewer than half of them are used while a call runs: *)
(* Off(x) is how far a position is from the start, and the proofs compare  *)
(* positions by it.                                                        *)
(***************************************************************************)
EXTENDS EventRing, TLAPS, FiniteSetTheorems, SequenceTheorems

-----------------------------------------------------------------------------
(***************************************************************************)
(* Positions, their distances from the start and their slots.              *)
(***************************************************************************)
Off(x) == (x - Start) % Wrap

LEMMA Division ==
  ASSUME NEW a \in Int, NEW m \in Nat, m > 0
  PROVE  /\ a % m \in 0 .. m - 1
         /\ \E q \in Int : a = m * q + (a % m)
<1>1. a % m \in 0 .. m - 1
  OBVIOUS
<1>2. a = m * (a \div m) + (a % m)
  OBVIOUS
<1>3. a \div m \in Int
  OBVIOUS
<1>4. \E q \in Int : a = m * q + (a % m)
  <2> WITNESS a \div m \in Int
  <2> QED
    BY <1>2
<1> QED
  BY <1>1, <1>4

LEMMA Remainder ==
  ASSUME NEW q \in Int, NEW m \in Nat, NEW r \in 0 .. m - 1
  PROVE  (m * q + r) % m = r
OBVIOUS

\* Two quotients by the same number, w * p and w * q, one subtracted from the other.
LEMMA Quotients ==
  ASSUME NEW x \in Int, NEW y \in Int, NEW s \in Int, NEW k \in Int, NEW o \in Int,
         NEW w \in Int, NEW p \in Int, NEW q \in Int,
         x - s = w * p + o, x + k = w * q + y
  PROVE  y - s = w * (p - q) + (o + k)
<1>1. w * (p - q) = w * p - w * q
  OBVIOUS
<1> DEFINE a == w * p
           b == w * q
<1>2. a \in Int /\ b \in Int
  OBVIOUS
<1>3. x - s = a + o /\ x + k = b + y
  OBVIOUS
<1>4. y - s = (a - b) + (o + k)
  <2> HIDE DEF a, b
  <2> QED
    BY <1>2, <1>3
<1> QED
  BY <1>1, <1>4

LEMMA Half ==
  ASSUME NEW w \in Nat
  PROVE  /\ w \div 2 \in Nat
         /\ 2 * (w \div 2) <= w
         /\ w > 0 => w \div 2 < w
OBVIOUS

\* The constants, as numbers.
LEMMA Numbers ==
  /\ Capacity \in Nat /\ Capacity > 1
  /\ Wrap \in Nat /\ Wrap > 0
  /\ Start \in 0 .. Wrap - 1 /\ Start \in Int
  /\ MaxEmits \in Nat
  /\ Wrap \div 2 \in Nat /\ Wrap \div 2 < Wrap
  /\ 2 * (Wrap \div 2) <= Wrap
  /\ MaxEmits + Capacity < Wrap \div 2
BY RingAssumption, Half

LEMMA WrapInRounds == \E q \in Int : Wrap = Capacity * q
<1> DEFINE m == 2 * Capacity
<1>0. m \in Nat /\ m > 0
  BY Numbers
<1>1. PICK q \in Int : Wrap = m * q + (Wrap % m)
  <2> HIDE DEF m
  <2> QED
    <3>1. Wrap \in Int
      BY Numbers
    <3> QED
      BY <1>0, <3>1, Division
<1>2. Wrap = Capacity * (2 * q)
  BY <1>1, Numbers, RingAssumption
<1> QED
  BY <1>2

LEMMA OffType ==
  ASSUME NEW x \in Positions
  PROVE  Off(x) \in 0 .. Wrap - 1 /\ Off(x) \in Nat /\ x \in Int
BY Numbers DEF Positions, Off

LEMMA OffQuotient ==
  ASSUME NEW x \in Positions
  PROVE  \E p \in Int : x - Start = Wrap * p + Off(x)
<1>1. x - Start \in Int /\ Wrap \in Nat /\ Wrap > 0
  BY Numbers DEF Positions
<1> QED
  BY <1>1, Division DEF Off

LEMMA OffInjective ==
  ASSUME NEW x \in Positions, NEW y \in Positions, Off(x) = Off(y)
  PROVE  x = y
<1>1. PICK p \in Int : x - Start = Wrap * p + Off(x)
  BY OffQuotient
<1>2. PICK q \in Int : y - Start = Wrap * q + Off(y)
  BY OffQuotient
<1>3. x - y = Wrap * (p - q)
  BY <1>1, <1>2, OffType, Numbers
<1>4. -Wrap < x - y /\ x - y < Wrap
  BY OffType, Numbers DEF Positions
<1>5. p - q = 0
  BY <1>3, <1>4, Numbers
<1> QED
  BY <1>3, <1>5, OffType, Numbers

LEMMA PlusOff ==
  ASSUME NEW x \in Positions, NEW k \in Nat, Off(x) + k < Wrap
  PROVE  /\ Plus(x, k) \in Positions
         /\ Off(Plus(x, k)) = Off(x) + k
<1> DEFINE y == Plus(x, k)
<1>1. PICK p \in Int : x - Start = Wrap * p + Off(x)
  BY OffQuotient
<1>2. y \in Positions /\ \E q \in Int : x + k = Wrap * q + y
  <2>1. x + k \in Int /\ Wrap \in Nat /\ Wrap > 0
    BY Numbers, OffType
  <2> QED
    BY <2>1, Division DEF Plus, Positions
<1>3. PICK q \in Int : x + k = Wrap * q + y
  BY <1>2
<1>4. y \in Int
  BY <1>2, OffType
<1>5. y - Start = Wrap * (p - q) + (Off(x) + k)
  <2>1. x \in Int /\ Start \in Int /\ k \in Int /\ Off(x) \in Int /\ Wrap \in Int
    BY OffType, Numbers
  <2> HIDE DEF y
  <2> QED
    BY <1>1, <1>3, <1>4, <2>1, Quotients
<1>6. (Wrap * (p - q) + (Off(x) + k)) % Wrap = Off(x) + k
  <2>1. Off(x) + k \in 0 .. Wrap - 1 /\ p - q \in Int
    BY OffType, Numbers
  <2> QED
    BY <2>1, Numbers, Remainder
<1> QED
  BY <1>2, <1>5, <1>6 DEF Off

LEMMA DifferenceOff ==
  ASSUME NEW x \in Positions, NEW y \in Positions,
         Off(x) < Wrap \div 2, Off(y) < Wrap \div 2
  PROVE  Difference(x, y) = Off(x) - Off(y)
<1> DEFINE d == (x - y) % Wrap
<1>1. PICK p \in Int : x - Start = Wrap * p + Off(x)
  BY OffQuotient
<1>2. PICK q \in Int : y - Start = Wrap * q + Off(y)
  BY OffQuotient
<1>3. CASE Off(x) >= Off(y)
  <2>1. x - y = Wrap * (p - q) + (Off(x) - Off(y))
    BY <1>1, <1>2, OffType, Numbers
  <2>2. Off(x) - Off(y) \in 0 .. Wrap - 1 /\ p - q \in Int
    BY <1>3, OffType, Numbers
  <2>3. d = Off(x) - Off(y)
    BY <2>1, <2>2, Numbers, Remainder
  <2> QED
    BY <2>3, OffType, Numbers DEF Difference
<1>4. CASE Off(x) < Off(y)
  <2>1. x - y = Wrap * (p - q - 1) + (Off(x) - Off(y) + Wrap)
    BY <1>1, <1>2, OffType, Numbers
  <2>2. Off(x) - Off(y) + Wrap \in 0 .. Wrap - 1 /\ p - q - 1 \in Int
    BY <1>4, OffType, Numbers
  <2>3. d = Off(x) - Off(y) + Wrap
    BY <2>1, <2>2, Numbers, Remainder
  <2>4. ~(d < Wrap \div 2)
    BY <2>3, OffType, Numbers
  <2> QED
    BY <2>3, <2>4, OffType, Numbers DEF Difference
<1> QED
  BY <1>3, <1>4, OffType

LEMMA SlotOff ==
  ASSUME NEW x \in Positions
  PROVE  Slot(x) \in Slots /\ \E q \in Int : Start + Off(x) = Capacity * q + Slot(x)
<1>1. PICK p \in Int : x - Start = Wrap * p + Off(x)
  BY OffQuotient
<1>2. PICK w \in Int : Wrap = Capacity * w
  BY WrapInRounds
<1>3. Slot(x) \in Slots /\ \E q \in Int : x = Capacity * q + Slot(x)
  <2>1. x \in Int /\ Capacity \in Nat /\ Capacity > 0
    BY Numbers, OffType
  <2> QED
    BY <2>1, Division DEF Slot, Slots
<1>4. PICK q \in Int : x = Capacity * q + Slot(x)
  BY <1>3
<1>5. Slot(x) \in Int
  BY <1>3, Numbers DEF Slots
<1>6. Start + Off(x) = x - Wrap * p
  BY <1>1, OffType, Numbers
<1>7. Wrap * p = Capacity * (w * p)
  BY <1>2, Numbers
<1>8. Start + Off(x) = Capacity * (q - w * p) + Slot(x)
  BY <1>4, <1>5, <1>6, <1>7, OffType, Numbers
<1>9. q - w * p \in Int
  OBVIOUS
<1> QED
  BY <1>3, <1>8, <1>9

\* Positions of one slot are whole rounds apart.
LEMMA SlotApart ==
  ASSUME NEW x \in Positions, NEW y \in Positions,
         Slot(x) = Slot(y), Off(x) < Off(y)
  PROVE  Off(x) + Capacity <= Off(y)
<1>1. PICK p \in Int : Start + Off(x) = Capacity * p + Slot(x)
  BY SlotOff
<1>2. PICK q \in Int : Start + Off(y) = Capacity * q + Slot(y)
  BY SlotOff
<1>3. Slot(x) \in Int
  BY SlotOff, Numbers DEF Slots
<1>4. Off(y) - Off(x) = Capacity * (q - p)
  BY <1>1, <1>2, <1>3, OffType, Numbers
<1>5. Capacity * (q - p) > 0
  BY <1>4, OffType, Numbers
<1>6. q - p >= 1
  BY <1>5, Numbers
<1>7. Capacity * (q - p) >= Capacity
  BY <1>6, Numbers
<1> QED
  BY <1>4, <1>7, OffType, Numbers

\* The next round of a slot.
LEMMA SlotNext ==
  ASSUME NEW x \in Positions, NEW y \in Positions, Off(y) = Off(x) + Capacity
  PROVE  Slot(x) = Slot(y)
<1>1. PICK p \in Int : Start + Off(x) = Capacity * p + Slot(x)
  BY SlotOff
<1>2. PICK q \in Int : Start + Off(y) = Capacity * q + Slot(y)
  BY SlotOff
<1>3. Slot(x) \in 0 .. Capacity - 1 /\ Slot(y) \in 0 .. Capacity - 1
  BY SlotOff DEF Slots
<1>4. Slot(x) - Slot(y) = Capacity * (q - p - 1)
  BY <1>1, <1>2, <1>3, OffType, Numbers
<1>5. -Capacity < Slot(x) - Slot(y) /\ Slot(x) - Slot(y) < Capacity
  BY <1>3, Numbers
<1>6. q - p - 1 = 0
  BY <1>4, <1>5, Numbers
<1> QED
  BY <1>3, <1>4, <1>6, Numbers

\* Every slot is that of one of the first Capacity positions.
LEMMA SlotOfStart ==
  ASSUME NEW s \in Slots
  PROVE  \E i \in Slots : Slot(Plus(Start, i)) = s
<1> DEFINE i == (s - Start) % Capacity
<1>0. s - Start \in Int /\ Capacity \in Nat /\ Capacity > 0
  BY Numbers DEF Slots
<1>1. PICK q \in Int : s - Start = Capacity * q + i
  BY <1>0, Division
<1>2. i \in Slots /\ i \in Nat
  BY <1>0, Division DEF Slots
<1>3. Start \in Positions /\ Off(Start) = 0
  BY Numbers DEF Positions, Off
<1>4. Plus(Start, i) \in Positions /\ Off(Plus(Start, i)) = i
  BY <1>2, <1>3, PlusOff, Numbers DEF Slots
<1>5. PICK p \in Int : Start + i = Capacity * p + Slot(Plus(Start, i))
  BY <1>4, SlotOff
<1>6. Slot(Plus(Start, i)) \in 0 .. Capacity - 1
  BY <1>4, SlotOff DEF Slots
<1>7. Slot(Plus(Start, i)) - s = Capacity * (-q - p)
  <2> DEFINE y == Slot(Plus(Start, i))
  <2>1. s \in Int /\ Start \in Int /\ i \in Int /\ y \in Int /\ Capacity \in Int
    BY <1>2, <1>6, Numbers DEF Slots
  <2> HIDE DEF y, i
  <2>2. Start - s = Capacity * (-q) + (-i)
    <3>1. Capacity * (-q) = -(Capacity * q)
      BY <2>1
    <3> QED
      BY <1>1, <2>1, <3>1
  <2>3. Start + i = Capacity * p + y
    BY <1>5 DEF y
  <2>4. y - s = Capacity * (-q - p) + (-i + i)
    BY <2>1, <2>2, <2>3, Quotients
  <2>5. Capacity * (-q - p) \in Int
    BY <2>1
  <2> QED
    BY <2>1, <2>4, <2>5 DEF y
<1>8. -q - p = 0
  BY <1>6, <1>7, Numbers DEF Slots
<1>9. Slot(Plus(Start, i)) = s
  BY <1>6, <1>7, <1>8, Numbers DEF Slots
<1> QED
  BY <1>2, <1>9

-----------------------------------------------------------------------------
(***************************************************************************)
(* The invariant.                                                          *)
(***************************************************************************)
Taken == Off(enqueue_position)  \* positions taken by producers so far
Gone  == Off(dequeue_position)  \* and by consumers

\* The consumers follow the producers, by one round at most.
OrderSound == Gone <= Taken /\ Taken <= Gone + Capacity

\* A slot is open for the next position it will hold or is holding for a
\* producer, and nobody has consumed that position ...
Open(s, x) ==
  /\ sequence[s] = x
  /\ Gone <= Off(x) /\ Off(x) < Gone + Capacity

\* ... or filled for a position of the last round, with its stamp and payload.
Filled(s, x) ==
  /\ Off(sequence[s]) = Off(x) + 1
  /\ Off(x) < Taken /\ Taken <= Off(x) + Capacity
  /\ stamp[s] = x
  /\ payload[s] \in 1 .. offered

SlotSound(s) == \E x \in Positions : Slot(x) = s /\ (Open(s, x) \/ Filled(s, x))

Trying(p) == em[p].pc \in {"position", "look", "reload", "cas"}

\* What a producer knows of the ring: a position it will try for is not ahead,
\* and one it has taken is open to it.
ProducerSound(p) ==
  /\ em[p].pc # "idle" => em[p].event \in 1 .. offered
  /\ em[p].pc \in {"look", "reload", "cas"} => Off(em[p].position) <= Taken
  /\ em[p].pc = "cas" /\ em[p].position = enqueue_position =>
       sequence[Slot(em[p].position)] = em[p].position
  /\ Writing(p) => /\ Off(em[p].position) < Taken
                   /\ sequence[Slot(em[p].position)] = em[p].position
  /\ em[p].pc \in {"stamp", "publish"} => payload[Slot(em[p].position)] = em[p].event
  /\ em[p].pc = "publish" => stamp[Slot(em[p].position)] = em[p].position

\* What a consumer knows of the ring.
ConsumerSound(c) ==
  /\ co[c].pc \in {"look", "cas"} => Off(co[c].position) <= Gone
  /\ co[c].pc = "cas" /\ co[c].position = dequeue_position =>
       Off(sequence[Slot(co[c].position)]) = Off(co[c].position) + 1
  /\ Reading(c) => /\ Off(co[c].position) < Gone
                   /\ Off(sequence[Slot(co[c].position)]) = Off(co[c].position) + 1
  /\ co[c].pc \in {"copy_rest", "release"} => co[c].stamp = co[c].position
  /\ co[c].pc = "release" => co[c].event = payload[Slot(co[c].position)]

\* A position is taken once, and consumed once.
TakenOnce ==
  /\ \A p, q \in Producers : p # q /\ Writing(p) /\ Writing(q) =>
       em[p].position # em[q].position
  /\ \A c, d \in Consumers : c # d /\ Reading(c) /\ Reading(d) =>
       co[c].position # co[d].position

RingSound ==
  /\ TypeOK
  /\ OrderSound
  /\ \A s \in Slots : SlotSound(s)
  /\ \A p \in Producers : ProducerSound(p)
  /\ \A c \in Consumers : ConsumerSound(c)
  /\ TakenOnce
  /\ EveryEventAccounted

-----------------------------------------------------------------------------
(***************************************************************************)
(* Types.                                                                  *)
(***************************************************************************)
EmPlaces == {"idle", "position", "look", "reload", "cas", "write", "stamp", "publish"}
CoPlaces == {"idle", "look", "cas", "copy", "copy_rest", "release"}
EmType == [pc : EmPlaces, event : Nat, position : Positions, retries : 0 .. CasRetries - 1]
CoType == [pc : CoPlaces, position : Positions, event : Nat, stamp : Positions,
           consumed : 0 .. DrainLimit - 1]

LEMMA PlusType ==
  ASSUME NEW x \in Positions, NEW k \in Nat
  PROVE  Plus(x, k) \in Positions
<1>1. x + k \in Int /\ Wrap \in Nat /\ Wrap > 0
  BY Numbers, OffType
<1> QED
  BY <1>1, Division DEF Plus, Positions

LEMMA NothingTypes ==
  /\ NoEmit \in EmType /\ NoConsume \in CoType
  /\ 0 \in Positions /\ Start \in Positions
BY Numbers, RingAssumption DEF NoEmit, NoConsume, EmType, CoType, EmPlaces, CoPlaces, Positions

LEMMA Types ==
  ASSUME TypeOK
  PROVE  /\ em \in [Producers -> EmType] /\ co \in [Consumers -> CoType]
         /\ \A p \in Producers : /\ em[p] \in EmType
                                 /\ em[p].position \in Positions
                                 /\ Slot(em[p].position) \in Slots
                                 /\ em[p].event \in Nat
         /\ \A c \in Consumers : /\ co[c] \in CoType
                                 /\ co[c].position \in Positions
                                 /\ Slot(co[c].position) \in Slots
                                 /\ co[c].stamp \in Positions
         /\ \A s \in Slots : sequence[s] \in Positions
<1>1. em \in [Producers -> EmType] /\ co \in [Consumers -> CoType]
  BY DEF TypeOK, EmType, CoType, EmPlaces, CoPlaces
<1>2. \A p \in Producers : em[p] \in EmType /\ em[p].position \in Positions /\ em[p].event \in Nat
  BY <1>1 DEF EmType
<1>3. \A c \in Consumers : co[c] \in CoType /\ co[c].position \in Positions /\ co[c].stamp \in Positions
  BY <1>1 DEF CoType
<1> QED
  BY <1>1, <1>2, <1>3, SlotOff DEF TypeOK

LEMMA InitType == Init => TypeOK
<1> SUFFICES ASSUME Init PROVE TypeOK
  OBVIOUS
<1>1. enqueue_position \in Positions /\ dequeue_position \in Positions /\ enabled \in BOOLEAN
  BY NothingTypes DEF Init
<1>2. sequence \in [Slots -> Positions]
  <2>1. ASSUME NEW s \in Slots
        PROVE  Plus(Start, CHOOSE i \in Slots : Slot(Plus(Start, i)) = s) \in Positions
    <3>1. (CHOOSE i \in Slots : Slot(Plus(Start, i)) = s) \in Slots
      BY SlotOfStart
    <3>2. Slots \subseteq Nat
      BY Numbers DEF Slots
    <3> QED
      BY <3>1, <3>2, PlusType, NothingTypes
  <2> QED
    BY <2>1 DEF Init
<1>3. payload \in [Slots -> Nat] /\ stamp \in [Slots -> Positions]
  BY NothingTypes DEF Init
<1>4. lost \in [LossKinds -> Nat] /\ consumed_total \in Nat /\ offered \in 0 .. MaxEmits
  BY Numbers DEF Init
<1>5. em \in [Producers -> EmType] /\ co \in [Consumers -> CoType]
  BY NothingTypes DEF Init
<1> QED
  BY <1>1, <1>2, <1>3, <1>4, <1>5 DEF TypeOK, EmType, CoType, EmPlaces, CoPlaces

\* A producer's or a consumer's record after a step.
LEMMA EmitterType ==
  ASSUME TypeOK, NEW p \in Producers, NEW r \in EmType, Producing(p, r)
  PROVE  em' \in [Producers -> EmType]
BY Types DEF Producing

LEMMA DropType ==
  ASSUME TypeOK, NEW p \in Producers, NEW k \in LossKinds, Drop(p, k)
  PROVE  em' \in [Producers -> EmType] /\ lost' \in [LossKinds -> Nat]
<1>1. em' \in [Producers -> EmType]
  BY EmitterType, NothingTypes DEF Drop
<1>2. lost' \in [LossKinds -> Nat]
  BY DEF Drop, TypeOK
<1> QED
  BY <1>1, <1>2

LEMMA AgainType ==
  ASSUME TypeOK, NEW p \in Producers, NEW x \in Positions, Again(p, x)
  PROVE  em' \in [Producers -> EmType] /\ lost' \in [LossKinds -> Nat]
<1>1. CASE em[p].retries + 1 < CasRetries
  <2> DEFINE r == [em[p] EXCEPT !.pc = "look", !.position = x, !.retries = @ + 1]
  <2>1. em[p] \in EmType
    BY Types
  <2>2. r \in EmType
    <3>1. em[p].retries \in 0 .. CasRetries - 1
      BY <2>1 DEF EmType
    <3>2. em[p].retries + 1 \in 0 .. CasRetries - 1
      BY <1>1, <3>1, RingAssumption
    <3> QED
      BY <2>1, <3>2 DEF EmType, EmPlaces
  <2>3. Producing(p, r) /\ UNCHANGED lost
    BY <1>1 DEF Again
  <2> HIDE DEF r
  <2> QED
    BY <2>2, <2>3, EmitterType DEF TypeOK
<1>2. CASE ~(em[p].retries + 1 < CasRetries)
  BY <1>2, DropType DEF Again, LossKinds
<1> QED
  BY <1>1, <1>2

LEMMA ConsumerType ==
  ASSUME TypeOK, NEW c \in Consumers, NEW r \in CoType, Consuming(c, r)
  PROVE  co' \in [Consumers -> CoType]
BY Types DEF Consuming

\* The rest of the type invariant, apart from the two records.
RestType ==
  /\ enqueue_position \in Positions /\ dequeue_position \in Positions
  /\ enabled \in BOOLEAN
  /\ sequence \in [Slots -> Positions]
  /\ payload \in [Slots -> Nat]
  /\ stamp \in [Slots -> Positions]
  /\ lost \in [LossKinds -> Nat]
  /\ consumed_total \in Nat /\ offered \in 0 .. MaxEmits

LEMMA TypeParts ==
  TypeOK <=> /\ RestType
             /\ em \in [Producers -> EmType]
             /\ co \in [Consumers -> CoType]
BY DEF TypeOK, RestType, EmType, CoType, EmPlaces, CoPlaces

LEMMA EmitCallType ==
  ASSUME TypeOK, NEW p \in Producers, EmitCall(p)
  PROVE  RestType' /\ em' \in [Producers -> EmType] /\ co' \in [Consumers -> CoType]
<1>1. offered' \in 0 .. MaxEmits /\ offered' \in Nat
  BY Numbers DEF EmitCall, TypeOK
<1>2. em' \in [Producers -> EmType] /\ lost' \in [LossKinds -> Nat]
  <2>1. CASE enabled
    <3> DEFINE r == [NoEmit EXCEPT !.pc = "position", !.event = offered + 1]
    <3>1. r \in EmType
      BY <1>1, NothingTypes DEF EmType, EmPlaces, EmitCall
    <3>2. Producing(p, r) /\ UNCHANGED lost
      BY <2>1 DEF EmitCall
    <3> HIDE DEF r
    <3> QED
      BY <3>1, <3>2, EmitterType DEF TypeOK
  <2>2. CASE ~enabled
    BY <2>2, DropType DEF EmitCall, LossKinds
  <2> QED
    BY <2>1, <2>2
<1> QED
  BY <1>1, <1>2, TypeParts DEF EmitCall, RestType, ring

LEMMA EmitType ==
  ASSUME TypeOK, NEW p \in Producers, Emit(p)
  PROVE  RestType' /\ em' \in [Producers -> EmType] /\ co' \in [Consumers -> CoType]
<1> DEFINE Moved(place) == [em[p] EXCEPT !.pc = place]
           Seen == [em[p] EXCEPT !.pc = "look", !.position = enqueue_position]
<1>0. em[p] \in EmType /\ em[p].position \in Positions /\ em[p].event \in Nat
  BY Types
<1>1. \A place \in EmPlaces : Moved(place) \in EmType
  BY <1>0 DEF EmType
<1>2. Seen \in EmType
  BY <1>0 DEF EmType, EmPlaces, TypeOK
<1>3. enqueue_position \in Positions
  BY DEF TypeOK
<1> HIDE DEF Moved, Seen
<1>4. CASE EmitPosition(p)
  <2>1. Producing(p, Seen)
    BY <1>4 DEF EmitPosition, Seen
  <2> QED
    BY <1>2, <1>4, <2>1, EmitterType, TypeParts DEF EmitPosition, RestType, ring
<1>5. CASE EmitLook(p)
  <2>1. em' \in [Producers -> EmType] /\ lost' \in [LossKinds -> Nat]
    <3>1. \/ Producing(p, Moved("cas")) /\ UNCHANGED lost
          \/ Drop(p, "full")
          \/ Producing(p, Moved("reload")) /\ UNCHANGED lost
      BY <1>5 DEF EmitLook, Moved
    <3>2. Moved("cas") \in EmType /\ Moved("reload") \in EmType
      BY <1>1 DEF EmPlaces
    <3>3. lost \in [LossKinds -> Nat] /\ "full" \in LossKinds
      BY DEF TypeOK, LossKinds
    <3> QED
      BY <3>1, <3>2, <3>3, EmitterType, DropType
  <2> QED
    BY <1>5, <2>1, TypeParts DEF EmitLook, RestType, ring
<1>6. CASE EmitReload(p)
  <2>1. em' \in [Producers -> EmType] /\ lost' \in [LossKinds -> Nat]
    BY <1>3, <1>6, AgainType DEF EmitReload
  <2> QED
    BY <1>6, <2>1, TypeParts DEF EmitReload, RestType, ring
<1>7. CASE EmitCas(p)
  <2>1. /\ em' \in [Producers -> EmType] /\ lost' \in [LossKinds -> Nat]
        /\ enqueue_position' \in Positions
    <3>1. CASE enqueue_position = em[p].position
      <4>1. Producing(p, Moved("write")) /\ UNCHANGED lost
        BY <1>7, <3>1 DEF EmitCas, Moved
      <4>2. Moved("write") \in EmType
        BY <1>1 DEF EmPlaces
      <4>3. enqueue_position' \in Positions
        BY <1>0, <1>7, <3>1, PlusType DEF EmitCas
      <4> QED
        BY <4>1, <4>2, <4>3, EmitterType DEF TypeOK
    <3>2. CASE enqueue_position # em[p].position
      BY <1>3, <1>7, <3>2, AgainType DEF EmitCas
    <3> QED
      BY <3>1, <3>2
  <2> QED
    BY <1>7, <2>1, TypeParts DEF EmitCas, RestType
<1>8. CASE EmitWrite(p)
  <2>1. Producing(p, Moved("stamp"))
    BY <1>8 DEF EmitWrite, Moved
  <2>2. Moved("stamp") \in EmType
    BY <1>1 DEF EmPlaces
  <2>3. em' \in [Producers -> EmType]
    BY <2>1, <2>2, EmitterType
  <2>4. payload' \in [Slots -> Nat]
    BY <1>0, <1>8 DEF EmitWrite, TypeOK
  <2> QED
    BY <1>8, <2>3, <2>4, TypeParts DEF EmitWrite, RestType
<1>9. CASE EmitStamp(p)
  <2>1. Producing(p, Moved("publish"))
    BY <1>9 DEF EmitStamp, Moved
  <2>2. Moved("publish") \in EmType
    BY <1>1 DEF EmPlaces
  <2>3. em' \in [Producers -> EmType]
    BY <2>1, <2>2, EmitterType
  <2>4. stamp' \in [Slots -> Positions]
    BY <1>0, <1>9 DEF EmitStamp, TypeOK
  <2> QED
    BY <1>9, <2>3, <2>4, TypeParts DEF EmitStamp, RestType
<1>10. CASE EmitPublish(p)
  <2>1. em' \in [Producers -> EmType]
    BY <1>10, NothingTypes, EmitterType DEF EmitPublish
  <2>2. Plus(em[p].position, 1) \in Positions
    BY <1>0, PlusType
  <2>3. sequence' \in [Slots -> Positions]
    BY <1>10, <2>2 DEF EmitPublish, TypeOK
  <2> QED
    BY <1>10, <2>1, <2>3, TypeParts DEF EmitPublish, RestType
<1> QED
  BY <1>4, <1>5, <1>6, <1>7, <1>8, <1>9, <1>10 DEF Emit

LEMMA DrainType ==
  ASSUME TypeOK, NEW c \in Consumers, Drain(c)
  PROVE  RestType' /\ em' \in [Producers -> EmType] /\ co' \in [Consumers -> CoType]
<1>0. /\ co[c] \in CoType /\ co[c].position \in Positions
      /\ co[c].consumed \in 0 .. DrainLimit - 1
  BY Types DEF CoType
<1>1. dequeue_position \in Positions /\ DrainLimit \in Nat
  BY RingAssumption DEF TypeOK
<1>2. CASE DrainPosition(c)
  <2> DEFINE r == [co[c] EXCEPT !.pc = "look", !.position = dequeue_position]
  <2>1. r \in CoType
    BY <1>0, <1>1 DEF CoType, CoPlaces
  <2>2. Consuming(c, r)
    BY <1>2 DEF DrainPosition
  <2> HIDE DEF r
  <2>3. co' \in [Consumers -> CoType]
    BY <2>1, <2>2, ConsumerType
  <2> QED
    BY <1>2, <2>3, TypeParts DEF DrainPosition, RestType, ring
<1>3. CASE DrainLook(c)
  <2> DEFINE r == [co[c] EXCEPT !.pc = "cas"]
  <2>1. r \in CoType
    BY <1>0 DEF CoType, CoPlaces
  <2>2. Consuming(c, r) \/ Consuming(c, NoConsume)
    BY <1>3 DEF DrainLook
  <2> HIDE DEF r
  <2>3. co' \in [Consumers -> CoType]
    BY <2>1, <2>2, NothingTypes, ConsumerType
  <2> QED
    BY <1>3, <2>3, TypeParts DEF DrainLook, RestType, ring
<1>4. CASE DrainCas(c)
  <2> DEFINE r == [co[c] EXCEPT !.pc = "copy"]
  <2>1. r \in CoType
    BY <1>0 DEF CoType, CoPlaces
  <2>2. Consuming(c, r) \/ Consuming(c, NoConsume)
    BY <1>4 DEF DrainCas
  <2> HIDE DEF r
  <2>3. co' \in [Consumers -> CoType]
    BY <2>1, <2>2, NothingTypes, ConsumerType
  <2>4. Plus(co[c].position, 1) \in Positions
    BY <1>0, PlusType
  <2>5. dequeue_position' \in Positions
    BY <1>1, <1>4, <2>4 DEF DrainCas
  <2> QED
    BY <1>4, <2>3, <2>5, TypeParts DEF DrainCas, RestType
<1>5. CASE DrainCopy(c)
  <2> DEFINE r == [co[c] EXCEPT !.pc = "copy_rest", !.stamp = stamp[Slot(co[c].position)]]
  <2>1. stamp[Slot(co[c].position)] \in Positions
    BY Types DEF TypeOK
  <2>2. r \in CoType
    BY <1>0, <2>1 DEF CoType, CoPlaces
  <2>3. Consuming(c, r)
    BY <1>5 DEF DrainCopy
  <2> HIDE DEF r
  <2>4. co' \in [Consumers -> CoType]
    BY <2>2, <2>3, ConsumerType
  <2> QED
    BY <1>5, <2>4, TypeParts DEF DrainCopy, RestType, ring
<1>6. CASE DrainCopyRest(c)
  <2> DEFINE r == [co[c] EXCEPT !.pc = "release", !.event = payload[Slot(co[c].position)]]
  <2>1. payload[Slot(co[c].position)] \in Nat
    BY Types DEF TypeOK
  <2>2. r \in CoType
    BY <1>0, <2>1 DEF CoType, CoPlaces
  <2>3. Consuming(c, r)
    BY <1>6 DEF DrainCopyRest
  <2> HIDE DEF r
  <2>4. co' \in [Consumers -> CoType]
    BY <2>2, <2>3, ConsumerType
  <2> QED
    BY <1>6, <2>4, TypeParts DEF DrainCopyRest, RestType, ring
<1>7. CASE DrainRelease(c)
  <2> DEFINE n == co[c].consumed + 1
             r == [NoConsume EXCEPT !.consumed = n]
  <2>1. n < DrainLimit => n \in 0 .. DrainLimit - 1
    BY <1>0, <1>1
  <2>2. n < DrainLimit => r \in CoType
    BY <2>1, NothingTypes DEF CoType
  <2>3. IF n < DrainLimit THEN Consuming(c, r) ELSE Consuming(c, NoConsume)
    BY <1>7 DEF DrainRelease
  <2> HIDE DEF r, n
  <2>4. co' \in [Consumers -> CoType]
    BY <2>2, <2>3, NothingTypes, ConsumerType
  <2>5. Plus(co[c].position, Capacity) \in Positions
    BY <1>0, PlusType, Numbers
  <2>6. sequence' \in [Slots -> Positions]
    BY <1>7, <2>5 DEF DrainRelease, TypeOK
  <2>7. consumed_total' \in Nat
    BY <1>7 DEF DrainRelease, TypeOK
  <2> QED
    BY <1>7, <2>4, <2>6, <2>7, TypeParts DEF DrainRelease, RestType
<1> QED
  BY <1>2, <1>3, <1>4, <1>5, <1>6, <1>7 DEF Drain

LEMMA NextType == TypeOK /\ [Next]_vars => TypeOK'
<1> SUFFICES ASSUME TypeOK, [Next]_vars PROVE TypeOK'
  OBVIOUS
<1>1. CASE UNCHANGED vars
  BY <1>1 DEF TypeOK, vars
<1>2. ASSUME NEW p \in Producers, EmitCall(p) \/ Emit(p) PROVE TypeOK'
  <2>1. RestType' /\ em' \in [Producers -> EmType] /\ co' \in [Consumers -> CoType]
    BY <1>2, EmitCallType, EmitType
  <2> QED
    BY <2>1 DEF TypeOK, RestType, EmType, CoType, EmPlaces, CoPlaces
<1>3. ASSUME NEW c \in Consumers, Drain(c) PROVE TypeOK'
  <2>1. RestType' /\ em' \in [Producers -> EmType] /\ co' \in [Consumers -> CoType]
    BY <1>3, DrainType
  <2> QED
    BY <2>1 DEF TypeOK, RestType, EmType, CoType, EmPlaces, CoPlaces
<1>4. CASE Enable \/ Disable
  BY <1>4 DEF Enable, Disable, ring, TypeOK
<1> QED
  BY <1>1, <1>2, <1>3, <1>4 DEF Next

-----------------------------------------------------------------------------
(***************************************************************************)
(* What the invariant says of a state.                                     *)
(***************************************************************************)
LEMMA SetsAreFinite ==
  /\ IsFiniteSet({p \in Producers : Trying(p)})
  /\ Cardinality({p \in Producers : Trying(p)}) \in Nat
  /\ IsFiniteSet({c \in Consumers : Reading(c)})
  /\ Cardinality({c \in Consumers : Reading(c)}) \in Nat
<1>1. IsFiniteSet(Producers) /\ IsFiniteSet(Consumers)
  BY RingAssumption
<1>2. /\ {p \in Producers : Trying(p)} \subseteq Producers
      /\ {c \in Consumers : Reading(c)} \subseteq Consumers
  OBVIOUS
<1> QED
  BY <1>1, <1>2, FS_Subset, FS_CardinalityType

\* Every position taken was offered, so no more than MaxEmits are in use.
LEMMA Reach ==
  ASSUME TypeOK, OrderSound, EveryEventAccounted
  PROVE  /\ Taken \in Nat /\ Gone \in Nat /\ offered \in Nat
         /\ Gone <= Taken /\ Taken <= Gone + Capacity
         /\ Taken <= offered /\ offered <= MaxEmits
         /\ Taken + Capacity < Wrap \div 2
<1>1. Taken \in Nat /\ Gone \in Nat
  BY OffType DEF TypeOK, Taken, Gone
<1>2. Sum \in Nat
  BY DEF Sum, TypeOK, LossKinds
<1>3. offered = Sum + Taken + Cardinality({p \in Producers : Trying(p)})
  BY DEF EveryEventAccounted, Taken, Off, Trying
<1>4. Taken <= offered
  BY <1>1, <1>2, <1>3, SetsAreFinite
<1> QED
  BY <1>1, <1>4, Numbers DEF TypeOK, OrderSound

\* A sequence number tells whose turn it is.
LEMMA OpenByNumber ==
  ASSUME TypeOK, NEW s \in Slots, SlotSound(s), NEW x \in Positions, Slot(x) = s,
         sequence[s] = x
  PROVE  Open(s, x)
<1>1. PICK y \in Positions : Slot(y) = s /\ (Open(s, y) \/ Filled(s, y))
  BY DEF SlotSound
<1>2. CASE Open(s, y)
  BY <1>2 DEF Open
<1>3. CASE Filled(s, y)
  <2>1. Off(x) = Off(y) + 1
    BY <1>3 DEF Filled
  <2>2. Off(x) \in Nat /\ Off(y) \in Nat
    BY OffType
  <2>3. Off(y) + Capacity <= Off(x)
    BY <1>1, <2>1, <2>2, SlotApart
  <2> QED
    BY <2>1, <2>2, <2>3, Numbers
<1> QED
  BY <1>1, <1>2, <1>3

LEMMA FilledByNumber ==
  ASSUME TypeOK, NEW s \in Slots, SlotSound(s), NEW x \in Positions, Slot(x) = s,
         Off(sequence[s]) = Off(x) + 1
  PROVE  Filled(s, x)
<1>1. PICK y \in Positions : Slot(y) = s /\ (Open(s, y) \/ Filled(s, y))
  BY DEF SlotSound
<1>2. Off(x) \in Nat /\ Off(y) \in Nat
  BY OffType
<1>3. CASE Open(s, y)
  <2>1. Off(y) = Off(x) + 1
    BY <1>3 DEF Open
  <2>2. Off(x) + Capacity <= Off(y)
    BY <1>1, <1>2, <2>1, SlotApart
  <2> QED
    BY <1>2, <2>1, <2>2, Numbers
<1>4. CASE Filled(s, y)
  <2>1. Off(y) = Off(x)
    BY <1>2, <1>4 DEF Filled
  <2>2. x = y
    BY <2>1, OffInjective
  <2> QED
    BY <1>4, <2>2
<1> QED
  BY <1>1, <1>3, <1>4

\* No sequence number is as far as half the wrap.
LEMMA NumberBound ==
  ASSUME RingSound, NEW s \in Slots
  PROVE  /\ sequence[s] \in Positions /\ Off(sequence[s]) \in Nat
         /\ Off(sequence[s]) < Wrap \div 2
<1>1. /\ Taken \in Nat /\ Gone \in Nat /\ Gone <= Taken
      /\ Taken + Capacity < Wrap \div 2
  BY Reach DEF RingSound
<1>2. PICK y \in Positions : Slot(y) = s /\ (Open(s, y) \/ Filled(s, y))
  BY DEF RingSound, SlotSound
<1>3. sequence[s] \in Positions /\ Off(sequence[s]) \in Nat /\ Off(y) \in Nat
  BY Types, OffType DEF RingSound
<1>4. CASE Open(s, y)
  BY <1>1, <1>3, <1>4, Numbers DEF Open
<1>5. CASE Filled(s, y)
  BY <1>1, <1>3, <1>5, Numbers DEF Filled
<1> QED
  BY <1>2, <1>3, <1>4, <1>5

\* Distances of the positions a step computes.
LEMMA NextPosition ==
  ASSUME NEW x \in Positions, Off(x) + Capacity < Wrap \div 2
  PROVE  /\ Plus(x, 1) \in Positions /\ Off(Plus(x, 1)) = Off(x) + 1
         /\ Plus(x, Capacity) \in Positions /\ Off(Plus(x, Capacity)) = Off(x) + Capacity
         /\ Slot(Plus(x, Capacity)) = Slot(x)
<1>1. Off(x) \in Nat
  BY OffType
<1>2. Off(x) + 1 < Wrap /\ Off(x) + Capacity < Wrap
  BY <1>1, Numbers
<1>3. /\ Plus(x, 1) \in Positions /\ Off(Plus(x, 1)) = Off(x) + 1
      /\ Plus(x, Capacity) \in Positions /\ Off(Plus(x, Capacity)) = Off(x) + Capacity
  BY <1>2, PlusOff, Numbers
<1> QED
  BY <1>3, SlotNext

\* Nobody who uses a slot shares it: their sequence numbers would differ.
LEMMA UsersApart ==
  ASSUME RingSound
  PROVE  /\ \A p, q \in Producers : p # q /\ Writing(p) /\ Writing(q) =>
              Slot(em[p].position) # Slot(em[q].position)
         /\ \A c, d \in Consumers : c # d /\ Reading(c) /\ Reading(d) =>
              Slot(co[c].position) # Slot(co[d].position)
         /\ \A p \in Producers, c \in Consumers : Writing(p) /\ Reading(c) =>
              Slot(em[p].position) # Slot(co[c].position)
<1>0. TypeOK /\ TakenOnce
  BY DEF RingSound
<1>1. \A p \in Producers : Writing(p) =>
        em[p].position \in Positions /\ sequence[Slot(em[p].position)] = em[p].position
  BY <1>0, Types DEF RingSound, ProducerSound
<1>2. \A c \in Consumers : Reading(c) =>
        /\ co[c].position \in Positions
        /\ Off(sequence[Slot(co[c].position)]) = Off(co[c].position) + 1
  BY <1>0, Types DEF RingSound, ConsumerSound
<1>3. ASSUME NEW p \in Producers, NEW q \in Producers, p # q, Writing(p), Writing(q)
      PROVE  Slot(em[p].position) # Slot(em[q].position)
  BY <1>0, <1>1, <1>3 DEF TakenOnce
<1>4. ASSUME NEW c \in Consumers, NEW d \in Consumers, c # d, Reading(c), Reading(d),
             Slot(co[c].position) = Slot(co[d].position)
      PROVE  FALSE
  <2>1. Off(co[c].position) \in Nat /\ Off(co[d].position) \in Nat
    BY <1>2, <1>4, OffType
  <2>2. Off(co[c].position) = Off(co[d].position)
    BY <1>2, <1>4, <2>1
  <2>3. co[c].position = co[d].position
    BY <1>2, <1>4, <2>2, OffInjective
  <2> QED
    BY <1>0, <1>4, <2>3 DEF TakenOnce
<1>5. ASSUME NEW p \in Producers, NEW c \in Consumers, Writing(p), Reading(c),
             Slot(em[p].position) = Slot(co[c].position)
      PROVE  FALSE
  <2> DEFINE x == co[c].position
             y == em[p].position
  <2>1. x \in Positions /\ y \in Positions /\ Slot(x) = Slot(y) /\ Off(y) = Off(x) + 1
    BY <1>1, <1>2, <1>5
  <2> HIDE DEF x, y
  <2>2. Off(x) \in Nat /\ Off(x) < Off(y)
    BY <2>1, OffType
  <2>3. Off(x) + Capacity <= Off(y)
    BY <2>1, <2>2, SlotApart
  <2> QED
    BY <2>1, <2>2, <2>3, Numbers
<1> QED
  BY <1>3, <1>4, <1>5

\* RingInv is what a reader of the ring asks of it.
LEMMA SoundIsRingInv == RingSound => RingInv
<1> SUFFICES ASSUME RingSound PROVE RingInv
  OBVIOUS
<1>1. TypeOK /\ EveryEventAccounted
  BY DEF RingSound
<1>2. SlotHasOneUser
  BY UsersApart DEF SlotHasOneUser
<1>3. CopyIntact
  <2> SUFFICES ASSUME NEW c \in Consumers, co[c].pc = "release"
               PROVE  /\ co[c].stamp = co[c].position
                      /\ co[c].event = payload[Slot(co[c].position)]
                      /\ co[c].event # 0
    BY DEF CopyIntact
  <2> DEFINE x == co[c].position
             s == Slot(x)
  <2>1. /\ co[c].stamp = x /\ co[c].event = payload[s]
        /\ Off(sequence[s]) = Off(x) + 1
    BY DEF RingSound, ConsumerSound, Reading
  <2>2. x \in Positions /\ s \in Slots
    BY <1>1, Types
  <2>3. SlotSound(s)
    BY <2>2 DEF RingSound
  <2> HIDE DEF x
  <2>4. Filled(s, x)
    BY <1>1, <2>1, <2>2, <2>3, FilledByNumber
  <2>5. payload[s] \in 1 .. offered /\ offered \in Nat
    BY <1>1, <2>4, Numbers DEF Filled, TypeOK
  <2>6. payload[s] # 0
    BY <2>5
  <2> QED
    BY <2>1, <2>6 DEF x
<1> QED
  BY <1>1, <1>2, <1>3 DEF RingInv

-----------------------------------------------------------------------------
(***************************************************************************)
(* Steps that leave the ring as it is.                                     *)
(***************************************************************************)
Core ==
  /\ OrderSound
  /\ \A s \in Slots : SlotSound(s)
  /\ \A p \in Producers : ProducerSound(p)
  /\ \A c \in Consumers : ConsumerSound(c)
  /\ TakenOnce

LEMMA QuietRing ==
  ASSUME RingSound, UNCHANGED ring, offered' \in Nat, offered <= offered'
  PROVE  /\ OrderSound'
         /\ \A s \in Slots : SlotSound(s)'
         /\ \A q \in Producers : em'[q] = em[q] => ProducerSound(q)'
         /\ \A c \in Consumers : co'[c] = co[c] => ConsumerSound(c)'
<1>0. offered \in Nat /\ 1 .. offered \subseteq 1 .. offered'
  BY Reach DEF RingSound
<1>1. OrderSound'
  BY DEF RingSound, OrderSound, Taken, Gone, ring
<1>2. ASSUME NEW s \in Slots PROVE SlotSound(s)'
  <2>1. PICK x \in Positions : Slot(x) = s /\ (Open(s, x) \/ Filled(s, x))
    BY DEF RingSound, SlotSound
  <2>2. Open(s, x) => Open(s, x)'
    BY DEF Open, Gone, ring
  <2>3. Filled(s, x) => Filled(s, x)'
    BY <1>0 DEF Filled, Taken, ring
  <2> QED
    BY <2>1, <2>2, <2>3 DEF SlotSound
<1>3. ASSUME NEW q \in Producers, em'[q] = em[q] PROVE ProducerSound(q)'
  BY <1>0, <1>3 DEF RingSound, ProducerSound, Writing, Taken, ring
<1>4. ASSUME NEW c \in Consumers, co'[c] = co[c] PROVE ConsumerSound(c)'
  BY <1>4 DEF RingSound, ConsumerSound, Reading, Gone, ring
<1> QED
  BY <1>1, <1>2, <1>3, <1>4

LEMMA OnceKept ==
  ASSUME TakenOnce,
         \A q \in Producers : Writing(q)' => Writing(q) /\ em'[q].position = em[q].position,
         \A c \in Consumers : Reading(c)' => Reading(c) /\ co'[c].position = co[c].position
  PROVE  TakenOnce'
BY DEF TakenOnce

\* A producer that takes no position.
LEMMA QuietProducer ==
  ASSUME RingSound, UNCHANGED <<ring, co>>, offered' \in Nat, offered <= offered',
         NEW p \in Producers, NEW r \in EmType, Producing(p, r),
         r.pc \in {"idle", "position", "look", "reload", "cas"},
         r.pc # "idle" => r.event \in 1 .. offered',
         r.pc \in {"look", "reload", "cas"} => Off(r.position) <= Taken,
         r.pc = "cas" /\ r.position = enqueue_position => sequence[Slot(r.position)] = r.position
  PROVE  Core'
<1>1. /\ em'[p] = r
      /\ \A q \in Producers : q # p => em'[q] = em[q]
  BY Types DEF RingSound, Producing
<1>2. ProducerSound(p)'
  BY <1>1 DEF ProducerSound, Writing, Taken, ring
<1>3. \A q \in Producers : ProducerSound(q)'
  BY <1>1, <1>2, QuietRing
<1>4. \A c \in Consumers : ConsumerSound(c)'
  BY QuietRing
<1>5. TakenOnce'
  <2>1. \A q \in Producers : Writing(q)' => Writing(q) /\ em'[q].position = em[q].position
    BY <1>1 DEF Writing
  <2>2. \A c \in Consumers : Reading(c)' => Reading(c) /\ co'[c].position = co[c].position
    BY DEF Reading
  <2> QED
    BY <2>1, <2>2, OnceKept DEF RingSound
<1> QED
  BY <1>3, <1>4, <1>5, QuietRing DEF Core

LEMMA QuietDrop ==
  ASSUME RingSound, UNCHANGED <<ring, co>>, offered' \in Nat, offered <= offered',
         NEW p \in Producers, NEW k \in LossKinds, Drop(p, k)
  PROVE  Core'
<1>1. Producing(p, NoEmit) /\ NoEmit \in EmType /\ NoEmit.pc = "idle"
  BY NothingTypes DEF Drop, NoEmit
<1> QED
  BY <1>1, QuietProducer

LEMMA QuietAgain ==
  ASSUME RingSound, UNCHANGED <<ring, co, offered>>,
         NEW p \in Producers, em[p].pc # "idle", Again(p, enqueue_position)
  PROVE  Core'
<1> DEFINE r == [em[p] EXCEPT !.pc = "look", !.position = enqueue_position, !.retries = @ + 1]
<1>0. /\ em[p] \in EmType /\ enqueue_position \in Positions
      /\ offered' \in Nat /\ offered <= offered'
  BY Types, Numbers DEF RingSound, TypeOK
<1>1. CASE em[p].retries + 1 < CasRetries
  <2>1. Producing(p, r)
    BY <1>1 DEF Again
  <2>2. r \in EmType
    <3>1. em[p].retries \in 0 .. CasRetries - 1
      BY <1>0 DEF EmType
    <3>2. em[p].retries + 1 \in 0 .. CasRetries - 1
      BY <1>1, <3>1, RingAssumption
    <3> QED
      BY <1>0, <3>2 DEF EmType, EmPlaces
  <2>3. r.pc = "look" /\ r.event = em[p].event /\ r.position = enqueue_position
    BY <1>0 DEF EmType
  <2>4. em[p].event \in 1 .. offered'
    BY DEF RingSound, ProducerSound
  <2>5. Off(enqueue_position) <= Taken
    BY <1>0, OffType DEF Taken
  <2> HIDE DEF r
  <2> QED
    BY <1>0, <2>1, <2>2, <2>3, <2>4, <2>5, QuietProducer
<1>2. CASE ~(em[p].retries + 1 < CasRetries)
  BY <1>0, <1>2, QuietDrop DEF Again, LossKinds
<1> QED
  BY <1>1, <1>2

LEMMA EmitCallKeeps ==
  ASSUME RingSound, NEW p \in Producers, EmitCall(p)
  PROVE  Core'
<1>0. /\ offered \in Nat /\ offered' = offered + 1 /\ UNCHANGED <<ring, co>>
  BY Numbers DEF RingSound, TypeOK, EmitCall
<1>1. offered' \in Nat /\ offered <= offered'
  BY <1>0
<1>2. CASE enabled
  <2> DEFINE r == [NoEmit EXCEPT !.pc = "position", !.event = offered + 1]
  <2>1. Producing(p, r)
    BY <1>2 DEF EmitCall
  <2>2. r \in EmType
    BY <1>0, <1>1, NothingTypes DEF EmType, EmPlaces
  <2>3. r.pc = "position" /\ r.event \in 1 .. offered'
    BY <1>0 DEF NoEmit
  <2> HIDE DEF r
  <2> QED
    BY <1>0, <1>1, <2>1, <2>2, <2>3, QuietProducer
<1>3. CASE ~enabled
  BY <1>0, <1>1, <1>3, QuietDrop DEF EmitCall, LossKinds
<1> QED
  BY <1>2, <1>3

LEMMA EmitQuietKeeps ==
  ASSUME RingSound, NEW p \in Producers,
         \/ EmitPosition(p) \/ EmitLook(p) \/ EmitReload(p)
         \/ EmitCas(p) /\ enqueue_position # em[p].position
  PROVE  Core'
<1>0. /\ TypeOK /\ em[p] \in EmType /\ em[p].position \in Positions
      /\ enqueue_position \in Positions
      /\ offered \in Nat /\ ProducerSound(p) /\ OrderSound
  BY Types, Reach DEF RingSound, TypeOK
<1>1. UNCHANGED <<ring, co, offered>>
  BY DEF EmitPosition, EmitLook, EmitReload, EmitCas, Again, ring
<1>2. offered' \in Nat /\ offered <= offered'
  BY <1>0, <1>1
<1>3. em[p].pc # "idle" /\ em[p].event \in 1 .. offered'
  BY <1>0, <1>1 DEF EmitPosition, EmitLook, EmitReload, EmitCas, ProducerSound
<1>4. CASE EmitPosition(p)
  <2> DEFINE r == [em[p] EXCEPT !.pc = "look", !.position = enqueue_position]
  <2>1. Producing(p, r)
    BY <1>4 DEF EmitPosition
  <2>2. r \in EmType /\ r.pc = "look" /\ r.position = enqueue_position /\ r.event = em[p].event
    BY <1>0 DEF EmType, EmPlaces
  <2>3. Off(enqueue_position) <= Taken
    BY <1>0, OffType DEF Taken
  <2> HIDE DEF r
  <2> QED
    BY <1>1, <1>2, <1>3, <2>1, <2>2, <2>3, QuietProducer
<1>5. CASE EmitLook(p)
  <2> DEFINE x == em[p].position
             d == Difference(sequence[Slot(x)], x)
             r == [em[p] EXCEPT !.pc = "cas"]
             q == [em[p] EXCEPT !.pc = "reload"]
  <2>1. Off(x) <= Taken /\ em[p].pc = "look"
    BY <1>0, <1>5 DEF ProducerSound, EmitLook
  <2>2. \/ d = 0 /\ Producing(p, r)
        \/ Drop(p, "full")
        \/ Producing(p, q)
    BY <1>5 DEF EmitLook
  <2>3. CASE d = 0 /\ Producing(p, r)
    <3>1. r \in EmType /\ r.pc = "cas" /\ r.position = x /\ r.event = em[p].event
      BY <1>0 DEF EmType, EmPlaces
    <3>2. ASSUME x = enqueue_position PROVE sequence[Slot(x)] = x
      <4> DEFINE s == Slot(x)
      <4>1. s \in Slots /\ sequence[s] \in Positions /\ x \in Positions
        BY <1>0, Types
      <4>3. /\ Taken \in Nat /\ Taken + Capacity < Wrap \div 2 /\ Off(x) = Taken
        BY <1>0, <3>2, Reach DEF RingSound, Taken
      <4>4. Off(x) \in Nat /\ Off(sequence[s]) \in Nat
        BY <4>1, OffType
      <4>5. Off(sequence[s]) < Wrap \div 2
        BY <4>1, NumberBound
      <4>6. Off(x) < Wrap \div 2
        BY <4>3, <4>4, Numbers
      <4> HIDE DEF s, x
      <4>7. Difference(sequence[s], x) = Off(sequence[s]) - Off(x)
        BY <4>1, <4>5, <4>6, DifferenceOff
      <4>8. Off(sequence[s]) = Off(x)
        BY <2>3, <4>4, <4>7 DEF s
      <4> QED
        BY <4>1, <4>8, OffInjective DEF s
    <3> HIDE DEF r, d, x
    <3> QED
      BY <1>1, <1>2, <1>3, <2>1, <2>3, <3>1, <3>2, QuietProducer
  <2>4. CASE Drop(p, "full")
    BY <1>1, <1>2, <2>4, QuietDrop DEF LossKinds
  <2>5. CASE Producing(p, q)
    <3>1. q \in EmType /\ q.pc = "reload" /\ q.position = x /\ q.event = em[p].event
      BY <1>0 DEF EmType, EmPlaces
    <3> HIDE DEF q, x
    <3> QED
      BY <1>1, <1>2, <1>3, <2>1, <2>5, <3>1, QuietProducer
  <2> QED
    BY <2>2, <2>3, <2>4, <2>5
<1>6. CASE EmitReload(p)
  BY <1>1, <1>3, <1>6, QuietAgain DEF EmitReload
<1>7. CASE EmitCas(p) /\ enqueue_position # em[p].position
  BY <1>1, <1>3, <1>7, QuietAgain DEF EmitCas
<1> QED
  BY <1>4, <1>5, <1>6, <1>7

-----------------------------------------------------------------------------
(***************************************************************************)
(* A producer takes a position, fills its slot and publishes it.           *)
(***************************************************************************)
LEMMA EmitTakeKeeps ==
  ASSUME RingSound, NEW p \in Producers, EmitCas(p), enqueue_position = em[p].position
  PROVE  Core' /\ Taken' = Taken + 1
<1> DEFINE x == em[p].position
           r == [em[p] EXCEPT !.pc = "write"]
<1>0. /\ TypeOK /\ em[p] \in EmType /\ x \in Positions /\ Slot(x) \in Slots
      /\ ProducerSound(p) /\ OrderSound /\ TakenOnce
  BY Types DEF RingSound
<1>1. /\ Taken \in Nat /\ Gone \in Nat /\ Gone <= Taken /\ Taken <= Gone + Capacity
      /\ Taken + Capacity < Wrap \div 2 /\ Off(x) = Taken
  BY Reach DEF RingSound, Taken
<1>2. /\ em[p].pc = "cas" /\ enqueue_position' = Plus(x, 1) /\ Producing(p, r)
      /\ UNCHANGED <<dequeue_position, sequence, payload, stamp, offered, co>>
  BY DEF EmitCas
<1>3. sequence[Slot(x)] = x
  BY <1>0, <1>2 DEF ProducerSound
<1>4. /\ em'[p].pc = "write" /\ em'[p].position = x /\ em'[p].event = em[p].event
      /\ \A q \in Producers : q # p => em'[q] = em[q]
  BY <1>0, <1>2, Types DEF Producing, EmType
<1>5. Taken' = Taken + 1
  <2>1. Off(x) + Capacity < Wrap \div 2
    BY <1>1
  <2>2. Off(Plus(x, 1)) = Off(x) + 1
    BY <1>0, <2>1, NextPosition
  <2> QED
    BY <1>1, <1>2, <2>2 DEF Taken
<1>6. Gone' = Gone
  BY <1>2 DEF Gone
<1> HIDE DEF x, r
<1>7. OrderSound'
  <2>1. Open(Slot(x), x)
    BY <1>0, <1>3, OpenByNumber DEF RingSound
  <2>2. Taken < Gone + Capacity
    BY <1>1, <2>1 DEF Open
  <2> QED
    BY <1>1, <1>5, <1>6, <2>2, Numbers DEF OrderSound
<1>8. ASSUME NEW s \in Slots PROVE SlotSound(s)'
  <2>1. PICK y \in Positions : Slot(y) = s /\ (Open(s, y) \/ Filled(s, y))
    BY DEF RingSound, SlotSound
  <2>2. CASE Open(s, y)
    <3>1. Open(s, y)'
      BY <1>2, <1>6, <2>2 DEF Open
    <3> QED
      BY <2>1, <3>1 DEF SlotSound
  <2>3. CASE Filled(s, y)
    <3>1. Off(y) \in Nat
      BY OffType
    <3>2. Taken # Off(y) + Capacity
      <4> SUFFICES ASSUME Taken = Off(y) + Capacity PROVE FALSE
        OBVIOUS
      <4>1. Slot(y) = Slot(x)
        BY <1>0, <1>1, SlotNext
      <4>2. Off(sequence[s]) = Taken
        BY <1>1, <1>3, <2>1, <4>1
      <4>3. Off(sequence[s]) = Off(y) + 1
        BY <2>3 DEF Filled
      <4> QED
        BY <3>1, <4>2, <4>3, Numbers
    <3>3. Off(y) < Taken + 1 /\ Taken + 1 <= Off(y) + Capacity
      BY <1>1, <2>3, <3>1, <3>2, Numbers DEF Filled
    <3>4. Filled(s, y)'
      BY <1>2, <1>5, <2>3, <3>3 DEF Filled
    <3> QED
      BY <2>1, <3>4 DEF SlotSound
  <2> QED
    BY <2>1, <2>2, <2>3
<1>9. ASSUME NEW q \in Producers PROVE ProducerSound(q)'
  <2>1. CASE q = p
    <3>1. em[p].event \in 1 .. offered
      BY <1>0, <1>2 DEF ProducerSound
    <3>2. Off(x) < Taken'
      BY <1>1, <1>5
    <3> QED
      BY <1>2, <1>3, <1>4, <2>1, <3>1, <3>2 DEF ProducerSound, Writing
  <2>2. CASE q # p
    <3> DEFINE y == em[q].position
    <3>1. ProducerSound(q) /\ em'[q] = em[q] /\ y \in Positions
      BY <1>0, <1>4, <2>2, Types DEF RingSound
    <3>2. Off(y) \in Nat
      BY <3>1, OffType
    <3>3. em[q].pc \in {"look", "reload", "cas"} => Off(y) <= Taken'
      BY <1>1, <1>5, <3>1, <3>2 DEF ProducerSound
    <3>4. em[q].pc = "cas" => y # enqueue_position'
      BY <1>1, <1>5, <3>1, <3>2 DEF ProducerSound, Taken
    <3>5. Writing(q) => Off(y) < Taken'
      BY <1>1, <1>5, <3>1, <3>2 DEF ProducerSound
    <3> QED
      BY <1>2, <3>1, <3>3, <3>4, <3>5 DEF ProducerSound, Writing
  <2> QED
    BY <2>1, <2>2
<1>10. ASSUME NEW c \in Consumers PROVE ConsumerSound(c)'
  BY <1>2, <1>6 DEF RingSound, ConsumerSound, Reading
<1>11. TakenOnce'
  <2>1. ASSUME NEW q \in Producers, q # p, Writing(q) PROVE em[q].position # x
    <3>1. Off(em[q].position) < Taken /\ Off(em[q].position) \in Nat
      BY <1>0, <2>1, Types, OffType DEF RingSound, ProducerSound
    <3> QED
      BY <1>1, <3>1
  <2> QED
    BY <1>0, <1>2, <1>4, <2>1 DEF TakenOnce, Writing, Reading
<1> QED
  BY <1>5, <1>7, <1>8, <1>9, <1>10, <1>11 DEF Core

\* A producer that writes its slot disturbs nobody: the slot is open.
LEMMA WriterSlot ==
  ASSUME RingSound, NEW p \in Producers, Writing(p)
  PROVE  /\ em[p].position \in Positions /\ Slot(em[p].position) \in Slots
         /\ sequence[Slot(em[p].position)] = em[p].position
         /\ Open(Slot(em[p].position), em[p].position)
         /\ Off(em[p].position) \in Nat /\ Off(em[p].position) < Taken
<1>1. /\ em[p].position \in Positions /\ Slot(em[p].position) \in Slots
      /\ sequence[Slot(em[p].position)] = em[p].position
      /\ Off(em[p].position) < Taken
  BY Types DEF RingSound, ProducerSound
<1>2. Open(Slot(em[p].position), em[p].position)
  BY <1>1, OpenByNumber DEF RingSound
<1> QED
  BY <1>1, <1>2, OffType

LEMMA EmitFillKeeps ==
  ASSUME RingSound, NEW p \in Producers, EmitWrite(p) \/ EmitStamp(p)
  PROVE  Core'
<1> DEFINE x == em[p].position
           t == Slot(x)
<1>0. /\ TypeOK /\ em[p] \in EmType /\ em[p].event \in Nat
      /\ ProducerSound(p) /\ OrderSound /\ TakenOnce /\ Writing(p)
  BY Types DEF RingSound, EmitWrite, EmitStamp, Writing
<1>1. /\ x \in Positions /\ t \in Slots /\ sequence[t] = x /\ Open(t, x)
      /\ Off(x) \in Nat /\ Off(x) < Taken
  BY <1>0, WriterSlot
<1>2. /\ UNCHANGED <<enqueue_position, dequeue_position, sequence, offered, co>>
      /\ \A s \in Slots \ {t} : payload'[s] = payload[s] /\ stamp'[s] = stamp[s]
  BY <1>0 DEF EmitWrite, EmitStamp, TypeOK
<1>3. /\ em'[p].position = x /\ em'[p].event = em[p].event
      /\ em'[p].pc \in {"stamp", "publish"}
      /\ \A q \in Producers : q # p => em'[q] = em[q]
  BY <1>0, Types DEF EmitWrite, EmitStamp, Producing, EmType
<1>4. payload'[t] = em[p].event
  BY <1>0, <1>1 DEF EmitWrite, EmitStamp, TypeOK, ProducerSound
<1>5. em'[p].pc = "publish" => stamp'[t] = x
  <2>1. CASE EmitWrite(p)
    BY <1>0, <2>1, Types DEF EmitWrite, Producing, EmType
  <2>2. CASE EmitStamp(p)
    BY <1>0, <1>1, <2>2 DEF EmitStamp, TypeOK
  <2> QED
    BY <2>1, <2>2
<1>6. Taken' = Taken /\ Gone' = Gone
  BY <1>2 DEF Taken, Gone
<1>7. \A q \in Producers : q # p /\ Writing(q) =>
        Slot(em[q].position) \in Slots \ {t}
  BY <1>0, UsersApart, Types
<1>8. \A c \in Consumers : Reading(c) => Slot(co[c].position) \in Slots \ {t}
  BY <1>0, UsersApart, Types
<1> HIDE DEF x, t
<1>9. OrderSound'
  BY <1>0, <1>6 DEF OrderSound
<1>10. ASSUME NEW s \in Slots PROVE SlotSound(s)'
  <2>1. CASE s = t
    <3>1. PICK y \in Positions : y = x
      BY <1>1
    <3>2. Open(s, y)'
      BY <1>1, <1>2, <1>6, <2>1, <3>1 DEF Open
    <3>3. Slot(y) = s
      BY <2>1, <3>1 DEF t
    <3> QED
      BY <3>2, <3>3 DEF SlotSound
  <2>2. CASE s # t
    <3>1. PICK y \in Positions : Slot(y) = s /\ (Open(s, y) \/ Filled(s, y))
      BY DEF RingSound, SlotSound
    <3>2. Open(s, y) => Open(s, y)'
      BY <1>2, <1>6 DEF Open
    <3>3. Filled(s, y) => Filled(s, y)'
      BY <1>2, <1>6, <2>2 DEF Filled
    <3> QED
      BY <3>1, <3>2, <3>3 DEF SlotSound
  <2> QED
    BY <2>1, <2>2
<1>11. ASSUME NEW q \in Producers PROVE ProducerSound(q)'
  <2>1. CASE q = p
    <3>1. em[p].event \in 1 .. offered
      BY <1>0 DEF ProducerSound, Writing
    <3>2. t = Slot(x)
      BY DEF t
    <3> QED
      BY <1>1, <1>2, <1>3, <1>4, <1>5, <1>6, <2>1, <3>1, <3>2 DEF ProducerSound, Writing
  <2>2. CASE q # p
    <3>1. ProducerSound(q) /\ em'[q] = em[q]
      BY <1>3, <2>2 DEF RingSound
    <3>2. Writing(q) => /\ payload'[Slot(em[q].position)] = payload[Slot(em[q].position)]
                        /\ stamp'[Slot(em[q].position)] = stamp[Slot(em[q].position)]
      BY <1>2, <1>7, <2>2
    <3> QED
      BY <1>2, <1>6, <3>1, <3>2 DEF ProducerSound, Writing
  <2> QED
    BY <2>1, <2>2
<1>12. ASSUME NEW c \in Consumers PROVE ConsumerSound(c)'
  <2>1. Reading(c) => payload'[Slot(co[c].position)] = payload[Slot(co[c].position)]
    BY <1>2, <1>8
  <2> QED
    BY <1>2, <1>6, <2>1 DEF RingSound, ConsumerSound, Reading
<1>13. TakenOnce'
  <2>1. \A q \in Producers : Writing(q)' => Writing(q) /\ em'[q].position = em[q].position
    BY <1>0, <1>3 DEF Writing, x
  <2>2. \A c \in Consumers : Reading(c)' => Reading(c) /\ co'[c].position = co[c].position
    BY <1>2 DEF Reading
  <2> QED
    BY <1>0, <2>1, <2>2, OnceKept
<1> QED
  BY <1>9, <1>10, <1>11, <1>12, <1>13 DEF Core

LEMMA EmitPublishKeeps ==
  ASSUME RingSound, NEW p \in Producers, EmitPublish(p)
  PROVE  Core'
<1> DEFINE x == em[p].position
           t == Slot(x)
<1>0. /\ TypeOK /\ ProducerSound(p) /\ OrderSound /\ TakenOnce /\ Writing(p)
      /\ em[p].pc = "publish"
  BY DEF RingSound, EmitPublish, Writing
<1>1. /\ x \in Positions /\ t \in Slots /\ sequence[t] = x /\ Open(t, x)
      /\ Off(x) \in Nat /\ Off(x) < Taken /\ Slot(x) = t
  BY <1>0, WriterSlot
<1>2. /\ Taken \in Nat /\ Gone \in Nat /\ Taken <= Gone + Capacity
      /\ Taken + Capacity < Wrap \div 2
  BY Reach DEF RingSound
<1>3. /\ UNCHANGED <<enqueue_position, dequeue_position, payload, stamp, offered, co>>
      /\ \A s \in Slots \ {t} : sequence'[s] = sequence[s]
      /\ sequence'[t] = Plus(x, 1)
  BY <1>0, <1>1 DEF EmitPublish, TypeOK
<1>4. /\ em'[p] = NoEmit
      /\ \A q \in Producers : q # p => em'[q] = em[q]
  BY <1>0, Types DEF EmitPublish, Producing
<1>5. Taken' = Taken /\ Gone' = Gone
  BY <1>3 DEF Taken, Gone
<1>6. Off(Plus(x, 1)) = Off(x) + 1
  <2>1. Off(x) + Capacity < Wrap \div 2
    BY <1>1, <1>2, Numbers
  <2> QED
    BY <1>1, <2>1, NextPosition
<1>7. stamp[t] = x /\ payload[t] \in 1 .. offered
  BY <1>0 DEF ProducerSound
<1>8. \A q \in Producers : q # p /\ Writing(q) =>
        Slot(em[q].position) \in Slots \ {t}
  BY <1>0, UsersApart, Types
<1>9. \A c \in Consumers : Reading(c) => Slot(co[c].position) \in Slots \ {t}
  BY <1>0, UsersApart, Types
<1> HIDE DEF x, t
<1>10. OrderSound'
  BY <1>0, <1>5 DEF OrderSound
<1>11. ASSUME NEW s \in Slots PROVE SlotSound(s)'
  <2>1. CASE s = t
    <3>1. Taken <= Off(x) + Capacity
      BY <1>1, <1>2, Numbers DEF Open
    <3>2. PICK y \in Positions : y = x
      BY <1>1
    <3>3. Filled(s, y)'
      BY <1>1, <1>3, <1>5, <1>6, <1>7, <2>1, <3>1, <3>2 DEF Filled
    <3> QED
      BY <1>1, <2>1, <3>2, <3>3 DEF SlotSound
  <2>2. CASE s # t
    <3>1. PICK y \in Positions : Slot(y) = s /\ (Open(s, y) \/ Filled(s, y))
      BY DEF RingSound, SlotSound
    <3>2. Open(s, y) => Open(s, y)'
      BY <1>3, <1>5, <2>2 DEF Open
    <3>3. Filled(s, y) => Filled(s, y)'
      BY <1>3, <1>5, <2>2 DEF Filled
    <3> QED
      BY <3>1, <3>2, <3>3 DEF SlotSound
  <2> QED
    BY <2>1, <2>2
<1>12. ASSUME NEW q \in Producers PROVE ProducerSound(q)'
  <2>1. CASE q = p
    BY <1>4, <2>1 DEF ProducerSound, Writing, NoEmit
  <2>2. CASE q # p
    <3> DEFINE y == em[q].position
    <3>1. ProducerSound(q) /\ em'[q] = em[q] /\ y \in Positions /\ Slot(y) \in Slots
      BY <1>0, <1>4, <2>2, Types DEF RingSound
    <3>2. ASSUME em[q].pc = "cas", y = enqueue_position PROVE sequence'[Slot(y)] = y
      <4>1. sequence[Slot(y)] = y /\ Off(y) = Taken
        BY <3>1, <3>2 DEF ProducerSound, Taken
      <4>2. Slot(y) # t
        BY <1>1, <1>2, <4>1
      <4> QED
        BY <1>3, <3>1, <4>1, <4>2
    <3>3. Writing(q) => sequence'[Slot(y)] = sequence[Slot(y)]
      BY <1>3, <1>8, <2>2
    <3> QED
      BY <1>3, <1>5, <3>1, <3>2, <3>3 DEF ProducerSound, Writing
  <2> QED
    BY <2>1, <2>2
<1>13. ASSUME NEW c \in Consumers PROVE ConsumerSound(c)'
  <2> DEFINE y == co[c].position
  <2>1. ConsumerSound(c) /\ y \in Positions /\ Slot(y) \in Slots
    BY <1>0, Types DEF RingSound
  <2>2. ASSUME co[c].pc = "cas", y = dequeue_position
        PROVE  Off(sequence'[Slot(y)]) = Off(y) + 1
    <3>1. Off(sequence[Slot(y)]) = Off(y) + 1 /\ Off(y) \in Nat
      BY <2>1, <2>2, OffType DEF ConsumerSound
    <3> HIDE DEF y
    <3>2. Slot(y) # t
      <4> SUFFICES ASSUME Slot(y) = t PROVE FALSE
        OBVIOUS
      <4>1. Off(x) = Off(y) + 1
        BY <1>1, <3>1
      <4>2. Off(y) + Capacity <= Off(x)
        BY <1>1, <2>1, <3>1, <4>1, SlotApart
      <4> QED
        BY <3>1, <4>1, <4>2, Numbers
    <3> QED
      BY <1>3, <2>1, <3>1, <3>2
  <2>3. Reading(c) => sequence'[Slot(y)] = sequence[Slot(y)]
    BY <1>3, <1>9
  <2> QED
    BY <1>3, <1>5, <2>1, <2>2, <2>3 DEF ConsumerSound, Reading
<1>14. TakenOnce'
  <2>1. \A q \in Producers : Writing(q)' => Writing(q) /\ em'[q].position = em[q].position
    BY <1>4 DEF Writing, NoEmit
  <2>2. \A c \in Consumers : Reading(c)' => Reading(c) /\ co'[c].position = co[c].position
    BY <1>3 DEF Reading
  <2> QED
    BY <1>0, <2>1, <2>2, OnceKept
<1> QED
  BY <1>10, <1>11, <1>12, <1>13, <1>14 DEF Core

-----------------------------------------------------------------------------
(***************************************************************************)
(* A consumer takes a position, copies its slot and releases it.           *)
(***************************************************************************)
LEMMA QuietConsumer ==
  ASSUME RingSound, UNCHANGED <<ring, em, offered>>,
         NEW c \in Consumers, NEW r \in CoType, Consuming(c, r),
         r.pc \in {"look", "cas"} => Off(r.position) <= Gone,
         r.pc = "cas" /\ r.position = dequeue_position =>
           Off(sequence[Slot(r.position)]) = Off(r.position) + 1,
         r.pc \in {"copy", "copy_rest", "release"} =>
           Reading(c) /\ r.position = co[c].position,
         r.pc \in {"copy_rest", "release"} => r.stamp = r.position,
         r.pc = "release" => r.event = payload[Slot(r.position)]
  PROVE  Core'
<1>1. /\ co'[c] = r
      /\ \A d \in Consumers : d # c => co'[d] = co[d]
  BY Types DEF RingSound, Consuming
<1>2. offered' \in Nat /\ offered <= offered'
  BY Reach DEF RingSound
<1>3. ConsumerSound(c)'
  <2>1. Reading(c) => /\ Off(co[c].position) < Gone
                      /\ Off(sequence[Slot(co[c].position)]) = Off(co[c].position) + 1
    BY DEF RingSound, ConsumerSound
  <2> QED
    BY <1>1, <2>1 DEF ConsumerSound, Reading, Gone, ring
<1>4. \A d \in Consumers : ConsumerSound(d)'
  BY <1>1, <1>2, <1>3, QuietRing
<1>5. \A p \in Producers : ProducerSound(p)'
  BY <1>2, QuietRing
<1>6. TakenOnce'
  <2>1. \A q \in Producers : Writing(q)' => Writing(q) /\ em'[q].position = em[q].position
    BY DEF Writing
  <2>2. \A d \in Consumers : Reading(d)' => Reading(d) /\ co'[d].position = co[d].position
    BY <1>1 DEF Reading
  <2> QED
    BY <2>1, <2>2, OnceKept DEF RingSound
<1> QED
  BY <1>2, <1>4, <1>5, <1>6, QuietRing DEF Core

LEMMA QuietConsumerEnds ==
  ASSUME RingSound, UNCHANGED <<ring, em, offered>>,
         NEW c \in Consumers, Consuming(c, NoConsume)
  PROVE  Core'
<1>1. NoConsume \in CoType /\ NoConsume.pc = "idle"
  BY NothingTypes DEF NoConsume
<1> QED
  BY <1>1, QuietConsumer

LEMMA DrainQuietKeeps ==
  ASSUME RingSound, NEW c \in Consumers,
         \/ DrainPosition(c)
         \/ DrainLook(c)
         \/ DrainCas(c) /\ dequeue_position # co[c].position
         \/ DrainCopy(c)
         \/ DrainCopyRest(c)
  PROVE  Core'
<1> DEFINE x == co[c].position
           s == Slot(x)
<1>0. /\ TypeOK /\ co[c] \in CoType /\ x \in Positions /\ s \in Slots
      /\ dequeue_position \in Positions /\ ConsumerSound(c)
  BY Types DEF RingSound, TypeOK
<1>1. UNCHANGED <<ring, em, offered>>
  BY DEF DrainPosition, DrainLook, DrainCas, DrainCopy, DrainCopyRest, ring
<1>2. /\ Taken \in Nat /\ Gone \in Nat /\ Gone <= Taken
      /\ Taken + Capacity < Wrap \div 2
  BY Reach DEF RingSound
<1>3. CASE DrainPosition(c)
  <2> DEFINE r == [co[c] EXCEPT !.pc = "look", !.position = dequeue_position]
  <2>1. Consuming(c, r)
    BY <1>3 DEF DrainPosition
  <2>2. r \in CoType /\ r.pc = "look" /\ r.position = dequeue_position
    BY <1>0 DEF CoType, CoPlaces
  <2>3. Off(dequeue_position) <= Gone
    BY <1>2 DEF Gone
  <2> HIDE DEF r
  <2> QED
    BY <1>1, <2>1, <2>2, <2>3, QuietConsumer
<1>4. CASE DrainLook(c)
  <2> DEFINE r == [co[c] EXCEPT !.pc = "cas"]
             d == Difference(sequence[s], Plus(x, 1))
  <2>1. Consuming(c, NoConsume) \/ (d = 0 /\ Consuming(c, r))
    <3>1. Consuming(c, IF d = 0 THEN r ELSE NoConsume)
      BY <1>4 DEF DrainLook
    <3> HIDE DEF d, r
    <3>2. CASE d = 0
      <4>1. (IF d = 0 THEN r ELSE NoConsume) = r
        BY <3>2
      <4> QED
        BY <3>1, <3>2, <4>1
    <3>3. CASE d # 0
      <4>1. (IF d = 0 THEN r ELSE NoConsume) = NoConsume
        BY <3>3
      <4> QED
        BY <3>1, <4>1
    <3> QED
      BY <3>2, <3>3
  <2>2. r \in CoType /\ r.pc = "cas" /\ r.position = x
    BY <1>0 DEF CoType, CoPlaces
  <2>3. Off(x) <= Gone
    BY <1>0, <1>4 DEF DrainLook, ConsumerSound
  <2>4. ASSUME d = 0 PROVE Off(sequence[s]) = Off(x) + 1
    <3>1. Off(x) \in Nat /\ Off(x) + Capacity < Wrap \div 2
      BY <1>0, <1>2, <2>3, OffType, Numbers
    <3>2. /\ Plus(x, 1) \in Positions /\ Off(Plus(x, 1)) = Off(x) + 1
          /\ Off(Plus(x, 1)) < Wrap \div 2
      BY <1>0, <3>1, NextPosition, Numbers
    <3>3. /\ sequence[s] \in Positions /\ Off(sequence[s]) \in Nat
          /\ Off(sequence[s]) < Wrap \div 2
      BY <1>0, NumberBound
    <3>4. d = Off(sequence[s]) - (Off(x) + 1)
      <4> HIDE DEF x, s
      <4> QED
        BY <3>2, <3>3, DifferenceOff
    <3> HIDE DEF d, x, s
    <3> QED
      BY <2>4, <3>1, <3>3, <3>4
  <2> HIDE DEF r, d
  <2>5. CASE Consuming(c, NoConsume)
    BY <1>1, <2>5, QuietConsumerEnds
  <2>6. CASE d = 0 /\ Consuming(c, r)
    BY <1>1, <2>2, <2>3, <2>4, <2>6, QuietConsumer
  <2> QED
    BY <2>1, <2>5, <2>6
<1>5. CASE DrainCas(c) /\ dequeue_position # co[c].position
  <2>1. Consuming(c, NoConsume)
    BY <1>5 DEF DrainCas
  <2> QED
    BY <1>1, <2>1, QuietConsumerEnds
<1>6. CASE DrainCopy(c)
  <2> DEFINE r == [co[c] EXCEPT !.pc = "copy_rest", !.stamp = stamp[s]]
  <2>1. Consuming(c, r) /\ Reading(c)
    BY <1>6 DEF DrainCopy, Reading
  <2>2. Filled(s, x)
    BY <1>0, <2>1, FilledByNumber DEF RingSound, ConsumerSound
  <2>3. stamp[s] = x
    BY <2>2 DEF Filled
  <2>4. r \in CoType /\ r.pc = "copy_rest" /\ r.position = x /\ r.stamp = x
    BY <1>0, <2>3 DEF CoType, CoPlaces
  <2> HIDE DEF r
  <2> QED
    BY <1>1, <2>1, <2>4, QuietConsumer
<1>7. CASE DrainCopyRest(c)
  <2> DEFINE r == [co[c] EXCEPT !.pc = "release", !.event = payload[s]]
  <2>1. Consuming(c, r) /\ Reading(c) /\ co[c].pc = "copy_rest"
    BY <1>7 DEF DrainCopyRest, Reading
  <2>2. co[c].stamp = x
    BY <1>0, <2>1 DEF ConsumerSound
  <2>3. payload[s] \in Nat
    BY <1>0 DEF TypeOK
  <2>4. /\ r \in CoType /\ r.pc = "release" /\ r.position = x /\ r.stamp = x
        /\ r.event = payload[s]
    BY <1>0, <2>2, <2>3 DEF CoType, CoPlaces
  <2> HIDE DEF r
  <2> QED
    BY <1>1, <2>1, <2>4, QuietConsumer
<1> QED
  BY <1>3, <1>4, <1>5, <1>6, <1>7

LEMMA DrainTakeKeeps ==
  ASSUME RingSound, NEW c \in Consumers, DrainCas(c), dequeue_position = co[c].position
  PROVE  Core' /\ Gone' = Gone + 1
<1> DEFINE x == co[c].position
           r == [co[c] EXCEPT !.pc = "copy"]
<1>0. /\ TypeOK /\ co[c] \in CoType /\ x \in Positions /\ Slot(x) \in Slots
      /\ ConsumerSound(c) /\ OrderSound /\ TakenOnce
  BY Types DEF RingSound
<1>1. /\ Taken \in Nat /\ Gone \in Nat /\ Gone <= Taken /\ Taken <= Gone + Capacity
      /\ Taken + Capacity < Wrap \div 2 /\ Off(x) = Gone
  BY Reach DEF RingSound, Gone
<1>2. /\ co[c].pc = "cas" /\ dequeue_position' = Plus(x, 1) /\ Consuming(c, r)
      /\ UNCHANGED <<enqueue_position, sequence, payload, stamp, offered, em>>
  BY DEF DrainCas
<1>3. Off(sequence[Slot(x)]) = Off(x) + 1
  BY <1>0, <1>2 DEF ConsumerSound
<1>4. /\ co'[c].pc = "copy" /\ co'[c].position = x
      /\ \A d \in Consumers : d # c => co'[d] = co[d]
  BY <1>0, <1>2, Types DEF Consuming, CoType
<1>5. Gone' = Gone + 1
  <2>1. Off(x) + Capacity < Wrap \div 2
    BY <1>1, Numbers
  <2>2. Off(Plus(x, 1)) = Off(x) + 1
    BY <1>0, <2>1, NextPosition
  <2> QED
    BY <1>1, <1>2, <2>2 DEF Gone
<1>6. Taken' = Taken
  BY <1>2 DEF Taken
<1> HIDE DEF x, r
<1>7. OrderSound'
  <2>1. Filled(Slot(x), x)
    BY <1>0, <1>3, FilledByNumber DEF RingSound
  <2>2. Gone < Taken
    BY <1>1, <2>1 DEF Filled
  <2> QED
    BY <1>1, <1>5, <1>6, <2>2, Numbers DEF OrderSound
<1>8. ASSUME NEW s \in Slots PROVE SlotSound(s)'
  <2>1. PICK y \in Positions : Slot(y) = s /\ (Open(s, y) \/ Filled(s, y))
    BY DEF RingSound, SlotSound
  <2>2. CASE Open(s, y)
    <3>1. Off(y) \in Nat
      BY OffType
    <3>2. Off(y) # Gone
      <4> SUFFICES ASSUME Off(y) = Gone PROVE FALSE
        OBVIOUS
      <4>1. y = x
        BY <1>0, <1>1, OffInjective
      <4>2. sequence[s] = y /\ s = Slot(x)
        BY <2>1, <2>2, <4>1 DEF Open
      <4> QED
        BY <1>1, <1>3, <4>1, <4>2
    <3>3. Gone + 1 <= Off(y) /\ Off(y) < Gone + 1 + Capacity
      BY <1>1, <2>2, <3>1, <3>2, Numbers DEF Open
    <3>4. Open(s, y)'
      BY <1>2, <1>5, <2>2, <3>3 DEF Open
    <3> QED
      BY <2>1, <3>4 DEF SlotSound
  <2>3. CASE Filled(s, y)
    <3>1. Filled(s, y)'
      BY <1>2, <1>6, <2>3 DEF Filled
    <3> QED
      BY <2>1, <3>1 DEF SlotSound
  <2> QED
    BY <2>1, <2>2, <2>3
<1>9. ASSUME NEW q \in Producers PROVE ProducerSound(q)'
  BY <1>2, <1>6 DEF RingSound, ProducerSound, Writing
<1>10. ASSUME NEW d \in Consumers PROVE ConsumerSound(d)'
  <2>1. CASE d = c
    <3>1. Off(x) < Gone'
      BY <1>1, <1>5
    <3> QED
      BY <1>2, <1>3, <1>4, <2>1, <3>1 DEF ConsumerSound, Reading
  <2>2. CASE d # c
    <3> DEFINE y == co[d].position
    <3>1. ConsumerSound(d) /\ co'[d] = co[d] /\ y \in Positions
      BY <1>0, <1>4, <2>2, Types DEF RingSound
    <3>2. Off(y) \in Nat
      BY <3>1, OffType
    <3>3. co[d].pc \in {"look", "cas"} => Off(y) <= Gone'
      BY <1>1, <1>5, <3>1, <3>2 DEF ConsumerSound
    <3>4. co[d].pc = "cas" => y # dequeue_position'
      BY <1>1, <1>5, <3>1, <3>2 DEF ConsumerSound, Gone
    <3>5. Reading(d) => Off(y) < Gone'
      BY <1>1, <1>5, <3>1, <3>2 DEF ConsumerSound
    <3> QED
      BY <1>2, <3>1, <3>3, <3>4, <3>5 DEF ConsumerSound, Reading
  <2> QED
    BY <2>1, <2>2
<1>11. TakenOnce'
  <2>1. ASSUME NEW d \in Consumers, d # c, Reading(d) PROVE co[d].position # x
    <3>1. Off(co[d].position) < Gone /\ Off(co[d].position) \in Nat
      BY <1>0, <2>1, Types, OffType DEF RingSound, ConsumerSound
    <3> QED
      BY <1>1, <3>1
  <2> QED
    BY <1>0, <1>2, <1>4, <2>1 DEF TakenOnce, Writing, Reading
<1> QED
  BY <1>5, <1>7, <1>8, <1>9, <1>10, <1>11 DEF Core

LEMMA DrainReleaseKeeps ==
  ASSUME RingSound, NEW c \in Consumers, DrainRelease(c)
  PROVE  Core'
<1> DEFINE x == co[c].position
           t == Slot(x)
           z == Plus(x, Capacity)
<1>0. /\ TypeOK /\ ConsumerSound(c) /\ OrderSound /\ TakenOnce /\ Reading(c)
      /\ x \in Positions /\ t \in Slots
  BY Types DEF RingSound, DrainRelease, Reading
<1>1. /\ Taken \in Nat /\ Gone \in Nat /\ Gone <= Taken
      /\ Taken + Capacity < Wrap \div 2
  BY Reach DEF RingSound
<1>2. /\ Off(x) < Gone /\ Off(sequence[t]) = Off(x) + 1 /\ Off(x) \in Nat
      /\ Filled(t, x)
  <2>1. Off(x) < Gone /\ Off(sequence[t]) = Off(x) + 1
    BY <1>0 DEF ConsumerSound
  <2> QED
    BY <1>0, <2>1, OffType, FilledByNumber DEF RingSound
<1>3. /\ UNCHANGED <<enqueue_position, dequeue_position, payload, stamp, offered, em>>
      /\ \A s \in Slots \ {t} : sequence'[s] = sequence[s]
      /\ sequence'[t] = z
  BY <1>0 DEF DrainRelease, TypeOK
<1>4. /\ co'[c].pc = "idle"
      /\ \A d \in Consumers : d # c => co'[d] = co[d]
  <2>1. \/ Consuming(c, NoConsume)
        \/ Consuming(c, [NoConsume EXCEPT !.consumed = co[c].consumed + 1])
    BY DEF DrainRelease
  <2> QED
    BY <1>0, <2>1, Types DEF Consuming, NoConsume
<1>5. Taken' = Taken /\ Gone' = Gone
  BY <1>3 DEF Taken, Gone
<1>6. z \in Positions /\ Off(z) = Off(x) + Capacity /\ Slot(z) = t
  <2>1. Off(x) + Capacity < Wrap \div 2
    BY <1>1, <1>2, Numbers
  <2> QED
    BY <1>0, <2>1, NextPosition
<1>7. \A q \in Producers : Writing(q) => Slot(em[q].position) \in Slots \ {t}
  BY <1>0, UsersApart, Types
<1>8. \A d \in Consumers : d # c /\ Reading(d) => Slot(co[d].position) \in Slots \ {t}
  BY <1>0, UsersApart, Types
<1>9. t = Slot(x)
  OBVIOUS
<1> HIDE DEF x, t, z
<1>10. OrderSound'
  BY <1>0, <1>5 DEF OrderSound
<1>11. ASSUME NEW s \in Slots PROVE SlotSound(s)'
  <2>1. CASE s = t
    <3>1. Gone <= Off(z) /\ Off(z) < Gone + Capacity
      BY <1>1, <1>2, <1>6, Numbers DEF Filled
    <3>2. PICK y \in Positions : y = z
      BY <1>6
    <3>3. Open(s, y)'
      BY <1>3, <1>5, <2>1, <3>1, <3>2 DEF Open
    <3> QED
      BY <1>6, <2>1, <3>2, <3>3 DEF SlotSound
  <2>2. CASE s # t
    <3>1. PICK y \in Positions : Slot(y) = s /\ (Open(s, y) \/ Filled(s, y))
      BY DEF RingSound, SlotSound
    <3>2. Open(s, y) => Open(s, y)'
      BY <1>3, <1>5, <2>2 DEF Open
    <3>3. Filled(s, y) => Filled(s, y)'
      BY <1>3, <1>5, <2>2 DEF Filled
    <3> QED
      BY <3>1, <3>2, <3>3 DEF SlotSound
  <2> QED
    BY <2>1, <2>2
<1>12. ASSUME NEW q \in Producers PROVE ProducerSound(q)'
  <2> DEFINE y == em[q].position
  <2>1. ProducerSound(q) /\ em'[q] = em[q] /\ y \in Positions /\ Slot(y) \in Slots
    BY <1>0, <1>3, Types DEF RingSound
  <2>2. ASSUME em[q].pc = "cas", y = enqueue_position PROVE sequence'[Slot(y)] = y
    <3>1. sequence[Slot(y)] = y
      BY <2>1, <2>2 DEF ProducerSound
    <3> HIDE DEF y
    <3>2. Slot(y) # t
      <4> SUFFICES ASSUME Slot(y) = t PROVE FALSE
        OBVIOUS
      <4>1. Off(y) = Off(x) + 1
        BY <1>2, <3>1
      <4>2. Off(x) + Capacity <= Off(y)
        BY <1>0, <1>2, <1>9, <2>1, <4>1, SlotApart
      <4> QED
        BY <1>2, <4>1, <4>2, Numbers
    <3> QED
      BY <1>3, <2>1, <3>1, <3>2
  <2>3. Writing(q) => sequence'[Slot(y)] = sequence[Slot(y)]
    BY <1>3, <1>7
  <2> QED
    BY <1>3, <1>5, <2>1, <2>2, <2>3 DEF ProducerSound, Writing
<1>13. ASSUME NEW d \in Consumers PROVE ConsumerSound(d)'
  <2>1. CASE d = c
    BY <1>4, <2>1 DEF ConsumerSound, Reading
  <2>2. CASE d # c
    <3> DEFINE y == co[d].position
    <3>1. ConsumerSound(d) /\ co'[d] = co[d] /\ y \in Positions /\ Slot(y) \in Slots
      BY <1>0, <1>4, <2>2, Types DEF RingSound
    <3>2. ASSUME co[d].pc = "cas", y = dequeue_position
          PROVE  Off(sequence'[Slot(y)]) = Off(y) + 1
      <4>1. Off(sequence[Slot(y)]) = Off(y) + 1 /\ Off(y) = Gone
        BY <3>1, <3>2 DEF ConsumerSound, Gone
      <4> HIDE DEF y
      <4>2. Slot(y) # t
        BY <1>1, <1>2, <4>1
      <4> QED
        BY <1>3, <3>1, <4>1, <4>2
    <3>3. Reading(d) => sequence'[Slot(y)] = sequence[Slot(y)]
      BY <1>3, <1>8, <2>2
    <3> QED
      BY <1>3, <1>5, <3>1, <3>2, <3>3 DEF ConsumerSound, Reading
  <2> QED
    BY <2>1, <2>2
<1>14. TakenOnce'
  <2>1. \A q \in Producers : Writing(q)' => Writing(q) /\ em'[q].position = em[q].position
    BY <1>3 DEF Writing
  <2>2. \A d \in Consumers : Reading(d)' => Reading(d) /\ co'[d].position = co[d].position
    BY <1>4 DEF Reading
  <2> QED
    BY <1>0, <2>1, <2>2, OnceKept
<1> QED
  BY <1>10, <1>11, <1>12, <1>13, <1>14 DEF Core

-----------------------------------------------------------------------------
(***************************************************************************)
(* Every event is accounted for.                                           *)
(***************************************************************************)
TryPlaces  == {"position", "look", "reload", "cas"}
ReadPlaces == {"copy", "copy_rest", "release"}
TryingSet  == {p \in Producers : Trying(p)}
ReadingSet == {c \in Consumers : Reading(c)}

LEMMA Accounts ==
  EveryEventAccounted <=> /\ offered = Sum + Taken + Cardinality(TryingSet)
                          /\ Gone = consumed_total + Cardinality(ReadingSet)
BY DEF EveryEventAccounted, Taken, Gone, Off, TryingSet, ReadingSet, Trying

LEMMA AccountsNext ==
  ASSUME offered' = Sum' + Taken' + Cardinality(TryingSet'),
         Gone' = consumed_total' + Cardinality(ReadingSet')
  PROVE  EveryEventAccounted'
BY DEF EveryEventAccounted, Taken, Gone, Off, TryingSet, ReadingSet, Trying

LEMMA TryingAfter ==
  ASSUME TypeOK, NEW p \in Producers, NEW r, Producing(p, r)
  PROVE  TryingSet' = IF r.pc \in TryPlaces THEN TryingSet \cup {p} ELSE TryingSet \ {p}
<1>1. /\ em'[p] = r
      /\ \A q \in Producers : q # p => em'[q] = em[q]
  BY Types DEF Producing
<1>2. TryingSet' = {q \in Producers : em'[q].pc \in TryPlaces}
  BY DEF TryingSet, Trying, TryPlaces
<1>3. TryingSet = {q \in Producers : em[q].pc \in TryPlaces}
  BY DEF TryingSet, Trying, TryPlaces
<1> QED
  BY <1>1, <1>2, <1>3

LEMMA ReadingAfter ==
  ASSUME TypeOK, NEW c \in Consumers, NEW r, Consuming(c, r)
  PROVE  ReadingSet' = IF r.pc \in ReadPlaces THEN ReadingSet \cup {c} ELSE ReadingSet \ {c}
<1>1. /\ co'[c] = r
      /\ \A d \in Consumers : d # c => co'[d] = co[d]
  BY Types DEF Consuming
<1>2. ReadingSet' = {d \in Consumers : co'[d].pc \in ReadPlaces}
  BY DEF ReadingSet, Reading, ReadPlaces
<1>3. ReadingSet = {d \in Consumers : co[d].pc \in ReadPlaces}
  BY DEF ReadingSet, Reading, ReadPlaces
<1> QED
  BY <1>1, <1>2, <1>3

LEMMA Counting ==
  ASSUME NEW S, IsFiniteSet(S), NEW x
  PROVE  /\ Cardinality(S) \in Nat
         /\ Cardinality(S \cup {x}) = IF x \in S THEN Cardinality(S) ELSE Cardinality(S) + 1
         /\ Cardinality(S \ {x}) = IF x \in S THEN Cardinality(S) - 1 ELSE Cardinality(S)
BY FS_CardinalityType, FS_AddElement, FS_RemoveElement

LEMMA SumType ==
  ASSUME TypeOK
  PROVE  Sum \in Nat
BY DEF Sum, TypeOK, LossKinds

LEMMA DropCounts ==
  ASSUME TypeOK, NEW p \in Producers, NEW k \in LossKinds, Drop(p, k)
  PROVE  /\ Sum' = Sum + 1
         /\ TryingSet' = TryingSet \ {p}
<1>1. Sum' = Sum + 1
  <2>1. \A j \in LossKinds : lost[j] \in Nat /\ lost'[j] = IF j = k THEN lost[j] + 1 ELSE lost[j]
    BY DEF Drop, TypeOK
  <2> QED
    BY <2>1 DEF Sum, LossKinds
<1>2. NoEmit.pc \notin TryPlaces
  BY DEF NoEmit, TryPlaces
<1> QED
  BY <1>1, <1>2, TryingAfter DEF Drop

\* The loop goes on or ends with a loss.
LEMMA AgainCounts ==
  ASSUME TypeOK, NEW p \in Producers, p \in TryingSet, NEW x, Again(p, x)
  PROVE  \/ Sum' = Sum /\ TryingSet' = TryingSet
         \/ Sum' = Sum + 1 /\ TryingSet' = TryingSet \ {p}
<1>1. CASE em[p].retries + 1 < CasRetries
  <2> DEFINE r == [em[p] EXCEPT !.pc = "look", !.position = x, !.retries = @ + 1]
  <2>1. Producing(p, r) /\ UNCHANGED lost
    BY <1>1 DEF Again
  <2>2. r.pc = "look"
    BY Types DEF EmType
  <2> HIDE DEF r
  <2>3. TryingSet' = TryingSet \cup {p}
    BY <2>1, <2>2, TryingAfter DEF TryPlaces
  <2> QED
    BY <2>1, <2>3 DEF Sum
<1>2. CASE ~(em[p].retries + 1 < CasRetries)
  BY <1>2, DropCounts DEF Again, LossKinds
<1> QED
  BY <1>1, <1>2

\* What each step does to the first account.
LEMMA ProducerCounts ==
  ASSUME RingSound, NEW p \in Producers, EmitCall(p) \/ Emit(p)
  PROVE  \/ /\ offered' = offered /\ Sum' = Sum /\ Taken' = Taken /\ TryingSet' = TryingSet
         \/ /\ offered' = offered + 1 /\ Sum' = Sum /\ Taken' = Taken
            /\ p \notin TryingSet /\ TryingSet' = TryingSet \cup {p}
         \/ /\ offered' = offered + 1 /\ Sum' = Sum + 1 /\ Taken' = Taken
            /\ TryingSet' = TryingSet
         \/ /\ offered' = offered /\ Sum' = Sum + 1 /\ Taken' = Taken
            /\ p \in TryingSet /\ TryingSet' = TryingSet \ {p}
         \/ /\ offered' = offered /\ Sum' = Sum /\ Taken' = Taken + 1
            /\ p \in TryingSet /\ TryingSet' = TryingSet \ {p}
<1> DEFINE Moved(place) == [em[p] EXCEPT !.pc = place]
<1>0. TypeOK /\ em[p] \in EmType
  BY Types DEF RingSound
<1>1. \A place : Moved(place).pc = place
  BY <1>0 DEF EmType
<1>2. UNCHANGED lost => Sum' = Sum
  BY DEF Sum
<1>3. UNCHANGED enqueue_position => Taken' = Taken
  BY DEF Taken
<1>4. p \in TryingSet <=> em[p].pc \in TryPlaces
  BY DEF TryingSet, Trying, TryPlaces
<1> HIDE DEF Moved
<1>5. CASE EmitCall(p)
  <2>1. offered' = offered + 1 /\ Taken' = Taken /\ p \notin TryingSet
    BY <1>3, <1>4, <1>5 DEF EmitCall, ring, TryPlaces
  <2>2. CASE enabled
    <3> DEFINE r == [NoEmit EXCEPT !.pc = "position", !.event = offered + 1]
    <3>1. Producing(p, r) /\ r.pc \in TryPlaces /\ UNCHANGED lost
      BY <1>5, <2>2 DEF EmitCall, NoEmit, TryPlaces
    <3> HIDE DEF r
    <3> QED
      BY <1>0, <1>2, <2>1, <3>1, TryingAfter
  <2>3. CASE ~enabled
    <3>1. Sum' = Sum + 1 /\ TryingSet' = TryingSet \ {p}
      BY <1>0, <1>5, <2>3, DropCounts DEF EmitCall, LossKinds
    <3> QED
      BY <2>1, <3>1
  <2> QED
    BY <2>2, <2>3
<1>6. CASE EmitPosition(p)
  <2> DEFINE r == [em[p] EXCEPT !.pc = "look", !.position = enqueue_position]
  <2>1. Producing(p, r) /\ r.pc \in TryPlaces /\ p \in TryingSet
    BY <1>0, <1>4, <1>6 DEF EmitPosition, EmType, TryPlaces
  <2> HIDE DEF r
  <2>2. TryingSet' = TryingSet
    BY <1>0, <2>1, TryingAfter
  <2> QED
    BY <1>2, <1>3, <1>6, <2>2 DEF EmitPosition, ring
<1>7. CASE EmitLook(p)
  <2>1. p \in TryingSet /\ Taken' = Taken /\ offered' = offered
    BY <1>3, <1>4, <1>7 DEF EmitLook, ring, TryPlaces
  <2>2. \/ Producing(p, Moved("cas")) /\ UNCHANGED lost
        \/ Drop(p, "full")
        \/ Producing(p, Moved("reload")) /\ UNCHANGED lost
    BY <1>7 DEF EmitLook, Moved
  <2>3. CASE Drop(p, "full")
    BY <1>0, <2>1, <2>3, DropCounts DEF LossKinds
  <2>4. ASSUME NEW place \in {"cas", "reload"}, Producing(p, Moved(place)), UNCHANGED lost
        PROVE  Sum' = Sum /\ TryingSet' = TryingSet
    <3>1. TryingSet' = TryingSet \cup {p}
      BY <1>0, <1>1, <2>4, TryingAfter DEF TryPlaces
    <3> QED
      BY <1>2, <2>1, <2>4, <3>1
  <2> QED
    BY <2>1, <2>2, <2>3, <2>4
<1>8. CASE EmitReload(p)
  <2>1. p \in TryingSet /\ Taken' = Taken /\ offered' = offered
    BY <1>3, <1>4, <1>8 DEF EmitReload, ring, TryPlaces
  <2> QED
    BY <1>0, <1>8, <2>1, AgainCounts DEF EmitReload
<1>9. CASE EmitCas(p) /\ enqueue_position # em[p].position
  <2>1. p \in TryingSet /\ Taken' = Taken /\ offered' = offered
    BY <1>3, <1>4, <1>9 DEF EmitCas, TryPlaces
  <2> QED
    BY <1>0, <1>9, <2>1, AgainCounts DEF EmitCas
<1>10. CASE EmitCas(p) /\ enqueue_position = em[p].position
  <2>1. p \in TryingSet /\ Taken' = Taken + 1 /\ offered' = offered
    BY <1>4, <1>10, EmitTakeKeeps DEF EmitCas, TryPlaces
  <2>2. Producing(p, Moved("write")) /\ UNCHANGED lost
    BY <1>10 DEF EmitCas, Moved
  <2>3. TryingSet' = TryingSet \ {p}
    BY <1>0, <1>1, <2>2, TryingAfter DEF TryPlaces
  <2> QED
    BY <1>2, <2>1, <2>2, <2>3
<1>11. CASE EmitWrite(p) \/ EmitStamp(p) \/ EmitPublish(p)
  <2>1. p \notin TryingSet /\ Taken' = Taken /\ offered' = offered /\ UNCHANGED lost
    BY <1>3, <1>4, <1>11 DEF EmitWrite, EmitStamp, EmitPublish, TryPlaces
  <2>2. \/ Producing(p, Moved("stamp"))
        \/ Producing(p, Moved("publish"))
        \/ Producing(p, NoEmit)
    BY <1>11 DEF EmitWrite, EmitStamp, EmitPublish, Moved
  <2>3. NoEmit.pc = "idle"
    BY DEF NoEmit
  <2>4. TryingSet' = TryingSet \ {p}
    BY <1>0, <1>1, <2>2, <2>3, TryingAfter DEF TryPlaces
  <2> QED
    BY <1>2, <2>1, <2>4
<1> QED
  BY <1>5, <1>6, <1>7, <1>8, <1>9, <1>10, <1>11 DEF Emit

\* And to the second.
LEMMA ConsumerCounts ==
  ASSUME RingSound, NEW c \in Consumers, Drain(c)
  PROVE  \/ /\ Gone' = Gone /\ consumed_total' = consumed_total /\ ReadingSet' = ReadingSet
         \/ /\ Gone' = Gone + 1 /\ consumed_total' = consumed_total
            /\ c \notin ReadingSet /\ ReadingSet' = ReadingSet \cup {c}
         \/ /\ Gone' = Gone /\ consumed_total' = consumed_total + 1
            /\ c \in ReadingSet /\ ReadingSet' = ReadingSet \ {c}
<1>0. TypeOK /\ co[c] \in CoType
  BY Types DEF RingSound
<1>1. UNCHANGED dequeue_position => Gone' = Gone
  BY DEF Gone
<1>2. c \in ReadingSet <=> co[c].pc \in ReadPlaces
  BY DEF ReadingSet, Reading, ReadPlaces
<1>3. NoConsume.pc = "idle"
  BY DEF NoConsume
<1>4. CASE \/ DrainPosition(c) \/ DrainLook(c)
           \/ DrainCas(c) /\ dequeue_position # co[c].position
  <2>1. c \notin ReadingSet /\ Gone' = Gone /\ consumed_total' = consumed_total
    BY <1>1, <1>2, <1>4 DEF DrainPosition, DrainLook, DrainCas, ring, ReadPlaces
  <2>2. \E r : Consuming(c, r) /\ r.pc \in {"look", "cas", "idle"}
    <3>1. CASE DrainPosition(c)
      <4> DEFINE r == [co[c] EXCEPT !.pc = "look", !.position = dequeue_position]
      <4>1. Consuming(c, r) /\ r.pc = "look"
        BY <1>0, <3>1 DEF DrainPosition, CoType
      <4> QED
        BY <4>1
    <3>2. CASE DrainLook(c)
      BY <1>0, <1>3, <3>2 DEF DrainLook, CoType
    <3>3. CASE DrainCas(c) /\ dequeue_position # co[c].position
      BY <1>3, <3>3 DEF DrainCas
    <3> QED
      BY <1>4, <3>1, <3>2, <3>3
  <2>3. ReadingSet' = ReadingSet \ {c}
    BY <1>0, <2>2, ReadingAfter DEF ReadPlaces
  <2> QED
    BY <2>1, <2>3
<1>5. CASE DrainCas(c) /\ dequeue_position = co[c].position
  <2> DEFINE r == [co[c] EXCEPT !.pc = "copy"]
  <2>1. /\ c \notin ReadingSet /\ Gone' = Gone + 1 /\ consumed_total' = consumed_total
        /\ Consuming(c, r) /\ r.pc \in ReadPlaces
    BY <1>0, <1>2, <1>5, DrainTakeKeeps DEF DrainCas, ReadPlaces, CoType
  <2> HIDE DEF r
  <2> QED
    BY <1>0, <2>1, ReadingAfter
<1>6. CASE DrainCopy(c) \/ DrainCopyRest(c)
  <2>1. c \in ReadingSet /\ Gone' = Gone /\ consumed_total' = consumed_total
    BY <1>1, <1>2, <1>6 DEF DrainCopy, DrainCopyRest, ring, ReadPlaces
  <2> DEFINE q == [co[c] EXCEPT !.pc = "copy_rest", !.stamp = stamp[Slot(co[c].position)]]
             r == [co[c] EXCEPT !.pc = "release", !.event = payload[Slot(co[c].position)]]
  <2>2. \E z : Consuming(c, z) /\ z.pc \in ReadPlaces
    <3>1. q.pc \in ReadPlaces /\ r.pc \in ReadPlaces
      BY <1>0 DEF CoType, ReadPlaces
    <3>2. Consuming(c, q) \/ Consuming(c, r)
      BY <1>6 DEF DrainCopy, DrainCopyRest
    <3> HIDE DEF q, r
    <3> QED
      BY <3>1, <3>2
  <2>3. ReadingSet' = ReadingSet \cup {c}
    BY <1>0, <2>2, ReadingAfter
  <2> QED
    BY <2>1, <2>3
<1>7. CASE DrainRelease(c)
  <2>1. c \in ReadingSet /\ Gone' = Gone /\ consumed_total' = consumed_total + 1
    BY <1>1, <1>2, <1>7 DEF DrainRelease, ReadPlaces
  <2>2. \E r : Consuming(c, r) /\ r.pc = "idle"
    BY <1>7 DEF DrainRelease, NoConsume
  <2>3. ReadingSet' = ReadingSet \ {c}
    BY <1>0, <2>2, ReadingAfter DEF ReadPlaces
  <2> QED
    BY <2>1, <2>3
<1> QED
  BY <1>4, <1>5, <1>6, <1>7 DEF Drain

LEMMA AccountsKept ==
  ASSUME RingSound, [Next]_vars
  PROVE  EveryEventAccounted'
<1>0. /\ TypeOK /\ Sum \in Nat /\ Taken \in Nat /\ Gone \in Nat
      /\ offered \in Nat /\ consumed_total \in Nat
      /\ offered = Sum + Taken + Cardinality(TryingSet)
      /\ Gone = consumed_total + Cardinality(ReadingSet)
  BY SumType, Accounts, Reach DEF RingSound, TypeOK
<1>1. IsFiniteSet(TryingSet) /\ IsFiniteSet(ReadingSet)
  BY SetsAreFinite DEF TryingSet, ReadingSet
<1>2. (Sum' = Sum /\ Taken' = Taken /\ offered' = offered /\ TryingSet' = TryingSet)
        => offered' = Sum' + Taken' + Cardinality(TryingSet')
  BY <1>0
<1>3. (Gone' = Gone /\ consumed_total' = consumed_total /\ ReadingSet' = ReadingSet)
        => Gone' = consumed_total' + Cardinality(ReadingSet')
  BY <1>0
<1>4. ASSUME NEW p \in Producers, EmitCall(p) \/ Emit(p) PROVE EveryEventAccounted'
  <2>1. Gone' = Gone /\ consumed_total' = consumed_total /\ ReadingSet' = ReadingSet
    BY <1>4 DEF EmitCall, Emit, EmitPosition, EmitLook, EmitReload, EmitCas, EmitWrite,
                EmitStamp, EmitPublish, ring, Gone, ReadingSet, Reading
  <2>2. offered' = Sum' + Taken' + Cardinality(TryingSet')
    <3> DEFINE n == Cardinality(TryingSet)
               m == Cardinality(TryingSet')
    <3>1. n \in Nat
      BY <1>1, Counting
    <3>2. TryingSet' = TryingSet => m = n
      OBVIOUS
    <3>3. p \notin TryingSet /\ TryingSet' = TryingSet \cup {p} => m = n + 1
      BY <1>1, Counting
    <3>4. p \in TryingSet /\ TryingSet' = TryingSet \ {p} => m = n - 1
      BY <1>1, Counting
    <3> HIDE DEF n, m
    <3> QED
      <4>1. offered = Sum + Taken + n
        BY <1>0 DEF n
      <4>2. offered' = Sum' + Taken' + m
        BY <1>0, <1>4, <3>1, <3>2, <3>3, <3>4, <4>1, ProducerCounts
      <4> QED
        BY <4>2 DEF m
  <2> QED
    BY <1>3, <2>1, <2>2, AccountsNext
<1>5. ASSUME NEW c \in Consumers, Drain(c) PROVE EveryEventAccounted'
  <2>1. Sum' = Sum /\ Taken' = Taken /\ offered' = offered /\ TryingSet' = TryingSet
    BY <1>5 DEF Drain, DrainPosition, DrainLook, DrainCas, DrainCopy, DrainCopyRest,
                DrainRelease, ring, Sum, Taken, TryingSet, Trying
  <2>2. Gone' = consumed_total' + Cardinality(ReadingSet')
    <3> DEFINE n == Cardinality(ReadingSet)
               m == Cardinality(ReadingSet')
    <3>1. n \in Nat
      BY <1>1, Counting
    <3>2. ReadingSet' = ReadingSet => m = n
      OBVIOUS
    <3>3. c \notin ReadingSet /\ ReadingSet' = ReadingSet \cup {c} => m = n + 1
      BY <1>1, Counting
    <3>4. c \in ReadingSet /\ ReadingSet' = ReadingSet \ {c} => m = n - 1
      BY <1>1, Counting
    <3> HIDE DEF n, m
    <3> QED
      <4>1. Gone = consumed_total + n
        BY <1>0 DEF n
      <4>2. Gone' = consumed_total' + m
        BY <1>0, <1>5, <3>1, <3>2, <3>3, <3>4, <4>1, ConsumerCounts
      <4> QED
        BY <4>2 DEF m
  <2> QED
    BY <1>2, <2>1, <2>2, AccountsNext
<1>6. CASE Enable \/ Disable \/ UNCHANGED vars
  <2>1. /\ Gone' = Gone /\ consumed_total' = consumed_total /\ ReadingSet' = ReadingSet
        /\ Sum' = Sum /\ Taken' = Taken /\ offered' = offered /\ TryingSet' = TryingSet
    BY <1>6 DEF Enable, Disable, vars, ring, Gone, ReadingSet, Reading, Sum, Taken,
                TryingSet, Trying
  <2> QED
    BY <1>2, <1>3, <2>1, AccountsNext
<1> QED
  BY <1>4, <1>5, <1>6 DEF Next

-----------------------------------------------------------------------------
(***************************************************************************)
(* The invariant of the ring.                                              *)
(***************************************************************************)
LEMMA InitSound == Init => RingSound
<1> SUFFICES ASSUME Init PROVE RingSound
  OBVIOUS
<1>1. TypeOK
  BY InitType
<1>2. Taken = 0 /\ Gone = 0 /\ Off(Start) = 0 /\ Start \in Positions
  BY Numbers DEF Init, Taken, Gone, Off, Positions
<1>3. \A p \in Producers : em[p].pc = "idle"
  BY DEF Init, NoEmit
<1>4. \A c \in Consumers : co[c].pc = "idle"
  BY DEF Init, NoConsume
<1>5. OrderSound
  BY <1>2, Numbers DEF OrderSound
<1>6. ASSUME NEW s \in Slots PROVE SlotSound(s)
  <2> DEFINE i == CHOOSE n \in Slots : Slot(Plus(Start, n)) = s
             x == Plus(Start, i)
  <2>1. i \in Slots /\ Slot(x) = s
    BY SlotOfStart
  <2>2. sequence[s] = x
    BY DEF Init
  <2> HIDE DEF i
  <2>3. i \in Nat /\ i < Capacity
    BY <2>1, Numbers DEF Slots
  <2>4. x \in Positions /\ Off(x) = i
    BY <1>2, <2>3, PlusOff, Numbers
  <2> HIDE DEF x
  <2>5. Open(s, x)
    BY <1>2, <2>2, <2>3, <2>4, Numbers DEF Open
  <2> QED
    BY <2>1, <2>4, <2>5 DEF SlotSound
<1>7. /\ \A p \in Producers : ProducerSound(p)
      /\ \A c \in Consumers : ConsumerSound(c)
      /\ TakenOnce
  BY <1>3, <1>4 DEF ProducerSound, ConsumerSound, TakenOnce, Writing, Reading
<1>8. EveryEventAccounted
  <2>1. TryingSet = {} /\ ReadingSet = {}
    BY <1>3, <1>4 DEF TryingSet, ReadingSet, Trying, Reading
  <2>2. Cardinality(TryingSet) = 0 /\ Cardinality(ReadingSet) = 0
    BY <2>1, FS_EmptySet
  <2>3. Sum = 0 /\ offered = 0 /\ consumed_total = 0
    BY DEF Init, Sum, LossKinds
  <2> QED
    BY <1>2, <2>2, <2>3, Accounts
<1> QED
  BY <1>1, <1>5, <1>6, <1>7, <1>8 DEF RingSound

LEMMA NextCore ==
  ASSUME RingSound, [Next]_vars
  PROVE  Core'
<1>0. offered \in Nat
  BY Reach DEF RingSound
<1>1. ASSUME NEW p \in Producers, EmitCall(p) \/ Emit(p) PROVE Core'
  <2>1. CASE EmitCall(p)
    BY <2>1, EmitCallKeeps
  <2>2. CASE Emit(p)
    <3>1. CASE \/ EmitPosition(p) \/ EmitLook(p) \/ EmitReload(p)
               \/ EmitCas(p) /\ enqueue_position # em[p].position
      BY <3>1, EmitQuietKeeps
    <3>2. CASE EmitCas(p) /\ enqueue_position = em[p].position
      BY <3>2, EmitTakeKeeps
    <3>3. CASE EmitWrite(p) \/ EmitStamp(p)
      BY <3>3, EmitFillKeeps
    <3>4. CASE EmitPublish(p)
      BY <3>4, EmitPublishKeeps
    <3> QED
      BY <2>2, <3>1, <3>2, <3>3, <3>4 DEF Emit
  <2> QED
    BY <1>1, <2>1, <2>2
<1>2. ASSUME NEW c \in Consumers, Drain(c) PROVE Core'
  <2>1. CASE \/ DrainPosition(c)
             \/ DrainLook(c)
             \/ DrainCas(c) /\ dequeue_position # co[c].position
             \/ DrainCopy(c)
             \/ DrainCopyRest(c)
    BY <2>1, DrainQuietKeeps
  <2>2. CASE DrainCas(c) /\ dequeue_position = co[c].position
    BY <2>2, DrainTakeKeeps
  <2>3. CASE DrainRelease(c)
    BY <2>3, DrainReleaseKeeps
  <2> QED
    BY <1>2, <2>1, <2>2, <2>3 DEF Drain
<1>3. CASE Enable \/ Disable \/ UNCHANGED vars
  <2>1. UNCHANGED <<ring, em, co, offered>>
    BY <1>3 DEF Enable, Disable, vars, ring
  <2>2. /\ OrderSound'
        /\ \A s \in Slots : SlotSound(s)'
        /\ \A q \in Producers : ProducerSound(q)'
        /\ \A c \in Consumers : ConsumerSound(c)'
    BY <1>0, <2>1, QuietRing
  <2>3. TakenOnce'
    BY <2>1 DEF RingSound, TakenOnce, Writing, Reading
  <2> QED
    BY <2>2, <2>3 DEF Core
<1> QED
  BY <1>1, <1>2, <1>3 DEF Next

LEMMA NextSound == RingSound /\ [Next]_vars => RingSound'
<1> SUFFICES ASSUME RingSound, [Next]_vars PROVE RingSound'
  OBVIOUS
<1>1. TypeOK'
  BY NextType DEF RingSound
<1>2. Core'
  BY NextCore
<1>3. EveryEventAccounted'
  BY AccountsKept
<1> QED
  BY <1>1, <1>2, <1>3 DEF RingSound, Core

LEMMA AlwaysSound == Spec => []RingSound
<1> QED
  BY InitSound, NextSound, PTL DEF Spec

\* The ring, for any number of producers and consumers, any capacity and any
\* start of the 32-bit positions: a slot has one user at a time, what is copied
\* out of it is whole, and every event offered is accounted for.
THEOREM RingKeepsItsWord == Spec => []RingInv
BY AlwaysSound, SoundIsRingInv, PTL

-----------------------------------------------------------------------------
(***************************************************************************)
(* With one consumer the ring is the queue of EventQueue.                  *)
(*                                                                         *)
(* It takes one consumer for the word "full": of two consumers, one may    *)
(* still be reading the oldest slot while the other has released all those *)
(* behind it, and a producer then finds the ring full that is nearly       *)
(* empty.                                                                  *)
(***************************************************************************)
OneConsumer == \A c, d \in Consumers : c = d

\* A position that was consumed but whose slot is not released is being read ...
HeldByReader ==
  \A y \in Positions : Off(y) < Gone /\ Off(sequence[Slot(y)]) = Off(y) + 1 =>
    \E c \in Consumers : Reading(c) /\ co[c].position = y

\* ... and it is the last one that was consumed.
ReadsTheLast ==
  \A c \in Consumers : Reading(c) => Off(co[c].position) + 1 = Gone

OneReader == HeldByReader /\ ReadsTheLast

LEMMA InitOneReader == Init => OneReader
<1> SUFFICES ASSUME Init PROVE OneReader
  OBVIOUS
<1>1. \A c \in Consumers : ~Reading(c)
  BY DEF Init, NoConsume, Reading
<1>2. Gone = 0
  BY Numbers DEF Init, Gone, Off
<1>3. \A y \in Positions : Off(y) \in Nat
  BY OffType
<1> QED
  BY <1>1, <1>2, <1>3 DEF OneReader, HeldByReader, ReadsTheLast

\* Steps of producers: only the publication changes a sequence number.
LEMMA ProducerOneReader ==
  ASSUME RingSound, OneReader, NEW p \in Producers, EmitCall(p) \/ Emit(p)
  PROVE  OneReader'
<1>1. UNCHANGED <<dequeue_position, co>> /\ Gone' = Gone
  BY DEF EmitCall, Emit, EmitPosition, EmitLook, EmitReload, EmitCas, EmitWrite,
         EmitStamp, EmitPublish, ring, Gone
<1>2. ReadsTheLast'
  BY <1>1 DEF OneReader, ReadsTheLast, Reading
<1>3. HeldByReader'
  <2> SUFFICES ASSUME NEW y \in Positions, Off(y) < Gone,
                      Off(sequence'[Slot(y)]) = Off(y) + 1
               PROVE  \E c \in Consumers : Reading(c) /\ co[c].position = y
    BY <1>1 DEF HeldByReader, Reading
  <2>1. CASE EmitPublish(p)
    <3> DEFINE x == em[p].position
               t == Slot(x)
    <3>1. Writing(p) /\ TypeOK
      BY <2>1 DEF EmitPublish, Writing, RingSound
    <3>2. x \in Positions /\ t \in Slots /\ Open(t, x) /\ Off(x) \in Nat
      BY <3>1, WriterSlot
    <3>3. /\ sequence'[t] = Plus(x, 1)
          /\ \A s \in Slots \ {t} : sequence'[s] = sequence[s]
      BY <2>1, <3>1, <3>2 DEF EmitPublish, TypeOK
    <3>4. Off(Plus(x, 1)) = Off(x) + 1
      <4>1. Taken + Capacity < Wrap \div 2 /\ Off(x) < Taken /\ Taken \in Nat
        BY <3>1, WriterSlot, Reach DEF RingSound
      <4>2. Off(x) + Capacity < Wrap \div 2
        BY <3>2, <4>1, Numbers
      <4> QED
        BY <3>2, <4>2, NextPosition
    <3> HIDE DEF x, t
    <3>5. Slot(y) # t
      <4> SUFFICES ASSUME Slot(y) = t PROVE FALSE
        OBVIOUS
      <4>1. Off(x) = Off(y)
        BY <3>2, <3>3, <3>4, OffType
      <4> QED
        BY <3>2, <4>1, Reach DEF Open, RingSound
    <3>6. sequence'[Slot(y)] = sequence[Slot(y)]
      BY <3>3, <3>5, SlotOff
    <3> QED
      BY <3>6 DEF OneReader, HeldByReader
  <2>2. CASE ~EmitPublish(p)
    <3>1. UNCHANGED sequence
      BY <2>2 DEF EmitCall, Emit, EmitPosition, EmitLook, EmitReload, EmitCas, EmitWrite,
                  EmitStamp, ring
    <3> QED
      BY <3>1 DEF OneReader, HeldByReader
  <2> QED
    BY <2>1, <2>2
<1> QED
  BY <1>2, <1>3 DEF OneReader

LEMMA ConsumerOneReader ==
  ASSUME OneConsumer, RingSound, OneReader, NEW c \in Consumers, Drain(c)
  PROVE  OneReader'
<1> DEFINE x == co[c].position
           t == Slot(x)
<1>0. /\ TypeOK /\ co[c] \in CoType /\ x \in Positions /\ t \in Slots
      /\ Off(x) \in Nat /\ Gone \in Nat
  BY Types, OffType, Reach DEF RingSound
<1>a. \A d \in Consumers : d = c
  BY DEF OneConsumer
<1>1. CASE DrainCas(c) /\ dequeue_position = co[c].position
  <2>1. Gone' = Gone + 1 /\ Off(x) = Gone /\ UNCHANGED sequence
    BY <1>1, DrainTakeKeeps DEF DrainCas, Gone
  <2>2. Reading(c)' /\ co'[c].position = x /\ ~Reading(c)
    BY <1>0, <1>1, Types DEF DrainCas, Consuming, Reading, CoType
  <2> HIDE DEF x
  <2>3. ReadsTheLast'
    BY <1>0, <1>a, <2>1, <2>2 DEF ReadsTheLast
  <2>4. HeldByReader'
    <3> SUFFICES ASSUME NEW y \in Positions, Off(y) < Gone', Off(sequence[Slot(y)]) = Off(y) + 1
                 PROVE  \E d \in Consumers : Reading(d)' /\ co'[d].position = y
      BY <2>1 DEF HeldByReader
    <3>1. Off(y) \in Nat
      BY OffType
    <3>2. CASE Off(y) = Gone
      <4>1. y = x
        BY <1>0, <2>1, <3>2, OffInjective
      <4> QED
        BY <2>2, <4>1
    <3>3. CASE Off(y) < Gone
      BY <1>a, <2>2, <3>3 DEF OneReader, HeldByReader
    <3> QED
      BY <1>0, <2>1, <3>1, <3>2, <3>3
  <2> QED
    BY <2>3, <2>4 DEF OneReader
<1>2. CASE DrainRelease(c)
  <2>1. Reading(c) /\ UNCHANGED dequeue_position /\ Gone' = Gone
    BY <1>2 DEF DrainRelease, Reading, Gone
  <2>2. ~Reading(c)'
    <3>1. \/ Consuming(c, NoConsume)
          \/ Consuming(c, [NoConsume EXCEPT !.consumed = co[c].consumed + 1])
      BY <1>2 DEF DrainRelease
    <3> QED
      BY <1>0, <3>1, Types DEF Consuming, NoConsume, Reading
  <2>3. Off(x) + 1 = Gone
    BY <2>1 DEF OneReader, ReadsTheLast
  <2>4. sequence' = [sequence EXCEPT ![t] = Plus(x, Capacity)]
    BY <1>2 DEF DrainRelease
  <2>5. Off(Plus(x, Capacity)) = Off(x) + Capacity
    <3>1. Taken + Capacity < Wrap \div 2 /\ Gone <= Taken /\ Taken \in Nat
      BY Reach DEF RingSound
    <3>2. Off(x) + Capacity < Wrap \div 2
      BY <1>0, <2>3, <3>1, Numbers
    <3> QED
      BY <1>0, <3>2, NextPosition
  <2>6. t = Slot(x)
    OBVIOUS
  <2>7. \A y \in Positions : Reading(c) /\ co[c].position = y => y = x
    OBVIOUS
  <2> HIDE DEF x, t
  <2>8. ReadsTheLast'
    BY <1>a, <2>2 DEF ReadsTheLast
  <2>9. HeldByReader'
    <3> SUFFICES ASSUME NEW y \in Positions, Off(y) < Gone, Off(sequence'[Slot(y)]) = Off(y) + 1
                 PROVE  FALSE
      BY <2>1 DEF HeldByReader
    <3>1. Off(y) \in Nat /\ Slot(y) \in Slots
      BY OffType, SlotOff
    <3>2. CASE Slot(y) = t
      <4>1. Off(y) + 1 = Off(x) + Capacity
        BY <1>0, <2>4, <2>5, <3>1, <3>2 DEF TypeOK
      <4> QED
        BY <1>0, <2>3, <3>1, <4>1, Numbers
    <3>3. CASE Slot(y) # t
      <4>1. sequence'[Slot(y)] = sequence[Slot(y)]
        BY <1>0, <2>4, <3>1, <3>3 DEF TypeOK
      <4>2. y = x
        BY <1>a, <2>7, <4>1 DEF OneReader, HeldByReader
      <4> QED
        BY <2>6, <3>3, <4>2
    <3> QED
      BY <3>2, <3>3
  <2> QED
    BY <2>8, <2>9 DEF OneReader
<1>3. CASE ~DrainRelease(c) /\ ~(DrainCas(c) /\ dequeue_position = co[c].position)
  <2>1. UNCHANGED <<dequeue_position, sequence>> /\ Gone' = Gone
    BY <1>3 DEF Drain, DrainPosition, DrainLook, DrainCas, DrainCopy, DrainCopyRest, ring, Gone
  <2>2. /\ Reading(c)' <=> Reading(c)
        /\ Reading(c) => co'[c].position = x
    <3>1. CASE DrainPosition(c)
      BY <1>0, <3>1, Types DEF DrainPosition, Consuming, Reading, CoType
    <3>2. CASE DrainLook(c)
      <4>1. ~Reading(c)
        BY <3>2 DEF DrainLook, Reading
      <4>2. Consuming(c, NoConsume) \/ Consuming(c, [co[c] EXCEPT !.pc = "cas"])
        BY <3>2 DEF DrainLook
      <4>3. ~Reading(c)'
        BY <1>0, <4>2, Types DEF Consuming, Reading, NoConsume, CoType
      <4> QED
        BY <4>1, <4>3
    <3>3. CASE DrainCas(c)
      BY <1>0, <1>3, <3>3, Types DEF DrainCas, Consuming, Reading, NoConsume
    <3>4. CASE DrainCopy(c)
      BY <1>0, <3>4, Types DEF DrainCopy, Consuming, Reading, CoType
    <3>5. CASE DrainCopyRest(c)
      BY <1>0, <3>5, Types DEF DrainCopyRest, Consuming, Reading, CoType
    <3> QED
      BY <1>3, <3>1, <3>2, <3>3, <3>4, <3>5 DEF Drain
  <2>3. ReadsTheLast'
    BY <1>a, <2>1, <2>2 DEF OneReader, ReadsTheLast
  <2>4. HeldByReader'
    BY <1>a, <2>1, <2>2 DEF OneReader, HeldByReader
  <2> QED
    BY <2>3, <2>4 DEF OneReader
<1> QED
  BY <1>1, <1>2, <1>3

LEMMA NextOneReader ==
  ASSUME OneConsumer, RingSound, OneReader, [Next]_vars
  PROVE  OneReader'
<1>1. CASE Enable \/ Disable \/ UNCHANGED vars
  <2>1. UNCHANGED <<ring, co>>
    BY <1>1 DEF Enable, Disable, vars, ring
  <2> QED
    BY <2>1 DEF OneReader, HeldByReader, ReadsTheLast, Reading, Gone, ring
<1> QED
  BY <1>1, ProducerOneReader, ConsumerOneReader DEF Next

-----------------------------------------------------------------------------
(***************************************************************************)
(* The mapped queue.                                                       *)
(***************************************************************************)
WritePlaces == {"write", "stamp", "publish"}

\* EventAt of producers e and payloads d.
EventIn(e, d, x) ==
  LET writers == {p \in Producers : e[p].pc \in WritePlaces /\ e[p].position = x}
  IN  IF writers # {} THEN e[CHOOSE p \in writers : TRUE].event ELSE d[Slot(x)]

LEMMA EventAtIs ==
  ASSUME NEW x
  PROVE  /\ EventAt(x) = EventIn(em, payload, x)
         /\ EventAt(x)' = EventIn(em', payload', x)
BY DEF EventAt, EventIn, Writing, WritePlaces

LEMMA EventInWriter ==
  ASSUME NEW e, NEW d, NEW x, NEW p \in Producers,
         e[p].pc \in WritePlaces, e[p].position = x,
         \A q \in Producers : e[q].pc \in WritePlaces /\ e[q].position = x => q = p
  PROVE  EventIn(e, d, x) = e[p].event
<1> DEFINE W == {q \in Producers : e[q].pc \in WritePlaces /\ e[q].position = x}
<1>1. W = {p}
  OBVIOUS
<1>2. (CHOOSE q \in W : TRUE) = p
  BY <1>1
<1> QED
  BY <1>1, <1>2 DEF EventIn

LEMMA EventInSlot ==
  ASSUME NEW e, NEW d, NEW x,
         \A q \in Producers : ~(e[q].pc \in WritePlaces /\ e[q].position = x)
  PROVE  EventIn(e, d, x) = d[Slot(x)]
BY DEF EventIn

\* An event stays the same while its writer, or its slot's payload, does.
LEMMA EventStays ==
  ASSUME TakenOnce, TakenOnce', NEW x,
         \A q \in Producers : Writing(q) /\ em[q].position = x =>
           Writing(q)' /\ em'[q].position = x /\ em'[q].event = em[q].event,
         \A q \in Producers : Writing(q)' /\ em'[q].position = x =>
           Writing(q) /\ em[q].position = x,
         \/ payload'[Slot(x)] = payload[Slot(x)]
         \/ \E q \in Producers : Writing(q) /\ em[q].position = x
  PROVE  EventAt(x)' = EventAt(x)
<1>1. CASE \E q \in Producers : Writing(q) /\ em[q].position = x
  <2>1. PICK p \in Producers : Writing(p) /\ em[p].position = x
    BY <1>1
  <2>2. Writing(p)' /\ em'[p].position = x /\ em'[p].event = em[p].event
    BY <2>1
  <2>3. EventIn(em, payload, x) = em[p].event
    BY <2>1, EventInWriter DEF TakenOnce, Writing, WritePlaces
  <2>4. EventIn(em', payload', x) = em'[p].event
    <3>1. \A q \in Producers : em'[q].pc \in WritePlaces /\ em'[q].position = x => q = p
      BY <2>2 DEF TakenOnce, Writing, WritePlaces
    <3>2. em'[p].pc \in WritePlaces /\ em'[p].position = x
      BY <2>2 DEF Writing, WritePlaces
    <3> QED
      BY <3>1, <3>2, EventInWriter
  <2> QED
    BY <2>2, <2>3, <2>4, EventAtIs
<1>2. CASE ~(\E q \in Producers : Writing(q) /\ em[q].position = x)
  <2>1. EventIn(em, payload, x) = payload[Slot(x)]
    BY <1>2, EventInSlot DEF Writing, WritePlaces
  <2>2. EventIn(em', payload', x) = payload'[Slot(x)]
    <3>1. \A q \in Producers : ~(em'[q].pc \in WritePlaces /\ em'[q].position = x)
      BY <1>2 DEF Writing, WritePlaces
    <3> QED
      BY <3>1, EventInSlot
  <2> QED
    BY <1>2, <2>1, <2>2, EventAtIs
<1> QED
  BY <1>1, <1>2

\* The positions between two others.
LEMMA Between ==
  ASSUME NEW e \in Positions, NEW d \in Positions, Off(d) <= Off(e)
  PROVE  /\ (e - d) % Wrap = Off(e) - Off(d)
         /\ Off(e) - Off(d) \in Nat
         /\ \A i \in 1 .. Off(e) - Off(d) :
              Plus(d, i - 1) \in Positions /\ Off(Plus(d, i - 1)) = Off(d) + i - 1
<1>0. Off(e) \in 0 .. Wrap - 1 /\ Off(d) \in 0 .. Wrap - 1 /\ e \in Int /\ d \in Int
  BY OffType
<1>1. (e - d) % Wrap = Off(e) - Off(d)
  <2>1. PICK p \in Int : e - Start = Wrap * p + Off(e)
    BY OffQuotient
  <2>2. PICK q \in Int : d - Start = Wrap * q + Off(d)
    BY OffQuotient
  <2>3. e - d = Wrap * (p - q) + (Off(e) - Off(d))
    BY <1>0, <2>1, <2>2, Numbers
  <2>4. Off(e) - Off(d) \in 0 .. Wrap - 1 /\ p - q \in Int
    BY <1>0, Numbers
  <2> QED
    BY <2>3, <2>4, Numbers, Remainder
<1>2. ASSUME NEW i \in 1 .. Off(e) - Off(d)
      PROVE  Plus(d, i - 1) \in Positions /\ Off(Plus(d, i - 1)) = Off(d) + i - 1
  <2>1. i - 1 \in Nat /\ Off(d) + (i - 1) < Wrap
    BY <1>0, Numbers
  <2>2. Plus(d, i - 1) \in Positions /\ Off(Plus(d, i - 1)) = Off(d) + (i - 1)
    BY <2>1, PlusOff
  <2> QED
    BY <1>0, <2>2
<1> QED
  BY <1>0, <1>1, <1>2

\* The queue's length, and its elements.
LEMMA QueueShape ==
  ASSUME RingSound
  PROVE  /\ Taken - Gone \in Nat
         /\ QueueMapped = [i \in 1 .. Taken - Gone |-> EventAt(Plus(dequeue_position, i - 1))]
         /\ \A i \in 1 .. Taken - Gone :
              /\ Plus(dequeue_position, i - 1) \in Positions
              /\ Off(Plus(dequeue_position, i - 1)) = Gone + i - 1
<1>1. /\ enqueue_position \in Positions /\ dequeue_position \in Positions
      /\ Off(dequeue_position) <= Off(enqueue_position)
  BY DEF RingSound, TypeOK, OrderSound, Taken, Gone
<1> QED
  BY <1>1, Between DEF QueueMapped, Taken, Gone

LEMMA QueueStays ==
  ASSUME RingSound, UNCHANGED <<enqueue_position, dequeue_position>>,
         \A x \in Positions : Gone <= Off(x) /\ Off(x) < Taken => EventAt(x)' = EventAt(x)
  PROVE  QueueMapped' = QueueMapped
<1> DEFINE n == Taken - Gone
           At(i) == Plus(dequeue_position, i - 1)
<1>1. /\ Taken \in Nat /\ Gone \in Nat /\ n \in Nat
  BY Reach, QueueShape DEF RingSound
<1>2. ASSUME NEW i \in 1 .. n PROVE EventAt(Plus(dequeue_position, i - 1))' = EventAt(At(i))
  <2>1. At(i) \in Positions /\ Off(At(i)) = Gone + i - 1
    BY QueueShape
  <2>2. PICK x \in Positions : x = At(i)
    BY <2>1
  <2>3. Gone <= Off(x) /\ Off(x) < Taken
    BY <1>1, <2>1, <2>2
  <2>4. EventAt(x)' = EventAt(x)
    BY <2>3
  <2>5. Plus(dequeue_position', i - 1) = x
    BY <2>2
  <2>6. EventAt(Plus(dequeue_position, i - 1))' = EventIn(em', payload', x)
    <3>1. EventAt(Plus(dequeue_position, i - 1))' =
            EventIn(em', payload', Plus(dequeue_position', i - 1))
      BY DEF EventAt, EventIn, Writing, WritePlaces
    <3> QED
      BY <2>5, <3>1
  <2> QED
    BY <2>2, <2>4, <2>6, EventAtIs
<1>3. QueueMapped' = [i \in 1 .. n |-> EventAt(Plus(dequeue_position, i - 1))']
  <2>1. (enqueue_position' - dequeue_position') % Wrap = n
    BY Between DEF RingSound, TypeOK, OrderSound, Taken, Gone
  <2> QED
    BY <2>1 DEF QueueMapped
<1>4. QueueMapped = [i \in 1 .. n |-> EventAt(At(i))]
  BY QueueShape
<1> QED
  BY <1>2, <1>3, <1>4

\* Steps that leave the payloads and the writers alone.
LEMMA MappedStays ==
  ASSUME RingSound, RingSound',
         UNCHANGED <<enqueue_position, dequeue_position, payload>>,
         \A q \in Producers : Writing(q)' <=> Writing(q),
         \A q \in Producers : Writing(q) => em'[q].position = em[q].position
                                         /\ em'[q].event = em[q].event
  PROVE  QueueMapped' = QueueMapped
<1>1. TakenOnce /\ TakenOnce'
  BY DEF RingSound
<1>2. ASSUME NEW x \in Positions PROVE EventAt(x)' = EventAt(x)
  BY <1>1, EventStays
<1> QED
  BY <1>2, QueueStays

LEMMA ReadingStays ==
  ASSUME \A c \in Consumers : Reading(c)' <=> Reading(c),
         \A c \in Consumers : Reading(c) => co'[c].position = co[c].position,
         \A c \in Consumers : Reading(c) =>
           payload'[Slot(co[c].position)] = payload[Slot(co[c].position)]
  PROVE  ReadingMapped' = ReadingMapped
<1>1. ReadingMapped' = [c \in Consumers |-> IF Reading(c)' THEN payload'[Slot(co'[c].position)] ELSE 0]
  BY DEF ReadingMapped
<1> QED
  BY <1>1 DEF ReadingMapped

\* Sequences written as functions.
LEMMA FunctionIsSeq ==
  ASSUME NEW n \in Nat, NEW S, NEW f \in [1 .. n -> S]
  PROVE  f \in Seq(S) /\ Len(f) = n
OBVIOUS

LEMMA AppendIs ==
  ASSUME NEW n \in Nat, NEW f, f = [i \in 1 .. n |-> f[i]], NEW e
  PROVE  Append(f, e) = [i \in 1 .. n + 1 |-> IF i = n + 1 THEN e ELSE f[i]]
<1> DEFINE S == {f[i] : i \in 1 .. n} \cup {e}
           g == [i \in 1 .. n + 1 |-> IF i = n + 1 THEN e ELSE f[i]]
<1>1. f \in [1 .. n -> S]
  OBVIOUS
<1>2. f \in Seq(S) /\ Len(f) = n
  BY <1>1
<1>3. g \in [1 .. n + 1 -> S]
  OBVIOUS
<1>a. n + 1 \in Nat
  OBVIOUS
<1> HIDE DEF g, S
<1>4. g \in Seq(S) /\ Len(g) = n + 1
  BY <1>3, <1>a, FunctionIsSeq
<1> USE DEF g, S
<1>5. e \in S
  OBVIOUS
<1> HIDE DEF S
<1>6. /\ Append(f, e) \in Seq(S) /\ Len(Append(f, e)) = n + 1
      /\ \A i \in 1 .. n + 1 : Append(f, e)[i] = IF i = n + 1 THEN e ELSE f[i]
  BY <1>2, <1>5
<1>7. \A i \in 1 .. n + 1 : Append(f, e)[i] = g[i]
  BY <1>6
<1> HIDE DEF g
<1>8. Append(f, e) = g
  BY <1>4, <1>6, <1>7, SeqEqual
<1> QED
  BY <1>8 DEF g

LEMMA TailIs ==
  ASSUME NEW n \in Nat, n > 0, NEW f, f = [i \in 1 .. n |-> f[i]]
  PROVE  /\ Len(f) = n /\ f # <<>> /\ Head(f) = f[1]
         /\ Tail(f) = [i \in 1 .. n - 1 |-> f[i + 1]]
<1> DEFINE S == {f[i] : i \in 1 .. n}
           g == [i \in 1 .. n - 1 |-> f[i + 1]]
<1>1. f \in [1 .. n -> S]
  OBVIOUS
<1>2. f \in Seq(S) /\ Len(f) = n /\ f # <<>>
  BY <1>1
<1>3. g \in [1 .. n - 1 -> S] /\ n - 1 \in Nat
  OBVIOUS
<1> HIDE DEF g, S
<1>4. g \in Seq(S) /\ Len(g) = n - 1
  BY <1>3, FunctionIsSeq
<1> USE DEF g, S
<1> HIDE DEF S
<1>5. /\ Tail(f) \in Seq(S) /\ Len(Tail(f)) = n - 1
      /\ \A i \in 1 .. n - 1 : Tail(f)[i] = f[i + 1]
  BY <1>2, HeadTailProperties
<1>6. \A i \in 1 .. n - 1 : Tail(f)[i] = g[i]
  BY <1>5
<1> HIDE DEF g
<1>7. Tail(f) = g
  BY <1>4, <1>5, <1>6, SeqEqual
<1>8. Head(f) = f[1]
  BY <1>2
<1> QED
  BY <1>2, <1>7, <1>8 DEF g

-----------------------------------------------------------------------------
(***************************************************************************)
(* The steps of the ring as steps of the queue.                            *)
(***************************************************************************)
QueueStep == [Queue!QNext]_(Queue!qvars)

\* The instance counts as the ring does.
LEMMA SameCardinality ==
  ASSUME NEW S
  PROVE  Queue!Cardinality(S) = Cardinality(S)
BY DEF Queue!Cardinality, Cardinality

LEMMA Stutters ==
  ASSUME QueueMapped' = QueueMapped, ReadingMapped' = ReadingMapped, lost' = lost
  PROVE  QueueStep
BY DEF QueueStep, Queue!qvars

LEMMA Loses ==
  ASSUME TypeOK, NEW p \in Producers, NEW k \in LossKinds, Drop(p, k),
         QueueMapped' = QueueMapped, ReadingMapped' = ReadingMapped,
         k = "full" => Len(QueueMapped)
                       + Cardinality({c \in Consumers : ReadingMapped[c] # 0}) >= Capacity
  PROVE  QueueStep
<1>1. lost' = [lost EXCEPT ![k] = @ + 1]
  BY DEF Drop
<1>2. Queue!Lose(k)
  BY <1>1, SameCardinality DEF Queue!Lose
<1> QED
  BY <1>2 DEF QueueStep, Queue!QNext, Queue!LossKinds, LossKinds

\* "Full" is said only of a ring whose slots are all waiting or being read.
LEMMA FullIsFull ==
  ASSUME RingSound, OneReader, NEW p \in Producers, em[p].pc = "look",
         Difference(sequence[Slot(em[p].position)], em[p].position) < 0
  PROVE  Len(QueueMapped)
         + Cardinality({c \in Consumers : ReadingMapped[c] # 0}) >= Capacity
<1> DEFINE x == em[p].position
           s == Slot(x)
           R == {c \in Consumers : ReadingMapped[c] # 0}
<1>0. /\ TypeOK /\ x \in Positions /\ s \in Slots /\ Off(x) <= Taken
      /\ Off(x) \in Nat /\ Slot(x) = s
      /\ Difference(sequence[s], x) < 0
  BY Types, OffType DEF RingSound, ProducerSound
<1>1. /\ Taken \in Nat /\ Gone \in Nat /\ Gone <= Taken
      /\ Taken + Capacity < Wrap \div 2
  BY Reach DEF RingSound
<1>2. /\ sequence[s] \in Positions /\ Off(sequence[s]) \in Nat
      /\ Off(sequence[s]) < Wrap \div 2
  BY <1>0, NumberBound
<1> HIDE DEF x, s
<1>3. Off(sequence[s]) < Off(x)
  <2>1. Off(x) < Wrap \div 2
    BY <1>0, <1>1, Numbers
  <2>2. Difference(sequence[s], x) = Off(sequence[s]) - Off(x)
    BY <1>0, <1>2, <2>1, DifferenceOff
  <2> QED
    BY <1>0, <1>2, <2>2
<1>4. Len(QueueMapped) = Taken - Gone
  BY QueueShape
<1>5. IsFiniteSet(R) /\ Cardinality(R) \in Nat
  <2>1. R \subseteq Consumers /\ IsFiniteSet(Consumers)
    BY RingAssumption
  <2> QED
    BY <2>1, FS_Subset, FS_CardinalityType
<1>6. PICK y \in Positions : Slot(y) = s /\ (Open(s, y) \/ Filled(s, y))
  BY <1>0 DEF RingSound, SlotSound
<1>7. Off(y) \in Nat
  BY OffType
<1>8. Off(y) < Off(x)
  BY <1>0, <1>2, <1>3, <1>6, <1>7 DEF Open, Filled
<1>9. Off(y) + Capacity <= Off(x)
  BY <1>0, <1>6, <1>8, SlotApart
<1>10. CASE Gone <= Off(y)
  <2>1. Taken - Gone >= Capacity
    BY <1>0, <1>1, <1>7, <1>9, <1>10, Numbers
  <2> HIDE DEF R
  <2>2. Len(QueueMapped) + Cardinality(R) >= Capacity
    BY <1>1, <1>4, <1>5, <2>1, Numbers
  <2> QED
    BY <2>2 DEF R
<1>11. CASE Off(y) < Gone
  <2>1. Filled(s, y)
    BY <1>1, <1>6, <1>7, <1>11 DEF Open
  <2>2. PICK c \in Consumers : Reading(c) /\ co[c].position = y
    BY <1>6, <1>11, <2>1 DEF OneReader, HeldByReader, Filled
  <2>3. Off(y) + 1 = Gone
    BY <2>2 DEF OneReader, ReadsTheLast
  <2>4. c \in R
    <3>1. ReadingMapped[c] = payload[s]
      BY <1>6, <2>2 DEF ReadingMapped
    <3>2. payload[s] # 0
      BY <2>1, Reach DEF Filled, RingSound
    <3> QED
      BY <3>1, <3>2
  <2>5. Cardinality(R) # 0
    BY <1>5, <2>4, FS_EmptySet
  <2> HIDE DEF R
  <2>6. Len(QueueMapped) + Cardinality(R) >= Capacity
    BY <1>0, <1>1, <1>4, <1>5, <1>7, <1>9, <2>3, <2>5, Numbers
  <2> QED
    BY <2>6 DEF R
<1> QED
  BY <1>1, <1>7, <1>10, <1>11

\* A producer's quiet steps stutter or lose an event.
LEMMA QuietProducerMaps ==
  ASSUME RingSound, RingSound', OneReader, NEW p \in Producers,
         \/ EmitCall(p)
         \/ EmitPosition(p)
         \/ EmitLook(p)
         \/ EmitReload(p)
         \/ EmitCas(p) /\ enqueue_position # em[p].position
  PROVE  QueueStep
<1>0. TypeOK /\ em[p] \in EmType
  BY Types DEF RingSound
<1>1. UNCHANGED <<enqueue_position, dequeue_position, payload, co>>
  BY DEF EmitCall, EmitPosition, EmitLook, EmitReload, EmitCas, Again, ring
<1>2. ~Writing(p)
  BY DEF EmitCall, EmitPosition, EmitLook, EmitReload, EmitCas, Writing
<1>3. \/ UNCHANGED lost /\ \E r : Producing(p, r) /\ r.pc \notin WritePlaces
      \/ \E k \in LossKinds : Drop(p, k) /\ (k = "full" => EmitLook(p))
  <2>1. CASE EmitCall(p)
    <3> DEFINE r == [NoEmit EXCEPT !.pc = "position", !.event = offered + 1]
    <3>1. r.pc \notin WritePlaces
      BY DEF NoEmit, WritePlaces
    <3>2. (UNCHANGED lost /\ Producing(p, r)) \/ Drop(p, "disabled")
      BY <2>1 DEF EmitCall
    <3> HIDE DEF r
    <3> QED
      BY <3>1, <3>2 DEF LossKinds
  <2>2. CASE EmitPosition(p)
    <3> DEFINE r == [em[p] EXCEPT !.pc = "look", !.position = enqueue_position]
    <3>1. r.pc \notin WritePlaces
      BY <1>0 DEF EmType, WritePlaces
    <3>2. UNCHANGED lost /\ Producing(p, r)
      BY <2>2 DEF EmitPosition
    <3> HIDE DEF r
    <3> QED
      BY <3>1, <3>2
  <2>3. CASE EmitLook(p)
    <3> DEFINE r == [em[p] EXCEPT !.pc = "cas"]
               q == [em[p] EXCEPT !.pc = "reload"]
    <3>1. r.pc \notin WritePlaces /\ q.pc \notin WritePlaces
      BY <1>0 DEF EmType, WritePlaces
    <3>2. \/ UNCHANGED lost /\ Producing(p, r)
          \/ UNCHANGED lost /\ Producing(p, q)
          \/ Drop(p, "full")
      BY <2>3 DEF EmitLook
    <3> HIDE DEF r, q
    <3> QED
      BY <2>3, <3>1, <3>2 DEF LossKinds
  <2>4. CASE \/ EmitReload(p)
             \/ EmitCas(p) /\ enqueue_position # em[p].position
    <3> DEFINE r == [em[p] EXCEPT !.pc = "look", !.position = enqueue_position,
                                  !.retries = @ + 1]
    <3>1. r.pc \notin WritePlaces
      BY <1>0 DEF EmType, WritePlaces
    <3>2. Again(p, enqueue_position)
      BY <2>4 DEF EmitReload, EmitCas
    <3>3. (UNCHANGED lost /\ Producing(p, r)) \/ Drop(p, "contention")
      BY <3>2 DEF Again
    <3> HIDE DEF r
    <3> QED
      BY <3>1, <3>3 DEF LossKinds
  <2> QED
    BY <2>1, <2>2, <2>3, <2>4
<1>4. ~Writing(p)' /\ \A q \in Producers : q # p => em'[q] = em[q]
  <2>1. \E r : Producing(p, r) /\ r.pc \notin WritePlaces
    <3>1. NoEmit.pc \notin WritePlaces
      BY DEF NoEmit, WritePlaces
    <3> QED
      BY <1>3, <3>1 DEF Drop
  <2> QED
    BY <1>0, <2>1, Types DEF Producing, Writing, WritePlaces
<1>5. QueueMapped' = QueueMapped
  BY <1>1, <1>2, <1>4, MappedStays DEF Writing
<1>6. ReadingMapped' = ReadingMapped
  BY <1>1, ReadingStays DEF Reading
<1>7. CASE UNCHANGED lost
  BY <1>5, <1>6, <1>7, Stutters
<1>8. CASE \E k \in LossKinds : Drop(p, k) /\ (k = "full" => EmitLook(p))
  <2>1. PICK k \in LossKinds : Drop(p, k) /\ (k = "full" => EmitLook(p))
    BY <1>8
  <2>2. ASSUME k = "full"
        PROVE  /\ em[p].pc = "look"
               /\ Difference(sequence[Slot(em[p].position)], em[p].position) < 0
    <3> DEFINE d == Difference(sequence[Slot(em[p].position)], em[p].position)
    <3>1. EmitLook(p) /\ lost' # lost
      <4>1. lost["full"] \in Nat /\ lost'["full"] = lost["full"] + 1
        BY <1>0, <2>1, <2>2 DEF Drop, TypeOK
      <4> QED
        BY <2>1, <2>2, <4>1
    <3> QED
      BY <3>1 DEF EmitLook
  <2>3. k = "full" => Len(QueueMapped)
                      + Cardinality({c \in Consumers : ReadingMapped[c] # 0}) >= Capacity
    BY <2>2, FullIsFull
  <2> QED
    BY <1>0, <1>5, <1>6, <2>1, <2>3, Loses
<1> QED
  BY <1>3, <1>7, <1>8

\* Taking a position accepts the event.
LEMMA TakeMaps ==
  ASSUME RingSound, RingSound', NEW p \in Producers, EmitCas(p),
         enqueue_position = em[p].position
  PROVE  QueueStep
<1> DEFINE n == Taken - Gone
           e == em[p].event
           At(i) == Plus(dequeue_position, i - 1)
<1>0. /\ TypeOK /\ em[p] \in EmType /\ TakenOnce /\ TakenOnce'
      /\ enqueue_position \in Positions /\ dequeue_position \in Positions
  BY Types DEF RingSound, TypeOK
<1>1. /\ Taken \in Nat /\ Gone \in Nat /\ Gone <= Taken
      /\ Taken + Capacity < Wrap \div 2 /\ n \in Nat
  BY Reach, QueueShape DEF RingSound
<1>2. Taken' = Taken + 1 /\ Gone' = Gone
  BY EmitTakeKeeps DEF EmitCas, Gone
<1>3. /\ UNCHANGED <<dequeue_position, payload, lost, co>>
      /\ Producing(p, [em[p] EXCEPT !.pc = "write"])
      /\ em[p].pc = "cas"
  BY DEF EmitCas
<1>4. /\ em'[p].pc = "write" /\ em'[p].position = enqueue_position /\ em'[p].event = e
      /\ \A q \in Producers : q # p => em'[q] = em[q]
  BY <1>0, <1>3, Types DEF Producing, EmType
<1>5. /\ e \in 1 .. MaxEmits
  <2>1. e \in 1 .. offered /\ offered \in Nat /\ offered <= MaxEmits
    BY <1>3, Reach DEF RingSound, ProducerSound
  <2> QED
    BY <2>1, Numbers
<1>6. n < Capacity
  <2>1. Taken' <= Gone' + Capacity
    BY DEF RingSound, OrderSound
  <2> QED
    BY <1>1, <1>2, <2>1, Numbers
<1>7. \A i \in 1 .. n + 1 : At(i) \in Positions /\ Off(At(i)) = Gone + i - 1
  <2> SUFFICES ASSUME NEW i \in 1 .. n + 1
               PROVE  At(i) \in Positions /\ Off(At(i)) = Gone + i - 1
    OBVIOUS
  <2>1. Off(dequeue_position) + (i - 1) < Wrap /\ i - 1 \in Nat
    BY <1>1, Numbers DEF Gone
  <2> QED
    BY <1>0, <1>1, <2>1, PlusOff DEF Gone
<1>8. QueueMapped' = [i \in 1 .. n + 1 |-> EventIn(em', payload', At(i))]
  <2>1. (enqueue_position' - dequeue_position') % Wrap = n + 1
    <3>1. (enqueue_position' - dequeue_position') % Wrap =
            Off(enqueue_position') - Off(dequeue_position')
      <4>1. /\ enqueue_position' \in Positions /\ dequeue_position' \in Positions
            /\ Off(dequeue_position') <= Off(enqueue_position')
        BY DEF RingSound, TypeOK, OrderSound, Taken, Gone
      <4> QED
        BY <4>1, Between
    <3> QED
      BY <1>1, <1>2, <3>1 DEF Taken, Gone
  <2> QED
    BY <1>3, <2>1 DEF QueueMapped, EventAt, EventIn, Writing, WritePlaces
<1>9. QueueMapped = [i \in 1 .. n |-> EventIn(em, payload, At(i))]
  BY QueueShape, EventAtIs
<1>10. ASSUME NEW i \in 1 .. n PROVE EventIn(em', payload', At(i)) = EventIn(em, payload, At(i))
  <2>1. PICK x \in Positions : x = At(i)
    BY <1>1, <1>7
  <2>2. x # enqueue_position
    BY <1>1, <1>7, <2>1 DEF Taken
  <2>3. EventAt(x)' = EventAt(x)
    BY <1>0, <1>3, <1>4, <2>2, EventStays DEF Writing
  <2> QED
    BY <2>1, <2>3, EventAtIs
<1>11. EventIn(em', payload', At(n + 1)) = e
  <2>1. At(n + 1) = enqueue_position
    <3>1. At(n + 1) \in Positions /\ Off(At(n + 1)) = Off(enqueue_position)
      BY <1>1, <1>7 DEF Taken
    <3> QED
      BY <1>0, <3>1, OffInjective
  <2>2. em'[p].pc \in WritePlaces
    BY <1>4 DEF WritePlaces
  <2>3. \A q \in Producers : em'[q].pc \in WritePlaces /\ em'[q].position = enqueue_position => q = p
    BY <1>0, <1>4, <2>2 DEF TakenOnce, Writing, WritePlaces
  <2> QED
    BY <1>4, <2>1, <2>2, <2>3, EventInWriter
<1>12. QueueMapped' = Append(QueueMapped, e)
  <2> DEFINE f == [i \in 1 .. n |-> EventIn(em, payload, At(i))]
             g == [i \in 1 .. n + 1 |-> EventIn(em', payload', At(i))]
  <2>1. Len(f) = n
    BY <1>1
  <2>2. Append(f, e) = [i \in 1 .. n + 1 |-> IF i = n + 1 THEN e ELSE f[i]]
    <3>1. f = [i \in 1 .. n |-> f[i]]
      OBVIOUS
    <3> HIDE DEF f, n, e
    <3> QED
      BY <1>1, <3>1, AppendIs
  <2>3. \A i \in 1 .. n + 1 : g[i] = IF i = n + 1 THEN e ELSE f[i]
    BY <1>1, <1>10, <1>11
  <2> QED
    BY <1>8, <1>9, <2>2, <2>3
<1>13. Len(QueueMapped) = n
  BY <1>1, <1>9
<1>14. ReadingMapped' = ReadingMapped
  BY <1>3, ReadingStays DEF Reading
<1>15. Queue!Accept
  BY <1>3, <1>5, <1>6, <1>12, <1>13, <1>14 DEF Queue!Accept
<1> QED
  BY <1>15 DEF QueueStep, Queue!QNext

\* Filling and publishing change nothing in the queue.
LEMMA FillMaps ==
  ASSUME RingSound, RingSound', NEW p \in Producers,
         EmitWrite(p) \/ EmitStamp(p) \/ EmitPublish(p)
  PROVE  QueueStep
<1> DEFINE x == em[p].position
           t == Slot(x)
<1>0. /\ TypeOK /\ em[p] \in EmType /\ TakenOnce /\ TakenOnce' /\ Writing(p)
      /\ OrderSound
  BY Types DEF RingSound, EmitWrite, EmitStamp, EmitPublish, Writing
<1>1. /\ Taken \in Nat /\ Gone \in Nat /\ Taken <= Gone + Capacity
  BY Reach DEF RingSound
<1>2. /\ x \in Positions /\ t \in Slots /\ Off(x) \in Nat /\ Off(x) < Taken
      /\ Gone <= Off(x) /\ Slot(x) = t
  BY <1>0, WriterSlot DEF Open
<1>3. /\ UNCHANGED <<enqueue_position, dequeue_position, lost, co>>
      /\ \A s \in Slots \ {t} : payload'[s] = payload[s]
  BY <1>0 DEF EmitWrite, EmitStamp, EmitPublish, TypeOK
<1>4. \A q \in Producers : q # p => em'[q] = em[q]
  BY <1>0, Types DEF EmitWrite, EmitStamp, EmitPublish, Producing
<1>5. \A c \in Consumers : Reading(c) => Slot(co[c].position) \in Slots \ {t}
  BY <1>0, UsersApart, Types
<1>6. ReadingMapped' = ReadingMapped
  BY <1>3, <1>5, ReadingStays DEF Reading
<1>7. ASSUME NEW y \in Positions, Gone <= Off(y), Off(y) < Taken
      PROVE  EventAt(y)' = EventAt(y)
  <2>1. CASE y = x
    <3>1. CASE EmitPublish(p)
      <4>1. EventIn(em, payload, y) = em[p].event
        BY <1>0, <2>1, EventInWriter DEF TakenOnce, Writing, WritePlaces
      <4>2. EventIn(em', payload', y) = payload'[t]
        <5>1. em'[p].pc = "idle"
          BY <1>0, <3>1, Types DEF EmitPublish, Producing, NoEmit
        <5>2. \A q \in Producers : ~(em'[q].pc \in WritePlaces /\ em'[q].position = y)
          BY <1>0, <1>4, <2>1, <5>1 DEF TakenOnce, Writing, WritePlaces
        <5> QED
          BY <1>2, <2>1, <5>2, EventInSlot
      <4>3. payload'[t] = em[p].event
        BY <3>1 DEF EmitPublish, RingSound, ProducerSound
      <4> QED
        BY <4>1, <4>2, <4>3, EventAtIs
    <3>2. CASE EmitWrite(p) \/ EmitStamp(p)
      <4>1. Writing(p)' /\ em'[p].position = x /\ em'[p].event = em[p].event
        BY <1>0, <3>2, Types DEF EmitWrite, EmitStamp, Producing, EmType, Writing
      <4> HIDE DEF x
      <4> QED
        BY <1>0, <1>4, <2>1, <4>1, EventStays DEF x, Writing
    <3> QED
      BY <3>1, <3>2
  <2>2. CASE y # x
    <3>1. Off(y) \in Nat /\ Slot(y) \in Slots
      BY OffType, SlotOff
    <3> HIDE DEF x, t
    <3>2. Slot(y) # t
      <4> SUFFICES ASSUME Slot(y) = t PROVE FALSE
        OBVIOUS
      <4>1. CASE Off(y) < Off(x)
        <5>1. Off(y) + Capacity <= Off(x)
          BY <1>2, <4>1, SlotApart
        <5> QED
          BY <1>1, <1>2, <1>7, <3>1, <5>1, Numbers
      <4>2. CASE Off(x) < Off(y)
        <5>1. Off(x) + Capacity <= Off(y)
          BY <1>2, <4>2, SlotApart
        <5> QED
          BY <1>1, <1>2, <1>7, <3>1, <5>1, Numbers
      <4>3. CASE Off(x) = Off(y)
        BY <1>2, <2>2, <4>3, OffInjective
      <4> QED
        BY <1>2, <3>1, <4>1, <4>2, <4>3
    <3>3. payload'[Slot(y)] = payload[Slot(y)]
      BY <1>3, <3>1, <3>2
    <3>4. Writing(p)' => em'[p].position = x
      BY <1>0, Types DEF EmitWrite, EmitStamp, EmitPublish, Producing, EmType, Writing,
                         NoEmit, x
    <3>5. em[p].position = x
      BY DEF x
    <3> QED
      BY <1>0, <1>4, <2>2, <3>3, <3>4, <3>5, EventStays DEF Writing
  <2> QED
    BY <2>1, <2>2
<1>8. QueueMapped' = QueueMapped
  BY <1>3, <1>7, QueueStays
<1> QED
  BY <1>3, <1>6, <1>8, Stutters

\* A consumer that takes a position takes the head of the queue.
LEMMA HeadMaps ==
  ASSUME RingSound, RingSound', NEW c \in Consumers, DrainCas(c),
         dequeue_position = co[c].position
  PROVE  QueueStep
<1> DEFINE n == Taken - Gone
           x == co[c].position
           At(i) == Plus(dequeue_position, i - 1)
           B(i)  == Plus(dequeue_position', i - 1)
<1>0. /\ TypeOK /\ co[c] \in CoType /\ x \in Positions /\ Slot(x) \in Slots
      /\ TakenOnce /\ TakenOnce' /\ ConsumerSound(c)
      /\ enqueue_position \in Positions /\ dequeue_position \in Positions
  BY Types DEF RingSound, TypeOK
<1>1. /\ Taken \in Nat /\ Gone \in Nat /\ Gone <= Taken
      /\ Taken + Capacity < Wrap \div 2 /\ n \in Nat
  BY Reach, QueueShape DEF RingSound
<1>2. Gone' = Gone + 1 /\ Taken' = Taken /\ Off(x) = Gone
  BY DrainTakeKeeps DEF DrainCas, Taken, Gone
<1>3. /\ UNCHANGED <<enqueue_position, payload, lost, em>>
      /\ Consuming(c, [co[c] EXCEPT !.pc = "copy"])
      /\ co[c].pc = "cas"
  BY DEF DrainCas
<1>4. /\ co'[c].pc = "copy" /\ co'[c].position = x
      /\ \A d \in Consumers : d # c => co'[d] = co[d]
  BY <1>0, <1>3, Types DEF Consuming, CoType
<1>5. Off(sequence[Slot(x)]) = Off(x) + 1
  BY <1>0, <1>3 DEF ConsumerSound
<1>6. n >= 1
  <2>1. Gone' <= Taken'
    BY DEF RingSound, OrderSound
  <2> QED
    BY <1>1, <1>2, <2>1
<1>7. /\ dequeue_position' \in Positions
      /\ Off(dequeue_position') = Gone + 1
  BY <1>2 DEF RingSound, TypeOK, Gone
<1>8. QueueMapped' = [i \in 1 .. n - 1 |-> EventIn(em, payload, B(i))]
  <2>1. (enqueue_position' - dequeue_position') % Wrap = n - 1
    <3>1. /\ enqueue_position' \in Positions
          /\ Off(dequeue_position') <= Off(enqueue_position')
      BY DEF RingSound, TypeOK, OrderSound, Taken, Gone
    <3>2. (enqueue_position' - dequeue_position') % Wrap =
            Off(enqueue_position') - Off(dequeue_position')
      BY <1>7, <3>1, Between
    <3> QED
      BY <1>1, <1>2, <3>2 DEF Taken, Gone
  <2> QED
    BY <1>3, <2>1 DEF QueueMapped, EventAt, EventIn, Writing, WritePlaces
<1>9. QueueMapped = [i \in 1 .. n |-> EventIn(em, payload, At(i))]
  BY QueueShape, EventAtIs
<1>10. ASSUME NEW i \in 1 .. n - 1 PROVE B(i) = At(i + 1)
  <2>1. i + 1 \in 1 .. n /\ i \in Nat
    BY <1>1, <1>6
  <2>2. At(i + 1) \in Positions /\ Off(At(i + 1)) = Gone + (i + 1) - 1
    BY <2>1, QueueShape
  <2>3. B(i) \in Positions /\ Off(B(i)) = Off(dequeue_position') + (i - 1)
    <3>1. i - 1 \in Nat /\ Off(dequeue_position') + (i - 1) < Wrap
      BY <1>1, <1>7, <2>1, Numbers
    <3> QED
      BY <1>7, <3>1, PlusOff
  <2>4. Off(B(i)) = Off(At(i + 1))
    BY <1>1, <1>7, <2>1, <2>2, <2>3
  <2> QED
    BY <2>2, <2>3, <2>4, OffInjective
<1>11. At(1) = x
  <2>1. At(1) \in Positions /\ Off(At(1)) = Off(x)
    <3>1. At(1) \in Positions /\ Off(At(1)) = Gone + 1 - 1
      BY <1>1, <1>6, QueueShape
    <3> QED
      BY <1>1, <1>2, <3>1
  <2> QED
    BY <1>0, <2>1, OffInjective
<1>12. EventIn(em, payload, x) = payload[Slot(x)]
  <2>1. ASSUME NEW q \in Producers, em[q].pc \in WritePlaces, em[q].position = x PROVE FALSE
    <3>1. sequence[Slot(x)] = x
      BY <2>1 DEF RingSound, ProducerSound, Writing, WritePlaces
    <3> QED
      BY <1>1, <1>2, <1>5, <3>1
  <2> HIDE DEF x
  <2> QED
    BY <2>1, EventInSlot
<1>13. /\ Len(QueueMapped) = n /\ QueueMapped # <<>>
       /\ Head(QueueMapped) = payload[Slot(x)]
       /\ Tail(QueueMapped) = [i \in 1 .. n - 1 |-> QueueMapped[i + 1]]
  <2>1. QueueMapped[1] = EventIn(em, payload, At(1))
    BY <1>1, <1>6, <1>9
  <2>2. QueueMapped = [i \in 1 .. n |-> QueueMapped[i]]
    BY <1>9
  <2>3. n > 0
    BY <1>1, <1>6
  <2>4. /\ Len(QueueMapped) = n /\ QueueMapped # <<>>
        /\ Head(QueueMapped) = QueueMapped[1]
        /\ Tail(QueueMapped) = [i \in 1 .. n - 1 |-> QueueMapped[i + 1]]
    <3> HIDE DEF n
    <3> QED
      BY <1>1, <2>2, <2>3, TailIs
  <2> QED
    BY <1>11, <1>12, <2>1, <2>4
<1>14. QueueMapped' = Tail(QueueMapped)
  <2>1. Tail(QueueMapped) = [i \in 1 .. n - 1 |-> QueueMapped[i + 1]]
    BY <1>13
  <2>2. ASSUME NEW i \in 1 .. n - 1
        PROVE  QueueMapped[i + 1] = EventIn(em, payload, B(i))
    <3>1. i + 1 \in 1 .. n
      BY <1>1, <1>6
    <3>2. QueueMapped[i + 1] = EventIn(em, payload, At(i + 1))
      BY <1>9, <3>1
    <3> QED
      BY <1>10, <3>2
  <2> QED
    BY <1>8, <2>1, <2>2
<1>15. ReadingMapped[c] = 0
  BY <1>3 DEF ReadingMapped, Reading
<1>16. ReadingMapped' = [ReadingMapped EXCEPT ![c] = Head(QueueMapped)]
  <2>1. ReadingMapped' = [d \in Consumers |-> IF Reading(d)' THEN payload'[Slot(co'[d].position)] ELSE 0]
    BY DEF ReadingMapped
  <2>2. Reading(c)' /\ payload'[Slot(co'[c].position)] = payload[Slot(x)]
    BY <1>3, <1>4 DEF Reading
  <2>3. ASSUME NEW d \in Consumers, d # c
        PROVE  /\ Reading(d)' <=> Reading(d)
               /\ payload'[Slot(co'[d].position)] = payload[Slot(co[d].position)]
    BY <1>3, <1>4, <2>3 DEF Reading
  <2>4. ASSUME NEW d \in Consumers
        PROVE  (IF Reading(d)' THEN payload'[Slot(co'[d].position)] ELSE 0)
                 = IF d = c THEN payload[Slot(x)] ELSE ReadingMapped[d]
    <3>1. CASE d = c
      BY <2>2, <3>1
    <3>2. CASE d # c
      <4>1. ReadingMapped[d] = IF Reading(d) THEN payload[Slot(co[d].position)] ELSE 0
        BY DEF ReadingMapped
      <4> QED
        BY <2>3, <3>2, <4>1
    <3> QED
      BY <3>1, <3>2
  <2>5. ReadingMapped \in [Consumers -> {ReadingMapped[d] : d \in Consumers}]
    BY DEF ReadingMapped
  <2> HIDE DEF x
  <2> QED
    BY <1>13, <2>1, <2>4, <2>5
<1>17. Queue!Take(c)
  BY <1>3, <1>13, <1>14, <1>15, <1>16 DEF Queue!Take
<1> QED
  BY <1>17 DEF QueueStep, Queue!QNext


\* The consumer's steps that take nothing and release nothing.
LEMMA QuietConsumerMaps ==
  ASSUME RingSound, RingSound', NEW c \in Consumers,
         \/ DrainPosition(c)
         \/ DrainLook(c)
         \/ DrainCas(c) /\ dequeue_position # co[c].position
         \/ DrainCopy(c)
         \/ DrainCopyRest(c)
  PROVE  QueueStep
<1>0. co[c] \in CoType
  BY Types DEF RingSound
<1>1. UNCHANGED <<enqueue_position, dequeue_position, payload, lost, em>>
  BY DEF DrainPosition, DrainLook, DrainCas, DrainCopy, DrainCopyRest, ring
<1>2. /\ Reading(c)' <=> Reading(c)
      /\ Reading(c) => co'[c].position = co[c].position
      /\ \A d \in Consumers : d # c => co'[d] = co[d]
  <2>0. TypeOK
    BY DEF RingSound
  <2>1. CASE DrainPosition(c)
    BY <1>0, <2>0, <2>1, Types DEF DrainPosition, Consuming, Reading, CoType
  <2>2. CASE DrainLook(c)
    <3>1. ~Reading(c)
      BY <2>2 DEF DrainLook, Reading
    <3>2. Consuming(c, NoConsume) \/ Consuming(c, [co[c] EXCEPT !.pc = "cas"])
      BY <2>2 DEF DrainLook
    <3>3. ~Reading(c)' /\ \A d \in Consumers : d # c => co'[d] = co[d]
      BY <1>0, <2>0, <3>2, Types DEF Consuming, Reading, NoConsume, CoType
    <3> QED
      BY <3>1, <3>3
  <2>3. CASE DrainCas(c) /\ dequeue_position # co[c].position
    BY <1>0, <2>0, <2>3, Types DEF DrainCas, Consuming, Reading, NoConsume
  <2>4. CASE DrainCopy(c)
    BY <1>0, <2>0, <2>4, Types DEF DrainCopy, Consuming, Reading, CoType
  <2>5. CASE DrainCopyRest(c)
    BY <1>0, <2>0, <2>5, Types DEF DrainCopyRest, Consuming, Reading, CoType
  <2> QED
    BY <2>1, <2>2, <2>3, <2>4, <2>5
<1>3. QueueMapped' = QueueMapped
  BY <1>1, MappedStays DEF Writing
<1>4. ReadingMapped' = ReadingMapped
  BY <1>1, <1>2, ReadingStays DEF Reading
<1> QED
  BY <1>1, <1>3, <1>4, Stutters

\* Releasing the slot ends the reading.
LEMMA ReleaseMaps ==
  ASSUME RingSound, RingSound', NEW c \in Consumers, DrainRelease(c)
  PROVE  QueueStep
<1>0. TypeOK /\ co[c] \in CoType
  BY Types DEF RingSound
<1>1. UNCHANGED <<enqueue_position, dequeue_position, payload, lost, em>>
  BY DEF DrainRelease
<1>2. \/ Consuming(c, NoConsume)
      \/ Consuming(c, [NoConsume EXCEPT !.consumed = co[c].consumed + 1])
  BY DEF DrainRelease
<1>3. ~Reading(c)' /\ \A d \in Consumers : d # c => co'[d] = co[d]
  BY <1>0, <1>2, Types DEF Consuming, Reading, NoConsume
<1>4. QueueMapped' = QueueMapped
  BY <1>1, MappedStays DEF Writing
<1>5. ReadingMapped' = [ReadingMapped EXCEPT ![c] = 0]
  <2>1. ReadingMapped' =
          [d \in Consumers |-> IF Reading(d)' THEN payload'[Slot(co'[d].position)] ELSE 0]
    BY DEF ReadingMapped
  <2>2. ASSUME NEW d \in Consumers
        PROVE  (IF Reading(d)' THEN payload'[Slot(co'[d].position)] ELSE 0)
                 = IF d = c THEN 0 ELSE ReadingMapped[d]
    <3>1. CASE d = c
      BY <1>3, <3>1
    <3>2. CASE d # c
      BY <1>1, <1>3, <3>2 DEF ReadingMapped, Reading
    <3> QED
      BY <3>1, <3>2
  <2>3. ReadingMapped \in [Consumers -> {ReadingMapped[d] : d \in Consumers}]
    BY DEF ReadingMapped
  <2> QED
    BY <2>1, <2>2, <2>3
<1>6. Queue!Done(c)
  BY <1>1, <1>4, <1>5 DEF Queue!Done
<1> QED
  BY <1>6 DEF QueueStep, Queue!QNext

\* Every step of the ring is a step of the queue, or none.
LEMMA NextMaps ==
  ASSUME OneReader, RingSound, RingSound', [Next]_vars
  PROVE  QueueStep
<1>1. ASSUME NEW p \in Producers, EmitCall(p) \/ Emit(p) PROVE QueueStep
  <2>1. CASE \/ EmitCall(p)
             \/ EmitPosition(p)
             \/ EmitLook(p)
             \/ EmitReload(p)
             \/ EmitCas(p) /\ enqueue_position # em[p].position
    BY <2>1, QuietProducerMaps
  <2>2. CASE EmitCas(p) /\ enqueue_position = em[p].position
    BY <2>2, TakeMaps
  <2>3. CASE EmitWrite(p) \/ EmitStamp(p) \/ EmitPublish(p)
    BY <2>3, FillMaps
  <2> QED
    BY <1>1, <2>1, <2>2, <2>3 DEF Emit
<1>2. ASSUME NEW c \in Consumers, Drain(c) PROVE QueueStep
  <2>1. CASE \/ DrainPosition(c)
             \/ DrainLook(c)
             \/ DrainCas(c) /\ dequeue_position # co[c].position
             \/ DrainCopy(c)
             \/ DrainCopyRest(c)
    BY <2>1, QuietConsumerMaps
  <2>2. CASE DrainCas(c) /\ dequeue_position = co[c].position
    BY <2>2, HeadMaps
  <2>3. CASE DrainRelease(c)
    BY <2>3, ReleaseMaps
  <2> QED
    BY <1>2, <2>1, <2>2, <2>3 DEF Drain
<1>3. CASE Enable \/ Disable \/ UNCHANGED vars
  <2>1. UNCHANGED <<enqueue_position, dequeue_position, payload, lost, em, co>>
    BY <1>3 DEF Enable, Disable, vars, ring
  <2>2. QueueMapped' = QueueMapped
    BY <2>1, MappedStays DEF Writing
  <2>3. ReadingMapped' = ReadingMapped
    BY <2>1, ReadingStays DEF Reading
  <2> QED
    BY <2>1, <2>2, <2>3, Stutters
<1> QED
  BY <1>1, <1>2, <1>3 DEF Next

LEMMA InitMaps == Init => Queue!QInit
<1> SUFFICES ASSUME Init PROVE Queue!QInit
  OBVIOUS
<1>1. QueueMapped = <<>>
  <2>1. (enqueue_position - dequeue_position) % Wrap = 0
    BY Numbers DEF Init
  <2> QED
    BY <2>1 DEF QueueMapped
<1>2. ReadingMapped = [c \in Consumers |-> 0]
  BY DEF Init, ReadingMapped, Reading, NoConsume
<1>3. lost = [k \in LossKinds |-> 0]
  BY DEF Init
<1> QED
  BY <1>1, <1>2, <1>3 DEF Queue!QInit, Queue!LossKinds, LossKinds

\* With one consumer, the telemetry thread, the ring is a bounded first in,
\* first out queue for any number of producers: what is accepted is handed over
\* once, in the order of acceptance, unchanged while it is read, and an event is
\* dropped as "full" only while every slot is waiting or being read.
THEOREM RingIsQueue ==
  ASSUME OneConsumer
  PROVE  Spec => IsQueue
<1>1. Init /\ [][Next]_vars => []OneReader
  <2>1. RingSound /\ OneReader /\ [Next]_vars => OneReader'
    BY NextOneReader
  <2> QED
    BY <2>1, InitOneReader, AlwaysSound, PTL DEF Spec
<1>2. OneReader /\ RingSound /\ RingSound' /\ [Next]_vars => [Queue!QNext]_(Queue!qvars)
  BY NextMaps DEF QueueStep
<1> QED
  BY <1>1, <1>2, InitMaps, AlwaysSound, PTL DEF Spec, IsQueue, Queue!QSpec
====
