----------------------------- MODULE PartsProofs -----------------------------
(***************************************************************************)
(* Proofs about the parts: definition scaling and the promise it keeps,    *)
(* the generator records, the providers, the patches of the extras, the    *)
(* watchdog, the preparers; for any number of definitions, records,        *)
(* providers, threads, stubs and sites, and any threshold.  The last       *)
(* section is about the queue hooks of the extras.                         *)
(***************************************************************************)
EXTENDS Parts, ExtrasQueue, FiniteSetTheorems, FunctionTheorems,
        SequenceTheorems, WellFoundedInduction, TLAPS

\* Whatever part is followed, each part takes its own steps or none.
LEMMA EachOnItsOwn ==
  ASSUME [Next]_vars
  PROVE  /\ [NextPreparation]_preparation /\ [NextExtras]_extras
         /\ [NextDefinitions]_definitions /\ [NextProviders \/ NextGenerator]_pools
         /\ [NextWatchdog]_diagnostics
BY DEF Next, vars, AloneInWatchdog, Follows

-----------------------------------------------------------------------------
(***************************************************************************)
(* Definition scaling.                                                     *)
(***************************************************************************)
Looks == {"stock", "scaled", "foreign"}
Busy == {"select", "compute", "write", "verify", "restore", "reverify"}
Refusals ==
  {"BAD_MANAGER", "BAD_COUNTS", "BAD_FLOAT", "FINGERPRINT_REFUSED", "WRITE_VERIFY_FAILED",
   "CALLBACK_BEFORE_ACTIVATION"}

DefinitionTypes ==
  /\ callback \in {"UNARMED", "ARMED", "RUNNING", "COMPLETE", "FAILED"}
  /\ step \in {"none", "look", "swap"} \cup Busy
  /\ selected \subseteq Definitions /\ mutated \subseteq selected
  /\ value \in [Definitions -> [Fields -> Looks]]
  /\ original \in [Definitions -> [Fields -> Looks]]
  /\ loaded \in Nat /\ returned \in Nat

\* Where the callback is goes with the state of the handshake, and the state
\* with what was reported.
HandshakeSound ==
  /\ step = "swap" => prior \in {"UNARMED", "ARMED"}
  /\ callback = "RUNNING" <=> step \in Busy
  /\ returned > 0 => callback \in Terminal
  /\ step # "none" \/ callback \in {"RUNNING", "COMPLETE"} => loaded > 0
  /\ callback \in {"UNARMED", "ARMED"} => scaling = "NOT_RUN"
  /\ callback = "RUNNING" =>
       scaling = IF step \in {"restore", "reverify"} THEN "APPLIED" ELSE "NOT_RUN"
  /\ callback = "COMPLETE" => scaling \in {"APPLIED", "NO_CHANGE"}
  /\ callback = "FAILED" => scaling \in {"NOT_RUN", "ROLLBACK_FAILED"} \cup Refusals

\* Nothing shows a scaled value but what was written by the callback, and the
\* originals it keeps are never scaled.
FieldsSound ==
  /\ ShowingScaled \subseteq Own
  /\ \A d \in Definitions, f \in Fields : original[d][f] # "scaled"
  /\ ShowingScaled # {} =>
       \/ callback = "RUNNING" /\ step \in {"verify", "restore"}
       \/ callback = "FAILED" /\ scaling = "ROLLBACK_FAILED"
       \/ callback = "COMPLETE" /\ scaling = "APPLIED"
  /\ step \in {"write", "verify", "restore", "reverify"} => mutated # {}
  /\ callback = "COMPLETE" /\ scaling = "APPLIED" =>
       \/ \A x \in Own : value[x[1]][x[2]] # "stock"
       \/ loaded > 1 /\ ShowingScaled = {}

DInv == DefinitionTypes /\ HandshakeSound /\ FieldsSound

LEMMA DefinitionsStart ==
  ASSUME InitDefinitions
  PROVE  DInv
<1> USE DEF InitDefinitions
<1>1. value \in [Definitions -> [Fields -> Looks]] /\ original = value
  BY DEF Stock, Looks
<1>2. \A d \in Definitions, f \in Fields : value[d][f] = "stock"
  BY DEF Stock
<1>3. DefinitionTypes /\ HandshakeSound
  BY <1>1, DefinitionAssumption DEF DefinitionTypes, HandshakeSound, Busy, Terminal
<1>4. FieldsSound
  BY <1>1, <1>2 DEF FieldsSound, ShowingScaled
<1> QED BY <1>3, <1>4 DEF DInv

\* What a pass of the callback over the catalogue writes, field by field.
LEMMA PutFields ==
  ASSUME NEW d \in Definitions, NEW v, value[d] \in [Fields -> Looks], v \in [Fields -> Looks]
  PROVE  /\ Put(d, v) \in [Fields -> Looks]
         /\ \A f \in FieldsOf(d) : Put(d, v)[f] = v[f]
         /\ \A f \in Fields \ FieldsOf(d) : Put(d, v)[f] = value[d][f]
BY DEF Put, FieldsOf, Fields

LEMMA DefinitionsKept ==
  ASSUME DInv, NextDefinitions
  PROVE  DInv'
<1> USE DEF DInv
<1>1. CASE Arm \/ Disarm
  BY <1>1 DEF Arm, Disarm, DefinitionTypes, HandshakeSound, FieldsSound, ShowingScaled, Own,
     Busy, Terminal, Refusals
<1>2. CASE LoadDefinitions
  <2>1. value' \in [Definitions -> [Fields -> Looks]]
        /\ \A d \in Definitions, f \in Fields : value'[d][f] = "stock"
    BY <1>2 DEF LoadDefinitions, Stock, Looks
  <2>2. ShowingScaled' = {}
    BY <2>1 DEF ShowingScaled
  <2>3. DefinitionTypes'
    BY <1>2, <2>1 DEF LoadDefinitions, DefinitionTypes
  <2>4. HandshakeSound'
    BY <1>2 DEF LoadDefinitions, HandshakeSound, DefinitionTypes, Busy
  <2>5. FieldsSound'
    BY <1>2, <2>2 DEF LoadDefinitions, FieldsSound, HandshakeSound, DefinitionTypes, Own
  <2> QED BY <2>3, <2>4, <2>5
<1>3. CASE AnotherModWrites
  <2>1. PICK d \in Definitions, f \in Fields : value' = [value EXCEPT ![d][f] = "foreign"]
    BY <1>3 DEF AnotherModWrites
  <2>2. value' \in [Definitions -> [Fields -> Looks]]
        /\ \A e \in Definitions, g \in Fields :
             value'[e][g] = IF e = d /\ g = f THEN "foreign" ELSE value[e][g]
    BY <2>1 DEF DefinitionTypes, Looks
  <2>3. UNCHANGED <<callback, scaling, selected, mutated, original, step, prior, loaded, returned, Own>>
    BY <1>3 DEF AnotherModWrites, Own
  <2>4. ShowingScaled' \subseteq ShowingScaled
    BY <2>2 DEF ShowingScaled
  <2>5. \A x \in Own : value[x[1]][x[2]] # "stock" => value'[x[1]][x[2]] # "stock"
    BY <2>2 DEF Own
  <2> QED BY <2>2, <2>3, <2>4, <2>5 DEF DefinitionTypes, HandshakeSound, FieldsSound
<1>4. CASE Look \/ Swap
  <2>1. UNCHANGED <<selected, mutated, value, original, loaded, Own, ShowingScaled>>
    BY <1>4 DEF Look, Swap, Own, ShowingScaled
  <2>2. DefinitionTypes'
    BY <1>4, <2>1 DEF Look, Swap, LeaveWith, DefinitionTypes, Busy
  <2>3. HandshakeSound'
    BY <1>4, <2>1 DEF Look, Swap, LeaveWith, DefinitionTypes, HandshakeSound, Busy, Terminal,
       Refusals
  <2>4. FieldsSound'
    BY <1>4, <2>1 DEF Look, Swap, LeaveWith, HandshakeSound, FieldsSound, Busy, Terminal
  <2> QED BY <2>2, <2>3, <2>4
<1>5. CASE Select \/ Compute
  <2>1. ShowingScaled = {} /\ ShowingScaled' = {} /\ callback = "RUNNING" /\ UNCHANGED value
        /\ loaded > 0
    BY <1>5 DEF Select, Compute, FieldsSound, HandshakeSound, Busy, ShowingScaled
  <2>2. \A d \in Definitions, f \in Fields : value[d][f] # "scaled"
    <3> SUFFICES ASSUME NEW d \in Definitions, NEW f \in Fields, value[d][f] = "scaled"
                 PROVE  FALSE
      OBVIOUS
    <3>1. <<d, f>> \in ShowingScaled
      BY DEF ShowingScaled
    <3> QED BY <2>1, <3>1
  <2>3. original' \in [Definitions -> [Fields -> Looks]]
        /\ \A d \in Definitions, f \in Fields : original'[d][f] # "scaled"
    BY <1>5, <2>2 DEF Select, Compute, Stock, Looks, DefinitionTypes, FieldsSound
  <2>4. DefinitionTypes'
    BY <1>5, <2>3 DEF Select, Compute, Settle, LeaveWith, DefinitionTypes, Busy
  <2>5. HandshakeSound'
    BY <1>5, <2>1 DEF Select, Compute, Settle, LeaveWith, HandshakeSound, Busy, Terminal, Refusals
  <2>6. FieldsSound'
    BY <1>5, <2>1, <2>3 DEF Select, Compute, Settle, LeaveWith, FieldsSound, HandshakeSound
  <2> QED BY <2>4, <2>5, <2>6
<1>6. CASE Write
  <2>1. UNCHANGED <<callback, scaling, selected, mutated, original, prior, loaded, returned, Own>>
        /\ step = "write" /\ step' = "verify"
    BY <1>6 DEF Write, Own
  <2>2. Scaled \in [Fields -> Looks]
    BY DEF Scaled, Looks
  <2>3. value' \in [Definitions -> [Fields -> Looks]]
    BY <1>6, <2>2, PutFields DEF Write, DefinitionTypes
  <2>4. \A d \in Definitions, f \in Fields :
          d \notin mutated \/ f \notin FieldsOf(d) => value'[d][f] = value[d][f]
    BY <1>6, <2>2, PutFields DEF Write, DefinitionTypes
  <2>5. ShowingScaled' \subseteq Own'
    BY <2>1, <2>4 DEF ShowingScaled, Own, FieldsSound
  <2> QED BY <2>1, <2>3, <2>5 DEF DefinitionTypes, HandshakeSound, FieldsSound, Busy
<1>7. CASE Verify
  <2>1. UNCHANGED <<selected, mutated, value, original, loaded, Own, ShowingScaled>>
    BY <1>7 DEF Verify, Own, ShowingScaled
  <2>2. (\A d \in mutated : Shows(d, Scaled)) => \A x \in Own : value[x[1]][x[2]] # "stock"
    BY DEF Own, Shows, Scaled, Fields
  <2>3. DefinitionTypes' /\ HandshakeSound'
    BY <1>7, <2>1 DEF Verify, Settle, LeaveWith, DefinitionTypes, HandshakeSound, Busy, Terminal
  <2>4. FieldsSound'
    BY <1>7, <2>1, <2>2 DEF Verify, Settle, LeaveWith, FieldsSound, HandshakeSound, Busy
  <2> QED BY <2>3, <2>4
<1>8. CASE Restore
  <2>1. UNCHANGED <<selected, mutated, original, loaded, Own>> /\ step = "restore"
    BY <1>8 DEF Restore, Own
  <2>2. value' \in [Definitions -> [Fields -> Looks]]
    <3>1. \A d \in Definitions : Put(d, original[d]) \in [Fields -> Looks]
      BY PutFields DEF DefinitionTypes
    <3> QED BY <1>8, <3>1 DEF Restore, DefinitionTypes
  <2>3. step' = "reverify" => ShowingScaled' = {}
    <3> SUFFICES ASSUME step' = "reverify", NEW x \in Definitions \X Fields
                 PROVE  value'[x[1]][x[2]] # "scaled"
      BY DEF ShowingScaled
    <3>1. value' = [d \in Definitions |->
                      IF d \in mutated THEN Put(d, original[d]) ELSE value[d]]
      BY <1>8 DEF Restore, Settle, LeaveWith
    <3>2. CASE x \in Own
      <4>1. value'[x[1]][x[2]] = original[x[1]][x[2]]
        BY <3>1, <3>2, PutFields DEF Own, DefinitionTypes
      <4> QED BY <4>1 DEF FieldsSound
    <3>3. CASE x \notin Own
      <4>1. value'[x[1]][x[2]] = value[x[1]][x[2]]
        BY <3>1, <3>3, PutFields DEF Own, DefinitionTypes
      <4> QED BY <3>3, <4>1 DEF FieldsSound, ShowingScaled
    <3> QED BY <3>2, <3>3
  <2>4. DefinitionTypes' /\ HandshakeSound'
    BY <1>8, <2>1, <2>2 DEF Restore, Settle, LeaveWith, DefinitionTypes, HandshakeSound, Busy,
       Terminal
  <2>5. step' # "reverify" => ShowingScaled' = ShowingScaled
    BY <1>8 DEF Restore, Settle, LeaveWith, ShowingScaled
  <2>6. FieldsSound'
    BY <1>8, <2>1, <2>3, <2>5 DEF Restore, Settle, LeaveWith, FieldsSound, HandshakeSound, Busy
  <2> QED BY <2>4, <2>6
<1>9. CASE Reverify
  <2>1. UNCHANGED <<selected, mutated, value, original, loaded, Own, ShowingScaled>>
    BY <1>9 DEF Reverify, Own, ShowingScaled
  <2>2. DefinitionTypes' /\ HandshakeSound'
    BY <1>9, <2>1 DEF Reverify, Settle, LeaveWith, DefinitionTypes, HandshakeSound, Busy, Terminal,
       Refusals
  <2>3. FieldsSound'
    BY <1>9, <2>1 DEF Reverify, Settle, LeaveWith, FieldsSound, HandshakeSound, Busy
  <2> QED BY <2>2, <2>3
<1> QED BY <1>1, <1>2, <1>3, <1>4, <1>5, <1>6, <1>7, <1>8, <1>9 DEF NextDefinitions, Callback

LEMMA DefinitionsSound == Spec => []DInv
<1>1. Init => DInv
  BY DefinitionsStart DEF Init
<1>2. DInv /\ [Next]_vars => DInv'
  <2> SUFFICES ASSUME DInv, [Next]_vars PROVE DInv'
    OBVIOUS
  <2>1. CASE UNCHANGED definitions
    BY <2>1 DEF definitions, DInv, DefinitionTypes, HandshakeSound, FieldsSound, ShowingScaled, Own
  <2> QED BY <2>1, DefinitionsKept, EachOnItsOwn
<1> QED BY <1>1, <1>2, PTL DEF Spec

\* The handshake never leaves an arming behind, and what the engine's fields
\* show is what the status says.
THEOREM DefinitionsAgree == Spec => []DefinitionsInv
<1>1. DInv => DefinitionsInv
  BY DEF DInv, DefinitionTypes, HandshakeSound, FieldsSound, DefinitionsInv, Busy
<1> QED BY <1>1, DefinitionsSound, PTL

\* Each step of the callback and of those around it is one of the promise, or
\* none at all.
LEMMA PromiseStep ==
  ASSUME DInv, DInv', NextDefinitions
  PROVE  [Promise!Next]_(Promise!vars)
<1> USE DEF DInv, Promise!Next, Promise!vars
<1>1. callback \in {"UNARMED", "ARMED", "RUNNING"} => Reported = "none" /\ Image = "stock"
  BY DEF Reported, Image, Terminal, FieldsSound, DefinitionTypes, HandshakeSound
<1>2. callback' \in {"UNARMED", "ARMED", "RUNNING"} => Reported' = "none" /\ Image' = "stock"
  BY DEF Reported, Image, Terminal, FieldsSound, DefinitionTypes, HandshakeSound
<1>3. CASE Arm
  BY <1>1, <1>2, <1>3 DEF Arm, Promise!Arm
<1>4. CASE Disarm
  <2>1. callback = "ARMED" /\ callback' = "FAILED" /\ scaling' = "NOT_RUN" /\ ShowingScaled' = {}
    BY <1>4 DEF Disarm, HandshakeSound, FieldsSound, ShowingScaled
  <2>2. Reported' = "none" /\ Image' = "stock"
    BY <2>1 DEF Reported, Image, Terminal
  <2> QED BY <1>1, <2>1, <2>2 DEF Promise!Disarm
<1>5. CASE LoadDefinitions
  <2>1. ShowingScaled' = {}
    <3>1. \A d \in Definitions, f \in Fields : value'[d][f] = "stock"
      BY <1>5 DEF LoadDefinitions, Stock
    <3> QED BY <3>1 DEF ShowingScaled
  <2>2. Image' = "stock" /\ callback # "RUNNING" /\ UNCHANGED <<callback, Reported>>
    BY <1>5, <2>1 DEF LoadDefinitions, Image, Reported, HandshakeSound, Busy
  <2> QED BY <2>2 DEF Promise!Replaced
<1>6. CASE AnotherModWrites
  <2>1. PICK d \in Definitions, f \in Fields : value' = [value EXCEPT ![d][f] = "foreign"]
    BY <1>6 DEF AnotherModWrites
  <2>2. \A e \in Definitions, g \in Fields :
          value'[e][g] = IF e = d /\ g = f THEN "foreign" ELSE value[e][g]
    BY <2>1 DEF DefinitionTypes, Looks
  <2>3. UNCHANGED <<callback, scaling, Reported, Own>> /\ ShowingScaled' \subseteq ShowingScaled
        /\ \A x \in Own : value[x[1]][x[2]] # "stock" => value'[x[1]][x[2]] # "stock"
    BY <1>6, <2>2 DEF AnotherModWrites, Reported, Own, ShowingScaled
  <2>4. CASE callback = "RUNNING"
    BY <1>1, <1>2, <2>3, <2>4
  <2>5. CASE callback # "RUNNING" /\ ShowingScaled' = {}
    BY <2>3, <2>5 DEF Image, Promise!Replaced
  <2>6. CASE callback # "RUNNING" /\ ShowingScaled' # {} /\ ~ \A x \in Own : value[x[1]][x[2]] # "stock"
    <3>1. Reported = "dirty"
      BY <2>3, <2>6 DEF FieldsSound, Reported, Terminal, ShowingScaled
    <3>2. Image = "part" /\ Image' \in {"scaled", "part"}
      BY <2>3, <2>6 DEF Image
    <3> QED BY <2>3, <2>6, <3>1, <3>2 DEF Promise!Replaced
  <2>7. CASE callback # "RUNNING" /\ ShowingScaled' # {} /\ \A x \in Own : value[x[1]][x[2]] # "stock"
    <3>1. Image = "scaled" /\ Image' = "scaled"
      BY <2>3, <2>7 DEF Image
    <3> QED BY <2>3, <3>1
  <2> QED BY <2>4, <2>5, <2>6, <2>7
<1>7. CASE Look
  <2>1. UNCHANGED <<callback, scaling, value, mutated>>
    BY <1>7 DEF Look, LeaveWith
  <2> QED BY <2>1 DEF Reported, Image, ShowingScaled, Own
<1>8. CASE Swap
  <2>1. UNCHANGED <<value, mutated, ShowingScaled, Own>>
    BY <1>8 DEF Swap, ShowingScaled, Own
  <2>2. CASE callback # prior
    BY <1>8, <2>1, <2>2 DEF Swap, Reported, Image
  <2>3. CASE callback = "UNARMED" /\ callback' = "FAILED" /\ scaling' = "CALLBACK_BEFORE_ACTIVATION"
    <3>1. Reported' = "none" /\ Image' = "stock"
      BY <2>1, <2>3 DEF Reported, Image, Terminal, FieldsSound
    <3> QED BY <1>1, <2>3, <3>1 DEF Promise!Miss
  <2>4. CASE callback = "ARMED" /\ callback' = "RUNNING"
    BY <1>1, <1>2, <2>4 DEF Promise!Begin
  <2> QED BY <1>8, <2>2, <2>3, <2>4 DEF Swap, LeaveWith
<1>9. CASE callback = "RUNNING" /\ callback' = "RUNNING"
  BY <1>1, <1>2, <1>9
<1>10. CASE callback = "RUNNING" /\ callback' # "RUNNING" /\ Callback
  <2>1. \/ callback' = "COMPLETE" /\ scaling' = "APPLIED" /\ ShowingScaled' # {}
             /\ \A x \in Own' : value'[x[1]][x[2]] # "stock"
        \/ callback' = "COMPLETE" /\ scaling' = "NO_CHANGE" /\ ShowingScaled' = {}
        \/ callback' = "FAILED" /\ scaling' = "ROLLBACK_FAILED"
        \/ callback' = "FAILED" /\ ShowingScaled' = {}
             /\ scaling' \in Refusals \ {"CALLBACK_BEFORE_ACTIVATION"}
    <3>1. CASE Verify
      <4>1. callback' = "COMPLETE" /\ scaling' = "APPLIED" /\ \A d \in mutated : Shows(d, Scaled)
            /\ UNCHANGED <<value, mutated, Own>>
        BY <1>10, <3>1 DEF Verify, Settle, LeaveWith, Own
      <4>2. PICK d \in mutated : Shows(d, Scaled)
        BY <3>1, <4>1 DEF Verify, FieldsSound
      <4>3. value'[d]["inverse"] = "scaled" /\ d \in Definitions
        BY <4>1, <4>2 DEF Shows, Scaled, FieldsOf, Fields, DefinitionTypes
      <4>4. <<d, "inverse">> \in ShowingScaled'
        BY <4>3 DEF ShowingScaled, Fields
      <4>5. \A x \in Own' : value'[x[1]][x[2]] # "stock"
        BY <4>1 DEF Own, Shows, Scaled, Fields
      <4> QED BY <4>1, <4>4, <4>5
    <3>2. CASE Select \/ Compute
      <4>1. ShowingScaled' = {}
        BY <1>10, <3>2 DEF Select, Compute, FieldsSound, ShowingScaled
      <4>2. \/ callback' = "COMPLETE" /\ scaling' = "NO_CHANGE"
            \/ callback' = "FAILED" /\ scaling' \in Refusals \ {"CALLBACK_BEFORE_ACTIVATION"}
        BY <1>10, <3>2 DEF Select, Compute, Settle, LeaveWith, Refusals
      <4> QED BY <4>1, <4>2
    <3>3. CASE Restore \/ Reverify
      BY <1>10, <3>3 DEF Restore, Reverify, Settle, LeaveWith, FieldsSound, Refusals
    <3> QED BY <1>10, <3>1, <3>2, <3>3 DEF Callback, Look, Swap, Write
  <2>2. \/ callback' = "COMPLETE" /\ Reported' = "applied" /\ Image' = "scaled"
        \/ callback' \in {"COMPLETE", "FAILED"} /\ Reported' = "untouched" /\ Image' = "stock"
        \/ callback' = "FAILED" /\ Reported' = "dirty" /\ Image' \in {"stock", "scaled", "part"}
    BY <2>1 DEF Reported, Image, Terminal, Refusals
  <2> QED BY <1>10, <2>2 DEF Promise!Return
<1>11. CASE Callback /\ callback # "RUNNING"
  BY <1>7, <1>8, <1>11 DEF Callback, Select, Compute, Write, Verify, Restore, Reverify,
     HandshakeSound, Busy
<1> QED BY <1>3, <1>4, <1>5, <1>6, <1>9, <1>10, <1>11 DEF NextDefinitions

\* The callback implements the abstract handshake: whatever the engine loads and
\* other mods write, it scales once, whole or not at all, and reports what it
\* did.
THEOREM ScalesOnceAndReports == Spec => ScalesAsPromised
<1>1. Init => Promise!Init
  <2> SUFFICES ASSUME Init PROVE Promise!Init
    OBVIOUS
  <2>1. callback = "UNARMED" /\ ShowingScaled = {}
    BY DefinitionsStart DEF Init, InitDefinitions, DInv, FieldsSound
  <2> QED BY <2>1 DEF Promise!Init, Reported, Image, Terminal
<1>2. DInv /\ DInv' /\ [Next]_vars => [Promise!Next]_(Promise!vars)
  <2> SUFFICES ASSUME DInv, DInv', [Next]_vars PROVE [Promise!Next]_(Promise!vars)
    OBVIOUS
  <2>1. CASE UNCHANGED definitions
    BY <2>1 DEF definitions, Promise!vars, Reported, Image, ShowingScaled, Own
  <2> QED BY <2>1, PromiseStep, EachOnItsOwn
<1> QED BY <1>1, <1>2, DefinitionsSound, PTL DEF Spec, ScalesAsPromised, Promise!Spec

-----------------------------------------------------------------------------
(***************************************************************************)
(* Generator records.                                                      *)
(***************************************************************************)
Records == Builtin \cup Extra
Clearing == {t \in PopThreads : pop[t].at = "clear"}

PoolTypes ==
  /\ free \subseteq Records /\ issued \in Nat /\ exhausted \in BOOLEAN /\ astray \in BOOLEAN
  /\ pop \in [PopThreads -> [at : {"out", "read", "swap", "clear"}, seen : Nat]]
  /\ holders \in [Records -> Nat]

\* Who won the exchange has a record of his own, that nobody else holds; who
\* has yet to try saw one that was there.
IssueSound ==
  /\ \A t \in PopThreads : pop[t].at = "swap" => pop[t].seen < extra_count
  /\ \A t \in Clearing :
       /\ pop[t].seen < issued
       /\ pop[t].seen + 1 \notin free /\ holders[pop[t].seen + 1] = 0
  /\ \A t, u \in Clearing : pop[t].seen = pop[u].seen => t = u

\* Every record that was issued is free, held, or on its way.
RecordsSound ==
  /\ \A r \in Records : holders[r] <= 1 /\ (holders[r] = 1 => r \notin free)
  /\ issued <= extra_count /\ (exhausted => issued = extra_count \/ astray)
  /\ \A r \in Extra : r \in free \/ holders[r] > 0 => r <= issued
  /\ \A r \in Extra : r <= issued =>
       r \in free \/ holders[r] > 0 \/ \E t \in Clearing : r = pop[t].seen + 1

GInv == PoolTypes /\ IssueSound /\ RecordsSound

LEMMA RecordNumbers ==
  /\ Extra \subseteq Nat /\ (\A n \in Nat : n < extra_count => n + 1 \in Extra)
  /\ \A r \in Builtin : r \in Int /\ r < 0
  /\ \A r \in Extra : r \in Nat /\ r > 0 /\ r <= extra_count
BY PoolAssumption DEF Extra, Builtin

LEMMA GeneratorStart ==
  ASSUME InitPools
  PROVE  GInv
<1>1. \A t \in PopThreads : pop[t] = [at |-> "out", seen |-> 0]
  BY DEF InitPools
<1>2. Clearing = {} /\ \A t \in PopThreads : pop[t].at # "swap"
  BY <1>1 DEF Clearing
<1>3. PoolTypes
  BY DEF InitPools, PoolTypes, Records
<1>4. IssueSound
  BY <1>2 DEF IssueSound
<1>5. RecordsSound
  <2>1. \A r \in Extra : r \notin Builtin /\ ~(r <= 0)
    BY RecordNumbers
  <2> QED BY <1>2, <2>1, PoolAssumption DEF InitPools, RecordsSound, Records
<1> QED BY <1>3, <1>4, <1>5 DEF GInv

\* The record a thread is about to return is one of the extra ones.
LEMMA ClearingExtra ==
  ASSUME GInv, NEW t \in Clearing
  PROVE  /\ pop[t].seen \in Nat /\ pop[t].seen + 1 <= issued
         /\ pop[t].seen + 1 \in Extra /\ pop[t].seen + 1 \in Records
<1>1. pop[t].seen \in Nat /\ pop[t].seen < issued /\ issued \in Nat /\ issued <= extra_count
  BY DEF GInv, PoolTypes, IssueSound, RecordsSound, Clearing
<1>2. pop[t].seen < extra_count /\ pop[t].seen + 1 <= issued
  BY <1>1, PoolAssumption
<1> QED BY <1>1, <1>2, RecordNumbers DEF Records

\* A record that is held is held once, and one that is free is not.
LEMMA HeldOnce ==
  ASSUME GInv, NEW r \in Records
  PROVE  (r \in free => holders[r] = 0) /\ (holders[r] > 0 => holders[r] = 1)
<1>1. holders[r] \in Nat /\ holders[r] <= 1
  BY DEF GInv, PoolTypes, RecordsSound
<1>2. holders[r] = 0 \/ holders[r] = 1
  BY <1>1
<1> QED BY <1>2 DEF GInv, RecordsSound

LEMMA GeneratorKept ==
  ASSUME GInv, NextGenerator
  PROVE  GInv'
<1> USE DEF GInv
<1>1. ASSUME NEW t \in PopThreads, CallPop(t) PROVE GInv'
  <2>1. CASE free # {}
    <3>1. PICK r \in free : free' = free \ {r} /\ Hold(t, r)
      BY <1>1, <2>1 DEF CallPop
    <3>2. /\ r \in Records /\ holders[r] = 0
          /\ \A u \in PopThreads : pop'[u].at = "clear" => u \in Clearing /\ pop'[u] = pop[u]
          /\ \A u \in PopThreads : pop'[u].at = "swap" => pop'[u] = pop[u]
      <4>1. r \in Records /\ holders[r] = 0
        BY HeldOnce DEF PoolTypes
      <4>2. pop' = [pop EXCEPT ![t] = [at |-> "out", seen |-> 0]]
        BY <3>1 DEF Hold
      <4> QED BY <4>1, <4>2 DEF PoolTypes, Clearing
    <3>3. holders' = [holders EXCEPT ![r] = 1] /\ UNCHANGED <<issued, exhausted, astray>>
      BY <1>1, <3>1, <3>2 DEF CallPop, Hold, PoolTypes
    <3>4. PoolTypes'
      BY <3>1, <3>3 DEF Hold, PoolTypes, Records
    <3>5. Clearing' = Clearing /\ \A u \in Clearing : pop'[u] = pop[u]
      BY <1>1, <3>1, <3>2 DEF CallPop, Hold, Clearing, PoolTypes
    <3>6. \A u \in Clearing : pop[u].seen + 1 # r
      BY <3>1 DEF IssueSound
    <3>7. \A u \in Clearing : pop[u].seen + 1 \in Records
      BY ClearingExtra
    <3>8. IssueSound'
      BY <3>1, <3>2, <3>3, <3>5, <3>6, <3>7 DEF IssueSound, PoolTypes
    <3>9. RecordsSound'
      BY <3>1, <3>2, <3>3, <3>5 DEF RecordsSound, PoolTypes, Records
    <3> QED BY <3>4, <3>8, <3>9
  <2>2. CASE free = {}
    <3>1. pop' = [pop EXCEPT ![t].at = "read"] /\ pop[t].at = "out"
          /\ UNCHANGED <<free, holders, issued, exhausted, astray>>
      BY <1>1, <2>2 DEF CallPop
    <3>2. PoolTypes'
      BY <3>1 DEF PoolTypes
    <3>3. Clearing' = Clearing /\ (\A u \in Clearing : pop'[u] = pop[u])
          /\ \A u \in PopThreads : pop'[u].at = "swap" => pop'[u] = pop[u]
      BY <3>1 DEF Clearing, PoolTypes
    <3> QED BY <3>1, <3>2, <3>3 DEF IssueSound, RecordsSound
  <2> QED BY <2>1, <2>2
<1>2. ASSUME NEW t \in PopThreads, ReadIssued(t) PROVE GInv'
  <2>1. /\ pop[t].at = "read" /\ UNCHANGED <<free, issued, astray, holders>>
        /\ \/ issued < extra_count /\ pop' = [pop EXCEPT ![t] = [at |-> "swap", seen |-> issued]]
                /\ UNCHANGED exhausted
           \/ ~(issued < extra_count) /\ pop' = [pop EXCEPT ![t].at = "out"] /\ exhausted' = TRUE
    BY <1>2 DEF ReadIssued
  <2>2. PoolTypes'
    <3>1. pop' \in [PopThreads -> [at : {"out", "read", "swap", "clear"}, seen : Nat]]
      BY <2>1 DEF PoolTypes
    <3>2. exhausted' \in BOOLEAN
      BY <2>1 DEF PoolTypes
    <3> QED BY <2>1, <3>1, <3>2 DEF PoolTypes
  <2>3. Clearing' = Clearing /\ (\A u \in Clearing : pop'[u] = pop[u])
        /\ \A u \in PopThreads : pop'[u].at = "swap" => pop'[u] = pop[u] \/ pop'[u].seen < extra_count
    BY <2>1 DEF Clearing, PoolTypes
  <2>4. exhausted' => exhausted \/ issued = extra_count
    <3>1. ~(issued < extra_count) => issued = extra_count
      BY PoolAssumption DEF RecordsSound, PoolTypes
    <3> QED BY <2>1, <3>1 DEF PoolTypes
  <2> QED BY <2>1, <2>2, <2>3, <2>4 DEF IssueSound, RecordsSound
<1>3. ASSUME NEW t \in PopThreads, SwapIssued(t) PROVE GInv'
  <2>1. pop[t].at = "swap" /\ t \notin Clearing /\ UNCHANGED <<free, exhausted, astray, holders>>
    BY <1>3 DEF SwapIssued, Clearing
  <2>2. CASE issued = pop[t].seen
    <3>1. issued' = issued + 1 /\ pop' = [pop EXCEPT ![t].at = "clear"] /\ issued < extra_count
      BY <1>3, <2>1, <2>2 DEF SwapIssued, IssueSound
    <3>2. PoolTypes'
      BY <2>1, <3>1 DEF PoolTypes
    <3>3. Clearing' = Clearing \cup {t} /\ (\A u \in PopThreads : pop'[u].seen = pop[u].seen)
          /\ \A u \in PopThreads : pop'[u].at = "swap" => pop[u].at = "swap"
      BY <3>1 DEF Clearing, PoolTypes
    <3>4. issued + 1 \in Extra /\ issued + 1 \notin free /\ holders[issued + 1] = 0
          /\ issued + 1 \in Records
      <4>1. issued + 1 \in Extra
        BY <3>1, RecordNumbers DEF PoolTypes
      <4>2. ~(issued + 1 <= issued)
        BY DEF PoolTypes
      <4> QED BY <4>1, <4>2 DEF RecordsSound, PoolTypes, Records
    <3>5. IssueSound'
      BY <2>1, <2>2, <3>1, <3>3, <3>4 DEF IssueSound, PoolTypes, Clearing
    <3>6. RecordsSound'
      <4>1. \A r \in Extra : r <= issued + 1 => r <= issued \/ r = issued + 1
        BY RecordNumbers DEF PoolTypes
      <4>2. issued' <= extra_count /\ (exhausted' => issued' = extra_count \/ astray')
        BY <2>1, <3>1, PoolAssumption DEF RecordsSound, PoolTypes
      <4>3. \A r \in Extra : r <= issued => r <= issued'
        BY <3>1, RecordNumbers DEF PoolTypes
      <4> QED BY <2>1, <2>2, <3>1, <3>3, <4>1, <4>2, <4>3 DEF RecordsSound
    <3> QED BY <3>2, <3>5, <3>6
  <2>3. CASE issued # pop[t].seen
    <3>1. issued' = issued /\ pop' = [pop EXCEPT ![t] = [at |-> "read", seen |-> 0]]
      BY <1>3, <2>3 DEF SwapIssued
    <3>2. PoolTypes'
      BY <2>1, <3>1 DEF PoolTypes
    <3>3. Clearing' = Clearing /\ (\A u \in Clearing : pop'[u] = pop[u])
          /\ \A u \in PopThreads : pop'[u].at = "swap" => pop'[u] = pop[u]
      BY <2>1, <3>1 DEF Clearing, PoolTypes
    <3> QED BY <2>1, <3>1, <3>2, <3>3 DEF IssueSound, RecordsSound
  <2> QED BY <2>2, <2>3
<1>4. ASSUME NEW t \in PopThreads, ClearAndReturn(t) PROVE GInv'
  <2> DEFINE r == pop[t].seen + 1
  <2>1. t \in Clearing /\ Hold(t, r) /\ UNCHANGED <<free, issued, exhausted, astray>>
    BY <1>4 DEF ClearAndReturn, Clearing
  <2>2. r \in Records /\ r \in Extra /\ r <= issued /\ r \notin free /\ holders[r] = 0
    BY <2>1, RecordNumbers, PoolAssumption DEF IssueSound, RecordsSound, PoolTypes, Records, Clearing
  <2>3. holders' = [holders EXCEPT ![r] = 1]
    BY <2>1, <2>2 DEF Hold, PoolTypes
  <2>4. PoolTypes'
    <3>1. pop' = [pop EXCEPT ![t] = [at |-> "out", seen |-> 0]]
      BY <2>1 DEF Hold
    <3>2. pop' \in [PopThreads -> [at : {"out", "read", "swap", "clear"}, seen : Nat]]
      BY <3>1 DEF PoolTypes
    <3> QED BY <2>1, <2>2, <2>3, <3>2 DEF PoolTypes
  <2>5. Clearing' = Clearing \ {t} /\ (\A u \in Clearing \ {t} : pop'[u] = pop[u])
        /\ \A u \in PopThreads : pop'[u].at = "swap" => pop'[u] = pop[u]
    BY <2>1 DEF Hold, Clearing, PoolTypes
  <2>6. \A u \in Clearing : pop[u].seen + 1 = r => u = t
    BY <2>1 DEF IssueSound, PoolTypes, Clearing
  <2>7. \A u \in Clearing : pop[u].seen + 1 \in Records
    BY ClearingExtra
  <2> HIDE DEF r
  <2>8. IssueSound'
    BY <2>1, <2>3, <2>5, <2>6, <2>7 DEF IssueSound, PoolTypes
  <2>9. RecordsSound'
    <3>1. \A x \in Records : x # r => holders'[x] = holders[x]
      BY <2>3 DEF PoolTypes
    <3>2. holders'[r] = 1
      BY <2>2, <2>3 DEF PoolTypes
    <3>3. \A u \in Clearing : u # t => u \in Clearing' /\ pop'[u] = pop[u]
      BY <2>5
    <3>4. \A x \in Extra : x # r /\ (\E u \in Clearing : x = pop[u].seen + 1) =>
            \E u \in Clearing' : x = pop'[u].seen + 1
      BY <3>3 DEF r
    <3> QED BY <2>1, <2>2, <3>1, <3>2, <3>4 DEF RecordsSound, Records
  <2> QED BY <2>4, <2>8, <2>9
<1>5. CASE PushRecord
  <2>1. PICK r \in Records : holders[r] > 0 /\ holders' = [holders EXCEPT ![r] = @ - 1]
                             /\ free' = free \cup {r}
    BY <1>5 DEF PushRecord, Records
  <2>2. holders[r] = 1 /\ holders' = [holders EXCEPT ![r] = 0] /\ UNCHANGED <<issued, exhausted, astray, pop>>
    <3>1. holders[r] = 1
      BY <2>1, HeldOnce
    <3>2. holders[r] - 1 = 0
      BY <3>1
    <3> QED BY <1>5, <2>1, <3>1, <3>2 DEF PushRecord, PoolTypes
  <2>3. PoolTypes' /\ Clearing' = Clearing
    BY <2>1, <2>2 DEF PoolTypes, Clearing
  <2>4. \A u \in Clearing : pop[u].seen + 1 \in Records /\ pop[u].seen + 1 # r
    <3>1. \A u \in Clearing : holders[pop[u].seen + 1] = 0
      BY DEF IssueSound
    <3> QED BY <2>2, <3>1, ClearingExtra
  <2>5. IssueSound'
    BY <2>1, <2>2, <2>3, <2>4 DEF IssueSound, PoolTypes
  <2>6. RecordsSound'
    BY <2>1, <2>2, <2>3 DEF RecordsSound, PoolTypes, Records
  <2> QED BY <2>3, <2>5, <2>6
<1>6. ASSUME NEW t \in PopThreads, CallAstray(t) PROVE GInv'
  <2>1. exhausted' = TRUE /\ astray' = TRUE /\ UNCHANGED <<free, issued, pop, holders>>
    BY <1>6 DEF CallAstray
  <2>2. PoolTypes' /\ Clearing' = Clearing
    BY <2>1 DEF PoolTypes, Clearing
  <2> QED BY <2>1, <2>2 DEF IssueSound, RecordsSound
<1> QED BY <1>1, <1>2, <1>3, <1>4, <1>5, <1>6 DEF NextGenerator

\* A generator record is held at most once and not while it is free, each that
\* was issued is somewhere, and exhaustion is only reported when all were
\* issued or after a call with another manager, for any number of records and
\* of threads in the hook.
THEOREM RecordsIssuedOnce == Spec => []GeneratorSound
<1>1. Init => GInv
  BY GeneratorStart DEF Init
<1>2. GInv /\ [Next]_vars => GInv'
  <2> SUFFICES ASSUME GInv, [Next]_vars PROVE GInv'
    OBVIOUS
  <2>1. CASE UNCHANGED generator_pool
    BY <2>1 DEF generator_pool, GInv, PoolTypes, IssueSound, RecordsSound, Clearing
  <2>2. NextProviders => UNCHANGED generator_pool
    BY DEF NextProviders, EngineRebuilds, UnknownManager, ReadHeads, TakeOutOfUse,
       LookAtRecords, Publish, VerifyHeads, VerifyLinks, Withdraw, TakeProvider, GiveProvider
  <2> QED BY <2>1, <2>2, GeneratorKept, EachOnItsOwn DEF pools
<1>3. GInv => GeneratorSound
  <2> SUFFICES ASSUME GInv PROVE GeneratorSound
    OBVIOUS
  <2>1. \A r \in Returning : r \in 1 .. issued
    BY DEF Returning, GInv, IssueSound, PoolTypes, Clearing
  <2>2. {r \in Extra : r \in free \/ holders[r] > 0} \subseteq 1 .. issued
    <3> SUFFICES ASSUME NEW r \in Extra, r \in free \/ holders[r] > 0 PROVE r \in 1 .. issued
      OBVIOUS
    <3>1. r \in Nat /\ r > 0 /\ r <= issued /\ issued \in Nat
      BY RecordNumbers DEF GInv, RecordsSound, PoolTypes
    <3> QED BY <3>1
  <2>3. \A r \in 1 .. issued : r \in Extra
    BY PoolAssumption DEF Extra, GInv, RecordsSound, PoolTypes
  <2>4. \A t \in Clearing : pop[t].seen + 1 \in Returning
    BY DEF Clearing, Returning
  <2>5. \A r \in 1 .. issued : r \in {x \in Extra : x \in free \/ holders[x] > 0} \cup Returning
    BY <2>3, <2>4 DEF GInv, RecordsSound
  <2> QED BY <2>1, <2>2, <2>5 DEF GInv, RecordsSound, GeneratorSound, Records
<1> QED BY <1>1, <1>2, <1>3, PTL DEF Spec

-----------------------------------------------------------------------------
(***************************************************************************)
(* Induction over the naturals, stated for a set.                          *)
(***************************************************************************)
\* A set of naturals that is not empty has a least one: of the intervals up
\* to its members one is minimal.
LEMMA LeastOf ==
  ASSUME NEW S \in SUBSET Nat, S # {}
  PROVE  \E n \in S : \A m \in S : n <= m
<1> DEFINE R == StrictSubsetOrdering(Nat)
           F == FiniteSubsetsOf(Nat)
           T == {1 .. n : n \in S}
<1>1. IsWellFoundedOn(R, F)
  BY FS_StrictSubsetOrderingWellFounded
<1>2. \A n \in Nat : 1 .. n \in F
  BY FS_Interval DEF FiniteSubsetsOf
<1>3. T \subseteq F /\ T # {}
  BY <1>2
<1>4. \A m, n \in Nat : m < n => <<1 .. m, 1 .. n>> \in R
  <2> SUFFICES ASSUME NEW m \in Nat, NEW n \in Nat, m < n PROVE <<1 .. m, 1 .. n>> \in R
    OBVIOUS
  <2>1. /\ 1 .. m \subseteq 1 .. n /\ n \in 1 .. n /\ n \notin 1 .. m
        /\ 1 .. m \subseteq Nat /\ 1 .. n \subseteq Nat
    OBVIOUS
  <2> QED BY <2>1 DEF StrictSubsetOrdering
<1> HIDE DEF R, F, T
<1>5. PICK x \in T : \A y \in T : ~(<<y, x>> \in R)
  BY <1>1, <1>3, WFMin
<1>6. PICK n \in S : x = 1 .. n
  BY <1>5 DEF T
<1>7. \A m \in S : ~(m < n)
  BY <1>4, <1>5, <1>6 DEF T
<1> QED BY <1>6, <1>7

LEMMA Upwards ==
  ASSUME NEW S \in SUBSET Nat, 0 \in S, \A n \in S : n + 1 \in S
  PROVE  S = Nat
<1> SUFFICES ASSUME S # Nat PROVE FALSE
  OBVIOUS
<1>1. Nat \ S \in SUBSET Nat /\ Nat \ S # {}
  OBVIOUS
<1>2. PICK n \in Nat \ S : \A m \in Nat \ S : n <= m
  BY <1>1, LeastOf
<1>3. n - 1 \in S
  BY <1>2
<1> QED BY <1>2, <1>3

-----------------------------------------------------------------------------
(***************************************************************************)
(* The providers' free list.                                               *)
(***************************************************************************)
\* The free list of the providers: n of them in a row, from the head to the
\* end, none of them twice, none that belongs to somebody; and after a rebuild
\* that was verified whoever is not in it belongs to somebody.
IsFreeList(n, p) ==
  /\ \A i, j \in 1 .. n : p[i] = p[j] => i = j
  /\ head = IF n = 0 THEN 0 ELSE p[1]
  /\ \A i \in 1 .. n : link[p[i]].next = IF i = n THEN 0 ELSE p[i + 1]
  /\ \A i \in 1 .. n : p[i] \notin owned
  /\ rebuild = "over" /\ ~failed => \A r \in Providers : r \in owned \/ \E i \in 1 .. n : p[i] = r

ProviderTypes ==
  /\ link \in [Providers -> [next : 0 .. provider_capacity, previous : 0 .. provider_capacity]]
  /\ head \in 0 .. provider_capacity /\ active \in 0 .. provider_capacity
  /\ owned \subseteq Providers /\ failed \in BOOLEAN /\ in_use \in BOOLEAN
  /\ rebuild \in {"over", "unknown", "enter", "exchange", "scan", "publish", "verify_heads",
                  "verify_links", "withdraw"}

AList == \E n \in Nat : \E p \in [1 .. n -> Providers] : IsFreeList(n, p)

\* While the hook is at it, a provider that was taken shows at the active head;
\* later, at its own link.
LInv ==
  /\ ProviderTypes
  /\ rebuild = "scan" => head = 0
  /\ rebuild = "publish" => head = 0 /\ owned = {}
  /\ rebuild = "verify_heads" => owned = {} \/ active # 0
  /\ rebuild = "verify_links" =>
       (owned = {} /\ head = 1 /\ active = 0) \/ (1 \in owned /\ link[1].next = 0)
  /\ rebuild = "unknown" => failed
  /\ Ours => AList

\* Walk is defined by its recursion: there is such a function up to any length.
LEMMA WalkSteps ==
  /\ Walk[0] = head
  /\ \A k \in 1 .. provider_capacity :
       Walk[k] = IF Walk[k - 1] = 0 THEN 0 ELSE link[Walk[k - 1]].next
<1> DEFINE Goes(f, n) ==
             f = [k \in 0 .. n |-> IF k = 0 THEN head
                                   ELSE IF f[k - 1] = 0 THEN 0 ELSE link[f[k - 1]].next]
           S == {n \in Nat : \E f : Goes(f, n)}
<1>1. 0 \in S
  <2> DEFINE f == [k \in 0 .. 0 |-> head]
  <2>1. Goes(f, 0)
    OBVIOUS
  <2> QED BY <2>1
<1>2. ASSUME NEW n \in S
      PROVE  n + 1 \in S
  <2>1. n \in Nat
    OBVIOUS
  <2>2. PICK f : Goes(f, n)
    OBVIOUS
  <2> DEFINE last == IF f[n] = 0 THEN 0 ELSE link[f[n]].next
             g == [k \in 0 .. n + 1 |-> IF k = n + 1 THEN last ELSE f[k]]
  <2>3. \A k \in 0 .. n : f[k] = IF k = 0 THEN head
                                 ELSE IF f[k - 1] = 0 THEN 0 ELSE link[f[k - 1]].next
    BY <2>2
  <2>4. \A k \in 0 .. n + 1 : g[k] = IF k = 0 THEN head
                                     ELSE IF g[k - 1] = 0 THEN 0 ELSE link[g[k - 1]].next
    <3> HIDE DEF last
    <3>1. g[n + 1] = last /\ g[n] = f[n] /\ n + 1 # 0 /\ (n + 1) - 1 = n
      BY <2>1
    <3>2. \A k \in 0 .. n : g[k] = f[k] /\ (k # 0 => k - 1 \in 0 .. n)
      BY <2>1
    <3>3. \A k \in 0 .. n + 1 : k \in 0 .. n \/ k = n + 1
      BY <2>1
    <3> HIDE DEF g
    <3>4. \A k \in 0 .. n : g[k] = IF k = 0 THEN head
                                   ELSE IF g[k - 1] = 0 THEN 0 ELSE link[g[k - 1]].next
      BY <2>3, <3>2
    <3>5. g[n + 1] = IF g[n] = 0 THEN 0 ELSE link[g[n]].next
      BY <3>1 DEF last
    <3> QED BY <3>1, <3>3, <3>4, <3>5
  <2>5. Goes(g, n + 1)
    BY <2>4
  <2> HIDE DEF g, Goes
  <2> QED BY <2>1, <2>5
<1>3. S = Nat
  <2>1. S \in SUBSET Nat
    OBVIOUS
  <2> HIDE DEF S
  <2> QED BY <1>1, <1>2, <2>1, Upwards
<1>4. provider_capacity \in Nat
  BY PoolAssumption
<1>5. \E f : Goes(f, provider_capacity)
  BY <1>3, <1>4
<1>6. Goes(Walk, provider_capacity)
  BY <1>5 DEF Walk
<1>7. \A k \in 0 .. provider_capacity :
        Walk[k] = IF k = 0 THEN head
                  ELSE IF Walk[k - 1] = 0 THEN 0 ELSE link[Walk[k - 1]].next
  BY <1>6
<1> QED BY <1>4, <1>7

\* A walk down a free list goes through all of it and ends.
LEMMA WalkIsTheList ==
  ASSUME ProviderTypes, NEW n \in Nat, NEW p \in [1 .. n -> Providers], IsFreeList(n, p)
  PROVE  /\ Walk[provider_capacity] = 0
         /\ FreeProviders = {p[i] : i \in 1 .. n}
<1>1. provider_capacity \in Nat /\ provider_capacity # 0 /\ \A r \in Providers : r # 0
  BY PoolAssumption DEF Providers
<1>2. n <= provider_capacity
  <2>1. IsFiniteSet(Providers) /\ Cardinality(Providers) = provider_capacity
    BY <1>1, FS_Interval DEF Providers
  <2>2. IsFiniteSet(1 .. n) /\ Cardinality(1 .. n) = n
    BY FS_Interval
  <2>3. p \in Injection(1 .. n, Providers)
    BY DEF IsFreeList, Injection, IsInjective
  <2> QED BY <2>1, <2>2, <2>3, FS_Injection
<1> DEFINE Kth(k) == IF k < n THEN p[k + 1] ELSE 0
           S == {k \in Nat : k <= provider_capacity => Walk[k] = Kth(k)}
<1>3. 0 \in S
  <2>1. Walk[0] = head
    BY WalkSteps
  <2>2. head = Kth(0)
    BY DEF IsFreeList
  <2> QED BY <2>1, <2>2
<1>4. ASSUME NEW k \in S
      PROVE  k + 1 \in S
  <2> SUFFICES ASSUME k + 1 <= provider_capacity PROVE Walk[k + 1] = Kth(k + 1)
    OBVIOUS
  <2>1. k \in Nat /\ k + 1 \in 1 .. provider_capacity /\ (k + 1) - 1 = k /\ k <= provider_capacity
    BY <1>1
  <2>2. Walk[k + 1] = IF Walk[k] = 0 THEN 0 ELSE link[Walk[k]].next
    BY <2>1, WalkSteps
  <2>3. Walk[k] = Kth(k)
    BY <2>1
  <2>4. CASE k < n
    <3>1. k + 1 \in 1 .. n /\ p[k + 1] # 0
      BY <1>1, <2>1, <2>4
    <3>2. link[p[k + 1]].next = IF k + 1 = n THEN 0 ELSE p[(k + 1) + 1]
      BY <3>1 DEF IsFreeList
    <3> QED BY <2>1, <2>2, <2>3, <2>4, <3>1, <3>2
  <2>5. CASE ~(k < n)
    BY <2>1, <2>2, <2>3, <2>5
  <2> QED BY <2>4, <2>5
<1>5. S = Nat
  <2>1. S \in SUBSET Nat
    OBVIOUS
  <2> HIDE DEF S
  <2> QED BY <1>3, <1>4, <2>1, Upwards
<1>6. \A k \in 0 .. provider_capacity : Walk[k] = Kth(k)
  BY <1>1, <1>5
<1> HIDE DEF S
<1>7. Walk[provider_capacity] = 0
  BY <1>1, <1>2, <1>6
<1>8. ASSUME NEW r \in FreeProviders
      PROVE  \E i \in 1 .. n : p[i] = r
  <2>1. PICK k \in 0 .. provider_capacity : r = Walk[k] /\ r # 0
    BY DEF FreeProviders
  <2>2. r = p[k + 1] /\ k + 1 \in 1 .. n
    BY <1>6, <2>1
  <2> QED BY <2>2
<1>9. ASSUME NEW i \in 1 .. n
      PROVE  p[i] \in FreeProviders
  <2>1. i - 1 \in 0 .. provider_capacity /\ i - 1 < n /\ (i - 1) + 1 = i
    BY <1>1, <1>2
  <2>2. Walk[i - 1] = p[i]
    BY <1>6, <2>1
  <2>3. p[i] # 0
    BY <1>1
  <2> QED BY <2>1, <2>2, <2>3 DEF FreeProviders
<1> QED BY <1>7, <1>8, <1>9

\* The records in their order are a free list once they are linked in it.
LEMMA ChainIsAList ==
  ASSUME ProviderTypes, head = 1, owned = {}, link = Chain(provider_capacity)
  PROVE  AList
<1> DEFINE p == [i \in 1 .. provider_capacity |-> i]
<1>1. provider_capacity \in Nat /\ provider_capacity # 0
  BY PoolAssumption
<1>2. p \in [1 .. provider_capacity -> Providers]
  BY DEF Providers
<1>3. \A i \in 1 .. provider_capacity : p[i] = i /\ i \in Providers
  BY DEF Providers
<1>4. \A i \in 1 .. provider_capacity :
        link[i].next = IF i < provider_capacity THEN i + 1 ELSE 0
  BY <1>3 DEF Chain
<1>5. \A i \in 1 .. provider_capacity :
        link[p[i]].next = IF i = provider_capacity THEN 0 ELSE p[i + 1]
  BY <1>1, <1>3, <1>4
<1>6. 1 \in 1 .. provider_capacity /\ head = p[1]
  BY <1>1, <1>3
<1>7. \A r \in Providers : r \in 1 .. provider_capacity /\ p[r] = r
  BY <1>3 DEF Providers
<1>8. IsFreeList(provider_capacity, p)
  <2> HIDE DEF p
  <2> QED BY <1>1, <1>3, <1>5, <1>6, <1>7 DEF IsFreeList
<1> QED BY <1>1, <1>2, <1>8 DEF AList

LEMMA NoListNoFree ==
  ASSUME head' = 0, rebuild' # "over" \/ failed'
  PROVE  AList'
<1> DEFINE p == [i \in 1 .. 0 |-> 1]
<1>1. 1 .. 0 = {} /\ p \in [1 .. 0 -> Providers]
  OBVIOUS
<1>2. IsFreeList(0, p)'
  BY <1>1 DEF IsFreeList
<1> QED BY <1>1, <1>2 DEF AList, Providers

\* A list stays one while nobody touches it.
LEMMA SameList ==
  ASSUME AList, UNCHANGED <<head, link, owned>>, rebuild' # "over" \/ failed'
  PROVE  AList'
<1>1. \A n, p : IsFreeList(n, p) => IsFreeList(n, p)'
  BY DEF IsFreeList
<1> QED BY <1>1 DEF AList, Providers

LEMMA ChainTyped ==
  ASSUME NEW n \in {vanilla_capacity, provider_capacity}
  PROVE  Chain(n) \in [Providers -> [next : 0 .. provider_capacity, previous : 0 .. provider_capacity]]
<1>1. n \in Nat /\ n <= provider_capacity /\ provider_capacity \in Nat
  BY PoolAssumption
<1>2. \A i \in Providers : /\ (IF i < n THEN i + 1 ELSE 0) \in 0 .. provider_capacity
                           /\ (IF i \in 2 .. n THEN i - 1 ELSE 0) \in 0 .. provider_capacity
  BY <1>1 DEF Providers
<1> QED BY <1>2 DEF Chain

LEMMA ProvidersKept ==
  ASSUME LInv, NextProviders
  PROVE  LInv'
<1>1. provider_capacity \in Nat /\ provider_capacity # 0
  BY PoolAssumption
<1>2. CASE Withdraw
  <2>1. rebuild' = "over" /\ head' = 0 /\ active' = 0 /\ failed' = TRUE
        /\ UNCHANGED <<link, owned, in_use>>
    BY <1>2 DEF Withdraw, HookGoes
  <2>2. ProviderTypes'
    BY <1>1, <2>1 DEF LInv, ProviderTypes
  <2> QED BY <2>1, <2>2, NoListNoFree DEF LInv
<1>3. CASE EngineRebuilds
  <2>1. /\ rebuild' = "enter" /\ owned' \subseteq Providers /\ active' \in 0 .. provider_capacity
        /\ head' \in {0, 1} /\ UNCHANGED <<in_use, failed>>
    BY <1>1, <1>3 DEF EngineRebuilds, LInv, ProviderTypes
  <2>2. PICK n \in {vanilla_capacity, provider_capacity} : link' = Chain(n)
    BY <1>3 DEF EngineRebuilds
  <2>3. ProviderTypes'
    BY <1>1, <2>1, <2>2, ChainTyped DEF LInv, ProviderTypes
  <2> QED BY <2>1, <2>3 DEF LInv, Ours
<1>4. CASE UnknownManager \/ ReadHeads
  <2>1. /\ rebuild' \in {"unknown", "exchange"} /\ in_use' \in BOOLEAN /\ failed' \in BOOLEAN
        /\ rebuild' = "unknown" => failed'
        /\ UNCHANGED <<link, head, active, owned>>
    BY <1>4 DEF UnknownManager, ReadHeads, HookGoes, LInv, ProviderTypes
  <2> QED BY <2>1 DEF LInv, ProviderTypes, Ours
<1>5. CASE TakeOutOfUse
  <2>1. rebuild' = "scan" /\ head' = 0 /\ active' = 0 /\ UNCHANGED <<link, owned, in_use, failed>>
    BY <1>5 DEF TakeOutOfUse, HookGoes, Quarantine
  <2>2. ProviderTypes'
    BY <1>1, <2>1 DEF LInv, ProviderTypes
  <2> QED BY <2>1, <2>2, NoListNoFree DEF LInv
<1>6. CASE LookAtRecords
  <2>1. /\ rebuild = "scan" /\ UNCHANGED <<link, head, active, owned, in_use, failed>>
        /\ (rebuild' = "publish" /\ owned = {}) \/ rebuild' = "withdraw"
    BY <1>6 DEF LookAtRecords, HookGoes
  <2>2. ProviderTypes' /\ AList'
    BY <2>1, SameList DEF LInv, ProviderTypes, Ours
  <2> QED BY <2>1, <2>2 DEF LInv
<1>7. CASE Publish
  <2>1. /\ link' = Chain(provider_capacity) /\ head' = 1 /\ active' = 0 /\ owned' = {}
        /\ rebuild' = "verify_heads" /\ UNCHANGED <<in_use, failed>>
    BY <1>7 DEF Publish, HookGoes, LInv
  <2>2. ProviderTypes'
    BY <1>1, <2>1, ChainTyped DEF LInv, ProviderTypes
  <2>3. AList'
    <3>1. (ProviderTypes /\ head = 1 /\ owned = {} /\ link = Chain(provider_capacity) => AList)'
      BY ChainIsAList, PTL
    <3> QED BY <2>1, <2>2, <3>1 DEF Chain, Providers
  <2> QED BY <2>1, <2>2, <2>3 DEF LInv
<1>8. CASE VerifyHeads
  <2>1. /\ rebuild = "verify_heads" /\ UNCHANGED <<link, head, active, owned, in_use, failed>>
        /\ \/ rebuild' = "verify_links" /\ head = 1 /\ active = 0
           \/ rebuild' = "withdraw"
    BY <1>8 DEF VerifyHeads, HookGoes
  <2>2. ProviderTypes' /\ AList'
    BY <2>1, SameList DEF LInv, ProviderTypes, Ours
  <2> QED BY <2>1, <2>2 DEF LInv
<1>9. CASE VerifyLinks
  <2>1. CASE /\ link = Chain(provider_capacity) /\ rebuild = "verify_links"
             /\ rebuild' = "over" /\ failed' = FALSE
             /\ UNCHANGED <<link, head, active, owned, in_use>>
    <3>1. owned = {} /\ head = 1
      <4>1. 1 \in Providers /\ 1 < provider_capacity
        BY PoolAssumption DEF Providers
      <4>2. link[1].next = 2
        BY <2>1, <4>1 DEF Chain
      <4> QED BY <2>1, <4>2 DEF LInv
    <3>2. ProviderTypes'
      BY <2>1 DEF LInv, ProviderTypes
    <3>3. AList'
      <4>1. (ProviderTypes /\ head = 1 /\ owned = {} /\ link = Chain(provider_capacity) => AList)'
        BY ChainIsAList, PTL
      <4> QED BY <2>1, <3>1, <3>2, <4>1 DEF Chain, Providers
    <3> QED BY <2>1, <3>2, <3>3 DEF LInv
  <2>2. CASE /\ rebuild = "verify_links" /\ rebuild' = "withdraw"
             /\ UNCHANGED <<link, head, active, owned, in_use, failed>>
    <3>1. ProviderTypes' /\ AList'
      BY <2>2, SameList DEF LInv, ProviderTypes, Ours
    <3> QED BY <2>2, <3>1 DEF LInv
  <2> QED BY <1>9, <2>1, <2>2 DEF VerifyLinks, HookGoes
<1>10. ASSUME TakeProvider, Ours PROVE AList'
  <2>1. /\ head # 0 /\ owned' = owned \cup {head}
        /\ head' = link[head].next /\ active' = head /\ UNCHANGED <<rebuild, failed>>
        /\ link' = [link EXCEPT ![head] = [next |-> active, previous |-> 0]]
    BY <1>10 DEF TakeProvider
  <2>n. PICK n \in Nat : \E p \in [1 .. n -> Providers] : IsFreeList(n, p)
    BY <1>10 DEF LInv, AList
  <2>2. PICK p \in [1 .. n -> Providers] : n \in Nat /\ IsFreeList(n, p)
    BY <2>n
  <2>3. n # 0 /\ head = p[1] /\ 1 \in 1 .. n /\ head \in Providers
    BY <2>1, <2>2 DEF IsFreeList
  <2> DEFINE q == [i \in 1 .. n - 1 |-> p[i + 1]]
  <2>6. n - 1 \in Nat /\ \A i \in 1 .. n - 1 : i \in 1 .. n /\ i + 1 \in 1 .. n /\ i + 1 # 1
    BY <2>3
  <2>7. q \in [1 .. n - 1 -> Providers] /\ \A i \in 1 .. n - 1 : q[i] = p[i + 1]
    BY <2>2, <2>6
  <2> HIDE DEF q
  <2>8. \A i \in 1 .. n - 1 : q[i] # head /\ link'[q[i]] = link[q[i]]
    BY <2>1, <2>2, <2>3, <2>6, <2>7 DEF IsFreeList, LInv, ProviderTypes
  <2>9. IsFreeList(n - 1, q)'
    <3>1. \A i, j \in 1 .. n - 1 : q[i] = q[j] => i = j
      <4> SUFFICES ASSUME NEW i \in 1 .. n - 1, NEW j \in 1 .. n - 1, q[i] = q[j] PROVE i = j
        OBVIOUS
      <4>1. i + 1 = j + 1
        BY <2>2, <2>6, <2>7 DEF IsFreeList
      <4> QED BY <4>1
    <3>2. head' = IF n - 1 = 0 THEN 0 ELSE q[1]
      <4>1. head' = IF 1 = n THEN 0 ELSE p[1 + 1]
        BY <2>1, <2>2, <2>3 DEF IsFreeList
      <4>2. n # 1 => 1 \in 1 .. n - 1
        BY <2>6, <2>3
      <4> QED BY <2>3, <2>7, <4>1, <4>2
    <3>3. \A i \in 1 .. n - 1 : link'[q[i]].next = IF i = n - 1 THEN 0 ELSE q[i + 1]
      <4> SUFFICES ASSUME NEW i \in 1 .. n - 1
                   PROVE  link'[q[i]].next = IF i = n - 1 THEN 0 ELSE q[i + 1]
        OBVIOUS
      <4>1. link'[q[i]].next = IF i + 1 = n THEN 0 ELSE p[(i + 1) + 1]
        BY <2>2, <2>6, <2>7, <2>8 DEF IsFreeList
      <4>2. i # n - 1 => i + 1 \in 1 .. n - 1
        BY <2>6
      <4>3. i + 1 = n <=> i = n - 1
        BY <2>6
      <4> QED BY <2>7, <4>1, <4>2, <4>3
    <3>4. \A i \in 1 .. n - 1 : q[i] \notin owned'
      BY <2>1, <2>2, <2>6, <2>7, <2>8 DEF IsFreeList
    <3>5. ASSUME rebuild' = "over", ~failed', NEW r \in Providers
          PROVE  r \in owned' \/ \E i \in 1 .. n - 1 : q[i] = r
      <4>1. r \in owned \/ \E i \in 1 .. n : p[i] = r
        BY <2>1, <2>2, <3>5 DEF IsFreeList
      <4>2. ASSUME NEW i \in 1 .. n, p[i] = r, r # head
            PROVE  \E j \in 1 .. n - 1 : q[j] = r
        <5>1. i - 1 \in 1 .. n - 1 /\ (i - 1) + 1 = i
          BY <2>3, <4>2
        <5> QED BY <2>7, <4>2, <5>1
      <4> QED BY <2>1, <4>1, <4>2
    <3> QED BY <3>1, <3>2, <3>3, <3>4, <3>5 DEF IsFreeList, Providers
  <2> QED BY <2>6, <2>7, <2>9 DEF AList, Providers
<1>11. ASSUME Ours, head # 0 PROVE head \notin owned
  <2>1. PICK n \in Nat : \E p \in [1 .. n -> Providers] : IsFreeList(n, p)
    BY <1>11 DEF LInv, AList
  <2>2. PICK p \in [1 .. n -> Providers] : IsFreeList(n, p)
    BY <2>1
  <2>3. n # 0 /\ head = p[1] /\ 1 \in 1 .. n
    BY <1>11, <2>2 DEF IsFreeList
  <2> QED BY <2>2, <2>3 DEF IsFreeList
<1>12. CASE TakeProvider
  <2>1. /\ head # 0 /\ head \in Providers /\ owned' = owned \cup {head}
        /\ head' = link[head].next /\ active' = head /\ UNCHANGED <<rebuild, failed, in_use>>
        /\ link' = [link EXCEPT ![head] = [next |-> active, previous |-> 0]]
    BY <1>1, <1>12 DEF TakeProvider, LInv, ProviderTypes, Providers
  <2>2. [next |-> active, previous |-> 0] \in
          [next : 0 .. provider_capacity, previous : 0 .. provider_capacity]
    BY <1>1 DEF LInv, ProviderTypes
  <2>3. ProviderTypes'
    <3>1. link[head] \in [next : 0 .. provider_capacity, previous : 0 .. provider_capacity]
      BY <2>1 DEF LInv, ProviderTypes
    <3> QED BY <2>1, <2>2, <3>1 DEF LInv, ProviderTypes, Providers
  <2>4. rebuild' \notin {"scan", "publish"}
    BY <2>1 DEF LInv
  <2>5. ASSUME rebuild' = "verify_links"
        PROVE  1 \in owned' /\ link'[1].next = 0
    <3>1. CASE head = 1
      <4>1. 1 \notin owned
        BY <1>11, <2>1, <2>5, <3>1 DEF Ours
      <4>2. active = 0
        BY <2>1, <2>5, <4>1 DEF LInv
      <4> QED BY <2>1, <3>1, <4>2 DEF LInv, ProviderTypes
    <3>2. CASE head # 1
      <4>1. 1 \in owned /\ link[1].next = 0 /\ 1 \in Providers
        BY <1>1, <2>1, <2>5, <3>2 DEF LInv, ProviderTypes, Providers
      <4> QED BY <2>1, <3>2, <4>1 DEF LInv, ProviderTypes
    <3> QED BY <3>1, <3>2
  <2>6. Ours' => AList'
    BY <1>10, <1>12, <2>1 DEF Ours
  <2> QED BY <2>1, <2>3, <2>4, <2>5, <2>6 DEF LInv
<1>13. ASSUME GiveProvider, Ours PROVE AList'
  <2>1. PICK r \in owned :
          /\ owned' = owned \ {r}
          /\ head' = r /\ link' = [link EXCEPT ![r] = [next |-> head, previous |-> 0]]
          /\ active' = IF owned = {r} THEN 0 ELSE CHOOSE s \in owned \ {r} : TRUE
    BY <1>13 DEF GiveProvider
  <2>2. UNCHANGED <<rebuild, failed>> /\ r \in Providers /\ owned \subseteq Providers
    BY <1>13, <2>1 DEF GiveProvider, LInv, ProviderTypes
  <2>n. PICK n \in Nat : \E p \in [1 .. n -> Providers] : IsFreeList(n, p)
    BY <1>13 DEF LInv, AList
  <2>3. PICK p \in [1 .. n -> Providers] : n \in Nat /\ IsFreeList(n, p)
    BY <2>n
  <2> DEFINE q == [i \in 1 .. n + 1 |-> IF i = 1 THEN r ELSE p[i - 1]]
  <2>6. \A i \in 1 .. n + 1 : i # 1 => i - 1 \in 1 .. n /\ (i - 1) + 1 = i
    OBVIOUS
  <2>7. /\ q \in [1 .. n + 1 -> Providers] /\ q[1] = r /\ n + 1 \in Nat /\ 1 \in 1 .. n + 1
        /\ \A i \in 1 .. n + 1 : i # 1 => q[i] = p[i - 1]
    BY <2>2, <2>3, <2>6
  <2> HIDE DEF q
  <2>8. \A i \in 1 .. n : p[i] # r /\ link'[p[i]] = link[p[i]]
    BY <2>1, <2>3 DEF IsFreeList, LInv, ProviderTypes
  <2>9. link'[r].next = head
    BY <2>1, <2>2 DEF LInv, ProviderTypes
  <2>10. IsFreeList(n + 1, q)'
    <3>1. \A i, j \in 1 .. n + 1 : q[i] = q[j] => i = j
      <4> SUFFICES ASSUME NEW i \in 1 .. n + 1, NEW j \in 1 .. n + 1, q[i] = q[j] PROVE i = j
        OBVIOUS
      <4>1. CASE i = 1 \/ j = 1
        BY <2>6, <2>7, <2>8, <4>1
      <4>2. CASE i # 1 /\ j # 1
        <5>1. i - 1 = j - 1
          BY <2>3, <2>6, <2>7, <4>2 DEF IsFreeList
        <5> QED BY <5>1
      <4> QED BY <4>1, <4>2
    <3>2. head' = IF n + 1 = 0 THEN 0 ELSE q[1]
      BY <2>1, <2>7
    <3>3. \A i \in 1 .. n + 1 : link'[q[i]].next = IF i = n + 1 THEN 0 ELSE q[i + 1]
      <4> SUFFICES ASSUME NEW i \in 1 .. n + 1
                   PROVE  link'[q[i]].next = IF i = n + 1 THEN 0 ELSE q[i + 1]
        OBVIOUS
      <4>1. CASE i = 1
        <5>1. link'[q[i]].next = IF n = 0 THEN 0 ELSE p[1]
          BY <2>3, <2>7, <2>9, <4>1 DEF IsFreeList
        <5>2. n # 0 => 2 \in 1 .. n + 1 /\ 2 - 1 = 1
          OBVIOUS
        <5> QED BY <2>7, <4>1, <5>1, <5>2
      <4>2. CASE i # 1
        <5>1. link'[q[i]].next = IF i - 1 = n THEN 0 ELSE p[i]
          BY <2>3, <2>6, <2>7, <2>8, <4>2 DEF IsFreeList
        <5>2. i # n + 1 => i + 1 \in 1 .. n + 1 /\ i + 1 # 1 /\ (i + 1) - 1 = i
          OBVIOUS
        <5>3. i - 1 = n <=> i = n + 1
          OBVIOUS
        <5> QED BY <2>7, <5>1, <5>2, <5>3
      <4> QED BY <4>1, <4>2
    <3>4. \A i \in 1 .. n + 1 : q[i] \notin owned'
      BY <2>1, <2>3, <2>6, <2>7, <2>8 DEF IsFreeList
    <3>5. ASSUME rebuild' = "over", ~failed', NEW s \in Providers
          PROVE  s \in owned' \/ \E i \in 1 .. n + 1 : q[i] = s
      <4>1. s \in owned \/ \E i \in 1 .. n : p[i] = s
        BY <2>2, <2>3, <3>5 DEF IsFreeList
      <4>2. ASSUME NEW i \in 1 .. n, p[i] = s
            PROVE  \E j \in 1 .. n + 1 : q[j] = s
        <5>1. i + 1 \in 1 .. n + 1 /\ i + 1 # 1 /\ (i + 1) - 1 = i
          OBVIOUS
        <5> QED BY <2>7, <4>2, <5>1
      <4> QED BY <2>1, <2>7, <4>1, <4>2
    <3> QED BY <3>1, <3>2, <3>3, <3>4, <3>5 DEF IsFreeList, Providers
  <2> QED BY <2>7, <2>10 DEF AList, Providers
<1>14. CASE GiveProvider
  <2>1. PICK r \in owned :
          /\ owned' = owned \ {r}
          /\ head' = r /\ link' = [link EXCEPT ![r] = [next |-> head, previous |-> 0]]
          /\ active' = IF owned = {r} THEN 0 ELSE CHOOSE s \in owned \ {r} : TRUE
    BY <1>14 DEF GiveProvider
  <2>2. /\ rebuild \in {"over", "unknown"} /\ UNCHANGED <<rebuild, failed, in_use>>
        /\ r \in Providers /\ owned \subseteq Providers
    BY <1>14, <2>1 DEF GiveProvider, Idle, LInv, ProviderTypes
  <2>4. active' \in 0 .. provider_capacity
    <3>1. CASE owned = {r}
      BY <1>1, <2>1, <3>1
    <3>2. CASE owned # {r}
      <4>1. \E s \in owned \ {r} : TRUE
        BY <2>1, <3>2
      <4>2. active' \in owned \ {r}
        BY <2>1, <3>2, <4>1
      <4> QED BY <2>2, <4>2 DEF Providers
    <3> QED BY <3>1, <3>2
  <2>5. ProviderTypes'
    <3>1. [next |-> head, previous |-> 0] \in
            [next : 0 .. provider_capacity, previous : 0 .. provider_capacity]
      BY <1>1 DEF LInv, ProviderTypes
    <3>2. head' \in 0 .. provider_capacity /\ owned' \subseteq Providers
      BY <2>1, <2>2 DEF Providers
    <3> QED BY <2>1, <2>2, <2>4, <3>1, <3>2 DEF LInv, ProviderTypes
  <2>6. Ours' => AList'
    BY <1>13, <1>14, <2>2 DEF Ours
  <2> QED BY <2>2, <2>5, <2>6 DEF LInv
<1> QED
  BY <1>2, <1>3, <1>4, <1>5, <1>6, <1>7, <1>8, <1>9, <1>12, <1>14 DEF NextProviders

\* While it is the hook's, the free list of the providers ends and holds none
\* that belongs to somebody, whenever they are taken; after a verified rebuild
\* none was lost, and one that was left alone is counted as failed; whatever
\* the number of the providers.
THEOREM ProvidersNeverLost == Spec => []ProvidersSound
<1>1. Init => LInv
  <2> SUFFICES ASSUME Init PROVE LInv
    OBVIOUS
  <2>1. /\ link = Chain(provider_capacity) /\ head = 0 /\ active = 0 /\ owned = {}
        /\ rebuild = "over" /\ failed = TRUE /\ in_use = FALSE
    BY DEF Init, InitPools
  <2>2. failed /\ failed \in BOOLEAN /\ in_use \in BOOLEAN
    BY <2>1
  <2>3. ProviderTypes
    BY <2>1, <2>2, ChainTyped, PoolAssumption DEF ProviderTypes
  <2>4. \E p \in [1 .. 0 -> Providers] : IsFreeList(0, p)
    <3> DEFINE p == [i \in 1 .. 0 |-> 1]
    <3>1. 1 .. 0 = {} /\ p \in [1 .. 0 -> Providers]
      OBVIOUS
    <3>2. IsFreeList(0, p)
      BY <2>1, <2>2, <3>1 DEF IsFreeList
    <3> QED BY <3>1, <3>2
  <2> QED BY <2>1, <2>3, <2>4 DEF LInv, AList
<1>2. LInv /\ [Next]_vars => LInv'
  <2> SUFFICES ASSUME LInv, [Next]_vars PROVE LInv'
    OBVIOUS
  <2>1. CASE UNCHANGED provider_table
    <3>1. UNCHANGED <<link, head, active, owned, rebuild, in_use, failed>>
      BY <2>1 DEF provider_table
    <3>2. ProviderTypes'
      BY <3>1 DEF LInv, ProviderTypes
    <3>3. \A n, p : IsFreeList(n, p)' <=> IsFreeList(n, p)
      BY <3>1 DEF IsFreeList
    <3>4. AList' <=> AList
      BY <3>3 DEF AList, Providers
    <3> QED BY <3>1, <3>2, <3>4 DEF LInv, Ours
  <2>2. NextGenerator => UNCHANGED provider_table
    BY DEF NextGenerator, CallAstray, CallPop, ReadIssued, SwapIssued, ClearAndReturn, PushRecord,
           provider_table
  <2> QED BY <2>1, <2>2, ProvidersKept, EachOnItsOwn DEF pools
<1>3. LInv => ProvidersSound
  <2> SUFFICES ASSUME LInv, Ours
               PROVE  /\ Walk[provider_capacity] = 0
                      /\ FreeProviders \cap owned = {}
                      /\ rebuild = "over" /\ ~failed => FreeProviders \cup owned = Providers
    BY DEF ProvidersSound, LInv, Ours
  <2>n. PICK n \in Nat : \E p \in [1 .. n -> Providers] : IsFreeList(n, p)
    BY DEF LInv, AList
  <2>1. PICK p \in [1 .. n -> Providers] : n \in Nat /\ IsFreeList(n, p)
    BY <2>n
  <2>2. Walk[provider_capacity] = 0 /\ FreeProviders = {p[i] : i \in 1 .. n}
    BY <2>1, WalkIsTheList DEF LInv
  <2> QED BY <2>1, <2>2 DEF IsFreeList, LInv, ProviderTypes
<1> QED BY <1>1, <1>2, <1>3, PTL DEF Spec

\* Both pools: no provider and no generator record is handed out twice, and
\* none is lost without a report.
THEOREM PoolsSound == Spec => []PoolsInv
<1>1. ProvidersSound /\ GeneratorSound => PoolsInv
  BY DEF PoolsInv
<1> QED BY <1>1, ProvidersNeverLost, RecordsIssuedOnce, PTL

-----------------------------------------------------------------------------
(***************************************************************************)
(* The patches of the extras.                                              *)
(***************************************************************************)
Statuses == {"OFF", "ON", "NOT_NEEDED", "ERR"}

\* A feature that was not yet looked at has left no trace.
FeaturesSound ==
  /\ xtodo \subseteq Features /\ xskipped \subseteq Features /\ xactive \subseteq Features
  /\ xstatus \in [Features -> Statuses] /\ xnew \subseteq Sites
  /\ \A f \in xtodo :
       xstatus[f] = "OFF" /\ NewSites(f) = {} /\ f \notin xactive /\ f \notin xskipped
  /\ "cache" \in xtodo => xbuffer = "none"
  /\ xpool = "ours" => "pool.alloc" \in xnew
  /\ ExtrasWhole

\* What the turn of a feature may do to the sites and to what is known of it:
\* whole, or nothing, or marked as skipped; and no other mod's site.
TurnsInto(f, status) ==
  /\ status \in Statuses /\ xstatus' = [xstatus EXCEPT ![f] = status]
  /\ \E added \in SUBSET SitesOf[f] :
       /\ xnew' = xnew \cup added /\ added \cap xmods = {}
       /\ IF status = "ON" THEN added \in Groups(f) ELSE added = {} \/ f \in xskipped'
  /\ xskipped \subseteq xskipped' /\ xskipped' \subseteq xskipped \cup {f}

\* No site belongs to two features.
LEMMA SitesApart ==
  /\ Features = {"matrix", "reflections", "queue", "drawable", "cache"}
  /\ \A f \in Features : SitesOf[f] \subseteq Sites
  /\ \A f, g \in Features : f # g => SitesOf[f] \cap SitesOf[g] = {}
<1>1. Features = {"matrix", "reflections", "queue", "drawable", "cache"}
  BY DEF Features, SitesOf
<1>2. /\ SitesOf["matrix"] = Limit \cup Pool /\ SitesOf["reflections"] = {"list.a", "list.b"}
      /\ SitesOf["queue"] = Cone \cup {"after"} /\ SitesOf["drawable"] = {"refs", "init.new"}
      /\ SitesOf["cache"] = {"start", "scan.a", "scan.b"}
  BY DEF SitesOf, Limit, Pool, Cone
<1>3. \A f \in Features : SitesOf[f] \subseteq Sites
  BY DEF Sites
<1>4. \A f, g \in Features : f # g => SitesOf[f] \cap SitesOf[g] = {}
  BY <1>1, <1>2 DEF Limit, Pool, Cone
<1> QED BY <1>1, <1>3, <1>4

LEMMA SitesByName ==
  /\ SitesOf["matrix"] = Limit \cup Pool /\ SitesOf["reflections"] = {"list.a", "list.b"}
  /\ SitesOf["queue"] = Cone \cup {"after"} /\ SitesOf["drawable"] = {"refs", "init.new"}
  /\ SitesOf["cache"] = {"start", "scan.a", "scan.b"}
BY DEF SitesOf, Limit, Pool, Cone

LEMMA CommitTurns ==
  ASSUME NEW f \in Features, NEW sites \in SUBSET SitesOf[f],
         sites \in Groups(f), sites \cap xmods = {}, Commit(f, sites)
  PROVE  \E s \in Statuses : TurnsInto(f, s)
<1>1. CASE Refuse(f)
  <2>1. TurnsInto(f, "ERR")
    BY <1>1 DEF Refuse, Status, TurnsInto, Statuses
  <2> QED BY <2>1 DEF Statuses
<1>2. CASE Revert(f, sites)
  <2>1. PICK kept \in SUBSET sites :
          /\ Status(f, "ERR") /\ xnew' = xnew \cup kept
          /\ xskipped' = IF kept = {} THEN xskipped ELSE xskipped \cup {f}
    BY <1>2 DEF Revert
  <2>2. kept \in SUBSET SitesOf[f] /\ kept \cap xmods = {}
    BY <2>1
  <2>3. TurnsInto(f, "ERR")
    BY <2>1, <2>2 DEF Status, TurnsInto, Statuses
  <2> QED BY <2>3 DEF Statuses
<1>3. CASE Apply(f, sites)
  <2>1. TurnsInto(f, "ON")
    BY <1>3 DEF Apply, Status, TurnsInto, Statuses
  <2> QED BY <2>1 DEF Statuses
<1> QED BY <1>1, <1>2, <1>3 DEF Commit

LEMMA QuietTurns ==
  ASSUME NEW f \in Features, NEW s \in Statuses, s # "ON",
         Status(f, s), UNCHANGED <<xnew, xskipped>>
  PROVE  TurnsInto(f, s)
BY DEF Status, TurnsInto

LEMMA TurnKeeps ==
  ASSUME FeaturesSound, NEW f \in xtodo, NEW s \in Statuses, TurnsInto(f, s), Turn(f),
         xactive' = xactive \/ (xactive' = xactive \cup {f} /\ s = "ON"),
         IF f = "cache" THEN NewSites(f)' # {} /\ f \notin xskipped' => xbuffer' = "live"
                        ELSE xbuffer' = xbuffer
  PROVE  FeaturesSound'
<1>1. f \in Features /\ xtodo' = xtodo \ {f} /\ UNCHANGED <<xmods, xpool>>
  BY DEF Turn, FeaturesSound
<1>2. PICK added \in SUBSET SitesOf[f] :
        /\ xnew' = xnew \cup added /\ added \cap xmods = {}
        /\ IF s = "ON" THEN added \in Groups(f) ELSE added = {} \/ f \in xskipped'
  BY DEF TurnsInto
<1>3. \A g \in Features \ {f} : NewSites(g)' = NewSites(g) /\ xstatus'[g] = xstatus[g]
        /\ (g \in xskipped' <=> g \in xskipped)
  BY <1>1, <1>2, SitesApart DEF NewSites, TurnsInto, FeaturesSound
<1>4. NewSites(f)' = added /\ xstatus'[f] = s
  BY <1>1, <1>2 DEF NewSites, TurnsInto, FeaturesSound
<1>5. xstatus' \in [Features -> Statuses] /\ xnew' \subseteq Sites /\ xskipped' \subseteq Features
      /\ xactive' \subseteq Features
  BY <1>1, <1>2, SitesApart DEF TurnsInto, FeaturesSound
<1>6. \A g \in Features \ xskipped' :
        IF xstatus'[g] = "ON" THEN NewSites(g)' \in Groups(g) ELSE NewSites(g)' = {}
  BY <1>2, <1>3, <1>4 DEF FeaturesSound, ExtrasWhole
<1>7. "cache" \notin xskipped' /\ NewSites("cache")' # {} => xbuffer' = "live"
  <2>1. CASE f = "cache"
    BY <2>1
  <2>2. CASE f # "cache"
    BY <1>3, <2>2, SitesApart DEF FeaturesSound, ExtrasWhole
  <2> QED BY <2>1, <2>2
<1>8. \A g \in xactive' : xstatus'[g] = "ON"
  BY <1>3, <1>4 DEF FeaturesSound, ExtrasWhole
<1>9. xnew' \cap xmods' = {} /\ (xpool' = "corrupt" => "matrix" \in xskipped')
  BY <1>1, <1>2 DEF TurnsInto, FeaturesSound, ExtrasWhole
<1>10. ExtrasWhole'
  BY <1>6, <1>7, <1>8, <1>9 DEF ExtrasWhole, Groups
<1>11. \A g \in xtodo' : xstatus'[g] = "OFF" /\ NewSites(g)' = {} /\ g \notin xactive'
         /\ g \notin xskipped'
  BY <1>1, <1>3 DEF FeaturesSound
<1>12. ("cache" \in xtodo' => xbuffer' = "none") /\ (xpool' = "ours" => "pool.alloc" \in xnew')
  BY <1>1, <1>2 DEF FeaturesSound
<1> QED BY <1>1, <1>5, <1>10, <1>11, <1>12 DEF FeaturesSound

LEMMA ExtrasKept ==
  ASSUME FeaturesSound, NextExtras
  PROVE  FeaturesSound'
<1>1. CASE InstallMatrix
  <2> DEFINE f == "matrix"
  <2>1. PICK want_limit \in BOOLEAN, want_pool \in BOOLEAN :
          LET limit == want_limit /\ \A s \in Limit : Found(s)
              sites == (IF limit THEN Limit ELSE {}) \cup (IF want_pool THEN Pool ELSE {})
          IN IF ~want_limit /\ ~want_pool
               THEN Status(f, "OFF") /\ UNCHANGED <<xnew, xskipped>>
             ELSE IF sites = {} \/ ~(\A s \in sites : Found(s)) THEN Refuse(f)
             ELSE Commit(f, sites)
    BY <1>1 DEF InstallMatrix
  <2> DEFINE sites == (IF want_limit /\ \A s \in Limit : Found(s) THEN Limit ELSE {})
                      \cup (IF want_pool THEN Pool ELSE {})
  <2>2. f \in xtodo /\ Turn(f) /\ UNCHANGED <<xactive, xbuffer>> /\ f \in Features
    BY <1>1, SitesApart DEF InstallMatrix, Turn
  <2>3. \E s \in Statuses : TurnsInto(f, s)
    <3>1. CASE Status(f, "OFF") /\ UNCHANGED <<xnew, xskipped>>
      BY <2>2, <3>1, QuietTurns DEF Statuses
    <3>2. CASE Refuse(f)
      BY <2>2, <3>2, QuietTurns DEF Statuses, Refuse
    <3>3. CASE sites # {} /\ (\A s \in sites : Found(s)) /\ Commit(f, sites)
      <4>1. sites \in {Limit, Pool, Limit \cup Pool}
        BY <3>3
      <4>2. sites \in SUBSET SitesOf[f] /\ sites \in Groups(f)
        BY <4>1, SitesByName DEF Groups
      <4>3. sites \cap xmods = {}
        BY <3>3 DEF Found
      <4> HIDE DEF sites
      <4> QED BY <2>2, <3>3, <4>2, <4>3, CommitTurns
    <3> QED BY <2>1, <3>1, <3>2, <3>3
  <2> QED BY <2>2, <2>3, TurnKeeps
<1>2. ASSUME NEW f \in {"reflections", "queue"}, Turn(f), UNCHANGED xbuffer, Switch(f),
             NEW sites \in Groups(f),
             IF \A s \in sites : Found(s) THEN Commit(f, sites) ELSE Refuse(f)
      PROVE  FeaturesSound'
  <2>1. f \in xtodo /\ f \in Features /\ sites \in SUBSET SitesOf[f]
    BY <1>2, SitesApart, SitesByName DEF Turn, Groups
  <2>2. PICK s \in Statuses : TurnsInto(f, s)
    <3>1. CASE Refuse(f)
      BY <2>1, <3>1, QuietTurns DEF Statuses, Refuse
    <3>2. CASE (\A s \in sites : Found(s)) /\ Commit(f, sites)
      <4>1. sites \cap xmods = {}
        BY <3>2 DEF Found
      <4> QED BY <1>2, <2>1, <3>2, <4>1, CommitTurns
    <3> QED BY <1>2, <3>1, <3>2
  <2>3. xstatus'[f] = s
    BY <2>1, <2>2 DEF TurnsInto, FeaturesSound
  <2> QED BY <1>2, <2>1, <2>2, <2>3, TurnKeeps DEF Switch
<1>3. CASE InstallReflections
  <2>1. SitesOf["reflections"] \in Groups("reflections")
    BY DEF Groups
  <2> QED BY <1>2, <1>3, <2>1 DEF InstallReflections
<1>4. CASE InstallQueueHooks
  <2>1. Groups("queue") = {Cone, SitesOf["queue"]}
    BY DEF Groups
  <2> QED BY <1>2, <1>4, <2>1 DEF InstallQueueHooks
<1>5. CASE InstallDrawable
  <2> DEFINE f == "drawable"
  <2>1. f \in xtodo /\ Turn(f) /\ UNCHANGED <<xactive, xbuffer>> /\ f \in Features
    BY <1>5, SitesApart DEF InstallDrawable, Turn
  <2>2. \E s \in Statuses : TurnsInto(f, s)
    <3>1. CASE Status(f, "NOT_NEEDED") /\ UNCHANGED <<xnew, xskipped>>
      BY <2>1, <3>1, QuietTurns DEF Statuses
    <3>2. CASE Refuse(f)
      BY <2>1, <3>2, QuietTurns DEF Statuses, Refuse
    <3>3. ASSUME NEW sites \in {{"refs"}, SitesOf[f]}, \A s \in SitesOf[f] : Found(s),
                 Commit(f, sites)
          PROVE  \E s \in Statuses : TurnsInto(f, s)
      <4>1. sites \in SUBSET SitesOf[f] /\ sites \in Groups(f)
        BY SitesByName DEF Groups
      <4>2. sites \cap xmods = {}
        BY <3>3, <4>1 DEF Found
      <4> QED BY <2>1, <3>3, <4>1, <4>2, CommitTurns
    <3> QED BY <1>5, <3>1, <3>2, <3>3 DEF InstallDrawable
  <2> QED BY <2>1, <2>2, TurnKeeps
<1>6. CASE InstallRenderCache
  <2> DEFINE f == "cache"
  <2>1. f \in xtodo /\ Turn(f) /\ UNCHANGED xactive /\ f \in Features
    BY <1>6, SitesApart DEF InstallRenderCache, Turn
  <2>2. NewSites(f) = {} /\ f \notin xskipped
    BY <2>1 DEF FeaturesSound
  <2>3. CASE UNCHANGED <<xnew, xskipped>> /\ \E s \in {"ERR", "NOT_NEEDED"} : Status(f, s)
    <3>1. PICK s \in {"ERR", "NOT_NEEDED"} : Status(f, s)
      BY <2>3
    <3>2. TurnsInto(f, s) /\ s \in Statuses
      BY <2>1, <2>3, <3>1, QuietTurns DEF Statuses
    <3>3. NewSites(f)' = {}
      BY <2>2, <2>3 DEF NewSites
    <3> QED BY <2>1, <3>2, <3>3, TurnKeeps
  <2>4. CASE /\ \A s \in SitesOf[f] : Found(s)
             /\ Commit(f, SitesOf[f]) /\ xbuffer' = BufferAfter(xstatus'[f])
    <3>1. SitesOf[f] \in Groups(f) /\ SitesOf[f] \cap xmods = {}
      BY <2>4 DEF Groups, Found
    <3>2. PICK s \in Statuses : TurnsInto(f, s)
      BY <2>1, <2>4, <3>1, CommitTurns
    <3>3. xstatus'[f] = s
      BY <2>1, <3>2 DEF TurnsInto, FeaturesSound
    <3>4. s # "ON" => NewSites(f)' = {} \/ f \in xskipped'
      BY <2>2, <3>2 DEF TurnsInto, NewSites
    <3> QED BY <2>1, <2>4, <3>2, <3>3, <3>4, TurnKeeps DEF BufferAfter
  <2> QED BY <1>6, <2>3, <2>4 DEF InstallRenderCache, Refuse
<1>7. CASE AllocatePool \/ FreePool \/ ReflectionsFault
  <2>1. UNCHANGED <<xtodo, xstatus, xmods, xnew, xbuffer, xskipped>> /\ xactive' \subseteq xactive
    BY <1>7 DEF AllocatePool, FreePool, ReflectionsFault, InEngine
  <2>2. \A f \in Features : NewSites(f)' = NewSites(f)
    BY <2>1 DEF NewSites
  <2>3. xpool' = "ours" => "pool.alloc" \in xnew
    BY <1>7 DEF AllocatePool, FreePool, ReflectionsFault, FeaturesSound
  <2>4. xpool' = "corrupt" => "matrix" \in xskipped
    <3>1. CASE xpool = "ours" /\ "pool.free" \notin xnew /\ "matrix" \notin xskipped
      <4>1. "pool.alloc" \in NewSites("matrix") /\ "pool.free" \notin NewSites("matrix")
        BY <3>1, SitesByName DEF NewSites, Pool, FeaturesSound
      <4>2. NewSites("matrix") \in {Limit, Pool, Limit \cup Pool} \/ NewSites("matrix") = {}
        BY <3>1, SitesApart DEF FeaturesSound, ExtrasWhole, Groups
      <4> QED BY <4>1, <4>2 DEF Limit, Pool
    <3>2. CASE ~(xpool = "ours" /\ "pool.free" \notin xnew /\ "matrix" \notin xskipped)
      BY <1>7, <3>2 DEF AllocatePool, FreePool, ReflectionsFault, FeaturesSound, ExtrasWhole
    <3> QED BY <3>1, <3>2
  <2> QED BY <2>1, <2>2, <2>3, <2>4, SitesApart DEF FeaturesSound, ExtrasWhole, Groups
<1> QED BY <1>1, <1>3, <1>4, <1>5, <1>6, <1>7 DEF NextExtras

\* Each feature of the extras is in as a whole or not at all; what a skipped
\* restoration leaves does not act, and never leads to a buffer that was freed.
THEOREM ExtrasStayWhole == Spec => []ExtrasWhole
<1>1. Init => FeaturesSound
  <2> SUFFICES ASSUME Init PROVE FeaturesSound
    OBVIOUS
  <2>1. xtodo \subseteq Features /\ xnew = {} /\ xactive = {} /\ xskipped = {} /\ xbuffer = "none"
        /\ xpool \in {"none", "engine"} /\ xstatus = [f \in Features |-> "OFF"]
    BY AskedAssumption DEF Init, InitExtras
  <2> QED BY <2>1 DEF FeaturesSound, ExtrasWhole, NewSites, Statuses
<1>2. FeaturesSound /\ [Next]_vars => FeaturesSound'
  <2> SUFFICES ASSUME FeaturesSound, [Next]_vars PROVE FeaturesSound'
    OBVIOUS
  <2>1. CASE UNCHANGED extras
    BY <2>1 DEF extras, FeaturesSound, ExtrasWhole, NewSites, Groups
  <2> QED BY <2>1, ExtrasKept, EachOnItsOwn
<1> QED BY <1>1, <1>2, PTL DEF Spec, FeaturesSound
-----------------------------------------------------------------------------
(***************************************************************************)
(* The watchdog and the crash handler.                                     *)
(***************************************************************************)
Working == {"open", "write", "written", "reopen", "rewrite", "failed"}

WatchdogTypes ==
  /\ files \in [Dumps -> {"absent", "part", "failed", "whole"}]
  /\ reports \in [Kinds -> {<<>>, <<"written">>, <<"failed">>}]
  /\ faulting \in [Faulting -> Working \cup {"out", "over"}]
  /\ watching \in Working \cup {"none", "waiting", "probe", "over"}
  /\ probes \in Nat /\ missed \in Nat

\* What is on the disk at each place of a dump.
FilesAt(full, fallback, at) ==
  IF at \in {"written", "failed"}
    THEN /\ full # "part" /\ fallback # "part"
         /\ at = "written" <=> full = "whole" \/ fallback = "whole"
    ELSE /\ full = IF at = "open" THEN "absent" ELSE IF at = "write" THEN "part" ELSE "failed"
         /\ fallback = IF at = "rewrite" THEN "part" ELSE "absent"

\* Where a dump is being made, the files go with the place and nothing was
\* reported; one that is over left nothing half written, and a true report.
HalfDone(k, at) ==
  reports[k] = <<>> /\ FilesAt(files[<<k, "full">>], files[<<k, "fallback">>], at)

Over(k) ==
  \E at \in {"written", "failed"} :
    reports[k] = <<at>> /\ FilesAt(files[<<k, "full">>], files[<<k, "fallback">>], at)

DumpSound(k) ==
  IF \E at \in Working : IsAt(k, at)
    THEN k \in claimed /\ \A at \in Working : IsAt(k, at) => HalfDone(k, at)
    ELSE IF k \in claimed THEN Over(k) ELSE HalfDone(k, "open")

\* Misses are never fewer than the probes that failed; one thread at most
\* writes the dump of a crash.
WInv ==
  /\ WatchdogTypes
  /\ \A k \in Kinds : DumpSound(k)
  /\ \A t, u \in Faulting : faulting[t] \in Working /\ faulting[u] \in Working => t = u
  /\ probes <= missed
  /\ watching = "open" => missed >= threshold_probes
  /\ watching \notin {"none", "waiting"} => setup = "done"

\* A dump that goes on stays half done until it is over, and leaves the other
\* kind of dump alone.
LEMMA DumpGoesOn ==
  ASSUME WatchdogTypes, NEW k \in Kinds, NEW at \in Working, HalfDone(k, at),
         NEW next, DumpStep(k, at, next)
  PROVE  /\ next \in Working \cup {"over"} /\ next # "open"
         /\ IF next = "over" THEN Over(k)' ELSE HalfDone(k, next)'
         /\ \A j \in Kinds \ {k} : reports'[j] = reports[j]
         /\ \A d \in Dumps : d[1] # k => files'[d] = files[d]
         /\ files' \in [Dumps -> {"absent", "part", "failed", "whole"}]
         /\ reports' \in [Kinds -> {<<>>, <<"written">>, <<"failed">>}]
<1> DEFINE full == <<k, "full">>
           fallback == <<k, "fallback">>
<1>1. /\ full \in Dumps /\ fallback \in Dumps /\ full # fallback /\ full[1] = k /\ fallback[1] = k
      /\ \A d \in Dumps : d[1] = k <=> d \in {full, fallback}
  BY DEF Dumps, Kinds
<1>2. Append(reports[k], "written") = <<"written">> /\ Append(reports[k], "failed") = <<"failed">>
  BY DEF HalfDone
<1> HIDE DEF full, fallback
<1>3. ASSUME NEW d \in {full, fallback},
             NEW content \in {"absent", "part", "failed", "whole"}, Becomes(d, content)
      PROVE  /\ files' \in [Dumps -> {"absent", "part", "failed", "whole"}]
             /\ files'[d] = content /\ \A e \in Dumps \ {d} : files'[e] = files[e]
             /\ \A e \in Dumps : e[1] # k => files'[e] = files[e]
  BY <1>1, <1>3 DEF Becomes, WatchdogTypes
<1>4. ASSUME NEW result \in {"written", "failed"}, Report(k, result)
      PROVE  /\ reports' \in [Kinds -> {<<>>, <<"written">>, <<"failed">>}]
             /\ reports'[k] = <<result>> /\ \A j \in Kinds \ {k} : reports'[j] = reports[j]
  BY <1>2, <1>4 DEF Report, WatchdogTypes
<1>5. reports[k] = <<>> /\ FilesAt(files[full], files[fallback], at)
  BY DEF HalfDone, full, fallback
<1>6. \A n : reports'[k] = <<>> /\ FilesAt(files'[full], files'[fallback], n) => HalfDone(k, n)'
  BY DEF HalfDone, full, fallback
<1>7. CASE at = "open" /\ Becomes(full, "part") /\ next = "write"
  <2>1. FilesAt(files'[full], files'[fallback], next)
    BY <1>1, <1>3, <1>5, <1>7 DEF FilesAt
  <2> QED BY <1>3, <1>5, <1>6, <1>7, <2>1 DEF Working, WatchdogTypes, Becomes
<1>8. CASE at \in {"open", "reopen"} /\ next = "failed" /\ UNCHANGED <<files, reports>>
  <2>1. FilesAt(files'[full], files'[fallback], next)
    BY <1>5, <1>8 DEF FilesAt
  <2> QED BY <1>5, <1>6, <1>8, <2>1 DEF Working, WatchdogTypes
<1>9. CASE at = "write" /\ next = "written" /\ Becomes(full, "whole")
  <2>1. FilesAt(files'[full], files'[fallback], next)
    BY <1>1, <1>3, <1>5, <1>9 DEF FilesAt
  <2> QED BY <1>3, <1>5, <1>6, <1>9, <2>1 DEF Working, WatchdogTypes, Becomes
<1>10. CASE at = "write" /\ next = "reopen" /\ Becomes(full, "failed")
  <2>1. FilesAt(files'[full], files'[fallback], next)
    BY <1>1, <1>3, <1>5, <1>10 DEF FilesAt
  <2> QED BY <1>3, <1>5, <1>6, <1>10, <2>1 DEF Working, WatchdogTypes, Becomes
<1>11. CASE at = "reopen" /\ next = "rewrite" /\ Becomes(fallback, "part")
  <2>1. FilesAt(files'[full], files'[fallback], next)
    BY <1>1, <1>3, <1>5, <1>11 DEF FilesAt
  <2> QED BY <1>3, <1>5, <1>6, <1>11, <2>1 DEF Working, WatchdogTypes, Becomes
<1>12. CASE at = "rewrite" /\ next = "written" /\ Becomes(fallback, "whole")
  <2>1. FilesAt(files'[full], files'[fallback], next)
    BY <1>1, <1>3, <1>5, <1>12 DEF FilesAt
  <2> QED BY <1>3, <1>5, <1>6, <1>12, <2>1 DEF Working, WatchdogTypes, Becomes
<1>13. CASE at = "rewrite" /\ next = "failed" /\ Becomes(fallback, "failed")
  <2>1. FilesAt(files'[full], files'[fallback], next)
    BY <1>1, <1>3, <1>5, <1>13 DEF FilesAt
  <2> QED BY <1>3, <1>5, <1>6, <1>13, <2>1 DEF Working, WatchdogTypes, Becomes
<1>14. CASE at \in {"written", "failed"} /\ next = "over" /\ Report(k, at)
  <2>1. reports'[k] = <<at>> /\ UNCHANGED files
    BY <1>4, <1>14 DEF Report
  <2>2. Over(k)'
    BY <1>5, <1>14, <2>1 DEF Over, full, fallback
  <2> QED BY <1>4, <1>14, <2>1, <2>2 DEF Working, WatchdogTypes
<1> QED BY <1>7, <1>8, <1>9, <1>10, <1>11, <1>12, <1>13, <1>14 DEF DumpStep, full, fallback

\* The soundness of one kind reads its files, its report, its flag and where
\* it is written from.
LEMMA SoundFrame ==
  ASSUME NEW k \in Kinds, DumpSound(k),
         reports'[k] = reports[k], \A d \in Dumps : d[1] = k => files'[d] = files[d],
         k \in claimed <=> k \in claimed',
         \A at \in Working : IsAt(k, at)' <=> IsAt(k, at)
  PROVE  DumpSound(k)'
<1>1. files'[<<k, "full">>] = files[<<k, "full">>]
      /\ files'[<<k, "fallback">>] = files[<<k, "fallback">>]
  BY DEF Dumps
<1>2. \A at \in Working : HalfDone(k, at)' <=> HalfDone(k, at)
  BY <1>1 DEF HalfDone
<1>3. Over(k)' <=> Over(k)
  BY <1>1 DEF Over
<1> QED BY <1>2, <1>3 DEF DumpSound, Working

LEMMA WatchdogKept ==
  ASSUME WInv, NextWatchdog
  PROVE  WInv'
<1> USE DEF WInv
<1>1. Kinds = {"hang", "crash"} /\ "hang" \in Kinds /\ "crash" \in Kinds
  BY DEF Kinds
<1>2. ASSUME UNCHANGED <<claimed, files, reports, faulting>>,
             \A at \in Working : (watching' = at) <=> (watching = at)
      PROVE  \A k \in Kinds : DumpSound(k)'
  BY <1>1, <1>2, SoundFrame DEF IsAt
<1>3. CASE SetupStep
  <2>1. setup # "done" /\ UNCHANGED <<dumping, faulting, probes, missed>>
    BY <1>3 DEF SetupStep, InitializeMinidump, InstallHandlers, StartHangWatchdog, WriteLog,
                LetGo, PublishReady, Setup, dumping, probing, engine
  <2>2. watching \in {"none", "waiting"} /\ watching' \in {"none", "waiting"}
    BY <1>3, <2>1 DEF SetupStep, InitializeMinidump, InstallHandlers, StartHangWatchdog, WriteLog,
                LetGo, PublishReady, Setup, dumping, probing, engine
  <2>3. \A k \in Kinds : DumpSound(k)'
    BY <1>2, <2>1, <2>2 DEF dumping, Working
  <2> QED BY <2>1, <2>2, <2>3 DEF dumping, WatchdogTypes
<1>4. CASE PassWait
  <2>1. \A k \in Kinds : DumpSound(k)'
    BY <1>2, <1>4 DEF PassWait, dumping, engine, Working
  <2> QED BY <1>4, <2>1 DEF PassWait, dumping, engine, installed, WatchdogTypes
<1>5. CASE Probe
  <2>1. threshold_probes \in Nat \ {0}
    BY WatchdogAssumption
  <2>2. probes' \in Nat /\ missed' \in Nat /\ probes' <= missed'
    <3>1. CASE window = "none"
      BY <1>5, <3>1 DEF Probe, Counted, Responsive, WatchdogTypes
    <3>2. CASE window = "hung"
      BY <1>5, <3>2, <2>1 DEF Probe, Counted, Responsive, UpTo, WatchdogTypes
    <3>3. CASE window = "answers"
      BY <1>5, <3>3 DEF Probe, Counted, Responsive, WatchdogTypes
    <3>4. CASE window \notin {"none", "hung", "answers"}
      BY <1>5, <3>4 DEF Probe, Counted, Responsive, WatchdogTypes
    <3> QED BY <3>1, <3>2, <3>3, <3>4
  <2>3. watching = "probe" /\ UNCHANGED <<setup, faulting, files, reports>>
    BY <1>5 DEF Probe, installed, engine
  <2>4. CASE claimed' = claimed \cup {"hang"} /\ watching' = "open" /\ "hang" \notin claimed
             /\ probes' >= threshold_probes
    <3>1. DumpSound("crash")'
      BY <1>1, <2>3, <2>4, SoundFrame DEF IsAt
    <3>2. HalfDone("hang", "open")
      BY <1>1, <2>3, <2>4 DEF DumpSound, IsAt, Working
    <3>3. HalfDone("hang", "open")'
      BY <2>3, <3>2 DEF HalfDone
    <3>4. DumpSound("hang")'
      BY <2>4, <3>3 DEF DumpSound, IsAt, Working
    <3>5. missed' >= threshold_probes
      BY <2>1, <2>2, <2>4
    <3> QED BY <1>1, <2>2, <2>3, <2>4, <3>1, <3>4, <3>5 DEF WatchdogTypes, Working
  <2>5. CASE UNCHANGED <<claimed, watching>>
    <3>1. \A k \in Kinds : DumpSound(k)'
      BY <1>2, <2>3, <2>5
    <3> QED BY <2>2, <2>3, <2>5, <3>1 DEF WatchdogTypes
  <2> QED BY <1>5, <2>4, <2>5 DEF Probe, MayClaim
<1>6. CASE DumpHang
  <2>1. PICK next \in DumpPlaces :
          DumpStep("hang", watching, next) /\ watching' = next
    BY <1>6 DEF DumpHang
  <2>2. UNCHANGED <<setup, faulting, claimed, probes, missed>>
    BY <1>6 DEF DumpHang, installed, engine
  <2>3. watching \in Working
    BY <2>1 DEF DumpStep, Working
  <2>4. HalfDone("hang", watching) /\ "hang" \in claimed
    BY <1>1, <2>3 DEF DumpSound, IsAt
  <2>5. /\ next \in Working \cup {"over"} /\ next # "open"
        /\ IF next = "over" THEN Over("hang")' ELSE HalfDone("hang", next)'
        /\ reports'["crash"] = reports["crash"]
        /\ \A d \in Dumps : d[1] = "crash" => files'[d] = files[d]
        /\ files' \in [Dumps -> {"absent", "part", "failed", "whole"}]
        /\ reports' \in [Kinds -> {<<>>, <<"written">>, <<"failed">>}]
    BY <1>1, <2>1, <2>3, <2>4, DumpGoesOn
  <2>6. DumpSound("hang")'
    BY <2>1, <2>2, <2>4, <2>5 DEF DumpSound, IsAt, Working
  <2>7. DumpSound("crash")'
    BY <1>1, <2>2, <2>5, SoundFrame DEF IsAt
  <2> QED BY <1>1, <2>1, <2>2, <2>3, <2>5, <2>6, <2>7 DEF WatchdogTypes, Working
<1>7. CASE ResumeProbes
  <2>1. \A k \in Kinds : DumpSound(k)'
    BY <1>2, <1>7 DEF ResumeProbes, dumping, engine, Working
  <2> QED BY <1>7, <2>1 DEF ResumeProbes, dumping, engine, installed, WatchdogTypes
<1>8. CASE FirstChance
  <2>1. \A k \in Kinds : DumpSound(k)'
    BY <1>1, <1>8, SoundFrame DEF FirstChance, engine, probing, IsAt
  <2> QED BY <1>8, <2>1 DEF FirstChance, engine, probing, installed, WatchdogTypes
<1>9. CASE WindowChanges
  <2>1. \A k \in Kinds : DumpSound(k)'
    BY <1>2, <1>9 DEF WindowChanges, dumping, probing
  <2> QED BY <1>9, <2>1 DEF WindowChanges, dumping, probing, installed, WatchdogTypes
<1>10. ASSUME NEW t \in Faulting, EnterCrashHandler(t)
       PROVE  WInv'
  <2>1. UNCHANGED <<setup, watching, probes, missed, files, reports>> /\ faulting[t] = "out"
    BY <1>10 DEF EnterCrashHandler, installed, probing
  <2>2. CASE "crash" \notin claimed /\ claimed' = claimed \cup {"crash"}
             /\ faulting' = [faulting EXCEPT ![t] = "open"]
    <3>1. DumpSound("hang")'
      BY <1>1, <2>1, <2>2, SoundFrame DEF IsAt
    <3>2. HalfDone("crash", "open") /\ \A u \in Faulting : faulting[u] \notin Working
      BY <1>1, <2>2 DEF DumpSound, IsAt
    <3>3. HalfDone("crash", "open")'
      BY <2>1, <3>2 DEF HalfDone
    <3>4. faulting'[t] = "open" /\ \A u \in Faulting \ {t} : faulting'[u] \notin Working
      BY <2>2, <3>2 DEF WatchdogTypes
    <3>5. \A at \in Working : IsAt("crash", at)' <=> at = "open"
      BY <3>4 DEF IsAt
    <3>6. DumpSound("crash")'
      BY <2>2, <3>3, <3>5 DEF DumpSound, Working
    <3> QED BY <1>1, <2>1, <2>2, <3>1, <3>4, <3>6 DEF WatchdogTypes, Working
  <2>3. CASE faulting' = [faulting EXCEPT ![t] = "over"] /\ UNCHANGED claimed
    <3>1. \A at \in Working : IsAt("crash", at)' <=> IsAt("crash", at)
      BY <2>1, <2>3 DEF IsAt, Working, WatchdogTypes
    <3>2. \A k \in Kinds : DumpSound(k)'
      BY <1>1, <2>1, <2>3, <3>1, SoundFrame DEF IsAt
    <3> QED BY <2>1, <2>3, <3>2 DEF WatchdogTypes, Working
  <2> QED BY <1>10, <2>2, <2>3 DEF EnterCrashHandler, MayClaim
<1>11. ASSUME NEW t \in Faulting, DumpCrash(t)
       PROVE  WInv'
  <2>1. PICK next \in DumpPlaces :
          DumpStep("crash", faulting[t], next) /\ faulting' = [faulting EXCEPT ![t] = next]
    BY <1>11 DEF DumpCrash
  <2>2. UNCHANGED <<setup, watching, claimed, probes, missed>>
    BY <1>11 DEF DumpCrash, installed, probing
  <2>3. faulting[t] \in Working /\ \A u \in Faulting \ {t} : faulting[u] \notin Working
    BY <2>1 DEF DumpStep, Working
  <2>4. HalfDone("crash", faulting[t]) /\ "crash" \in claimed
    BY <1>1, <2>3 DEF DumpSound, IsAt
  <2>5. /\ next \in Working \cup {"over"} /\ next # "open"
        /\ IF next = "over" THEN Over("crash")' ELSE HalfDone("crash", next)'
        /\ reports'["hang"] = reports["hang"]
        /\ \A d \in Dumps : d[1] = "hang" => files'[d] = files[d]
        /\ files' \in [Dumps -> {"absent", "part", "failed", "whole"}]
        /\ reports' \in [Kinds -> {<<>>, <<"written">>, <<"failed">>}]
    BY <1>1, <2>1, <2>3, <2>4, DumpGoesOn
  <2>6. faulting'[t] = next /\ \A u \in Faulting \ {t} : faulting'[u] \notin Working
    BY <2>1, <2>3 DEF WatchdogTypes
  <2>7. \A at \in Working : IsAt("crash", at)' <=> at = next
    BY <2>6 DEF IsAt
  <2>8. DumpSound("crash")'
    BY <2>2, <2>4, <2>5, <2>7 DEF DumpSound, Working
  <2>9. DumpSound("hang")'
    BY <1>1, <2>2, <2>5, SoundFrame DEF IsAt
  <2> QED BY <1>1, <2>1, <2>2, <2>5, <2>6, <2>8, <2>9 DEF WatchdogTypes, Working
<1>12. ASSUME NEW t \in Faulting, AfterChain(t)
       PROVE  WInv'
  <2>1. UNCHANGED <<setup, watching, probes, missed, claimed, files, reports>>
        /\ faulting[t] = "over"
    BY <1>12 DEF AfterChain, installed, probing, dumping
  <2>2. CASE UNCHANGED faulting
    BY <1>2, <2>1, <2>2 DEF WatchdogTypes
  <2>3. CASE faulting' = [faulting EXCEPT ![t] = "out"]
    <3>1. \A at \in Working : IsAt("crash", at)' <=> IsAt("crash", at)
      BY <2>1, <2>3 DEF IsAt, Working, WatchdogTypes
    <3>2. \A k \in Kinds : DumpSound(k)'
      BY <1>1, <2>1, <3>1, SoundFrame DEF IsAt
    <3> QED BY <2>1, <2>3, <3>2 DEF WatchdogTypes, Working
  <2> QED BY <1>12, <2>2, <2>3 DEF AfterChain
<1> QED BY <1>3, <1>4, <1>5, <1>6, <1>7, <1>8, <1>9, <1>10, <1>11, <1>12
        DEF NextWatchdog, WatchdogStep

\* One report of a hang and one of a crash, and true: a whole dump without its
\* report is one whose writer has yet to make it, or was stopped before by the
\* end of the process; nothing half written is left behind; no hang without
\* the misses, no probe before the log.
THEOREM DumpsAndReports == Spec => []WatchdogInv
<1>1. Init => WInv
  <2> SUFFICES ASSUME Init PROVE WInv
    OBVIOUS
  <2>1. InitWatchdog
    BY DEF Init
  <2>2. \A d \in Dumps : files[d] = "absent"
    BY <2>1 DEF InitWatchdog
  <2>3. \A k \in Kinds : HalfDone(k, "open")
    BY <2>1, <2>2 DEF InitWatchdog, HalfDone, FilesAt, Dumps
  <2>4. \A k \in Kinds : DumpSound(k)
    BY <2>1, <2>3 DEF InitWatchdog, DumpSound, IsAt, Working
  <2> QED BY <2>1, <2>4 DEF InitWatchdog, WInv, WatchdogTypes, Working
<1>2. WInv /\ [Next]_vars => WInv'
  <2> SUFFICES ASSUME WInv, [Next]_vars PROVE WInv'
    OBVIOUS
  <2>1. CASE UNCHANGED diagnostics
    <3>1. UNCHANGED <<setup, watching, probes, missed, claimed, files, reports, faulting>>
      BY <2>1 DEF diagnostics, installed, dumping, probing, engine
    <3>2. \A k \in Kinds : DumpSound(k)'
      BY <3>1, SoundFrame DEF WInv, IsAt
    <3> QED BY <3>1, <3>2 DEF WInv, WatchdogTypes
  <2> QED BY <2>1, WatchdogKept, EachOnItsOwn
<1>3. WInv => WatchdogInv
  <2> SUFFICES ASSUME WInv PROVE WatchdogInv
    OBVIOUS
  <2>1. ASSUME NEW k \in Kinds
        PROVE  /\ Len(reports[k]) <= 1
               /\ reports[k] = <<"written">> => WholeDump(k)
               /\ WholeDump(k) => reports[k] = <<"written">> \/ IsAt(k, "written")
    <3>1. WholeDump(k) <=> files[<<k, "full">>] = "whole" \/ files[<<k, "fallback">>] = "whole"
      BY DEF WholeDump, Dumps
    <3>2. /\ <<>> # <<"written">> /\ <<"failed">> # <<"written">>
          /\ Len(<<>>) = 0 /\ Len(<<"written">>) = 1 /\ Len(<<"failed">>) = 1
      OBVIOUS
    <3>3. CASE Over(k)
      <4>1. PICK at \in {"written", "failed"} :
              reports[k] = <<at>> /\ FilesAt(files[<<k, "full">>], files[<<k, "fallback">>], at)
        BY <3>3 DEF Over
      <4>2. CASE at = "written"
        BY <3>1, <3>2, <4>1, <4>2 DEF FilesAt
      <4>3. CASE at = "failed"
        BY <3>1, <3>2, <4>1, <4>3 DEF FilesAt
      <4> QED BY <4>2, <4>3
    <3>4. CASE ~Over(k)
      <4>1. reports[k] = <<>> /\ (WholeDump(k) => IsAt(k, "written"))
        <5>1. CASE HalfDone(k, "open")
          BY <3>1, <5>1 DEF HalfDone, FilesAt
        <5>2. CASE ~HalfDone(k, "open")
          <6>1. PICK at \in Working : IsAt(k, at) /\ HalfDone(k, at)
            BY <3>4, <5>2 DEF WInv, DumpSound
          <6> QED BY <3>1, <6>1 DEF HalfDone, FilesAt
        <5> QED BY <5>1, <5>2
      <4> QED BY <3>2, <4>1
    <3> QED BY <3>3, <3>4
  <2>2. ASSUME NEW d \in Dumps, files[d] = "part"
        PROVE  Writing(d)
    <3>1. PICK k \in Kinds, x \in {"full", "fallback"} : d = <<k, x>>
      BY DEF Dumps
    <3>2. DumpSound(k) /\ ~Over(k)
      BY <2>2, <3>1 DEF WInv, Over, FilesAt
    <3>3. ~HalfDone(k, "open")
      BY <2>2, <3>1 DEF HalfDone, FilesAt
    <3>4. PICK at \in Working : IsAt(k, at) /\ HalfDone(k, at)
      BY <3>2, <3>3 DEF DumpSound
    <3>5. at = IF x = "full" THEN "write" ELSE "rewrite"
      BY <2>2, <3>1, <3>4 DEF HalfDone, FilesAt, Working
    <3> QED BY <3>1, <3>4, <3>5 DEF Writing
  <2> QED BY <2>1, <2>2 DEF WInv, WatchdogInv
<1> QED BY <1>1, <1>2, <1>3, PTL DEF Spec

-----------------------------------------------------------------------------
(***************************************************************************)
(* The preparers.                                                          *)
(***************************************************************************)
Names == {"definition", "source", "plant", "terminal", "prebuild", "commit", "release"}
Running == {"look", "build", "add", "finish"}

PreparationTypes ==
  /\ word \in {"IDLE", "PREPARING", "FAILED_DIRTY"}
  /\ phase \in Running \cup {"idle", "failed", "pin", "prepared"}
  /\ turn \in 0 .. 8 /\ runtime \subseteq {"source", "plant"} /\ selector \in BOOLEAN
  /\ transaction \in Seq(Names \X Nat)

\* The i-th patch of a whole transaction is one of the k-th preparer.
Place(i, k) == Before[k] < i /\ i <= Before[k + 1]
InOrder(patches) ==
  \A i \in 1 .. Len(patches) : \E k \in 1 .. 7 :
    Place(i, k) /\ patches[i] = <<Preparers[k], i - Before[k]>>

FirstStubs(p, n) == {<<p, i>> : i \in 1 .. n}

\* What the running preparer has by itself: its stubs before its patches.
OwnWork ==
  /\ phase \in {"look", "failed", "pin", "prepared"} =>
       local = {} /\ Len(transaction) = Before[turn]
  /\ phase = "build" =>
       /\ Len(transaction) = Before[turn]
       /\ \E n \in Nat : n < StubCount(Preparers[turn]) /\ local = FirstStubs(Preparers[turn], n)
  /\ phase = "add" =>
       /\ Before[turn] <= Len(transaction) /\ Len(transaction) < Before[turn + 1]
       /\ local = StubsOf(Preparers[turn])
  /\ phase = "finish" =>
       Len(transaction) = Before[turn + 1] /\ local = StubsOf(Preparers[turn])

PInv ==
  /\ PreparationTypes
  /\ word = "PREPARING" <=> phase # "idle"
  /\ word = "IDLE" => turn = 0 /\ local = {} /\ published = {} /\ runtime = {} /\ ~selector
  /\ phase # "idle" =>
       /\ turn # 0 /\ published = Handed /\ InOrder(transaction) /\ OwnWork
       /\ phase \in Running => turn < 8
       /\ phase \in {"pin", "prepared"} => turn = 8
       /\ Finished \cap {"source", "plant"} \subseteq runtime
       /\ phase \in {"build", "add", "finish"} =>
            {Preparers[turn]} \cap {"source", "plant"} \subseteq runtime

\* The preparers are seven, and what they add is counted up from nothing.
LEMMA CountedUp ==
  /\ Before[1] = 0
  /\ \A k \in 1 .. 7 : Before[k + 1] = Before[k] + SiteCount(Preparers[k])
<1> DEFINE Body(f) == [k \in 1 .. Len(Preparers) + 1 |->
                         IF k = 1 THEN 0 ELSE f[k - 1] + SiteCount(Preparers[k - 1])]
           c(k) == SiteCount(Preparers[k])
           g == [k \in 1 .. 8 |-> IF k = 1 THEN 0 ELSE IF k = 2 THEN 0 + c(1)
                   ELSE IF k = 3 THEN 0 + c(1) + c(2) ELSE IF k = 4 THEN 0 + c(1) + c(2) + c(3)
                   ELSE IF k = 5 THEN 0 + c(1) + c(2) + c(3) + c(4)
                   ELSE IF k = 6 THEN 0 + c(1) + c(2) + c(3) + c(4) + c(5)
                   ELSE IF k = 7 THEN 0 + c(1) + c(2) + c(3) + c(4) + c(5) + c(6)
                   ELSE 0 + c(1) + c(2) + c(3) + c(4) + c(5) + c(6) + c(7)]
<1>1. Len(Preparers) = 7
  BY DEF Preparers
<1> HIDE DEF c
<1>2. \A k \in 1 .. 8 : g[k] = IF k = 1 THEN 0 ELSE g[k - 1] + c(k - 1)
  OBVIOUS
<1>3. g = Body(g)
  BY <1>1, <1>2 DEF c
<1> HIDE DEF g
<1>4. Before = Body(Before)
  BY <1>3 DEF Before
<1>5. \A k \in 1 .. 8 : Before[k] = IF k = 1 THEN 0 ELSE Before[k - 1] + SiteCount(Preparers[k - 1])
  BY <1>1, <1>4
<1> QED BY <1>5

LEMMA Counts ==
  /\ \A k \in 1 .. 7 : Preparers[k] \in Names /\ SiteCount(Preparers[k]) \in Nat \ {0}
                       /\ StubCount(Preparers[k]) \in Nat \ {0}
                       /\ StubCount(Preparers[k]) <= SiteCount(Preparers[k])
  /\ \A j, k \in 1 .. 7 : Preparers[j] = Preparers[k] => j = k
  /\ DOMAIN Preparers = 1 .. 7 /\ Len(Preparers) = 7
  /\ \A k \in 1 .. 7 : /\ Preparers[k] = "source" <=> k = 2
                       /\ Preparers[k] = "plant" <=> k = 3
                       /\ k \notin {2, 3} => SiteCount(Preparers[k]) = 1
                                             /\ StubCount(Preparers[k]) = 1
<1>1. DOMAIN Preparers = 1 .. 7 /\ Len(Preparers) = 7
  BY DEF Preparers
<1>2. /\ Preparers[1] = "definition" /\ Preparers[2] = "source" /\ Preparers[3] = "plant"
      /\ Preparers[4] = "terminal" /\ Preparers[5] = "prebuild" /\ Preparers[6] = "commit"
      /\ Preparers[7] = "release" /\ \A k \in 1 .. 7 : k \in {1, 2, 3, 4, 5, 6, 7}
  BY DEF Preparers
<1>3. \A k \in 1 .. 7 : Preparers[k] \in Names
  BY <1>2 DEF Names
<1>4. \A j, k \in 1 .. 7 : Preparers[j] = Preparers[k] => j = k
  BY <1>2
<1>5. \A k \in 1 .. 7 : (Preparers[k] = "source" <=> k = 2) /\ (Preparers[k] = "plant" <=> k = 3)
  BY <1>2
<1>6. \A p \in Names :
        /\ SiteCount(p) \in Nat \ {0} /\ StubCount(p) \in Nat \ {0} /\ StubCount(p) <= SiteCount(p)
        /\ p \notin {"source", "plant"} => SiteCount(p) = 1 /\ StubCount(p) = 1
  BY PreparationAssumption DEF SiteCount, StubCount
<1> QED BY <1>1, <1>3, <1>4, <1>5, <1>6

\* It grows with every preparer, so that a place belongs to one of them.
LEMMA Growing ==
  /\ \A k \in 1 .. 8 : Before[k] \in Nat
  /\ \A j, k \in 1 .. 8 : j <= k => Before[j] <= Before[k]
<1>1. Before[1] = 0 /\ Before[1] \in Nat
  BY CountedUp
<1>2. ASSUME NEW k \in 1 .. 7, Before[k] \in Nat
      PROVE  Before[k + 1] \in Nat /\ Before[k] < Before[k + 1]
  BY <1>2, CountedUp, Counts
<1>3. Before[2] \in Nat /\ Before[1] < Before[2]
  BY <1>1, <1>2
<1>4. Before[3] \in Nat /\ Before[2] < Before[3]
  BY <1>3, <1>2
<1>5. Before[4] \in Nat /\ Before[3] < Before[4]
  BY <1>4, <1>2
<1>6. Before[5] \in Nat /\ Before[4] < Before[5]
  BY <1>5, <1>2
<1>7. Before[6] \in Nat /\ Before[5] < Before[6]
  BY <1>6, <1>2
<1>8. Before[7] \in Nat /\ Before[6] < Before[7]
  BY <1>7, <1>2
<1>9. Before[8] \in Nat /\ Before[7] < Before[8]
  BY <1>8, <1>2
<1>10. \A k \in 1 .. 8 : k \in {1, 2, 3, 4, 5, 6, 7, 8}
  OBVIOUS
<1> QED BY <1>1, <1>3, <1>4, <1>5, <1>6, <1>7, <1>8, <1>9, <1>10

LEMMA NumbersBefore ==
  ASSUME PInv, phase \in Running
  PROVE  turn \in 1 .. 7 /\ Before[turn] \in Nat /\ Before[turn + 1] \in Nat
<1>1. turn \in 1 .. 7
  BY DEF PInv, PreparationTypes, Running
<1> QED BY <1>1, Growing

LEMMA OnePlace ==
  ASSUME NEW i \in Nat, NEW j \in 1 .. 7, NEW k \in 1 .. 7, Place(i, j), Place(i, k)
  PROVE  j = k
<1>1. j < k => Before[j + 1] <= Before[k]
  BY Growing
<1>2. k < j => Before[k + 1] <= Before[j]
  BY Growing
<1>3. /\ Before[j] \in Nat /\ Before[k] \in Nat /\ Before[j + 1] \in Nat /\ Before[k + 1] \in Nat
  BY Growing
<1> QED BY <1>1, <1>2, <1>3 DEF Place

LEMMA FirstStubsCounted ==
  ASSUME NEW p, NEW n \in Nat
  PROVE  /\ Cardinality(FirstStubs(p, n)) = n
         /\ FirstStubs(p, n) \cup {<<p, n + 1>>} = FirstStubs(p, n + 1)
<1> DEFINE f == [i \in 1 .. n |-> <<p, i>>]
<1>1. f \in Bijection(1 .. n, FirstStubs(p, n))
  BY DEF FirstStubs, Bijection, Injection, Surjection, IsInjective
<1>2. Cardinality(FirstStubs(p, n)) = n
  BY <1>1, FS_CountingElements DEF ExistsBijection
<1>3. FirstStubs(p, n) \cup {<<p, n + 1>>} = FirstStubs(p, n + 1)
  <2>1. 1 .. n + 1 = (1 .. n) \cup {n + 1}
    OBVIOUS
  <2> QED BY <2>1 DEF FirstStubs
<1> QED BY <1>2, <1>3

\* A preparer that gives up leaves what was there before its turn.
LEMMA GivesUpKeeps ==
  ASSUME PInv, phase \in Running, GivesUp, UNCHANGED <<word, selector>>,
         runtime \subseteq runtime', runtime' \subseteq {"source", "plant"}
  PROVE  PInv'
<1>1. turn \in 1 .. 7 /\ InOrder(transaction) /\ OwnWork /\ published = Handed
  BY DEF PInv, PreparationTypes, Running
<1>2. Before[turn] \in Nat /\ Before[turn] <= Len(transaction)
  <2>1. Before[turn] \in Nat /\ Before[turn + 1] \in Nat /\ Before[turn] <= Before[turn + 1]
    BY <1>1, Growing
  <2> QED BY <1>1, <2>1 DEF OwnWork, Running
<1>3. /\ transaction' \in Seq(Names \X Nat) /\ Len(transaction') = Before[turn]
      /\ \A i \in 1 .. Before[turn] : transaction'[i] = transaction[i]
  BY <1>2 DEF GivesUp, Discard, PInv, PreparationTypes
<1>4. InOrder(transaction')
  <2>1. \A i \in 1 .. Before[turn] : i \in 1 .. Len(transaction)
    <3>1. Len(transaction) \in Nat
      BY DEF PInv, PreparationTypes
    <3> QED BY <1>2, <3>1
  <2> QED BY <1>1, <1>3, <2>1 DEF InOrder
<1>5. UNCHANGED <<turn, published>> /\ phase' = "failed" /\ local' = {}
  BY DEF GivesUp
<1>6. Handed' = Handed /\ Finished' = Finished
  BY <1>5 DEF Handed, Finished
<1>7. OwnWork'
  BY <1>3, <1>5 DEF OwnWork
<1> QED BY <1>1, <1>3, <1>4, <1>5, <1>6, <1>7 DEF PInv, PreparationTypes, Running

\* One that ends well hands over its stubs and all of its patches.
LEMMA HandsKeeps ==
  ASSUME PInv, phase \in {"add", "finish"}, Hands, UNCHANGED <<word, runtime>>,
         selector' \in BOOLEAN, transaction' \in Seq(Names \X Nat),
         InOrder(transaction'), Len(transaction') = Before[turn + 1]
  PROVE  PInv'
<1>1. turn \in 1 .. 7 /\ local = StubsOf(Preparers[turn]) /\ published = Handed
  BY DEF PInv, PreparationTypes, Running, OwnWork
<1>2. turn' = turn + 1 /\ local' = {} /\ published' = published \cup local
  BY DEF Hands
<1>3. phase' = IF turn < 7 THEN "look" ELSE "pin"
  BY Counts DEF Hands
<1>4. Finished' = Finished \cup {Preparers[turn]}
  <2>1. 1 .. (turn + 1) - 1 = (1 .. turn - 1) \cup {turn}
    BY <1>1
  <2> QED BY <1>1, <1>2, <2>1 DEF Finished
<1>5. Handed' = Handed \cup StubsOf(Preparers[turn])
  BY <1>4 DEF Handed, StubsOf, StubCount
<1>6. published' = Handed'
  BY <1>1, <1>2, <1>5
<1>7. OwnWork'
  BY <1>1, <1>2, <1>3 DEF OwnWork
<1>8. Finished' \cap {"source", "plant"} \subseteq runtime'
  BY <1>1, <1>4 DEF PInv, Running
<1>9. word' = "PREPARING"
  BY DEF PInv
<1> QED BY <1>1, <1>2, <1>3, <1>6, <1>7, <1>8, <1>9 DEF PInv, PreparationTypes, Running

\* The next patch is at its place.
LEMMA AddsInOrder ==
  ASSUME PInv, NEW p, Runs(p, "add"), AddNext(p)
  PROVE  /\ p = Preparers[turn] /\ turn \in 1 .. 7 /\ Added + 1 \in 1 .. SiteCount(p)
         /\ Before[turn + 1] = Before[turn] + SiteCount(p)
         /\ Len(transaction') = Before[turn] + (Added + 1) /\ InOrder(transaction')
         /\ transaction' \in Seq(Names \X Nat)
<1>1. phase = "add" /\ p = Preparers[turn] /\ turn \in 1 .. 7
  BY DEF Runs, PInv, Running, PreparationTypes
<1>2. /\ Before[turn] \in Nat /\ Before[turn + 1] = Before[turn] + SiteCount(p)
      /\ SiteCount(p) \in Nat /\ p \in Names
  BY <1>1, Growing, CountedUp, Counts
<1>3. /\ Before[turn] <= Len(transaction) /\ Len(transaction) < Before[turn + 1]
      /\ transaction \in Seq(Names \X Nat) /\ InOrder(transaction)
  BY <1>1 DEF PInv, OwnWork, PreparationTypes
<1>4. Len(transaction) \in Nat /\ Added = Len(transaction) - Before[turn]
  BY <1>3 DEF Added
<1>5. Added + 1 \in 1 .. SiteCount(p) /\ Len(transaction) + 1 = Before[turn] + (Added + 1)
  BY <1>2, <1>3, <1>4
<1> DEFINE site == <<p, Added + 1>>
<1>6. site \in Names \X Nat
  BY <1>2, <1>5
<1>7. transaction' = Append(transaction, site)
  BY DEF AddNext
<1> HIDE DEF site
<1>8. /\ transaction' \in Seq(Names \X Nat) /\ Len(transaction') = Len(transaction) + 1
      /\ \A i \in 1 .. Len(transaction) : transaction'[i] = transaction[i]
      /\ transaction'[Len(transaction) + 1] = site
  BY <1>3, <1>6, <1>7
<1>9. Place(Len(transaction) + 1, turn)
  BY <1>2, <1>3, <1>4 DEF Place
<1>10. site = <<Preparers[turn], (Len(transaction) + 1) - Before[turn]>>
  BY <1>1, <1>2, <1>4 DEF site
<1>11. \A i \in 1 .. Len(transaction) + 1 : i \in 1 .. Len(transaction) \/ i = Len(transaction) + 1
  BY <1>4
<1>12. InOrder(transaction')
  BY <1>1, <1>3, <1>8, <1>9, <1>10, <1>11 DEF InOrder
<1> QED BY <1>1, <1>2, <1>5, <1>8, <1>12

\* It goes on by itself.
LEMMA ContinuesKeeps ==
  ASSUME PInv, phase \in Running, NEW next \in {"build", "add", "finish"}, Continues(next),
         UNCHANGED <<word, selector>>, runtime \subseteq runtime',
         runtime' \subseteq {"source", "plant"},
         transaction' \in Seq(Names \X Nat), InOrder(transaction'), OwnWork',
         {Preparers[turn]} \cap {"source", "plant"} \subseteq runtime'
  PROVE  PInv'
<1>1. turn' = turn /\ published' = published /\ phase' = next /\ turn \in 1 .. 7
  BY DEF Continues, PInv, PreparationTypes, Running
<1>2. Handed' = Handed /\ Finished' = Finished
  BY <1>1 DEF Handed, Finished
<1> QED BY <1>1, <1>2 DEF PInv, PreparationTypes, Running

\* A preparer of one stub and one site.
LEMMA OneKeeps ==
  ASSUME PInv, NEW p \in Names \ {"source", "plant"}, NEW sites, One(p, sites)
  PROVE  PInv'
<1>1. UNCHANGED <<word, runtime, selector>> /\ runtime \subseteq {"source", "plant"}
  BY DEF One, around, PInv, PreparationTypes
<1>2. CASE LookFirst(p, sites)
  <2>1. phase = "look" /\ turn \in 1 .. 7 /\ p = Preparers[turn]
    BY <1>2, Counts DEF LookFirst, Runs
  <2>2. CASE GivesUp
    BY <1>1, <2>1, <2>2, GivesUpKeeps DEF Running
  <2>3. CASE local' = StubsOf(p) /\ Continues("add") /\ UNCHANGED transaction
    <3>1. /\ Before[turn] \in Nat /\ Before[turn + 1] = Before[turn] + SiteCount(p)
          /\ SiteCount(p) \in Nat \ {0}
      BY <2>1, Growing, CountedUp, Counts
    <3>2. turn' = turn /\ phase' = "add" /\ Len(transaction) = Before[turn]
      BY <2>1, <2>3 DEF Continues, PInv, OwnWork
    <3>3. OwnWork'
      BY <2>1, <2>3, <3>1, <3>2 DEF OwnWork, StubsOf, StubCount
    <3>4. transaction' \in Seq(Names \X Nat) /\ InOrder(transaction')
      BY <2>1, <2>3 DEF PInv, PreparationTypes
    <3> QED BY <1>1, <2>1, <2>3, <3>3, <3>4, ContinuesKeeps DEF Running
  <2> QED BY <1>2, <2>2, <2>3 DEF LookFirst
<1>3. CASE Patch(p)
  <2>1. Runs(p, "add") /\ phase = "add"
    BY <1>3 DEF Patch, Runs
  <2>2. CASE GivesUp
    BY <1>1, <2>1, <2>2, GivesUpKeeps DEF Running
  <2>3. CASE AddNext(p) /\ Hands
    <3>1. /\ p = Preparers[turn] /\ turn \in 1 .. 7 /\ Added + 1 \in 1 .. SiteCount(p)
          /\ Before[turn + 1] = Before[turn] + SiteCount(p)
          /\ Len(transaction') = Before[turn] + (Added + 1) /\ InOrder(transaction')
          /\ transaction' \in Seq(Names \X Nat)
      BY <2>1, <2>3, AddsInOrder
    <3>2. SiteCount(p) = 1
      BY <3>1, Counts
    <3>3. Added + 1 = 1 /\ Before[turn] \in Nat
      <4>1. Before[turn] \in Nat
        BY <2>1, NumbersBefore DEF Running
      <4> QED BY <3>1, <3>2, <4>1
    <3>5. Len(transaction') = Before[turn + 1]
      BY <3>1, <3>2, <3>3
    <3> QED BY <1>1, <2>1, <2>3, <3>1, <3>5, HandsKeeps DEF PInv, PreparationTypes
  <2> QED BY <1>3, <2>2, <2>3 DEF Patch
<1> QED BY <1>2, <1>3 DEF One

\* The banks: many stubs, then many sites.
LEMMA AdmitKeeps ==
  ASSUME PInv, NEW p \in {"source", "plant"}, Admit(p)
  PROVE  PInv'
<1>1. UNCHANGED <<word, selector>> /\ phase = "look" /\ turn \in 1 .. 7 /\ p = Preparers[turn]
  BY Counts DEF Admit, Runs
<1>2. runtime' \in {runtime, runtime \cup {p}}
  BY DEF Admit
<1>3. CASE GivesUp
  BY <1>1, <1>2, <1>3, GivesUpKeeps DEF Running, PInv, PreparationTypes
<1>4. CASE runtime' = runtime \cup {p} /\ Continues("build") /\ UNCHANGED <<transaction, local>>
  <2>1. turn' = turn /\ phase' = "build" /\ Len(transaction) = Before[turn] /\ local = {}
    BY <1>1, <1>4 DEF Continues, PInv, OwnWork
  <2>2. local = FirstStubs(p, 0) /\ 0 < StubCount(p)
    <3>1. StubCount(p) \in Nat \ {0}
      BY <1>1, Counts
    <3> QED BY <2>1, <3>1 DEF FirstStubs
  <2>3. OwnWork'
    BY <1>1, <1>4, <2>1, <2>2 DEF OwnWork, StubCount
  <2>4. transaction' \in Seq(Names \X Nat) /\ InOrder(transaction')
    BY <1>1, <1>4 DEF PInv, PreparationTypes
  <2>5. runtime' \subseteq {"source", "plant"} /\ {Preparers[turn]} \subseteq runtime'
    BY <1>1, <1>4 DEF PInv, PreparationTypes
  <2> QED BY <1>1, <1>4, <2>3, <2>4, <2>5, ContinuesKeeps DEF Running
<1> QED BY <1>3, <1>4 DEF Admit

LEMMA BuildKeeps ==
  ASSUME PInv, NEW p \in {"source", "plant"}, Build(p)
  PROVE  PInv'
<1>1. /\ UNCHANGED <<word, selector, runtime>> /\ phase = "build" /\ turn \in 1 .. 7
      /\ p = Preparers[turn]
  BY Counts DEF Build, Runs, around
<1>2. runtime \subseteq {"source", "plant"}
  BY DEF PInv, PreparationTypes
<1>3. CASE GivesUp
  BY <1>1, <1>2, <1>3, GivesUpKeeps DEF Running
<1>4. CASE /\ local' = local \cup {<<p, Cardinality(local) + 1>>}
           /\ Continues(IF Cardinality(local) + 1 = StubCount(p) THEN "add" ELSE "build")
           /\ UNCHANGED transaction
  <2>1. PICK n \in Nat : n < StubCount(p) /\ local = FirstStubs(p, n)
    BY <1>1 DEF PInv, OwnWork
  <2>2. Cardinality(local) = n /\ local' = FirstStubs(p, n + 1)
    BY <1>4, <2>1, FirstStubsCounted
  <2>3. /\ Before[turn] \in Nat /\ Before[turn + 1] = Before[turn] + SiteCount(p)
        /\ SiteCount(p) \in Nat \ {0} /\ StubCount(p) \in Nat
    BY <1>1, Growing, CountedUp, Counts
  <2>4. Len(transaction) = Before[turn] /\ turn' = turn
    BY <1>1, <1>4 DEF PInv, OwnWork, Continues
  <2> DEFINE next == IF n + 1 = StubCount(p) THEN "add" ELSE "build"
  <2>5. phase' = next /\ Continues(next)
    BY <1>4, <2>2 DEF Continues
  <2>6. OwnWork'
    <3>1. CASE n + 1 = StubCount(p)
      <4>1. local' = StubsOf(p)
        BY <2>2, <3>1 DEF FirstStubs, StubsOf
      <4> QED BY <1>1, <1>4, <2>3, <2>4, <2>5, <3>1, <4>1 DEF OwnWork, StubsOf, StubCount
    <3>2. CASE n + 1 # StubCount(p)
      <4>1. n + 1 \in Nat /\ n + 1 < StubCount(p)
        BY <2>1, <2>3, <3>2
      <4> QED BY <1>1, <1>4, <2>2, <2>4, <2>5, <3>2, <4>1 DEF OwnWork, StubCount
    <3> QED BY <3>1, <3>2
  <2>7. transaction' \in Seq(Names \X Nat) /\ InOrder(transaction')
    BY <1>1, <1>4 DEF PInv, PreparationTypes
  <2>8. {Preparers[turn]} \cap {"source", "plant"} \subseteq runtime'
    BY <1>1 DEF PInv
  <2> QED BY <1>1, <1>2, <2>5, <2>6, <2>7, <2>8, ContinuesKeeps DEF Running
<1> QED BY <1>3, <1>4 DEF Build

LEMMA AddKeeps ==
  ASSUME PInv, NEW p \in {"source", "plant"}, Add(p)
  PROVE  PInv'
<1>1. UNCHANGED <<word, selector, runtime>> /\ phase = "add" /\ Runs(p, "add")
  BY DEF Add, Runs, around
<1>2. runtime \subseteq {"source", "plant"}
  BY DEF PInv, PreparationTypes
<1>3. CASE GivesUp
  BY <1>1, <1>2, <1>3, GivesUpKeeps DEF Running
<1>4. CASE /\ AddNext(p) /\ UNCHANGED local
           /\ Continues(IF Added + 1 = SiteCount(p) THEN "finish" ELSE "add")
  <2>1. /\ p = Preparers[turn] /\ turn \in 1 .. 7 /\ Added + 1 \in 1 .. SiteCount(p)
        /\ Before[turn + 1] = Before[turn] + SiteCount(p)
        /\ Len(transaction') = Before[turn] + (Added + 1) /\ InOrder(transaction')
        /\ transaction' \in Seq(Names \X Nat)
    BY <1>1, <1>4, AddsInOrder
  <2> DEFINE next == IF Added + 1 = SiteCount(p) THEN "finish" ELSE "add"
  <2>2. Continues(next) /\ phase' = next /\ turn' = turn
    BY <1>4 DEF Continues
  <2>3. local' = StubsOf(p)
    BY <1>1, <1>4, <2>1 DEF PInv, OwnWork
  <2>4. Before[turn] \in Nat /\ Added \in Int /\ SiteCount(p) \in Nat
    <3>1. Len(transaction) \in Nat
      BY DEF PInv, PreparationTypes
    <3>2. Before[turn] \in Nat
      BY <1>1, NumbersBefore DEF Running
    <3>3. SiteCount(p) \in Nat
      BY <2>1, Counts
    <3> QED BY <3>1, <3>2, <3>3 DEF Added
  <2>5. OwnWork'
    <3>1. CASE Added + 1 = SiteCount(p)
      <4>1. Len(transaction') = Before[turn + 1]
        BY <2>1, <3>1
      <4>2. phase' = "finish"
        BY <2>2, <3>1
      <4> QED BY <2>1, <2>2, <2>3, <4>1, <4>2 DEF OwnWork, StubsOf, StubCount
    <3>2. CASE Added + 1 # SiteCount(p)
      <4>1. Before[turn] <= Len(transaction') /\ Len(transaction') < Before[turn + 1]
        BY <2>1, <2>4, <3>2
      <4>2. phase' = "add"
        BY <2>2, <3>2
      <4> QED BY <2>1, <2>2, <2>3, <4>1, <4>2 DEF OwnWork, StubsOf, StubCount
    <3> QED BY <3>1, <3>2
  <2>6. {Preparers[turn]} \cap {"source", "plant"} \subseteq runtime'
    BY <1>1 DEF PInv
  <2> QED BY <1>1, <1>2, <2>1, <2>2, <2>5, <2>6, ContinuesKeeps DEF Running
<1> QED BY <1>3, <1>4 DEF Add

LEMMA FinishKeeps ==
  ASSUME PInv, FinishSource \/ FinishPlant
  PROVE  PInv'
<1>1. /\ UNCHANGED <<word, runtime>> /\ phase = "finish" /\ turn \in 1 .. 7
      /\ selector' \in BOOLEAN
  BY Counts DEF FinishSource, FinishPlant, Runs, around, PInv, PreparationTypes
<1>2. /\ Len(transaction) = Before[turn + 1] /\ transaction \in Seq(Names \X Nat)
      /\ InOrder(transaction) /\ runtime \subseteq {"source", "plant"}
  BY <1>1 DEF PInv, OwnWork, PreparationTypes
<1>3. CASE GivesUp /\ UNCHANGED selector
  BY <1>1, <1>2, <1>3, GivesUpKeeps DEF Running
<1>4. CASE Hands /\ UNCHANGED transaction
  BY <1>1, <1>2, <1>4, HandsKeeps
<1>5. CASE /\ published' = published \cup local /\ local' = {}
           /\ phase' = "failed" /\ turn' = turn + 1
           /\ UNCHANGED <<transaction, selector>>
  <2>1. local = StubsOf(Preparers[turn]) /\ published = Handed
    BY <1>1 DEF PInv, OwnWork
  <2>2. Finished' = Finished \cup {Preparers[turn]}
    <3>1. 1 .. (turn + 1) - 1 = (1 .. turn - 1) \cup {turn}
      BY <1>1
    <3> QED BY <1>1, <1>5, <3>1 DEF Finished
  <2>3. Handed' = Handed \cup StubsOf(Preparers[turn])
    BY <2>2 DEF Handed, StubsOf, StubCount
  <2>4. OwnWork'
    BY <1>2, <1>5 DEF OwnWork
  <2>5. Finished' \cap {"source", "plant"} \subseteq runtime'
    BY <1>1, <2>2 DEF PInv, Running
  <2> QED BY <1>1, <1>2, <1>5, <2>1, <2>3, <2>4, <2>5 DEF PInv, PreparationTypes, Running
<1> QED BY <1>3, <1>4, <1>5 DEF FinishSource, FinishPlant, around

LEMMA PreparationKept ==
  ASSUME PInv, NextPreparation
  PROVE  PInv'
<1>1. CASE Begin
  <2>1. word = "IDLE" /\ phase = "idle" /\ UNCHANGED <<local, runtime, selector>>
    BY <1>1 DEF Begin, PInv
  <2>2. CASE UNCHANGED <<word, transaction, published, turn, phase>>
    BY <2>1, <2>2 DEF PInv, PreparationTypes
  <2>3. CASE /\ word' = "PREPARING" /\ transaction' = <<>> /\ published' = {}
             /\ turn' = 1 /\ phase' \in {"look", "failed"}
    <3>1. Len(<<>>) = 0 /\ <<>> \in Seq(Names \X Nat) /\ 1 .. 0 = {} /\ 1 .. 1 - 1 = {}
      OBVIOUS
    <3>2. Finished' = {} /\ Handed' = {}
      BY <2>3, <3>1 DEF Finished, Handed
    <3>3. InOrder(transaction')
      BY <2>3, <3>1 DEF InOrder
    <3>4. OwnWork'
      BY <2>1, <2>3, <3>1, CountedUp DEF OwnWork, PInv
    <3> QED BY <2>1, <2>3, <3>1, <3>2, <3>3, <3>4 DEF PInv, PreparationTypes, Running
  <2> QED BY <1>1, <2>2, <2>3 DEF Begin
<1>2. CASE \/ PrepareDefinition \/ PrepareTerminal \/ PreparePrebuild \/ PrepareCommit
           \/ PrepareRelease
  <2>1. PICK p \in {"definition", "terminal", "prebuild", "commit", "release"} :
          One(p, PatchesOf(p)) \/ One(p, {}) \/ One(p, {RebuildEntry})
    BY <1>2
       DEF PrepareDefinition, PrepareTerminal, PreparePrebuild, PrepareCommit, PrepareRelease
  <2>2. p \in Names \ {"source", "plant"}
    BY <2>1 DEF Names
  <2> QED BY <2>1, <2>2, OneKeeps
<1>3. CASE AdmitSource \/ BuildSource \/ AddSource \/ AdmitPlant \/ BuildPlant \/ AddPlant
  BY <1>3, AdmitKeeps, BuildKeeps, AddKeeps
     DEF AdmitSource, BuildSource, AddSource, AdmitPlant, BuildPlant, AddPlant
<1>4. CASE FinishSource \/ FinishPlant
  BY <1>4, FinishKeeps
<1>5. CASE PinModule
  <2>1. UNCHANGED <<word, runtime, selector, turn, local, published, transaction>>
    BY <1>5 DEF PinModule, around
  <2>2. Finished' = Finished /\ Handed' = Handed
    BY <2>1 DEF Finished, Handed
  <2>3. phase = "pin" /\ phase' \in {"prepared", "failed"}
    BY <1>5 DEF PinModule
  <2>4. OwnWork'
    BY <2>1, <2>3 DEF OwnWork, PInv
  <2> QED BY <2>1, <2>2, <2>3, <2>4 DEF PInv, PreparationTypes, Running
<1>6. CASE FailPrepared \/ CancelPrepared
  <2>1. phase \in {"failed", "prepared"} /\ Abort
    BY <1>6 DEF FailPrepared, CancelPrepared
  <2>2. local = {}
    BY <2>1 DEF PInv, OwnWork
  <2>3. /\ word' \in {"IDLE", "FAILED_DIRTY"} /\ phase' = "idle" /\ turn' = 0 /\ selector' = FALSE
        /\ local' = {} /\ UNCHANGED transaction /\ runtime' \subseteq runtime
        /\ word' = "IDLE" => runtime' = {} /\ published' = {}
    BY <2>1, <2>2 DEF Abort, ReleasePrepared
  <2>4. selector' \in BOOLEAN /\ ~selector'
    BY <2>3
  <2> QED BY <2>3, <2>4 DEF PInv, PreparationTypes
<1>7. CASE AlterSite
  <2>1. UNCHANGED <<word, runtime, selector, turn, phase, local, published, transaction>>
    BY <1>7 DEF AlterSite
  <2>2. Finished' = Finished /\ Handed' = Handed /\ (OwnWork' <=> OwnWork)
    BY <2>1 DEF Finished, Handed, OwnWork
  <2> QED BY <2>1, <2>2 DEF PInv, PreparationTypes
<1> QED BY <1>1, <1>2, <1>3, <1>4, <1>5, <1>6, <1>7 DEF NextPreparation

\* While it could be committed the transaction never leads to a stub that was
\* freed nor patches a site twice; prepared it is whole, and idle nothing of
\* the installation is left.
THEOREM PreparedInOrder == Spec => []PreparationInv
<1>1. Init => PInv
  <2> SUFFICES ASSUME Init PROVE PInv
    OBVIOUS
  <2>1. <<>> \in Seq(Names \X Nat)
    OBVIOUS
  <2>2. /\ word = "IDLE" /\ turn = 0 /\ phase = "idle" /\ local = {} /\ published = {}
        /\ transaction = <<>> /\ runtime = {} /\ selector = FALSE
    BY DEF Init, InitPreparation
  <2>3. selector \in BOOLEAN /\ ~selector
    BY <2>2
  <2> QED BY <2>1, <2>2, <2>3 DEF PInv, PreparationTypes
<1>2. PInv /\ [Next]_vars => PInv'
  <2> SUFFICES ASSUME PInv, [Next]_vars PROVE PInv'
    OBVIOUS
  <2>1. CASE UNCHANGED preparation
    <3>1. UNCHANGED <<word, runtime, selector, turn, phase, local, published, transaction>>
      BY <2>1 DEF preparation, around
    <3>2. Finished' = Finished /\ Handed' = Handed /\ (OwnWork' <=> OwnWork)
      BY <3>1 DEF Finished, Handed, OwnWork
    <3> QED BY <3>1, <3>2 DEF PInv, PreparationTypes
  <2> QED BY <2>1, PreparationKept, EachOnItsOwn
<1>3. PInv => PreparationInv
  <2> SUFFICES ASSUME PInv PROVE PreparationInv
    OBVIOUS
  <2>1. ASSUME word = "PREPARING"
        PROVE  /\ phase # "idle" /\ turn \in 1 .. 8 /\ InOrder(transaction) /\ OwnWork
               /\ published = Handed /\ Len(transaction) \in Nat
    BY <2>1 DEF PInv, PreparationTypes
  <2>2. ASSUME word = "PREPARING", NEW i \in DOMAIN transaction, HasStub(transaction[i])
        PROVE  transaction[i] \in local \cup published
    <3>1. i \in 1 .. Len(transaction) /\ Len(transaction) \in Nat
      BY <2>1, <2>2 DEF PInv, PreparationTypes
    <3>2. PICK k \in 1 .. 7 : Place(i, k) /\ transaction[i] = <<Preparers[k], i - Before[k]>>
      BY <2>1, <2>2, <3>1 DEF InOrder
    <3>3. i - Before[k] \in 1 .. StubCount(Preparers[k])
      <4>1. Before[k] \in Nat /\ StubCount(Preparers[k]) \in Nat
        BY Growing, Counts
      <4> QED BY <2>2, <3>1, <3>2, <4>1 DEF HasStub, Place
    <3>4. transaction[i] \in StubsOf(Preparers[k])
      BY <3>2, <3>3 DEF StubsOf
    <3>5. CASE k < turn
      <4>1. Preparers[k] \in Finished
        BY <2>1, <2>2, <3>5 DEF Finished
      <4> QED BY <2>1, <2>2, <3>4, <4>1 DEF Handed
    <3>6. CASE k = turn /\ phase \in {"add", "finish"}
      BY <2>1, <2>2, <3>4, <3>6 DEF OwnWork
    <3>7. CASE k > turn \/ (k = turn /\ phase \notin {"add", "finish"})
      <4> DEFINE j == IF k > turn THEN turn + 1 ELSE turn
      <4>1. turn < 8 /\ turn \in 1 .. 7
        BY <2>1, <2>2, <3>7
      <4>2. Before[turn] \in Nat /\ Before[turn + 1] \in Nat /\ Before[k] \in Nat
            /\ Before[turn] <= Before[turn + 1] /\ (k > turn => Before[turn + 1] <= Before[k])
        BY <4>1, Growing
      <4>3. k > turn => Len(transaction) <= Before[k]
        BY <2>1, <2>2, <4>1, <4>2 DEF OwnWork, PInv, PreparationTypes, Running
      <4>4. ~(k > turn) => Len(transaction) <= Before[k]
        BY <2>1, <2>2, <3>7, <4>1, <4>2 DEF OwnWork, PInv, PreparationTypes, Running
      <4> QED BY <3>1, <3>2, <4>2, <4>3, <4>4 DEF Place
    <3> QED BY <2>1, <2>2, <3>5, <3>6, <3>7
  <2>3. ASSUME word = "PREPARING", NEW i \in DOMAIN transaction, NEW j \in DOMAIN transaction,
               transaction[i] = transaction[j]
        PROVE  i = j
    <3>1. i \in 1 .. Len(transaction) /\ j \in 1 .. Len(transaction)
      BY <2>1, <2>3 DEF PInv, PreparationTypes
    <3>2. PICK k \in 1 .. 7 : transaction[i] = <<Preparers[k], i - Before[k]>>
      BY <2>1, <2>3, <3>1 DEF InOrder
    <3>3. PICK m \in 1 .. 7 : transaction[j] = <<Preparers[m], j - Before[m]>>
      BY <2>1, <2>3, <3>1 DEF InOrder
    <3>4. Preparers[k] = Preparers[m] /\ i - Before[k] = j - Before[m]
      <4>1. ASSUME NEW a, NEW b, NEW c, NEW d, <<a, b>> = <<c, d>>
            PROVE  a = c /\ b = d
        BY <4>1
      <4>2. <<Preparers[k], i - Before[k]>> = <<Preparers[m], j - Before[m]>>
        BY <2>3, <3>2, <3>3
      <4> QED BY <4>1, <4>2
    <3>5. k = m
      BY <3>4, Counts
    <3>6. Before[k] \in Nat
      BY Growing
    <3>7. i \in Nat /\ j \in Nat
      BY <3>1
    <3> QED BY <3>4, <3>5, <3>6, <3>7
  <2>4. ASSUME phase = "prepared"
        PROVE  /\ {transaction[i] : i \in DOMAIN transaction} = AllPatches
               /\ runtime = {"source", "plant"}
    <3>1. /\ word = "PREPARING" /\ turn = 8 /\ Len(transaction) = Before[8]
          /\ DOMAIN transaction = 1 .. Before[8] /\ Before[8] \in Nat
      BY <2>4, Growing DEF PInv, OwnWork, PreparationTypes
    <3>2. InOrder(transaction)
      BY <2>1, <3>1
    <3>3. ASSUME NEW i \in 1 .. Before[8]
          PROVE  transaction[i] \in AllPatches
      <4>1. PICK k \in 1 .. 7 : Place(i, k) /\ transaction[i] = <<Preparers[k], i - Before[k]>>
        BY <3>1, <3>2 DEF InOrder
      <4>2. Before[k] \in Nat /\ Before[k + 1] = Before[k] + SiteCount(Preparers[k])
            /\ SiteCount(Preparers[k]) \in Nat
        BY CountedUp, Growing, Counts
      <4>3. i - Before[k] \in 1 .. SiteCount(Preparers[k])
        BY <3>1, <4>1, <4>2 DEF Place
      <4> QED BY <4>1, <4>3, Counts DEF AllPatches, PatchesOf
    <3>4. ASSUME NEW s \in AllPatches
          PROVE  \E i \in 1 .. Before[8] : transaction[i] = s
      <4>0. PICK k \in 1 .. 7 : s \in PatchesOf(Preparers[k])
        BY Counts DEF AllPatches
      <4>1. PICK n \in 1 .. SiteCount(Preparers[k]) : s = <<Preparers[k], n>>
        BY <4>0 DEF PatchesOf
      <4>2. Before[k] \in Nat /\ Before[k + 1] = Before[k] + SiteCount(Preparers[k])
            /\ SiteCount(Preparers[k]) \in Nat /\ Before[k + 1] <= Before[8]
        BY CountedUp, Growing, Counts
      <4> DEFINE i == Before[k] + n
      <4>3. i \in 1 .. Before[8] /\ Place(i, k) /\ i - Before[k] = n
        BY <3>1, <4>2 DEF Place
      <4> HIDE DEF i
      <4>4. PICK m \in 1 .. 7 : Place(i, m) /\ transaction[i] = <<Preparers[m], i - Before[m]>>
        BY <3>1, <3>2, <4>3 DEF InOrder
      <4>5. m = k
        BY <3>1, <4>3, <4>4, OnePlace
      <4> QED BY <4>1, <4>3, <4>4, <4>5
    <3>5. {"source", "plant"} \subseteq Finished
      <4>1. Preparers[2] = "source" /\ Preparers[3] = "plant"
        BY Counts
      <4> QED BY <3>1, <4>1 DEF Finished
    <3>6. runtime = {"source", "plant"}
      BY <2>4, <3>1, <3>5 DEF PInv, PreparationTypes
    <3> QED BY <3>1, <3>3, <3>4, <3>6
  <2> QED BY <2>1, <2>2, <2>3, <2>4 DEF PInv, PreparationInv, OwnWork
<1> QED BY <1>1, <1>2, <1>3, PTL DEF Spec
-----------------------------------------------------------------------------
(***************************************************************************)
(* The queue hooks of the extras.  How often a request is in an array: the *)
(* hooks only move entries, so each array they build is drawn, position    *)
(* for position, from those there were.                                    *)
(***************************************************************************)
\* The positions in I at which s has r.
Marks(s, I, r) == {i \in I : s[i] = r}

\* How many numbers there are.
LEMMA NumbersUpTo ==
  ASSUME NEW m \in Nat, NEW n \in Nat, m <= n
  PROVE  /\ IsFiniteSet(1 .. n) /\ Cardinality(1 .. n) = n
         /\ IsFiniteSet(m + 1 .. n) /\ Cardinality(m + 1 .. n) = n - m
<1>1. IsFiniteSet(1 .. n) /\ Cardinality(1 .. n) = IF 1 > n THEN 0 ELSE n - 1 + 1
  BY FS_Interval
<1>2. /\ IsFiniteSet(m + 1 .. n)
      /\ Cardinality(m + 1 .. n) = IF m + 1 > n THEN 0 ELSE n - (m + 1) + 1
  BY FS_Interval
<1> QED BY <1>1, <1>2

\* What a bijection is, and that an enumeration is one.
LEMMA BijectionFacts ==
  ASSUME NEW S, NEW T, NEW f \in Bijection(S, T)
  PROVE  /\ \A x \in S : f[x] \in T
         /\ \A x, y \in S : f[x] = f[y] => x = y
         /\ \A y \in T : \E x \in S : f[x] = y
BY DEF Bijection, Injection, Surjection, IsInjective

\* A sequence drawn from the positions I of another has r as often as those.
LEMMA DrawnCount ==
  ASSUME NEW t, NEW s, NEW I, NEW n \in Nat, NEW f \in Bijection(1 .. n, I), NEW r,
         DOMAIN t = 1 .. n, \A k \in 1 .. n : t[k] = s[f[k]]
  PROVE  Count(t, r) = Cardinality(Marks(s, I, r)) /\ Count(t, r) \in Nat
<1> DEFINE A == {k \in DOMAIN t : t[k] = r}
           g == [k \in A |-> f[k]]
<1>1. IsFiniteSet(A) /\ Cardinality(A) \in Nat
  <2>1. A \subseteq 1 .. n /\ IsFiniteSet(1 .. n)
    BY FS_Interval
  <2> HIDE DEF A
  <2> QED BY <2>1, FS_Subset, FS_CardinalityType
<1>2. g \in Bijection(A, Marks(s, I, r))
  <2>1. f \in [1 .. n -> I] /\ \A x, y \in 1 .. n : f[x] = f[y] => x = y
    BY DEF Bijection, Injection, IsInjective
  <2>2. \A i \in I : \E k \in 1 .. n : f[k] = i
    BY DEF Bijection, Surjection
  <2>3. g \in [A -> Marks(s, I, r)]
    BY <2>1 DEF Marks
  <2>4. \A x, y \in A : g[x] = g[y] => x = y
    BY <2>1
  <2>5. \A i \in Marks(s, I, r) : \E k \in A : g[k] = i
    BY <2>2 DEF Marks
  <2> HIDE DEF g, A
  <2> QED BY <2>3, <2>4, <2>5 DEF Bijection, Injection, Surjection, IsInjective
<1>3. ExistsBijection(A, Marks(s, I, r))
  BY <1>2 DEF ExistsBijection
<1> QED BY <1>1, <1>3, FS_Bijection DEF Count

\* The rank of each member of a finite set with different keys.
LEMMA RankBijection ==
  ASSUME NEW S, IsFiniteSet(S), NEW key, \A x \in S : key[x] \in Int,
         \A x, y \in S : key[x] = key[y] => x = y
  PROVE  [x \in S |-> Cardinality({y \in S : key[y] <= key[x]})]
           \in Bijection(S, 1 .. Cardinality(S))
<1> DEFINE D(x) == {y \in S : key[y] <= key[x]}
           rank == [x \in S |-> Cardinality(D(x))]
<1>1. ASSUME NEW x \in S
      PROVE  IsFiniteSet(D(x)) /\ Cardinality(D(x)) \in 1 .. Cardinality(S)
  <2>1. /\ IsFiniteSet(D(x)) /\ Cardinality(D(x)) <= Cardinality(S)
        /\ Cardinality(D(x)) \in Nat /\ Cardinality(S) \in Nat
    BY FS_Subset, FS_CardinalityType
  <2>2. x \in D(x)
    OBVIOUS
  <2>3. Cardinality(D(x)) # 0
    BY <2>1, <2>2, FS_EmptySet
  <2> HIDE DEF D
  <2> QED BY <2>1, <2>3
<1>2. ASSUME NEW x \in S, NEW y \in S, key[x] < key[y]
      PROVE  Cardinality(D(x)) # Cardinality(D(y))
  <2>1. D(x) \subseteq D(y) /\ y \in D(y) /\ y \notin D(x)
    BY <1>2
  <2> HIDE DEF D
  <2> QED BY <1>1, <2>1, FS_Subset
<1>3. \A x, y \in S : rank[x] = rank[y] => x = y
  <2> SUFFICES ASSUME NEW x \in S, NEW y \in S, rank[x] = rank[y], x # y
               PROVE  FALSE
    OBVIOUS
  <2>1. key[x] < key[y] \/ key[y] < key[x]
    OBVIOUS
  <2>2. Cardinality(D(x)) = Cardinality(D(y))
    OBVIOUS
  <2> HIDE DEF D, rank
  <2> QED BY <1>2, <2>1, <2>2
<1>4. rank \in [S -> 1 .. Cardinality(S)]
  <2> HIDE DEF D
  <2> QED BY <1>1
<1>5. rank \in Injection(S, 1 .. Cardinality(S))
  <2> HIDE DEF D, rank
  <2> QED BY <1>3, <1>4 DEF Injection, IsInjective
<1>6. /\ IsFiniteSet(1 .. Cardinality(S)) /\ Cardinality(S) \in Nat
      /\ Cardinality(1 .. Cardinality(S)) = Cardinality(S)
  BY FS_Interval, FS_CardinalityType
<1>7. rank \in Surjection(S, 1 .. Cardinality(S))
  <2> HIDE DEF D, rank
  <2> QED BY <1>5, <1>6, FS_Injection
<1>8. rank \in Bijection(S, 1 .. Cardinality(S))
  <2> HIDE DEF D, rank
  <2> QED BY <1>5, <1>7 DEF Bijection
<1> QED BY <1>8

\* Sorting enumerates the set.
LEMMA SortedByBijection ==
  ASSUME NEW S, IsFiniteSet(S), NEW key, \A x \in S : key[x] \in Int,
         \A x, y \in S : key[x] = key[y] => x = y
  PROVE  SortedBy(S, key) \in Bijection(1 .. Cardinality(S), S)
<1> DEFINE R(x) == Cardinality({y \in S : key[y] <= key[x]})
           rank == [x \in S |-> R(x)]
           n == Cardinality(S)
           sorted == [k \in 1 .. n |-> CHOOSE x \in S : R(x) = k]
<1>1. rank \in Bijection(S, 1 .. n)
  BY RankBijection
<1>2. /\ \A x \in S : R(x) \in 1 .. n
      /\ \A x, y \in S : R(x) = R(y) => x = y
      /\ \A k \in 1 .. n : \E x \in S : R(x) = k
  <2>1. \A x \in S : rank[x] = R(x)
    OBVIOUS
  <2> HIDE DEF rank, R, n
  <2> QED BY <1>1, <2>1 DEF Bijection, Injection, Surjection, IsInjective
<1>3. \A k \in 1 .. n : sorted[k] \in S /\ R(sorted[k]) = k
  <2> HIDE DEF R, n
  <2> QED BY <1>2
<1>4. sorted \in [1 .. n -> S]
  <2> HIDE DEF R, n
  <2> QED BY <1>2
<1>5. sorted \in Bijection(1 .. n, S)
  <2>1. \A x \in S : R(x) \in 1 .. n /\ sorted[R(x)] = x
    <3> HIDE DEF R, n, sorted
    <3> QED BY <1>2, <1>3
  <2> HIDE DEF R, n, sorted
  <2> QED BY <1>3, <1>4, <2>1 DEF Bijection, Injection, Surjection, IsInjective
<1>6. SortedBy(S, key) = sorted
  BY DEF SortedBy
<1> QED BY <1>5, <1>6

\* KthLast enumerates a finite set of numbers from its end.
LEMMA KthLastBijection ==
  ASSUME NEW S \in SUBSET Int, IsFiniteSet(S)
  PROVE  [k \in 1 .. Cardinality(S) |-> KthLast(S, k)] \in Bijection(1 .. Cardinality(S), S)
<1> DEFINE key == [x \in S |-> 0 - x]
           rank == [x \in S |-> Cardinality({y \in S : key[y] <= key[x]})]
           R(x) == Cardinality({y \in S : y >= x})
           n == Cardinality(S)
           last == [k \in 1 .. n |-> KthLast(S, k)]
<1>1. rank \in Bijection(S, 1 .. n)
  <2>1. /\ \A x \in S : key[x] \in Int
        /\ \A x, y \in S : key[x] = key[y] => x = y
    OBVIOUS
  <2> HIDE DEF key
  <2> QED BY <2>1, RankBijection
<1>2. ASSUME NEW x \in S PROVE rank[x] = R(x)
  <2>1. \A y \in S : key[y] <= key[x] <=> y >= x
    OBVIOUS
  <2>2. {y \in S : key[y] <= key[x]} = {y \in S : y >= x}
    BY <2>1
  <2> QED BY <2>2
<1>3. /\ \A x \in S : R(x) \in 1 .. n
      /\ \A x, y \in S : R(x) = R(y) => x = y
      /\ \A k \in 1 .. n : \E x \in S : R(x) = k
  <2> HIDE DEF rank, R
  <2>1. /\ \A x \in S : rank[x] \in 1 .. n
        /\ \A x, y \in S : rank[x] = rank[y] => x = y
        /\ \A k \in 1 .. n : \E x \in S : rank[x] = k
    BY <1>1 DEF Bijection, Injection, Surjection, IsInjective
  <2> HIDE DEF n
  <2> QED BY <1>2, <2>1
<1>4. ASSUME NEW k \in 1 .. n PROVE last[k] \in S /\ R(last[k]) = k
  <2>1. \E x \in S : Cardinality({y \in S : y >= x}) = k
    BY <1>3
  <2>2. /\ KthLast(S, k) \in S
        /\ Cardinality({y \in S : y >= KthLast(S, k)}) = k
    BY <2>1 DEF KthLast
  <2> QED BY <2>2
<1>5. last \in [1 .. n -> S]
  <2>1. last = [k \in 1 .. n |-> last[k]]
    OBVIOUS
  <2> HIDE DEF last, R, n
  <2> QED BY <1>4, <2>1
<1>6. /\ \A k, l \in 1 .. n : last[k] = last[l] => k = l
      /\ \A x \in S : R(x) \in 1 .. n /\ last[R(x)] = x
  <2> HIDE DEF last, R, n
  <2> QED BY <1>3, <1>4
<1>7. last \in Bijection(1 .. n, S)
  <2> HIDE DEF last, R, n
  <2> QED BY <1>5, <1>6, Fun_IsBij
<1> QED BY <1>7


\* The marks in a part of a set of positions and in the rest of it.
LEMMA MarksSplit ==
  ASSUME NEW s, NEW K, IsFiniteSet(K), NEW I \in SUBSET K, NEW r
  PROVE  /\ Cardinality(Marks(s, K, r))
              = Cardinality(Marks(s, I, r)) + Cardinality(Marks(s, K \ I, r))
         /\ Cardinality(Marks(s, I, r)) \in Nat /\ Cardinality(Marks(s, K \ I, r)) \in Nat
<1> DEFINE A == Marks(s, I, r)
           B == Marks(s, K \ I, r)
<1>1. /\ IsFiniteSet(A) /\ IsFiniteSet(B)
      /\ Cardinality(A) \in Nat /\ Cardinality(B) \in Nat
  <2>1. A \subseteq K /\ B \subseteq K
    BY DEF Marks
  <2> HIDE DEF A, B
  <2> QED BY <2>1, FS_Subset, FS_CardinalityType
<1>2. Marks(s, K, r) = A \cup B /\ A \cap B = {}
  BY DEF Marks
<1>3. Cardinality(A \cup B) = Cardinality(A) + Cardinality(B)
  <2> HIDE DEF A, B
  <2>1. Cardinality(A \cup B) = Cardinality(A) + Cardinality(B) - Cardinality(A \cap B)
    BY <1>1, FS_Union
  <2>2. Cardinality(A \cap B) = 0
    BY <1>2, FS_EmptySet
  <2> QED BY <1>1, <2>1, <2>2
<1> QED BY <1>1, <1>2, <1>3

\* A request is in an array as soon as it is counted there.
LEMMA CountRange ==
  ASSUME NEW T, NEW s \in Seq(T), NEW r
  PROVE  /\ Count(s, r) \in Nat
         /\ Count(s, r) = Cardinality(Marks(s, DOMAIN s, r))
         /\ DOMAIN s = 1 .. Len(s) /\ Len(s) \in Nat
         /\ IsFiniteSet(DOMAIN s)
         /\ r \in Range(s) <=> Count(s, r) > 0
         /\ r \in Range(s) <=> Marks(s, DOMAIN s, r) # {}
<1> DEFINE A == Marks(s, DOMAIN s, r)
<1>1. DOMAIN s = 1 .. Len(s) /\ Len(s) \in Nat /\ IsFiniteSet(DOMAIN s)
  BY FS_Interval, LenProperties
<1>2. IsFiniteSet(A) /\ Cardinality(A) \in Nat /\ (Cardinality(A) = 0 <=> A = {})
  <2>1. A \subseteq DOMAIN s
    BY DEF Marks
  <2> HIDE DEF A
  <2> QED BY <1>1, <2>1, FS_Subset, FS_CardinalityType, FS_EmptySet
<1>3. r \in Range(s) <=> A # {}
  BY DEF Marks, Range
<1>4. Count(s, r) = Cardinality(A)
  BY DEF Count, Marks
<1> HIDE DEF A
<1>5. Count(s, r) > 0 <=> A # {}
  BY <1>2, <1>4
<1> QED BY <1>1, <1>2, <1>3, <1>4, <1>5 DEF A

\* A request that is at two positions is counted twice.
LEMMA CountTwice ==
  ASSUME NEW T, NEW s \in Seq(T), NEW i \in DOMAIN s, NEW j \in DOMAIN s, i # j, s[i] = s[j]
  PROVE  Count(s, s[i]) >= 2
<1> DEFINE A == Marks(s, DOMAIN s, s[i])
<1>1. Count(s, s[i]) = Cardinality(A) /\ IsFiniteSet(DOMAIN s)
  BY CountRange
<1>2. {i, j} \subseteq A /\ A \subseteq DOMAIN s
  BY DEF Marks
<1> HIDE DEF A
<1>3. IsFiniteSet(A) /\ Cardinality(A) \in Nat
  BY <1>1, <1>2, FS_Subset, FS_CardinalityType
<1>4. Cardinality(A) # 0
  BY <1>2, <1>3, FS_EmptySet
<1>5. Cardinality(A) # 1
  <2> SUFFICES ASSUME Cardinality(A) = 1 PROVE FALSE
    OBVIOUS
  <2>1. PICK x : A = {x}
    BY <1>3, FS_Singleton
  <2> QED BY <1>2, <2>1
<1> QED BY <1>1, <1>3, <1>4, <1>5

\* The entries picked are those at the positions picked.
LEMMA PickCount ==
  ASSUME NEW T, NEW s \in Seq(T), NEW I \in SUBSET (DOMAIN s)
  PROVE  /\ Pick(s, I) \in Seq(T) /\ Len(Pick(s, I)) = Cardinality(I)
         /\ Cardinality(I) \in Nat /\ Cardinality(I) <= Len(s)
         /\ \A r : Count(Pick(s, I), r) = Cardinality(Marks(s, I, r))
<1> DEFINE n == Cardinality(I)
           sorted == SortedBy(I, [i \in I |-> i])
           t == [k \in 1 .. n |-> s[sorted[k]]]
<1>1. DOMAIN s = 1 .. Len(s) /\ Len(s) \in Nat /\ \A i \in DOMAIN s : s[i] \in T
  OBVIOUS
<1>2. IsFiniteSet(I) /\ n \in Nat /\ n <= Len(s)
  <2>1. IsFiniteSet(1 .. Len(s)) /\ Cardinality(1 .. Len(s)) = Len(s)
    BY <1>1, NumbersUpTo
  <2> QED BY <1>1, <2>1, FS_Subset, FS_CardinalityType
<1>3. sorted \in Bijection(1 .. n, I)
  BY <1>1, <1>2, SortedByBijection
<1>4. \A k \in 1 .. n : sorted[k] \in I
  <2> HIDE DEF sorted, n
  <2> QED BY <1>3 DEF Bijection, Injection
<1>5. Pick(s, I) = t
  BY DEF Pick
<1>6. t \in Seq(T) /\ Len(t) = n /\ DOMAIN t = 1 .. n
  <2>1. \A k \in 1 .. n : s[sorted[k]] \in T
    BY <1>1, <1>4
  <2> HIDE DEF sorted, n
  <2> QED BY <1>2, <2>1
<1>7. ASSUME NEW r PROVE Count(t, r) = Cardinality(Marks(s, I, r))
  <2>1. \A k \in 1 .. n : t[k] = s[sorted[k]]
    OBVIOUS
  <2> HIDE DEF sorted, n, t
  <2> QED BY <1>2, <1>3, <1>6, <2>1, DrawnCount
<1> QED BY <1>2, <1>5, <1>6, <1>7

\* The first entries of an array, and two arrays in a row.
LEMMA SubSeqCount ==
  ASSUME NEW T, NEW s \in Seq(T), NEW n \in 0 .. Len(s)
  PROVE  /\ SubSeq(s, 1, n) \in Seq(T) /\ Len(SubSeq(s, 1, n)) = n
         /\ \A i \in 1 .. n : SubSeq(s, 1, n)[i] = s[i]
         /\ \A r : Count(SubSeq(s, 1, n), r) = Cardinality(Marks(s, 1 .. n, r))
<1> DEFINE t == SubSeq(s, 1, n)
           f == [k \in 1 .. n |-> k]
<1>1. t \in Seq(T) /\ Len(t) = n /\ \A i \in 1 .. n : t[i] = s[i]
  OBVIOUS
<1>2. f \in Bijection(1 .. n, 1 .. n)
  BY DEF Bijection, Injection, Surjection, IsInjective
<1>3. ASSUME NEW r PROVE Count(t, r) = Cardinality(Marks(s, 1 .. n, r))
  <2>1. DOMAIN t = 1 .. n /\ \A k \in 1 .. n : t[k] = s[f[k]]
    BY <1>1
  <2> HIDE DEF t, f
  <2> QED BY <1>2, <2>1, DrawnCount
<1> QED BY <1>1, <1>3

LEMMA ConcatCount ==
  ASSUME NEW T, NEW s \in Seq(T), NEW t \in Seq(T), NEW r
  PROVE  Count(s \o t, r) = Count(s, r) + Count(t, r)
<1> DEFINE u == s \o t
           m == Len(s)
           n == Len(t)
           f == [k \in 1 .. n |-> m + k]
<1>1. /\ u \in Seq(T) /\ Len(u) = m + n /\ m \in Nat /\ n \in Nat
      /\ DOMAIN u = 1 .. (m + n) /\ DOMAIN s = 1 .. m /\ DOMAIN t = 1 .. n
      /\ \A i \in 1 .. m : u[i] = s[i]
      /\ \A i \in 1 .. n : u[m + i] = t[i]
  BY ConcatProperties
<1> HIDE DEF u, m, n
<1>2. 1 .. m \subseteq 1 .. (m + n) /\ (1 .. (m + n)) \ (1 .. m) = (m + 1) .. (m + n)
  BY <1>1
<1>3. Count(u, r) = Cardinality(Marks(u, 1 .. m, r))
                    + Cardinality(Marks(u, (m + 1) .. (m + n), r))
  <2> DEFINE K == 1 .. (m + n)
             I == 1 .. m
  <2>1. Count(u, r) = Cardinality(Marks(u, K, r)) /\ IsFiniteSet(K)
    BY <1>1, CountRange
  <2>2. I \in SUBSET K /\ K \ I = (m + 1) .. (m + n)
    BY <1>2
  <2>3. Count(u, r) = Cardinality(Marks(u, I, r)) + Cardinality(Marks(u, K \ I, r))
    <3> HIDE DEF K, I
    <3> QED BY <2>1, <2>2, MarksSplit
  <2> QED BY <2>2, <2>3
<1>4. Marks(u, 1 .. m, r) = Marks(s, DOMAIN s, r)
  BY <1>1 DEF Marks
<1>5. Count(t, r) = Cardinality(Marks(u, (m + 1) .. (m + n), r))
  <2>1. f \in [1 .. n -> (m + 1) .. (m + n)] /\ \A x, y \in 1 .. n : f[x] = f[y] => x = y
    BY <1>1
  <2>2. \A i \in (m + 1) .. (m + n) : i - m \in 1 .. n /\ f[i - m] = i
    BY <1>1
  <2>3. f \in Bijection(1 .. n, (m + 1) .. (m + n))
    <3> HIDE DEF f
    <3> QED BY <2>1, <2>2 DEF Bijection, Injection, Surjection, IsInjective
  <2>4. \A k \in 1 .. n : t[k] = u[f[k]]
    BY <1>1
  <2> DEFINE I == (m + 1) .. (m + n)
  <2> HIDE DEF f, I
  <2>5. n \in Nat /\ f \in Bijection(1 .. n, I) /\ DOMAIN t = 1 .. n
    BY <1>1, <2>3 DEF I
  <2>6. Count(t, r) = Cardinality(Marks(u, I, r))
    BY ONLY <2>4, <2>5, DrawnCount
  <2> QED BY <2>6 DEF I
<1>6. Count(s, r) = Cardinality(Marks(s, DOMAIN s, r))
  BY CountRange
<1> QED BY <1>3, <1>4, <1>5, <1>6 DEF u

LEMMA AppendCount ==
  ASSUME NEW T, NEW s \in Seq(T), NEW x \in T, NEW r
  PROVE  Count(Append(s, x), r) = Count(s, r) + (IF x = r THEN 1 ELSE 0)
<1>1. Append(s, x) = s \o <<x>> /\ <<x>> \in Seq(T)
  BY AppendIsConcat
<1>2. Count(<<x>>, r) = IF x = r THEN 1 ELSE 0
  <2>1. {i \in DOMAIN <<x>> : <<x>>[i] = r} = IF x = r THEN {1} ELSE {}
    OBVIOUS
  <2> QED BY <2>1, FS_Singleton, FS_EmptySet DEF Count
<1>3. Count(s \o <<x>>, r) = Count(s, r) + Count(<<x>>, r)
  BY <1>1, ConcatCount
<1> QED BY <1>1, <1>2, <1>3


-----------------------------------------------------------------------------
\* The holes below are numbered from the front.
LEMMA RankedUp ==
  ASSUME NEW gone \in SUBSET (Nat \ {0}), IsFiniteSet(gone), NEW left \in Nat,
         NEW low, low = gone \cap (1 .. left)
  PROVE  [i \in low |-> Cardinality({h \in gone : h <= i})]
           \in Bijection(low, 1 .. Cardinality(low))
<1> DEFINE key == [i \in low |-> i]
<1>1. IsFiniteSet(low)
  BY FS_Subset
<1>2. [i \in low |-> Cardinality({h \in low : key[h] <= key[i]})]
        \in Bijection(low, 1 .. Cardinality(low))
  <2>1. /\ \A x \in low : key[x] \in Int
        /\ \A x, y \in low : key[x] = key[y] => x = y
    OBVIOUS
  <2> HIDE DEF key
  <2> QED BY ONLY <1>1, <2>1, RankBijection
<1>3. ASSUME NEW i \in low
      PROVE  {h \in low : key[h] <= key[i]} = {h \in gone : h <= i}
  <2>1. \A h \in low : h \in gone /\ (key[h] <= key[i] <=> h <= i)
    OBVIOUS
  <2>2. \A h \in gone : h <= i => h \in low
    OBVIOUS
  <2> HIDE DEF key
  <2> QED BY <2>1, <2>2
<1>4. [i \in low |-> Cardinality({h \in low : key[h] <= key[i]})]
        = [i \in low |-> Cardinality({h \in gone : h <= i})]
  BY <1>3
<1> QED BY <1>2, <1>4

\* Filling the holes below with what is left above keeps every entry but those
\* that go.
LEMMA RefilledCount ==
  ASSUME NEW T, NEW s \in Seq(T), NEW gone \in SUBSET (DOMAIN s)
  PROVE  /\ Refilled(s, gone) \in Seq(T) /\ Len(Refilled(s, gone)) <= Len(s)
         /\ \A r : Count(Refilled(s, gone), r) = Cardinality(Marks(s, DOMAIN s \ gone, r))
<1> DEFINE left == Len(s) - Cardinality(gone)
           low == gone \cap (1 .. left)
           rank == [i \in gone |-> Cardinality({h \in gone : h <= i})]
           fillers == (left + 1 .. Len(s)) \ gone
           f == [i \in 1 .. left |-> IF i \in gone THEN KthLast(fillers, rank[i]) ELSE i]
           t == [i \in 1 .. left |-> s[f[i]]]
           u == Refilled(s, gone)
           N == 1 .. Cardinality(low)
<1>1. /\ DOMAIN s = 1 .. Len(s) /\ Len(s) \in Nat /\ \A i \in DOMAIN s : s[i] \in T
      /\ IsFiniteSet(gone) /\ Cardinality(gone) \in Nat /\ left \in Nat /\ left <= Len(s)
  <2>1. DOMAIN s = 1 .. Len(s) /\ Len(s) \in Nat /\ \A i \in DOMAIN s : s[i] \in T
    OBVIOUS
  <2>2. IsFiniteSet(1 .. Len(s)) /\ Cardinality(1 .. Len(s)) = Len(s)
    BY <2>1, NumbersUpTo
  <2>3. IsFiniteSet(gone) /\ Cardinality(gone) \in Nat /\ Cardinality(gone) <= Len(s)
    BY <2>1, <2>2, FS_Subset, FS_CardinalityType
  <2> QED BY <2>1, <2>3
<1>2. IsFiniteSet(fillers) /\ Cardinality(fillers) = Cardinality(low)
  <2> DEFINE high == left + 1 .. Len(s)
  <2>1. IsFiniteSet(high) /\ Cardinality(high) = Cardinality(gone)
    <3>1. IsFiniteSet(high) /\ Cardinality(high) = Len(s) - left
      BY <1>1, NumbersUpTo
    <3> QED BY <1>1, <3>1
  <2>2. high \cap gone = gone \cap high /\ low = gone \ high
    BY <1>1
  <2>3. /\ IsFiniteSet(fillers)
        /\ Cardinality(fillers) = Cardinality(high) - Cardinality(high \cap gone)
    BY <2>1, FS_Difference
  <2>4. Cardinality(low) = Cardinality(gone) - Cardinality(gone \cap high)
    BY <1>1, <2>2, FS_Difference
  <2> HIDE DEF high, fillers
  <2> QED BY <2>1, <2>2, <2>3, <2>4
<1>3. /\ \A k \in N : KthLast(fillers, k) \in fillers
      /\ \A k, l \in N : KthLast(fillers, k) = KthLast(fillers, l) => k = l
      /\ \A j \in fillers : \E k \in N : KthLast(fillers, k) = j
  <2> DEFINE g == [k \in N |-> KthLast(fillers, k)]
  <2>1. fillers \in SUBSET Int
    OBVIOUS
  <2>2. g \in Bijection(N, fillers)
    <3> HIDE DEF fillers
    <3> QED BY <1>2, <2>1, KthLastBijection
  <2>3. \A k \in N : g[k] = KthLast(fillers, k)
    OBVIOUS
  <2> HIDE DEF g, fillers, N
  <2>4. /\ \A k \in N : g[k] \in fillers
        /\ \A k, l \in N : g[k] = g[l] => k = l
        /\ \A j \in fillers : \E k \in N : g[k] = j
    BY ONLY <2>2, BijectionFacts
  <2> QED BY <2>3, <2>4
<1>4. /\ \A i \in low : rank[i] \in N
      /\ \A i, j \in low : rank[i] = rank[j] => i = j
      /\ \A k \in N : \E i \in low : rank[i] = k
  <2> DEFINE h == [i \in low |-> rank[i]]
  <2>0. gone \in SUBSET (Nat \ {0}) /\ low = gone \cap (1 .. left)
    BY <1>1
  <2>1. h \in Bijection(low, N) /\ \A i \in low : h[i] = rank[i]
    <3>1. h = [i \in low |-> Cardinality({x \in gone : x <= i})]
      OBVIOUS
    <3>2. [i \in low |-> Cardinality({x \in gone : x <= i})] \in Bijection(low, N)
      <4> HIDE DEF left, low, h, rank
      <4> QED BY ONLY <1>1, <2>0, RankedUp DEF N
    <3> QED BY <3>1, <3>2
  <2> HIDE DEF h, N
  <2>2. /\ \A i \in low : h[i] \in N
        /\ \A i, j \in low : h[i] = h[j] => i = j
        /\ \A k \in N : \E i \in low : h[i] = k
    BY ONLY <2>1, BijectionFacts
  <2> QED BY <2>1, <2>2
<1>5. \A i \in 1 .. left : /\ i \in gone => i \in low /\ f[i] = KthLast(fillers, rank[i])
                           /\ i \notin gone => f[i] = i
  OBVIOUS
<1>6. /\ \A j \in fillers : j \in DOMAIN s \ gone /\ j > left
      /\ \A j \in DOMAIN s \ gone : j > left => j \in fillers
      /\ \A j \in DOMAIN s \ gone : j \in 1 .. left \/ j > left
      /\ \A i \in 1 .. left : i <= left /\ (i \notin gone => i \in DOMAIN s \ gone)
      /\ low \subseteq 1 .. left /\ low \subseteq gone
  BY <1>1
<1>7. f \in Bijection(1 .. left, DOMAIN s \ gone)
  <2>1. DOMAIN f = 1 .. left /\ f = [i \in 1 .. left |-> f[i]]
    OBVIOUS
  <2> HIDE DEF f, fillers, N, left, low, rank
  <2>6. \A i \in 1 .. left : i \in gone => f[i] \in fillers /\ rank[i] \in N
    BY <1>3, <1>4, <1>5
  <2>2. \A i \in 1 .. left : f[i] \in DOMAIN s \ gone
    BY <1>5, <1>6, <2>6
  <2>3. ASSUME NEW i \in 1 .. left, NEW j \in 1 .. left, f[i] = f[j]
        PROVE  i = j
    <3>1. CASE i \in gone /\ j \in gone
      BY <1>3, <1>4, <1>5, <2>6, <2>3, <3>1
    <3>2. CASE i \notin gone /\ j \notin gone
      BY <1>5, <2>3, <3>2
    <3>3. CASE i \in gone /\ j \notin gone
      <4>1. f[i] \in fillers /\ f[j] = j
        BY <1>5, <2>6, <3>3
      <4>2. f[i] > left /\ f[j] <= left /\ f[j] \in Nat
        BY <1>6, <4>1
      <4> QED BY <1>1, <2>3, <4>2
    <3>4. CASE i \notin gone /\ j \in gone
      <4>1. f[j] \in fillers /\ f[i] = i
        BY <1>5, <2>6, <3>4
      <4>2. f[j] > left /\ f[i] <= left /\ f[i] \in Nat
        BY <1>6, <4>1
      <4> QED BY <1>1, <2>3, <4>2
    <3> QED BY <3>1, <3>2, <3>3, <3>4
  <2>4. ASSUME NEW j \in DOMAIN s \ gone PROVE \E i \in 1 .. left : f[i] = j
    <3>1. CASE j \in 1 .. left
      BY <1>5, <3>1
    <3>2. CASE j > left
      <4>1. j \in fillers
        BY <1>6, <3>2
      <4>2. PICK k \in N : KthLast(fillers, k) = j
        BY <1>3, <4>1
      <4>3. PICK i \in low : rank[i] = k
        BY <1>4, <4>2
      <4> QED BY <1>5, <1>6, <4>2, <4>3
    <3> QED BY <1>6, <3>1, <3>2
  <2>5. f \in [1 .. left -> DOMAIN s \ gone]
    BY <2>1, <2>2
  <2> QED BY <2>3, <2>4, <2>5 DEF Bijection, Injection, Surjection, IsInjective
<1>8. u = t
  <2>1. u = [i \in 1 .. left |-> IF i \in gone THEN s[KthLast(fillers, rank[i])] ELSE s[i]]
    <3>1. u = [i \in 1 .. left |-> IF i \in gone
                                    THEN s[KthLast(fillers, Cardinality({h \in gone : h <= i}))]
                                    ELSE s[i]]
      BY DEF Refilled
    <3>2. \A i \in gone : rank[i] = Cardinality({h \in gone : h <= i})
      OBVIOUS
    <3> HIDE DEF u, rank, fillers, left
    <3> QED BY <3>1, <3>2
  <2>2. \A i \in 1 .. left :
          t[i] = IF i \in gone THEN s[KthLast(fillers, rank[i])] ELSE s[i]
    BY <1>5
  <2> HIDE DEF f, fillers, u
  <2> QED BY <2>1, <2>2
<1>9. \A i \in 1 .. left : f[i] \in DOMAIN s
  <2> HIDE DEF f, fillers
  <2> QED BY <1>7 DEF Bijection, Injection
<1>10. t \in Seq(T) /\ Len(t) = left /\ DOMAIN t = 1 .. left
  <2>1. \A i \in 1 .. left : s[f[i]] \in T
    BY <1>1, <1>9
  <2> HIDE DEF f
  <2> QED BY <1>1, <2>1
<1>11. ASSUME NEW r PROVE Count(t, r) = Cardinality(Marks(s, DOMAIN s \ gone, r))
  <2>1. \A k \in 1 .. left : t[k] = s[f[k]]
    OBVIOUS
  <2> HIDE DEF f, t
  <2> QED BY <1>1, <1>7, <1>10, <2>1, DrawnCount
<1> QED BY <1>1, <1>8, <1>10, <1>11

\* The entries of s at f[1], f[2], ..., f[m].
DrawnFrom(s, f, m) == [k \in 1 .. m |-> s[f[k]]]

\* t is m entries of s, those at the indices K, drawn as f does before j.
DrawnAsBefore(t, s, m, K, f, j) ==
  \E g \in Bijection(1 .. m, K) :
    /\ t = DrawnFrom(s, g, m)
    /\ \A k \in 1 .. m : k < j => g[k] = f[k]

\* Removing one entry: every other one keeps its place but the last, which
\* fills the hole.
LEMMA RemovedIsDrawn ==
  ASSUME NEW t, NEW s, NEW m \in Nat, NEW K, NEW f \in Bijection(1 .. m, K),
         t = DrawnFrom(s, f, m), NEW j \in 1 .. m, f[j] = j
  PROVE  DrawnAsBefore(RemovedAt(t, j), s, m - 1, K \ {j}, f, j)
<1> DEFINE from(k) == IF k = j THEN m ELSE k
           g == [k \in 1 .. m - 1 |-> f[from(k)]]
<1>1. /\ m - 1 \in Nat /\ Len(t) = m
      /\ \A k \in 1 .. m - 1 : from(k) \in 1 .. m /\ from(k) # j
      /\ \A k, l \in 1 .. m - 1 : from(k) = from(l) => k = l
      /\ \A l \in 1 .. m : l # j => \E k \in 1 .. m - 1 : from(k) = l
      /\ \A k \in 1 .. m : t[k] = s[f[k]]
  <2>1. \A l \in 1 .. m : l # j => \E k \in 1 .. m - 1 : from(k) = l
    <3> SUFFICES ASSUME NEW l \in 1 .. m, l # j PROVE \E k \in 1 .. m - 1 : from(k) = l
      OBVIOUS
    <3>1. CASE l = m
      <4>1. j \in 1 .. m - 1 /\ from(j) = l
        BY <3>1
      <4> QED BY <4>1
    <3>2. CASE l # m
      <4>1. l \in 1 .. m - 1 /\ from(l) = l
        BY <3>2
      <4> QED BY <4>1
    <3> QED BY <3>1, <3>2
  <2> QED BY <2>1 DEF DrawnFrom
<1>2. /\ \A k \in 1 .. m : f[k] \in K
      /\ \A k, l \in 1 .. m : f[k] = f[l] => k = l
      /\ \A x \in K : \E k \in 1 .. m : f[k] = x
  BY BijectionFacts
<1>3. \A k \in 1 .. m - 1 : g[k] = f[from(k)]
  OBVIOUS
<1>4. RemovedAt(t, j) = DrawnFrom(s, g, m - 1)
  <2>1. \A k \in 1 .. m - 1 : t[from(k)] = s[g[k]]
    BY <1>1, <1>3
  <2> QED BY <1>1, <2>1 DEF RemovedAt, DrawnFrom
<1>5. \A k \in 1 .. m - 1 : k < j => g[k] = f[k]
  BY <1>3
<1>6. g \in Bijection(1 .. m - 1, K \ {j})
  <2>1. g = [k \in 1 .. m - 1 |-> g[k]]
    OBVIOUS
  <2> HIDE DEF g, from
  <2>2. ASSUME NEW k \in 1 .. m - 1 PROVE g[k] \in K \ {j}
    <3>1. from(k) \in 1 .. m /\ from(k) # j
      BY <1>1
    <3>2. f[from(k)] \in K /\ f[from(k)] # f[j]
      BY <1>2, <3>1
    <3> QED BY <1>3, <3>2
  <2>3. ASSUME NEW k \in 1 .. m - 1, NEW l \in 1 .. m - 1, g[k] = g[l] PROVE k = l
    <3>1. from(k) \in 1 .. m /\ from(l) \in 1 .. m
      BY <1>1
    <3>2. from(k) = from(l)
      BY <1>2, <1>3, <2>3, <3>1
    <3> QED BY <1>1, <3>2
  <2>4. ASSUME NEW x \in K \ {j} PROVE \E k \in 1 .. m - 1 : g[k] = x
    <3>1. PICK l \in 1 .. m : f[l] = x
      BY <1>2
    <3>2. PICK k \in 1 .. m - 1 : from(k) = l
      BY <1>1, <3>1
    <3> QED BY <1>3, <3>1, <3>2
  <2>5. g \in [1 .. m - 1 -> K \ {j}]
    BY <2>1, <2>2
  <2> QED BY <2>3, <2>4, <2>5 DEF Bijection, Injection, Surjection, IsInjective
<1> HIDE DEF g, from
<1> QED BY <1>4, <1>5, <1>6 DEF DrawnAsBefore

\* Unparked is defined by its recursion: there is such a function.
LEMMA UnparkedSteps ==
  ASSUME NEW T, NEW s \in Seq(T), NEW gone
  PROVE  \E f : /\ f[0] = s /\ Unparked(s, gone) = f[Len(s)]
                /\ \A k \in 1 .. Len(s) :
                     f[k] = IF Len(s) - k + 1 \in gone
                            THEN RemovedAt(f[k - 1], Len(s) - k + 1) ELSE f[k - 1]
<1> DEFINE n == Len(s)
           After(t, k) == IF n - k + 1 \in gone THEN RemovedAt(t, n - k + 1) ELSE t
           Goes(f, m) == f = [k \in 0 .. m |-> IF k = 0 THEN s ELSE After(f[k - 1], k)]
           S == {m \in Nat : \E f : Goes(f, m)}
<1>1. 0 \in S
  <2> DEFINE f == [k \in 0 .. 0 |-> s]
  <2>1. Goes(f, 0)
    OBVIOUS
  <2> QED BY <2>1
<1>2. ASSUME NEW m \in S
      PROVE  m + 1 \in S
  <2>1. m \in Nat
    OBVIOUS
  <2>2. PICK f : Goes(f, m)
    OBVIOUS
  <2> HIDE DEF After
  <2> DEFINE last == After(f[m], m + 1)
             g == [k \in 0 .. m + 1 |-> IF k = m + 1 THEN last ELSE f[k]]
  <2>3. \A k \in 0 .. m : f[k] = IF k = 0 THEN s ELSE After(f[k - 1], k)
    BY <2>2
  <2>4. \A k \in 0 .. m + 1 : g[k] = IF k = 0 THEN s ELSE After(g[k - 1], k)
    <3> HIDE DEF last
    <3>1. g[m + 1] = last /\ g[m] = f[m] /\ m + 1 # 0 /\ (m + 1) - 1 = m
      BY <2>1
    <3>2. \A k \in 0 .. m : g[k] = f[k] /\ (k # 0 => k - 1 \in 0 .. m)
      BY <2>1
    <3>3. \A k \in 0 .. m + 1 : k \in 0 .. m \/ k = m + 1
      BY <2>1
    <3> HIDE DEF g
    <3>4. \A k \in 0 .. m : g[k] = IF k = 0 THEN s ELSE After(g[k - 1], k)
      BY <2>3, <3>2
    <3>5. g[m + 1] = After(g[m], m + 1)
      BY <3>1 DEF last
    <3> QED BY <3>1, <3>3, <3>4, <3>5
  <2>5. Goes(g, m + 1)
    BY <2>4
  <2> HIDE DEF g, Goes
  <2> QED BY <2>1, <2>5
<1>3. S = Nat
  <2>1. S \in SUBSET Nat
    OBVIOUS
  <2> HIDE DEF S
  <2> QED BY <1>1, <1>2, <2>1, Upwards
<1>4. n \in Nat
  OBVIOUS
<1>5. \E f : Goes(f, n)
  BY <1>3, <1>4
<1> DEFINE removed == CHOOSE f : Goes(f, n)
<1>6. Goes(removed, n)
  BY <1>5
<1>7. Unparked(s, gone) = removed[n]
  BY DEF Unparked
<1> HIDE DEF removed
<1>8. \A k \in 0 .. n : removed[k] = IF k = 0 THEN s ELSE After(removed[k - 1], k)
  BY <1>6
<1> QED BY <1>4, <1>7, <1>8

\* What is left of a park are the entries that did not come back, each once.
LEMMA UnparkedCount ==
  ASSUME NEW T, NEW s \in Seq(T), NEW gone \in SUBSET (DOMAIN s)
  PROVE  /\ Unparked(s, gone) \in Seq(T)
         /\ Len(Unparked(s, gone)) = Len(s) - Cardinality(gone)
         /\ \A r : Count(Unparked(s, gone), r) = Cardinality(Marks(s, DOMAIN s \ gone, r))
<1> DEFINE n == Len(s)
           Kept(k) == {i \in 1 .. n : i \notin gone \/ i <= n - k}
           IsDrawn(t, k) ==
             \E m \in Nat : \E f \in Bijection(1 .. m, Kept(k)) :
               /\ n - k <= m /\ t = DrawnFrom(s, f, m)
               /\ \A i \in 1 .. n - k : f[i] = i
<1>1. DOMAIN s = 1 .. n /\ n \in Nat /\ \A i \in DOMAIN s : s[i] \in T
  OBVIOUS
<1>2. PICK removed :
        /\ removed[0] = s /\ Unparked(s, gone) = removed[n]
        /\ \A k \in 1 .. n : removed[k] = IF n - k + 1 \in gone
                                          THEN RemovedAt(removed[k - 1], n - k + 1)
                                          ELSE removed[k - 1]
  BY UnparkedSteps
<1> DEFINE S == {k \in Nat : k <= n => IsDrawn(removed[k], k)}
<1> HIDE DEF n, IsDrawn
<1>3. 0 \in S
  <2> DEFINE f == [i \in 1 .. n |-> i]
  <2>1. f \in Bijection(1 .. n, 1 .. n)
    BY DEF Bijection, Injection, Surjection, IsInjective
  <2>2. Kept(0) = 1 .. n
    BY <1>1
  <2>3. s = DrawnFrom(s, f, n) /\ \A i \in 1 .. n : f[i] = i
    BY <1>1 DEF DrawnFrom
  <2> HIDE DEF f, Kept
  <2>4. IsDrawn(s, 0)
    BY <1>1, <2>1, <2>2, <2>3 DEF IsDrawn
  <2> QED BY <1>2, <2>4
<1>4. ASSUME NEW k \in S
      PROVE  k + 1 \in S
  <2> SUFFICES ASSUME k + 1 <= n PROVE IsDrawn(removed[k + 1], k + 1)
    OBVIOUS
  <2> DEFINE j == n - k
  <2>1. /\ k \in Nat /\ k <= n /\ k + 1 \in 1 .. n /\ (k + 1) - 1 = k
        /\ n - (k + 1) + 1 = j /\ n - (k + 1) = j - 1 /\ j \in 1 .. n
    BY <1>1
  <2>2. IsDrawn(removed[k], k)
    BY <2>1
  <2>m. PICK m \in Nat : \E f \in Bijection(1 .. m, Kept(k)) :
          /\ j <= m /\ removed[k] = DrawnFrom(s, f, m) /\ \A i \in 1 .. j : f[i] = i
    BY <2>2 DEF IsDrawn
  <2>3. PICK f \in Bijection(1 .. m, Kept(k)) :
          /\ j <= m /\ removed[k] = DrawnFrom(s, f, m) /\ \A i \in 1 .. j : f[i] = i
    BY <2>m
  <2>4. removed[k + 1] = IF j \in gone THEN RemovedAt(removed[k], j) ELSE removed[k]
    BY <1>2, <2>1
  <2>5. CASE j \notin gone
    <3>1. Kept(k + 1) = Kept(k)
      BY <1>1, <2>1, <2>5
    <3>2. j - 1 <= m /\ \A i \in 1 .. j - 1 : f[i] = i
      BY <1>1, <2>1, <2>3
    <3> HIDE DEF Kept, j
    <3> QED BY <2>1, <2>3, <2>4, <2>5, <3>1, <3>2 DEF IsDrawn
  <2>6. CASE j \in gone
    <3>1. Kept(k + 1) = Kept(k) \ {j}
      BY <1>1, <2>1, <2>6
    <3>2. j \in 1 .. m /\ f[j] = j /\ m - 1 \in Nat /\ j - 1 <= m - 1
      BY <1>1, <2>1, <2>3
    <3>3. \A i \in 1 .. j - 1 : i \in 1 .. m - 1 /\ i < j /\ i \in 1 .. j
      BY <1>1, <2>1, <3>2
    <3> HIDE DEF Kept, j
    <3>4. PICK g \in Bijection(1 .. m - 1, Kept(k) \ {j}) :
            /\ RemovedAt(removed[k], j) = DrawnFrom(s, g, m - 1)
            /\ \A i \in 1 .. m - 1 : i < j => g[i] = f[i]
      <4> DEFINE t == removed[k]
                 K == Kept(k)
      <4>1. t = DrawnFrom(s, f, m) /\ j \in 1 .. m /\ f[j] = j
        BY <2>3, <3>2
      <4>2. m \in Nat /\ f \in Bijection(1 .. m, K)
        OBVIOUS
      <4> HIDE DEF t, K
      <4>3. DrawnAsBefore(RemovedAt(t, j), s, m - 1, K \ {j}, f, j)
        BY ONLY <4>1, <4>2, RemovedIsDrawn
      <4> QED BY <4>3 DEF t, K, DrawnAsBefore
    <3>5. \A i \in 1 .. j - 1 : g[i] = i
      BY <2>3, <3>3, <3>4
    <3> QED BY <2>1, <2>4, <2>6, <3>1, <3>2, <3>4, <3>5 DEF IsDrawn
  <2> QED BY <2>5, <2>6
<1>5. S = Nat
  <2>1. S \in SUBSET Nat
    OBVIOUS
  <2> HIDE DEF S
  <2> QED BY <1>3, <1>4, <2>1, Upwards
<1>6. IsDrawn(removed[n], n)
  BY <1>1, <1>5
<1>7. Kept(n) = DOMAIN s \ gone
  BY <1>1
<1>m. PICK m \in Nat : \E f \in Bijection(1 .. m, Kept(n)) : removed[n] = DrawnFrom(s, f, m)
  BY <1>6 DEF IsDrawn
<1>8. PICK f \in Bijection(1 .. m, DOMAIN s \ gone) : removed[n] = DrawnFrom(s, f, m)
  BY <1>7, <1>m
<1> HIDE DEF S, Kept, IsDrawn
<1> DEFINE u == Unparked(s, gone)
<1>9. u = [i \in 1 .. m |-> s[f[i]]]
  BY <1>2, <1>8 DEF DrawnFrom
<1>10. \A i \in 1 .. m : f[i] \in DOMAIN s
  BY <1>8, BijectionFacts
<1> HIDE DEF u
<1>11. u \in Seq(T) /\ Len(u) = m /\ DOMAIN u = 1 .. m
  <2>1. \A i \in 1 .. m : s[f[i]] \in T
    BY <1>1, <1>10
  <2> QED BY <1>9, <2>1
<1>12. \A r : Count(u, r) = Cardinality(Marks(s, DOMAIN s \ gone, r))
  <2>1. \A i \in 1 .. m : u[i] = s[f[i]]
    BY <1>9
  <2> QED BY ONLY m \in Nat, f \in Bijection(1 .. m, DOMAIN s \ gone), <1>11, <2>1, DrawnCount
<1>13. m = n - Cardinality(gone)
  <2>1. /\ IsFiniteSet(1 .. n) /\ Cardinality(1 .. n) = n
        /\ IsFiniteSet(1 .. m) /\ Cardinality(1 .. m) = m
    <3>1. 0 \in Nat /\ 0 <= n /\ 0 <= m /\ n \in Nat /\ m \in Nat
      BY <1>1
    <3> QED BY <3>1, NumbersUpTo
  <2>2. /\ IsFiniteSet(gone) /\ Cardinality(gone) \in Nat
        /\ Cardinality(DOMAIN s \ gone) = n - Cardinality(DOMAIN s \cap gone)
    BY <1>1, <2>1, FS_Subset, FS_CardinalityType, FS_Difference
  <2>3. DOMAIN s \cap gone = gone
    OBVIOUS
  <2>4. Cardinality(DOMAIN s \ gone) = m
    <3>1. ExistsBijection(1 .. m, DOMAIN s \ gone)
      BY DEF ExistsBijection
    <3> QED BY <2>1, <3>1, FS_Bijection
  <2> QED BY <2>2, <2>3, <2>4
<1> QED BY <1>11, <1>12, <1>13 DEF u, n


-----------------------------------------------------------------------------
\* The smallest of some numbers.
LEMMA MinOf ==
  ASSUME NEW S \in SUBSET Nat, S # {}
  PROVE  Min(S) \in S /\ \A x \in S : Min(S) <= x
BY LeastOf DEF Min

\* What one step of the cone makes of a queue and a park: as much as was there.
Conserved(q, p, passed) ==
  /\ passed.queue \in Seq(Requests) /\ Len(passed.queue) <= Capacity
  /\ passed.park \in Seq(Requests) /\ Len(passed.park) <= ParkCap
  /\ passed.cursor \in 0 .. ParkCap
  /\ \A r : Count(passed.queue, r) + Count(passed.park, r) = Count(q, r) + Count(p, r)

\* Without a camera, what fits goes back.
LEMMA GiveBackConserves ==
  ASSUME NEW q \in Seq(Requests), Len(q) <= Capacity,
         NEW p \in Seq(Requests), Len(p) <= ParkCap, cursor \in 0 .. ParkCap
  PROVE  Conserved(q, p, GiveBack(q, p))
<1> DEFINE l == Len(p)
           room == Capacity - Len(q)
           n == Min({l, room})
           back == [k \in 1 .. n |-> p[l + 1 - k]]
           rest == SubSeq(p, 1, l - n)
           high == (l - n) + 1 .. l
           f == [k \in 1 .. n |-> l + 1 - k]
<1>1. /\ l \in Nat /\ Len(q) \in Nat /\ Capacity \in Nat /\ room \in Nat
      /\ DOMAIN p = 1 .. l /\ \A i \in 1 .. l : p[i] \in Requests
  BY ExtrasAssumption
<1>2. n \in Nat /\ n <= l /\ n <= room
  <2>1. {l, room} \in SUBSET Nat /\ {l, room} # {}
    BY <1>1
  <2>2. n \in {l, room} /\ n <= l /\ n <= room
    BY <2>1, MinOf
  <2> QED BY <1>1, <2>2
<1> HIDE DEF n, room
<1>3. f \in Bijection(1 .. n, high)
  <2>1. f \in [1 .. n -> high]
    BY <1>1, <1>2
  <2>2. \A k, m \in 1 .. n : f[k] = f[m] => k = m
    BY <1>1, <1>2
  <2>3. \A j \in high : l + 1 - j \in 1 .. n /\ f[l + 1 - j] = j
    BY <1>1, <1>2
  <2> HIDE DEF f, high
  <2> QED BY <2>1, <2>2, <2>3, Fun_IsBij
<1>4. /\ back \in Seq(Requests) /\ Len(back) = n /\ DOMAIN back = 1 .. n
      /\ \A k \in 1 .. n : back[k] = p[f[k]]
  <2>1. \A k \in 1 .. n : l + 1 - k \in 1 .. l
    BY <1>1, <1>2
  <2> QED BY <1>1, <1>2, <2>1
<1>5. rest \in Seq(Requests) /\ Len(rest) = l - n
      /\ \A r : Count(rest, r) = Cardinality(Marks(p, 1 .. (l - n), r))
  <2>1. l - n \in 0 .. Len(p) /\ l - n \in 0 .. l
    BY <1>1, <1>2
  <2> QED BY <2>1, SubSeqCount
<1>6. (1 .. l) \ (1 .. (l - n)) = high /\ 1 .. (l - n) \subseteq 1 .. l
  BY <1>1, <1>2
<1> DEFINE u == q \o back
<1>7. u \in Seq(Requests) /\ Len(u) = Len(q) + n
  BY <1>1, <1>4, ConcatProperties
<1>8. ASSUME NEW r
      PROVE  Count(u, r) + Count(rest, r) = Count(q, r) + Count(p, r)
  <2>1. Count(back, r) = Cardinality(Marks(p, high, r))
    <3> HIDE DEF f, high, back
    <3> QED BY <1>2, <1>3, <1>4, DrawnCount
  <2>2. Count(u, r) = Count(q, r) + Count(back, r)
    <3> HIDE DEF back
    <3> QED BY <1>4, ConcatCount
  <2>3. Count(p, r) = Cardinality(Marks(p, 1 .. (l - n), r)) + Cardinality(Marks(p, high, r))
    <3> DEFINE K == 1 .. l
               I == 1 .. (l - n)
    <3>1. Count(p, r) = Cardinality(Marks(p, K, r)) /\ IsFiniteSet(K)
      BY <1>1, CountRange
    <3>2. I \in SUBSET K /\ K \ I = high
      BY <1>6
    <3> HIDE DEF K, I, high
    <3>3. Count(p, r) = Cardinality(Marks(p, I, r)) + Cardinality(Marks(p, K \ I, r))
      BY <3>1, <3>2, MarksSplit
    <3> QED BY <3>2, <3>3 DEF I
  <2>4. Count(q, r) \in Nat /\ Count(p, r) \in Nat /\ Count(back, r) \in Nat
    <3> HIDE DEF back
    <3> QED BY <1>4, CountRange
  <2>5. Count(rest, r) = Cardinality(Marks(p, 1 .. (l - n), r))
    BY <1>5
  <2>6. Count(p, r) = Count(rest, r) + Count(back, r)
    BY <2>1, <2>3, <2>5
  <2>7. Count(rest, r) \in Nat
    <3> HIDE DEF rest
    <3> QED BY <1>5, CountRange
  <2> HIDE DEF u, rest, back
  <2> QED BY <2>2, <2>4, <2>6, <2>7
<1>9. GiveBack(q, p) = [queue |-> u, park |-> rest, cursor |-> cursor]
  BY DEF GiveBack, n, room
<1>10. Len(u) <= Capacity /\ Len(rest) <= ParkCap
  <2>1. ParkCap \in Nat
    BY ExtrasAssumption
  <2>2. n <= Capacity - Len(q)
    BY <1>2 DEF room
  <2> HIDE DEF u, rest
  <2> QED BY <1>1, <1>2, <1>5, <1>7, <2>1, <2>2
<1> HIDE DEF u, rest
<1> QED BY <1>5, <1>7, <1>8, <1>9, <1>10 DEF Conserved

\* What is parked anew fits into the park.
LEMMA ParksFit ==
  ASSUME NEW q \in Seq(Requests), NEW p \in Seq(Requests), Len(p) <= ParkCap, NEW reached
  PROVE  /\ Parks(q, p, reached) \in SUBSET (DOMAIN q)
         /\ Cardinality(Parks(q, p, reached)) <= ParkCap - Len(p)
<1> DEFINE P == Parks(q, p, reached)
           outside(i) == {j \in 1 .. i : q[j] \notin reached}
           room == ParkCap - Len(p)
<1>1. DOMAIN q = 1 .. Len(q) /\ Len(q) \in Nat /\ room \in Nat
  <2>1. ParkCap \in Nat
    BY ExtrasAssumption
  <2> QED BY <2>1
<1>2. P \subseteq DOMAIN q
  BY DEF Parks
<1>3. CASE P = {}
  BY <1>1, <1>2, <1>3, FS_EmptySet
<1>4. CASE P # {}
  <2> DEFINE back == {Len(q) - i : i \in P}
  <2>1. back \in SUBSET Nat /\ back # {}
    BY <1>1, <1>2, <1>4
  <2>2. PICK b \in back : \A c \in back : b <= c
    BY <2>1, LeastOf
  <2>3. PICK m \in P : b = Len(q) - m
    BY <2>2
  <2>4. m \in 1 .. Len(q) /\ \A i \in P : i \in 1 .. m
    <3>1. \A i \in P : i \in 1 .. Len(q) /\ Len(q) - m <= Len(q) - i
      BY <1>1, <1>2, <2>2, <2>3
    <3>2. m \in 1 .. Len(q)
      BY <1>1, <1>2
    <3> QED BY <1>1, <3>1, <3>2
  <2>5. Cardinality(outside(m)) <= room
    BY DEF Parks
  <2>6. P \subseteq outside(m) /\ outside(m) \subseteq 1 .. m
    <3>1. \A i \in P : q[i] \notin reached
      BY DEF Parks
    <3> QED BY <2>4, <3>1
  <2>7. IsFiniteSet(outside(m))
    <3>1. IsFiniteSet(1 .. m)
      BY <2>4, FS_Interval
    <3> HIDE DEF outside
    <3> QED BY <2>6, <3>1, FS_Subset
  <2>8. /\ Cardinality(P) <= Cardinality(outside(m))
        /\ Cardinality(P) \in Nat /\ Cardinality(outside(m)) \in Nat
    <3> HIDE DEF P, outside
    <3> QED BY <2>6, <2>7, FS_Subset, FS_CardinalityType
  <2> HIDE DEF P, outside
  <2> QED BY <1>1, <1>2, <2>5, <2>8 DEF P
<1> QED BY <1>3, <1>4


\* What comes back is as much as there is room for.
LEMMA TakenFits ==
  ASSUME NEW cands \in Nat, NEW room \in Nat, NEW burst
  PROVE  /\ Taken(cands, burst, room) \in Nat
         /\ Taken(cands, burst, room) <= cands /\ Taken(cands, burst, room) <= room
<1> DEFINE more == IF ~burst /\ Release # 0 THEN {Release} ELSE {}
           S == {cands, room} \cup more
<1>1. more \subseteq Nat
  BY ExtrasAssumption
<1>2. S \in SUBSET Nat /\ S # {} /\ cands \in S /\ room \in S
  BY <1>1
<1>3. Taken(cands, burst, room) = Min(S)
  BY DEF Taken
<1> HIDE DEF S
<1>4. Min(S) \in S /\ \A x \in S : Min(S) <= x
  BY <1>2, MinOf
<1> QED BY <1>2, <1>3, <1>4

LEMMA Remainder ==
  ASSUME NEW a \in Nat, NEW n \in Nat \ {0}
  PROVE  a % n \in 0 .. n - 1
OBVIOUS

\* What comes back leaves the park.
LEMMA ComeBackConserves ==
  ASSUME NEW q \in Seq(Requests), Len(q) <= Capacity,
         NEW p \in Seq(Requests), Len(p) <= ParkCap, p # <<>>, \A r : Count(p, r) <= 1,
         NEW reached, NEW burst, cursor \in 0 .. ParkCap
  PROVE  Conserved(q, p, ComeBack(q, p, reached, burst))
<1> DEFINE n == Len(p)
           start == cursor % n
           len == Min({n, ScanMax})
           order == [k \in 1 .. len |-> ((start + k - 1) % n) + 1]
           found(k) == {order[j] : j \in {i \in 1 .. k : p[order[i]] \in reached}}
           scanned == Min({Len(order)}
                          \cup {k \in 1 .. Len(order) : Cardinality(found(k)) = CandMax})
           F == found(scanned)
           key == [i \in F |-> Distance[p[i]]]
           nearest == SortedBy(F, key)
           room == Capacity - Len(q)
           m == Taken(Len(nearest), burst, room)
           back == SubSeq(nearest, 1, m)
           moved == [k \in DOMAIN back |-> p[back[k]]]
           R == Range(back)
           rest == Unparked(p, R)
           next == Advanced(start, scanned, n)
           onward == IF back = <<>> THEN next
                     ELSE IF rest = <<>> THEN 0 ELSE next % Len(rest)
<1>1. /\ n \in Nat \ {0} /\ n <= ParkCap /\ ParkCap \in Nat /\ Capacity \in Nat
      /\ room \in Nat /\ cursor \in Nat /\ ScanMax \in Nat \ {0}
      /\ DOMAIN p = 1 .. n /\ \A i \in 1 .. n : p[i] \in Requests
  BY ExtrasAssumption, EmptySeq
<1>2. start \in Nat
  BY <1>1, Remainder
<1>3. len \in Nat
  <2>1. {n, ScanMax} \in SUBSET Nat /\ {n, ScanMax} # {}
    BY <1>1
  <2>2. len \in {n, ScanMax}
    BY <2>1, MinOf
  <2> QED BY <1>1, <2>2
<1> HIDE DEF len, start, n, room
<1>4. /\ DOMAIN order = 1 .. len /\ Len(order) = len
      /\ \A k \in 1 .. len : order[k] \in 1 .. n
  <2>1. ASSUME NEW k \in 1 .. len PROVE ((start + k - 1) % n) + 1 \in 1 .. n
    <3>1. start + k - 1 \in Nat
      BY <1>2, <1>3
    <3>2. (start + k - 1) % n \in 0 .. n - 1
      BY <1>1, <3>1, Remainder
    <3> QED BY <1>1, <3>2
  <2>2. order \in Seq(1 .. n)
    BY <1>3, <2>1
  <2> QED BY <1>3, <2>1, <2>2
<1>5. scanned \in Nat /\ scanned <= len
  <2> DEFINE S == {Len(order)} \cup {k \in 1 .. Len(order) : Cardinality(found(k)) = CandMax}
  <2>1. S \in SUBSET Nat /\ S # {} /\ len \in S
    <3> HIDE DEF order, found
    <3> QED BY <1>3, <1>4
  <2> HIDE DEF S
  <2>2. Min(S) \in S /\ \A x \in S : Min(S) <= x
    BY <2>1, MinOf
  <2>3. Min(S) \in Nat /\ Min(S) <= len
    BY <2>1, <2>2
  <2> QED BY <2>3 DEF S
<1>6. F \in SUBSET (1 .. n)
  <2> HIDE DEF order, scanned
  <2>1. \A j \in 1 .. scanned : j \in 1 .. len
    BY <1>3, <1>5
  <2> QED BY <1>4, <2>1
<1> HIDE DEF F, order, scanned, found
<1>7. IsFiniteSet(F) /\ Cardinality(F) \in Nat
  <2>1. IsFiniteSet(1 .. n)
    BY <1>1, NumbersUpTo
  <2> QED BY <1>6, <2>1, FS_Subset, FS_CardinalityType
<1>8. nearest \in Bijection(1 .. Cardinality(F), F)
  <2>1. \A x \in F : key[x] \in Int
    BY <1>1, <1>6, ExtrasAssumption
  <2>2. ASSUME NEW x \in F, NEW y \in F, key[x] = key[y] PROVE x = y
    <3>1. /\ p[x] \in Requests /\ p[y] \in Requests /\ x \in DOMAIN p /\ y \in DOMAIN p
          /\ Distance[p[x]] = Distance[p[y]]
      BY <1>1, <1>6, <2>2
    <3>2. p[x] = p[y]
      BY <3>1, ExtrasAssumption DEF IsInjective
    <3>3. x # y => Count(p, p[x]) >= 2
      BY <3>1, <3>2, CountTwice
    <3>4. Count(p, p[x]) <= 1 /\ Count(p, p[x]) \in Nat
      BY CountRange
    <3> QED BY <3>3, <3>4
  <2> HIDE DEF key
  <2> QED BY <1>7, <2>1, <2>2, SortedByBijection
<1>9. nearest \in Seq(F) /\ Len(nearest) = Cardinality(F)
  <2>1. nearest \in [1 .. Cardinality(F) -> F]
    <3> HIDE DEF nearest
    <3> QED BY <1>8 DEF Bijection, Injection
  <2> HIDE DEF nearest
  <2> QED BY <1>7, <2>1
<1> HIDE DEF key, nearest
<1>10. m \in Nat /\ m <= Len(nearest) /\ m <= room
  BY <1>1, <1>7, <1>9, TakenFits
<1> HIDE DEF m
<1>11. /\ back \in Seq(F) /\ Len(back) = m /\ DOMAIN back = 1 .. m
       /\ \A k \in 1 .. m : back[k] = nearest[k]
  <2>1. m \in 0 .. Len(nearest)
    BY <1>7, <1>9, <1>10
  <2>2. back \in Seq(F) /\ Len(back) = m /\ \A k \in 1 .. m : back[k] = nearest[k]
    BY <1>9, <2>1, SubSeqCount
  <2> QED BY <2>2, LenProperties
<1> HIDE DEF back
<1>12. /\ \A k \in 1 .. m : back[k] \in F
       /\ \A k, l \in 1 .. m : back[k] = back[l] => k = l
  <2>1. /\ \A k \in 1 .. Cardinality(F) : nearest[k] \in F
        /\ \A k, l \in 1 .. Cardinality(F) : nearest[k] = nearest[l] => k = l
    BY <1>8, BijectionFacts
  <2>2. \A k \in 1 .. m : k \in 1 .. Cardinality(F)
    BY <1>7, <1>9, <1>10
  <2> QED BY <1>11, <2>1, <2>2
<1>13. /\ R \in SUBSET (1 .. n) /\ back \in Bijection(1 .. m, R) /\ Cardinality(R) = m
  <2>1. R = {back[k] : k \in 1 .. m}
    BY <1>11 DEF Range
  <2>2. back \in [1 .. m -> R]
    BY <1>11, <2>1
  <2>3. \A y \in R : \E k \in 1 .. m : back[k] = y
    BY <2>1
  <2> HIDE DEF R
  <2>4. back \in Bijection(1 .. m, R)
    BY <1>12, <2>2, <2>3, Fun_IsBij
  <2>5. ExistsBijection(1 .. m, R)
    BY <2>4 DEF ExistsBijection
  <2>6. IsFiniteSet(1 .. m) /\ Cardinality(1 .. m) = m
    BY <1>10, NumbersUpTo
  <2>7. Cardinality(R) = m
    BY <2>5, <2>6, FS_Bijection
  <2> QED BY <1>6, <1>12, <2>1, <2>4, <2>7
<1> HIDE DEF R
<1>14. /\ moved \in Seq(Requests) /\ Len(moved) = m
       /\ \A r : Count(moved, r) = Cardinality(Marks(p, R, r))
  <2>1. moved = [k \in 1 .. m |-> p[back[k]]]
    BY <1>11
  <2>2. \A k \in 1 .. m : p[back[k]] \in Requests
    BY <1>1, <1>6, <1>12
  <2> HIDE DEF moved
  <2>3. moved \in Seq(Requests) /\ Len(moved) = m /\ DOMAIN moved = 1 .. m
    BY <1>10, <2>1, <2>2
  <2>4. \A k \in 1 .. m : moved[k] = p[back[k]]
    BY <2>1
  <2>5. \A r : Count(moved, r) = Cardinality(Marks(p, R, r))
    BY <1>10, <1>13, <2>3, <2>4, DrawnCount
  <2> QED BY <2>3, <2>5
<1> HIDE DEF moved
<1>15. /\ rest \in Seq(Requests) /\ Len(rest) = n - m
       /\ \A r : Count(rest, r) = Cardinality(Marks(p, (1 .. n) \ R, r))
  <2>1. R \in SUBSET (DOMAIN p) /\ DOMAIN p = 1 .. n /\ rest = Unparked(p, R)
    BY <1>1, <1>13
  <2> HIDE DEF rest
  <2>2. /\ rest \in Seq(Requests) /\ Len(rest) = Len(p) - Cardinality(R)
        /\ \A r : Count(rest, r) = Cardinality(Marks(p, DOMAIN p \ R, r))
    BY ONLY p \in Seq(Requests), <2>1, UnparkedCount
  <2> QED BY <1>13, <2>1, <2>2 DEF n
<1> HIDE DEF rest
<1>16. onward \in 0 .. ParkCap
  <2>1. next \in 0 .. n - 1
    <3>1. start + scanned \in Nat
      BY <1>2, <1>5
    <3> QED BY <1>1, <3>1, Remainder DEF Advanced
  <2> HIDE DEF next
  <2>2. CASE back = <<>>
    BY <1>1, <2>1, <2>2
  <2>3. CASE rest = <<>>
    BY <1>1, <2>1, <2>3
  <2>4. CASE back # <<>> /\ rest # <<>>
    <3>1. Len(rest) \in Nat \ {0} /\ Len(rest) <= n
      BY <1>1, <1>10, <1>15, <2>4, EmptySeq
    <3>2. next \in Nat
      BY <1>1, <2>1
    <3>3. next % Len(rest) \in 0 .. Len(rest) - 1
      BY ONLY <3>1, <3>2, Remainder
    <3> QED BY <1>1, <2>4, <3>1, <3>3
  <2> QED BY <2>2, <2>3, <2>4
<1> DEFINE u == q \o moved
<1>17. u \in Seq(Requests) /\ Len(u) = Len(q) + m
  BY <1>14, ConcatProperties
<1>18. ASSUME NEW r
       PROVE  Count(u, r) + Count(rest, r) = Count(q, r) + Count(p, r)
  <2> DEFINE K == 1 .. n
  <2>1. Count(p, r) = Cardinality(Marks(p, K, r)) /\ IsFiniteSet(K) /\ R \in SUBSET K
    BY <1>1, <1>13, CountRange
  <2> HIDE DEF K
  <2>2. Cardinality(Marks(p, K, r))
          = Cardinality(Marks(p, R, r)) + Cardinality(Marks(p, K \ R, r))
    BY <2>1, MarksSplit
  <2>3. Count(p, r) = Count(moved, r) + Count(rest, r)
    BY <1>14, <1>15, <2>1, <2>2 DEF K
  <2>4. Count(u, r) = Count(q, r) + Count(moved, r)
    BY <1>14, ConcatCount
  <2>5. Count(q, r) \in Nat /\ Count(moved, r) \in Nat /\ Count(rest, r) \in Nat
    BY <1>14, <1>15, CountRange
  <2> HIDE DEF u
  <2> QED BY <2>3, <2>4, <2>5
<1>19. ComeBack(q, p, reached, burst) = [queue |-> u, park |-> rest, cursor |-> onward]
  BY DEF ComeBack, n, start, len, order, found, scanned, F, key, nearest, room, m, back,
         moved, R, rest
<1>20. Len(u) <= Capacity /\ Len(rest) <= ParkCap
  <2>1. m <= Capacity - Len(q)
    BY <1>10 DEF room
  <2>2. Len(q) \in Nat
    OBVIOUS
  <2> HIDE DEF u
  <2> QED BY <1>1, <1>10, <1>15, <1>17, <2>1, <2>2
<1> HIDE DEF u, onward
<1> QED BY <1>15, <1>16, <1>17, <1>18, <1>19, <1>20 DEF Conserved


\* One step of the cone, whatever the camera shows.
LEMMA ConeStepConserves ==
  ASSUME NEW q \in Seq(Requests), Len(q) <= Capacity,
         NEW p \in Seq(Requests), Len(p) <= ParkCap, cursor \in 0 .. ParkCap,
         ConeActive => \A r : Count(q, r) + Count(p, r) <= 1,
         NEW reached, NEW ok, NEW burst,
         NEW passed, passed = ConeStep(q, p, reached, ok, burst)
  PROVE  /\ Conserved(q, p, passed)
         /\ ~ConeActive => passed.queue = q /\ passed.park = p
<1> DEFINE parks == Parks(q, p, reached)
           inside == Pick(q, DOMAIN q \ parks)
           parked == Pick(q, parks)
           waiting == p \o parked
<1>1. CASE ~ConeActive
  <2>1. passed = [queue |-> q, park |-> p, cursor |-> cursor]
    BY <1>1 DEF ConeStep
  <2>2. passed.queue = q /\ passed.park = p /\ passed.cursor = cursor
    BY <2>1
  <2> QED BY <2>2 DEF Conserved
<1>2. CASE ConeActive /\ ~ok
  <2>1. passed = GiveBack(q, p)
    BY <1>2 DEF ConeStep
  <2>2. Conserved(q, p, GiveBack(q, p))
    BY GiveBackConserves
  <2> QED BY <1>2, <2>1, <2>2
<1>3. CASE ConeActive /\ ok
  <2>1. parks \in SUBSET (DOMAIN q) /\ Cardinality(parks) <= ParkCap - Len(p)
    BY ParksFit
  <2> HIDE DEF parks
  <2>2. /\ inside \in Seq(Requests) /\ Len(inside) <= Len(q)
        /\ \A r : Count(inside, r) = Cardinality(Marks(q, DOMAIN q \ parks, r))
    BY PickCount
  <2>3. /\ parked \in Seq(Requests) /\ Len(parked) = Cardinality(parks)
        /\ Cardinality(parks) \in Nat
        /\ \A r : Count(parked, r) = Cardinality(Marks(q, parks, r))
    BY <2>1, PickCount
  <2> HIDE DEF inside, parked
  <2>4. waiting \in Seq(Requests) /\ Len(waiting) = Len(p) + Len(parked)
    BY <2>3, ConcatProperties
  <2>5. Len(inside) <= Capacity /\ Len(waiting) <= ParkCap
    <3>1. Len(p) \in Nat /\ Len(q) \in Nat /\ Len(inside) \in Nat /\ ParkCap \in Nat
          /\ Capacity \in Nat
      BY <2>2, ExtrasAssumption
    <3> HIDE DEF waiting
    <3> QED BY <2>1, <2>2, <2>3, <2>4, <3>1
  <2>6. ASSUME NEW r
        PROVE  /\ Count(inside, r) + Count(waiting, r) = Count(q, r) + Count(p, r)
               /\ Count(waiting, r) <= 1
    <3>1. Count(waiting, r) = Count(p, r) + Count(parked, r)
      BY <2>3, ConcatCount
    <3>2. Count(q, r) = Cardinality(Marks(q, DOMAIN q, r)) /\ IsFiniteSet(DOMAIN q)
      BY CountRange
    <3>3. Cardinality(Marks(q, DOMAIN q, r))
            = Cardinality(Marks(q, parks, r)) + Cardinality(Marks(q, DOMAIN q \ parks, r))
      BY <2>1, <3>2, MarksSplit
    <3>4. /\ Count(q, r) \in Nat /\ Count(p, r) \in Nat /\ Count(inside, r) \in Nat
          /\ Count(parked, r) \in Nat
      BY <2>2, <2>3, CountRange
    <3>5. Count(q, r) = Count(parked, r) + Count(inside, r)
      BY <2>2, <2>3, <3>2, <3>3
    <3>6. Count(q, r) + Count(p, r) <= 1
      BY <1>3
    <3> HIDE DEF waiting
    <3> QED BY <3>1, <3>4, <3>5, <3>6
  <2>7. passed = IF waiting = <<>> THEN [queue |-> inside, park |-> <<>>, cursor |-> cursor]
               ELSE ComeBack(inside, waiting, reached, burst)
    BY <1>3 DEF ConeStep, parks, inside, parked
  <2>8. CASE waiting = <<>>
    <3>1. passed = [queue |-> inside, park |-> waiting, cursor |-> cursor]
      BY <2>7, <2>8
    <3> HIDE DEF waiting
    <3>2. passed.queue = inside /\ passed.park = waiting /\ passed.cursor = cursor
      BY <3>1
    <3> QED BY <1>3, <2>2, <2>4, <2>5, <2>6, <3>2 DEF Conserved
  <2>9. CASE waiting # <<>>
    <3>1. passed = ComeBack(inside, waiting, reached, burst)
      BY <2>7, <2>9
    <3> HIDE DEF waiting
    <3>2. Conserved(inside, waiting, passed)
      BY <2>2, <2>4, <2>5, <2>6, <2>9, <3>1, ComeBackConserves
    <3>3. Conserved(q, p, passed)
      BY <2>6, <3>2 DEF Conserved
    <3> QED BY <1>3, <3>3
  <2> QED BY <2>8, <2>9
<1> QED BY <1>1, <1>2, <1>3

\* Sorting requests by distance.
LEMMA ByDistanceCount ==
  ASSUME NEW S \in SUBSET Requests
  PROVE  /\ ByDistance(S) \in Seq(Requests) /\ Len(ByDistance(S)) = Cardinality(S)
         /\ IsFiniteSet(S) /\ Cardinality(S) \in Nat
         /\ \A r : Count(ByDistance(S), r) = IF r \in S THEN 1 ELSE 0
<1> DEFINE n == Cardinality(S)
           t == ByDistance(S)
<1>1. IsFiniteSet(S) /\ n \in Nat
  <2>1. IsFiniteSet(Requests)
    BY NumbersUpTo, ExtrasAssumption DEF Requests
  <2> QED BY <2>1, FS_Subset, FS_CardinalityType
<1>2. t \in Bijection(1 .. n, S)
  <2>1. /\ \A x \in S : Distance[x] \in Int
        /\ \A x, y \in S : Distance[x] = Distance[y] => x = y
    BY ExtrasAssumption DEF IsInjective
  <2> QED BY <1>1, <2>1, SortedByBijection DEF ByDistance
<1> HIDE DEF t, n
<1>3. t \in [1 .. n -> S] /\ DOMAIN t = 1 .. n
  BY <1>2 DEF Bijection, Injection
<1>4. t \in Seq(Requests) /\ Len(t) = n
  BY <1>1, <1>3
<1>5. ASSUME NEW r PROVE Count(t, r) = IF r \in S THEN 1 ELSE 0
  <2> DEFINE self == [x \in S |-> x]
  <2>1. \A k \in 1 .. n : t[k] = self[t[k]]
    BY <1>3
  <2>2. Count(t, r) = Cardinality(Marks(self, S, r))
    <3> HIDE DEF self
    <3> QED BY <1>1, <1>2, <1>3, <2>1, DrawnCount
  <2>3. Marks(self, S, r) = IF r \in S THEN {r} ELSE {}
    BY DEF Marks
  <2> QED BY <2>2, <2>3, FS_Singleton, FS_EmptySet
<1> QED BY <1>1, <1>4, <1>5 DEF t, n

\* The spawn limit holds back a part of the queue.
LEMMA SpawnStepConserves ==
  ASSUME NEW q \in Seq(Requests), NEW ok, SpawnActive => \A r : Count(q, r) <= 1,
         NEW s, s = SpawnStep(q, ok)
  PROVE  /\ s.queue \in Seq(Requests) /\ Len(s.queue) <= Len(q)
         /\ s.hold \in Seq(Requests) /\ Len(s.hold) <= Len(q)
         /\ s.hold # <<>> => Len(s.hold) <= SpawnMax
         /\ ~SpawnActive => s.hold = <<>>
         /\ \A r : Count(s.queue, r) + Count(s.hold, r) = Count(q, r)
<1> DEFINE nearer(r) == {x \in Range(q) : Distance[x] < Distance[r]}
           held == {r \in Range(q) : Cardinality(nearer(r)) >= Budget /\ Distance[r] >= Near}
<1>1. CASE ~Limited(q, ok)
  <2>1. s = [queue |-> q, hold |-> <<>>]
    BY <1>1 DEF SpawnStep
  <2>2. \A r : Count(<<>>, r) = 0
    BY FS_EmptySet DEF Count
  <2>3. \A r : Count(q, r) \in Nat
    BY CountRange
  <2>4. s.queue = q /\ s.hold = <<>>
    BY <2>1
  <2>5. Len(<<>>) = 0 /\ <<>> \in Seq(Requests) /\ Len(q) \in Nat
    OBVIOUS
  <2> QED BY <2>2, <2>3, <2>4, <2>5
<1>2. CASE Limited(q, ok)
  <2>1. s = [queue |-> ByDistance(Range(q) \ held), hold |-> ByDistance(held)]
    BY <1>2 DEF SpawnStep
  <2>2. Range(q) \in SUBSET Requests /\ held \in SUBSET Range(q)
    BY DEF Range
  <2>3. IsFiniteSet(Range(q)) /\ Cardinality(Range(q)) <= Len(q)
    <3>1. IsFiniteSet(1 .. Len(q)) /\ Cardinality(1 .. Len(q)) = Len(q)
      BY NumbersUpTo
    <3>2. q \in Surjection(1 .. Len(q), Range(q))
      BY DEF Surjection, Range
    <3> QED BY <3>1, <3>2, FS_Surjection
  <2> HIDE DEF held
  <2>4. /\ Cardinality(held) <= Cardinality(Range(q))
        /\ Cardinality(Range(q) \ held) <= Cardinality(Range(q))
        /\ Cardinality(Range(q)) \in Nat /\ Cardinality(held) \in Nat
        /\ Cardinality(Range(q) \ held) \in Nat
    BY <2>2, <2>3, FS_Subset, FS_CardinalityType
  <2>5. SpawnActive /\ Len(q) <= SpawnMax /\ SpawnMax \in Nat /\ Len(q) \in Nat
    BY <1>2, ExtrasAssumption DEF Limited
  <2>6. /\ s.queue \in Seq(Requests) /\ Len(s.queue) = Cardinality(Range(q) \ held)
        /\ s.hold \in Seq(Requests) /\ Len(s.hold) = Cardinality(held)
        /\ \A r : Count(s.queue, r) = IF r \in Range(q) \ held THEN 1 ELSE 0
        /\ \A r : Count(s.hold, r) = IF r \in held THEN 1 ELSE 0
    <3>1. Range(q) \ held \in SUBSET Requests /\ held \in SUBSET Requests
      BY <2>2
    <3>2. s.queue = ByDistance(Range(q) \ held) /\ s.hold = ByDistance(held)
      BY <2>1
    <3> QED BY <3>1, <3>2, ByDistanceCount
  <2>7. ASSUME NEW r PROVE Count(s.queue, r) + Count(s.hold, r) = Count(q, r)
    <3>1. /\ Count(q, r) \in Nat /\ Count(q, r) <= 1
          /\ r \in Range(q) <=> Count(q, r) > 0
      BY <2>5, CountRange
    <3>2. Count(q, r) = IF r \in Range(q) THEN 1 ELSE 0
      BY <3>1
    <3>3. r \in held => r \in Range(q)
      BY <2>2
    <3> QED BY <2>6, <3>2, <3>3
  <2> QED BY <2>3, <2>4, <2>5, <2>6, <2>7
<1> QED BY <1>1, <1>2


-----------------------------------------------------------------------------
(* The inductive invariant.                                                *)

\* What waits from one update to the next.
Exposed == Range(park) \cup Range(SubSeq(queue, 1, carried))

\* Every request queued so far is somewhere, and only there; none before.
CountsSound ==
  \A r \in Requests :
    /\ r > asked => Places(r) = 0
    /\ r <= asked /\ r \notin excused => Places(r) = 1
    /\ Places(r) > 1 => Failed

\* What the stage says of the arrays.
StagesSound ==
  /\ stage = "after" => queue = <<>>
  /\ stage # "between" => carried = 0
  /\ Len(hold) <= Capacity

\* What waits for a removed provider is known to be stale, until the next
\* update drops it.
RemovalsSound ==
  stage = "between" => \A r \in Exposed : Provider[r] \in removals => r \in stale

\* What is stale is gone after the update began, and cannot be missed before.
StaleSound ==
  ~Failed =>
    /\ made \cap stale = {}
    /\ stage # "between" => stale \cap Waiting = {}
    /\ stage = "between" => \A r \in stale \cap Waiting : r \in Exposed /\ Provider[r] \in removals

QueueSound ==
  /\ TypeOK /\ excused \subseteq 1 .. asked
  /\ CountsSound /\ StagesSound /\ RemovalsSound /\ StaleSound


-----------------------------------------------------------------------------
(* Where a request is.                                                     *)

\* Places, of any arrays.
PlacesOf(q, p, h, m, t, r) ==
  Count(q, r) + Count(p, r) + Count(h, r) + (IF r \in t THEN 2 ELSE IF r \in m THEN 1 ELSE 0)

\* How often a request was made, as far as it matters.
MadeTimes(m, t, r) == IF r \in t THEN 2 ELSE IF r \in m THEN 1 ELSE 0

\* Places as a sum of four numbers, and who waits by them.
LEMMA PlacesSum ==
  ASSUME NEW q \in Seq(Requests), NEW p \in Seq(Requests), NEW h \in Seq(Requests),
         NEW m, NEW t \in SUBSET m, NEW r
  PROVE  /\ Count(q, r) \in Nat /\ Count(p, r) \in Nat /\ Count(h, r) \in Nat
         /\ MadeTimes(m, t, r) \in Nat
         /\ PlacesOf(q, p, h, m, t, r)
              = Count(q, r) + Count(p, r) + Count(h, r) + MadeTimes(m, t, r)
         /\ r \in Range(q) <=> Count(q, r) > 0
         /\ r \in Range(p) <=> Count(p, r) > 0
         /\ r \in Range(h) <=> Count(h, r) > 0
         /\ r \in m <=> MadeTimes(m, t, r) > 0
         /\ r \notin Requests => Count(q, r) = 0 /\ Count(p, r) = 0 /\ Count(h, r) = 0
<1>1. /\ Count(q, r) \in Nat /\ Count(p, r) \in Nat /\ Count(h, r) \in Nat
      /\ r \in Range(q) <=> Count(q, r) > 0
      /\ r \in Range(p) <=> Count(p, r) > 0
      /\ r \in Range(h) <=> Count(h, r) > 0
  BY CountRange
<1>2. Range(q) \subseteq Requests /\ Range(p) \subseteq Requests /\ Range(h) \subseteq Requests
  BY DEF Range
<1>3. MadeTimes(m, t, r) \in Nat /\ (r \in m <=> MadeTimes(m, t, r) > 0)
  BY DEF MadeTimes
<1>4. PlacesOf(q, p, h, m, t, r)
        = Count(q, r) + Count(p, r) + Count(h, r) + MadeTimes(m, t, r)
  BY DEF PlacesOf, MadeTimes
<1>5. r \notin Requests => Count(q, r) = 0 /\ Count(p, r) = 0 /\ Count(h, r) = 0
  BY <1>1, <1>2
<1> QED BY <1>1, <1>3, <1>4, <1>5

\* A sequence is one over any set that has its entries.
LEMMA SeqOver ==
  ASSUME NEW T, NEW s \in Seq(T), NEW W, Range(s) \subseteq W
  PROVE  s \in Seq(W)
<1>1. s \in [1 .. Len(s) -> T] /\ Len(s) \in Nat
  OBVIOUS
<1>2. \A i \in 1 .. Len(s) : s[i] \in W
  BY <1>1 DEF Range
<1> QED BY <1>1, <1>2

\* What the entries of the first n are.
LEMMA FrontRange ==
  ASSUME NEW T, NEW s \in Seq(T), NEW n \in 0 .. Len(s)
  PROVE  Range(SubSeq(s, 1, n)) = {s[i] : i \in 1 .. n}
<1> DEFINE f == SubSeq(s, 1, n)
<1>1. f \in Seq(T) /\ Len(f) = n /\ \A i \in 1 .. n : f[i] = s[i]
  BY SubSeqCount
<1> HIDE DEF f
<1>2. DOMAIN f = 1 .. n
  BY <1>1
<1>3. Range(f) = {f[i] : i \in 1 .. n}
  BY <1>2 DEF Range
<1>4. Range(f) = {s[i] : i \in 1 .. n}
  BY <1>1, <1>3
<1> QED BY <1>4 DEF f

\* The arrays and the requests in them, from the invariant.
LEMMA SoundFacts ==
  ASSUME QueueSound
  PROVE  /\ queue \in Seq(Requests) /\ park \in Seq(Requests) /\ hold \in Seq(Requests)
         /\ Len(queue) <= Capacity /\ Len(park) <= ParkCap /\ cursor \in 0 .. ParkCap
         /\ carried \in 0 .. Len(queue) /\ twice \in SUBSET made
         /\ Waiting \in SUBSET Requests /\ stale \in SUBSET Requests
         /\ stale \in SUBSET excused /\ excused \in SUBSET (1 .. asked)
         /\ asked \in Nat /\ asked <= MaxRequests /\ MaxRequests \in Nat
         /\ ~ConeActive => park = <<>>
         /\ ~SpawnActive => hold = <<>> /\ carried = 0
         /\ stage = "between" => hold = <<>>
<1>1. TypeOK /\ excused \in SUBSET (1 .. asked) /\ MaxRequests \in Nat
  BY ExtrasAssumption DEF QueueSound
<1>2. /\ queue \in Seq(Requests) /\ park \in Seq(Requests) /\ hold \in Seq(Requests)
      /\ Len(queue) <= Capacity /\ Len(park) <= ParkCap /\ cursor \in 0 .. ParkCap
      /\ carried \in 0 .. Len(queue) /\ twice \in SUBSET made
      /\ stale \in SUBSET Requests /\ stale \in SUBSET excused
      /\ ~ConeActive => park = <<>>
      /\ ~SpawnActive => hold = <<>> /\ carried = 0
      /\ stage = "between" => hold = <<>>
  BY <1>1 DEF TypeOK
<1>3. asked \in Nat /\ asked <= MaxRequests
  BY <1>1 DEF TypeOK
<1>4. Waiting \in SUBSET Requests
  BY <1>2 DEF Waiting, Range
<1> QED BY <1>1, <1>2, <1>3, <1>4

\* Places, by the numbers.
LEMMA SoundPlaces ==
  ASSUME QueueSound, NEW r
  PROVE  /\ Count(queue, r) \in Nat /\ Count(park, r) \in Nat /\ Count(hold, r) \in Nat
         /\ MadeTimes(made, twice, r) \in Nat
         /\ Places(r) = Count(queue, r) + Count(park, r) + Count(hold, r)
                        + MadeTimes(made, twice, r)
         /\ r \in Range(queue) <=> Count(queue, r) > 0
         /\ r \in Range(park) <=> Count(park, r) > 0
         /\ r \in Range(hold) <=> Count(hold, r) > 0
         /\ r \in Waiting <=> Count(queue, r) + Count(park, r) + Count(hold, r) > 0
         /\ r \in made <=> MadeTimes(made, twice, r) > 0
         /\ r \notin Requests => Count(queue, r) = 0 /\ Count(park, r) = 0 /\ Count(hold, r) = 0
         /\ r \in Requests /\ r > asked => Places(r) = 0
         /\ r \in Requests /\ r <= asked /\ r \notin excused => Places(r) = 1
         /\ r \in Requests /\ ~Failed => Places(r) <= 1
         /\ ~Failed => Count(queue, r) + Count(park, r) + Count(hold, r) <= 1
<1>1. /\ queue \in Seq(Requests) /\ park \in Seq(Requests) /\ hold \in Seq(Requests)
      /\ twice \in SUBSET made
  BY SoundFacts
<1>2. Places(r) = PlacesOf(queue, park, hold, made, twice, r)
  BY DEF Places, PlacesOf
<1>3. /\ Count(queue, r) \in Nat /\ Count(park, r) \in Nat /\ Count(hold, r) \in Nat
      /\ MadeTimes(made, twice, r) \in Nat
      /\ Places(r) = Count(queue, r) + Count(park, r) + Count(hold, r)
                     + MadeTimes(made, twice, r)
      /\ r \in Range(queue) <=> Count(queue, r) > 0
      /\ r \in Range(park) <=> Count(park, r) > 0
      /\ r \in Range(hold) <=> Count(hold, r) > 0
      /\ r \in made <=> MadeTimes(made, twice, r) > 0
      /\ r \notin Requests => Count(queue, r) = 0 /\ Count(park, r) = 0 /\ Count(hold, r) = 0
  BY <1>1, <1>2, PlacesSum
<1>4. r \in Waiting <=> Count(queue, r) + Count(park, r) + Count(hold, r) > 0
  BY <1>3 DEF Waiting
<1>5. r \in Requests => /\ r > asked => Places(r) = 0
                        /\ r <= asked /\ r \notin excused => Places(r) = 1
                        /\ Places(r) > 1 => Failed
  BY DEF QueueSound, CountsSound
<1>6. r \in Requests /\ ~Failed => Places(r) <= 1
  BY <1>3, <1>5
<1> QED BY <1>3, <1>4, <1>5, <1>6

\* Before an update the invariant is about the arrays that are kept: without
\* what was removed, which is given up.
LEMMA DroppedSound ==
  ASSUME QueueSound, stage = "between", NEW k, k = Pick(queue, CarriedStill),
         NEW w, w = WaitingStill
  PROVE  /\ k \in Seq(Requests) /\ Len(k) <= Len(queue) /\ Len(k) \in Nat
         /\ w \in Seq(Requests) /\ Len(w) <= Len(park) /\ Len(w) \in Nat
         /\ k \in Seq(Waiting) /\ w \in Seq(Waiting)
         /\ ~ConeActive => w = <<>>
         /\ \A r : Count(k, r) <= Count(queue, r) /\ Count(w, r) <= Count(park, r)
         /\ \A r : r \notin excused => Count(k, r) = Count(queue, r) /\ Count(w, r) = Count(park, r)
         /\ \A r \in stale : ~Failed => Count(k, r) = 0 /\ Count(w, r) = 0
<1> DEFINE gone == {i \in DOMAIN park : Provider[park[i]] \in removals}
           D == DOMAIN queue
           I == CarriedStill
           P == DOMAIN park
<1>1. /\ queue \in Seq(Requests) /\ park \in Seq(Requests) /\ carried \in 0 .. Len(queue)
      /\ D = 1 .. Len(queue) /\ P = 1 .. Len(park) /\ Len(queue) \in Nat /\ Len(park) \in Nat
      /\ I \in SUBSET D /\ gone \in SUBSET P
      /\ stale \in SUBSET excused
      /\ ~ConeActive => park = <<>>
  BY SoundFacts DEF CarriedStill
<1>2. queue \in Seq(Waiting) /\ park \in Seq(Waiting)
  BY <1>1, SeqOver DEF Waiting
<1>3. /\ k \in Seq(Requests) /\ k \in Seq(Waiting) /\ Len(k) <= Len(queue)
      /\ \A r : Count(k, r) = Cardinality(Marks(queue, I, r))
  <2>1. ASSUME NEW T, queue \in Seq(T)
        PROVE  /\ k \in Seq(T) /\ Len(k) <= Len(queue)
               /\ \A r : Count(k, r) = Cardinality(Marks(queue, I, r))
    BY <1>1, <2>1, PickCount
  <2> QED BY <1>1, <1>2, <2>1
<1>4. /\ w \in Seq(Requests) /\ w \in Seq(Waiting) /\ Len(w) <= Len(park)
      /\ ~ConeActive => w = <<>>
      /\ \A r : Count(w, r) = Cardinality(Marks(park, P \ gone, r))
  <2>1. CASE ~ConeActive
    <3>1. w = <<>> /\ park = <<>> /\ P = {} /\ w = park
      BY <1>1, <2>1 DEF WaitingStill
    <3>2. \A r : Marks(park, P \ gone, r) = {i \in DOMAIN w : w[i] = r}
      BY <3>1 DEF Marks
    <3>3. \A r : Count(w, r) = Cardinality(Marks(park, P \ gone, r))
      BY <3>2 DEF Count
    <3> HIDE DEF gone, P
    <3> QED BY <1>1, <1>2, <3>1, <3>3
  <2>2. CASE ConeActive
    <3>1. w = Refilled(park, gone)
      BY <2>2 DEF WaitingStill
    <3> HIDE DEF gone
    <3>2. ASSUME NEW T, park \in Seq(T)
          PROVE  /\ w \in Seq(T) /\ Len(w) <= Len(park)
                 /\ \A r : Count(w, r) = Cardinality(Marks(park, P \ gone, r))
      <4>1. gone \in SUBSET (DOMAIN park) /\ w = Refilled(park, gone) /\ P = DOMAIN park
        BY <1>1, <3>1
      <4>2. park \in Seq(T)
        BY <3>2
      <4> HIDE DEF P
      <4>3. /\ w \in Seq(T) /\ Len(w) <= Len(park)
            /\ \A r : Count(w, r) = Cardinality(Marks(park, DOMAIN park \ gone, r))
        BY ONLY <4>1, <4>2, RefilledCount
      <4> QED BY ONLY <4>1, <4>3
    <3> QED BY <1>1, <1>2, <2>2, <3>2
  <2> QED BY <2>1, <2>2
<1>5. ASSUME NEW r
      PROVE  /\ Count(queue, r) = Cardinality(Marks(queue, I, r))
                                  + Cardinality(Marks(queue, D \ I, r))
             /\ Count(park, r) = Cardinality(Marks(park, P \ gone, r))
                                 + Cardinality(Marks(park, P \ (P \ gone), r))
             /\ Cardinality(Marks(queue, I, r)) \in Nat
             /\ Cardinality(Marks(queue, D \ I, r)) \in Nat
             /\ Cardinality(Marks(park, P \ gone, r)) \in Nat
             /\ Cardinality(Marks(park, P \ (P \ gone), r)) \in Nat
  <2>1. /\ Count(queue, r) = Cardinality(Marks(queue, D, r)) /\ IsFiniteSet(D)
        /\ Count(park, r) = Cardinality(Marks(park, P, r)) /\ IsFiniteSet(P)
    BY <1>1, CountRange
  <2>2. P \ gone \in SUBSET P
    OBVIOUS
  <2> HIDE DEF D, I, P, gone
  <2>3. /\ Cardinality(Marks(queue, D, r))
             = Cardinality(Marks(queue, I, r)) + Cardinality(Marks(queue, D \ I, r))
        /\ Cardinality(Marks(queue, I, r)) \in Nat
        /\ Cardinality(Marks(queue, D \ I, r)) \in Nat
    <3>1. IsFiniteSet(D) /\ I \in SUBSET D
      BY <1>1, <2>1
    <3> QED BY ONLY <3>1, MarksSplit
  <2>4. /\ Cardinality(Marks(park, P, r))
             = Cardinality(Marks(park, P \ gone, r)) + Cardinality(Marks(park, P \ (P \ gone), r))
        /\ Cardinality(Marks(park, P \ gone, r)) \in Nat
        /\ Cardinality(Marks(park, P \ (P \ gone), r)) \in Nat
    BY ONLY <2>1, <2>2, MarksSplit
  <2> QED BY <2>1, <2>3, <2>4
<1>6. ASSUME NEW r PROVE Count(k, r) <= Count(queue, r) /\ Count(w, r) <= Count(park, r)
  <2> DEFINE a == Cardinality(Marks(queue, I, r))
             b == Cardinality(Marks(queue, D \ I, r))
             c == Cardinality(Marks(park, P \ gone, r))
             d == Cardinality(Marks(park, P \ (P \ gone), r))
  <2>1. Count(k, r) = a /\ Count(w, r) = c
    BY <1>3, <1>4
  <2>2. /\ Count(queue, r) = a + b /\ Count(park, r) = c + d
        /\ a \in Nat /\ b \in Nat /\ c \in Nat /\ d \in Nat
    BY <1>5
  <2> QED BY ONLY <2>1, <2>2
<1>7. Range(SubSeq(queue, 1, carried)) = {queue[i] : i \in 1 .. carried}
  BY <1>1, FrontRange
<1>8. ASSUME NEW r, r \notin excused
      PROVE  Count(k, r) = Count(queue, r) /\ Count(w, r) = Count(park, r)
  <2>1. \A x \in Exposed : Provider[x] \in removals => x \in excused
    BY <1>1 DEF QueueSound, RemovalsSound
  <2>2. Marks(queue, D \ I, r) = {}
    <3>1. SUFFICES ASSUME NEW i \in D, i \notin I, queue[i] = r PROVE FALSE
      BY DEF Marks
    <3>2. i \in 1 .. carried /\ Provider[queue[i]] \in removals
      BY <1>1, <3>1 DEF CarriedStill
    <3>3. r \in Exposed
      BY <1>7, <3>1, <3>2 DEF Exposed
    <3> QED BY <1>8, <2>1, <3>1, <3>2, <3>3
  <2>3. Marks(park, P \ (P \ gone), r) = {}
    <3>1. SUFFICES ASSUME NEW i \in P, Provider[park[i]] \in removals, park[i] = r PROVE FALSE
      BY DEF Marks
    <3>2. r \in Exposed
      BY <3>1 DEF Exposed, Range
    <3> QED BY <1>8, <2>1, <3>1, <3>2
  <2>4. Cardinality(Marks(queue, D \ I, r)) = 0 /\ Cardinality(Marks(park, P \ (P \ gone), r)) = 0
    BY <2>2, <2>3, FS_EmptySet
  <2> DEFINE a == Cardinality(Marks(queue, I, r))
             b == Cardinality(Marks(queue, D \ I, r))
             c == Cardinality(Marks(park, P \ gone, r))
             d == Cardinality(Marks(park, P \ (P \ gone), r))
  <2>5. Count(k, r) = a /\ Count(w, r) = c
    BY <1>3, <1>4
  <2>6. /\ Count(queue, r) = a + b /\ Count(park, r) = c + d
        /\ a \in Nat /\ b \in Nat /\ c \in Nat /\ d \in Nat
    BY <1>5
  <2> QED BY ONLY <2>4, <2>5, <2>6
<1>9. ASSUME NEW r \in stale, ~Failed PROVE Count(k, r) = 0 /\ Count(w, r) = 0
  <2>1. /\ Count(queue, r) \in Nat /\ Count(park, r) \in Nat /\ Count(hold, r) \in Nat
        /\ r \in Waiting <=> Count(queue, r) + Count(park, r) + Count(hold, r) > 0
        /\ r \in Range(queue) <=> Count(queue, r) > 0
        /\ r \in Range(park) <=> Count(park, r) > 0
        /\ Count(queue, r) + Count(park, r) + Count(hold, r) <= 1
    BY <1>9, SoundPlaces
  <2>2. Count(k, r) \in Nat /\ Count(w, r) \in Nat
    BY <1>3, <1>4, CountRange
  <2>3. CASE r \notin Waiting
    BY <1>6, <2>1, <2>2, <2>3
  <2>4. CASE r \in Waiting
    <3>1. r \in Exposed /\ Provider[r] \in removals
      BY <1>9, <2>4 DEF QueueSound, StaleSound
    <3>2. CASE r \in Range(park)
      <4>1. Marks(park, P \ gone, r) = {}
        BY <3>1 DEF Marks
      <4>2. Cardinality(Marks(park, P \ gone, r)) = 0
        BY <4>1, FS_EmptySet
      <4>3. Count(queue, r) = 0
        BY <2>1, <3>2
      <4> QED BY <1>4, <1>6, <2>2, <4>2, <4>3
    <3>3. CASE r \notin Range(park)
      <4>1. PICK i \in 1 .. carried : queue[i] = r
        BY <1>7, <3>1, <3>3 DEF Exposed
      <4>2. ASSUME NEW j \in I, queue[j] = r PROVE FALSE
        <5>1. j \in D /\ j > carried /\ i \in D
          BY <1>1, <3>1, <4>1, <4>2 DEF CarriedStill
        <5>2. i # j /\ queue[i] = queue[j]
          BY <1>1, <4>1, <4>2, <5>1
        <5>3. Count(queue, queue[i]) >= 2
          BY <1>1, <5>1, <5>2, CountTwice
        <5> QED BY <2>1, <4>1, <5>3
      <4>3. Marks(queue, I, r) = {}
        BY <4>2 DEF Marks
      <4>4. Cardinality(Marks(queue, I, r)) = 0
        BY <4>3, FS_EmptySet
      <4>5. Count(park, r) = 0
        BY <2>1, <3>3
      <4> QED BY <1>3, <1>6, <2>2, <4>4, <4>5
    <3> QED BY <3>2, <3>3
  <2> QED BY <2>3, <2>4
<1> HIDE DEF D, I, P, gone
<1>10. Len(k) \in Nat /\ Len(w) \in Nat
  BY <1>3, <1>4
<1> QED BY <1>3, <1>4, <1>6, <1>8, <1>9, <1>10


\* Places after a step, by the numbers.
LEMMA PlacesNext ==
  ASSUME queue' \in Seq(Requests), park' \in Seq(Requests), hold' \in Seq(Requests),
         twice' \in SUBSET made', NEW r
  PROVE  /\ Count(queue', r) \in Nat /\ Count(park', r) \in Nat /\ Count(hold', r) \in Nat
         /\ Places(r)' = Count(queue', r) + Count(park', r) + Count(hold', r)
                         + MadeTimes(made', twice', r)
         /\ r \in Range(queue') <=> Count(queue', r) > 0
         /\ r \in Range(park') <=> Count(park', r) > 0
         /\ r \in Range(hold') <=> Count(hold', r) > 0
         /\ r \in Waiting' <=> Count(queue', r) + Count(park', r) + Count(hold', r) > 0
<1>1. Places(r)' = PlacesOf(queue', park', hold', made', twice', r)
  BY DEF Places, PlacesOf, Count
<1>2. /\ Count(queue', r) \in Nat /\ Count(park', r) \in Nat /\ Count(hold', r) \in Nat
      /\ PlacesOf(queue', park', hold', made', twice', r)
           = Count(queue', r) + Count(park', r) + Count(hold', r)
             + MadeTimes(made', twice', r)
      /\ r \in Range(queue') <=> Count(queue', r) > 0
      /\ r \in Range(park') <=> Count(park', r) > 0
      /\ r \in Range(hold') <=> Count(hold', r) > 0
  <2>1. /\ Count(queue', r) \in Nat /\ Count(park', r) \in Nat /\ Count(hold', r) \in Nat
        /\ r \in Range(queue') <=> Count(queue', r) > 0
        /\ r \in Range(park') <=> Count(park', r) > 0
        /\ r \in Range(hold') <=> Count(hold', r) > 0
    BY CountRange
  <2>2. PlacesOf(queue', park', hold', made', twice', r)
          = Count(queue', r) + Count(park', r) + Count(hold', r) + MadeTimes(made', twice', r)
    BY <2>1 DEF PlacesOf, MadeTimes
  <2> QED BY <2>1, <2>2
<1>3. r \in Waiting' <=> r \in Range(queue') \/ r \in Range(park') \/ r \in Range(hold')
  BY DEF Waiting, Range
<1> QED BY <1>1, <1>2, <1>3

\* No request, no entries.
LEMMA CountEmpty ==
  ASSUME NEW r
  PROVE  Count(<<>>, r) = 0
BY FS_EmptySet DEF Count

\* What the cone makes of what was kept.
LEMMA StepSound ==
  ASSUME QueueSound, stage = "between", NEW k, k = Pick(queue, CarriedStill),
         NEW w, w = WaitingStill, NEW reached, NEW ok, NEW burst,
         NEW passed, passed = ConeStep(k, w, reached, ok, burst)
  PROVE  /\ passed.queue \in Seq(Requests) /\ Len(passed.queue) <= Capacity
         /\ passed.park \in Seq(Requests) /\ Len(passed.park) <= ParkCap
         /\ passed.cursor \in 0 .. ParkCap
         /\ ~ConeActive => passed.park = <<>>
         /\ \A r : /\ Count(passed.queue, r) + Count(passed.park, r) = Count(k, r) + Count(w, r)
                   /\ ~Failed => Count(passed.queue, r) <= 1
         /\ passed.queue \in Seq(Waiting)
<1>1. /\ k \in Seq(Requests) /\ Len(k) <= Len(queue) /\ Len(k) \in Nat
      /\ w \in Seq(Requests) /\ Len(w) <= Len(park) /\ Len(w) \in Nat
      /\ k \in Seq(Waiting) /\ w \in Seq(Waiting)
      /\ ~ConeActive => w = <<>>
      /\ \A r : Count(k, r) <= Count(queue, r) /\ Count(w, r) <= Count(park, r)
  BY DroppedSound
<1>2. /\ Len(queue) <= Capacity /\ Len(park) <= ParkCap /\ cursor \in 0 .. ParkCap
      /\ Len(queue) \in Nat /\ Len(park) \in Nat
  BY SoundFacts
<1>3. Len(k) <= Capacity /\ Len(w) <= ParkCap
  BY <1>1, <1>2, ExtrasAssumption
<1>4. ASSUME NEW r
      PROVE  /\ Count(k, r) \in Nat /\ Count(w, r) \in Nat
             /\ ~Failed => Count(k, r) + Count(w, r) <= 1
  <2>1. Count(k, r) \in Nat /\ Count(w, r) \in Nat
    BY <1>1, CountRange
  <2>2. /\ Count(queue, r) \in Nat /\ Count(park, r) \in Nat /\ Count(hold, r) \in Nat
        /\ ~Failed => Count(queue, r) + Count(park, r) + Count(hold, r) <= 1
    BY SoundPlaces
  <2>3. Count(k, r) <= Count(queue, r) /\ Count(w, r) <= Count(park, r)
    BY <1>1
  <2> QED BY ONLY <2>1, <2>2, <2>3
<1>5. ConeActive => ~Failed
  BY DEF ConeActive, Failed
<1>6. ConeActive => \A r : Count(k, r) + Count(w, r) <= 1
  BY <1>4, <1>5
<1>7. /\ Conserved(k, w, passed)
      /\ ~ConeActive => passed.queue = k /\ passed.park = w
  BY <1>1, <1>2, <1>3, <1>6, ConeStepConserves
<1>8. /\ passed.queue \in Seq(Requests) /\ Len(passed.queue) <= Capacity
      /\ passed.park \in Seq(Requests) /\ Len(passed.park) <= ParkCap
      /\ passed.cursor \in 0 .. ParkCap
      /\ \A r : Count(passed.queue, r) + Count(passed.park, r) = Count(k, r) + Count(w, r)
  BY <1>7 DEF Conserved
<1>9. ASSUME NEW r
      PROVE  /\ Count(passed.queue, r) + Count(passed.park, r) = Count(k, r) + Count(w, r)
             /\ ~Failed => Count(passed.queue, r) <= 1
             /\ r \in Range(passed.queue) => r \in Waiting
  <2>1. /\ Count(passed.queue, r) \in Nat /\ Count(passed.park, r) \in Nat
        /\ r \in Range(passed.queue) <=> Count(passed.queue, r) > 0
    BY <1>8, CountRange
  <2>2. /\ r \in Range(k) <=> Count(k, r) > 0
        /\ r \in Range(w) <=> Count(w, r) > 0
    BY <1>1, CountRange
  <2>3. r \in Range(k) \/ r \in Range(w) => r \in Waiting
    BY <1>1 DEF Range
  <2>4. Count(passed.queue, r) + Count(passed.park, r) = Count(k, r) + Count(w, r)
    BY <1>8
  <2> QED BY <1>4, <2>1, <2>2, <2>3, <2>4
<1>10. passed.queue \in Seq(Waiting)
  BY <1>8, <1>9, SeqOver
<1> QED BY <1>1, <1>7, <1>8, <1>9, <1>10

-----------------------------------------------------------------------------
(* Each step keeps the invariant.                                          *)

\* Nothing is queued yet.
LEMMA QueueInitSound ==
  ASSUME QueueInit
  PROVE  QueueSound
<1>1. TypeOK /\ excused \subseteq 1 .. asked
  <2>1. /\ <<>> \in Seq(Requests) /\ Len(<<>>) = 0 /\ Capacity \in Nat /\ ParkCap \in Nat
        /\ SpawnMax \in Nat /\ MaxRequests \in Nat
    BY ExtrasAssumption
  <2>2. Len(<<>>) <= Capacity /\ Len(<<>>) <= ParkCap /\ Len(<<>>) <= SpawnMax
        /\ 0 \in 0 .. ParkCap /\ 0 \in 0 .. Len(<<>>) /\ 0 \in 0 .. MaxRequests
    BY <2>1
  <2> QED BY <2>1, <2>2 DEF QueueInit, TypeOK
<1>2. CountsSound
  <2>1. ASSUME NEW r \in Requests
        PROVE  /\ r > asked => Places(r) = 0
               /\ r <= asked /\ r \notin excused => Places(r) = 1
               /\ Places(r) > 1 => Failed
    <3>1. Count(<<>>, r) = 0
      BY CountEmpty
    <3>2. Places(r) = 0 /\ asked = 0
      BY <3>1 DEF QueueInit, Places
    <3>3. r \in Nat /\ r > 0
      BY ExtrasAssumption DEF Requests
    <3> QED BY <3>2, <3>3
  <2> QED BY <2>1 DEF CountsSound
<1>3. StagesSound
  BY ExtrasAssumption DEF QueueInit, StagesSound
<1>4. RemovalsSound /\ StaleSound
  BY DEF QueueInit, RemovalsSound, StaleSound
<1> QED BY <1>1, <1>2, <1>3, <1>4 DEF QueueSound

\* gu_x_before_queue: what it drops was given up, everything else is kept.
LEMMA BeforeQueueSound ==
  ASSUME QueueSound, NEW reached, NEW ok, NEW burst, BeforeQueue(reached, ok, burst)
  PROVE  QueueSound'
<1> DEFINE k == Pick(queue, CarriedStill)
           w == WaitingStill
           passed == ConeStep(k, w, reached, ok, burst)
           spawn == SpawnStep(passed.queue, ok)
<1>1. /\ stage = "between" /\ stage' = "make"
      /\ park' = passed.park /\ cursor' = passed.cursor
      /\ queue' = spawn.queue /\ hold' = spawn.hold /\ carried' = 0
      /\ UNCHANGED <<removals, cone_off, spawn_off, asked, made, twice, stale, excused>>
  BY DEF BeforeQueue, fate
<1>2. /\ passed.queue \in Seq(Requests) /\ Len(passed.queue) <= Capacity
      /\ passed.park \in Seq(Requests) /\ Len(passed.park) <= ParkCap
      /\ passed.cursor \in 0 .. ParkCap
      /\ ~ConeActive => passed.park = <<>>
      /\ \A r : /\ Count(passed.queue, r) + Count(passed.park, r) = Count(k, r) + Count(w, r)
                /\ ~Failed => Count(passed.queue, r) <= 1
  BY <1>1, StepSound
<1>3. /\ \A r : Count(k, r) <= Count(queue, r) /\ Count(w, r) <= Count(park, r)
      /\ \A r : r \notin excused => Count(k, r) = Count(queue, r) /\ Count(w, r) = Count(park, r)
      /\ \A r \in stale : ~Failed => Count(k, r) = 0 /\ Count(w, r) = 0
      /\ k \in Seq(Requests) /\ w \in Seq(Requests)
  BY <1>1, DroppedSound
<1> HIDE DEF k, w, passed
<1>4. /\ spawn.queue \in Seq(Requests) /\ Len(spawn.queue) <= Len(passed.queue)
      /\ spawn.hold \in Seq(Requests) /\ Len(spawn.hold) <= Len(passed.queue)
      /\ spawn.hold # <<>> => Len(spawn.hold) <= SpawnMax
      /\ ~SpawnActive => spawn.hold = <<>>
      /\ \A r : Count(spawn.queue, r) + Count(spawn.hold, r) = Count(passed.queue, r)
  <2>1. SpawnActive => \A r : Count(passed.queue, r) <= 1
    BY <1>2 DEF SpawnActive, Failed
  <2> QED BY <1>2, <2>1, SpawnStepConserves
<1> HIDE DEF spawn
<1>5. /\ queue' \in Seq(Requests) /\ park' \in Seq(Requests) /\ hold' \in Seq(Requests)
      /\ Len(queue') <= Capacity /\ Len(hold') <= Capacity /\ Len(park') <= ParkCap
      /\ Len(hold') <= SpawnMax /\ Len(queue') \in Nat
  <2>1. /\ Len(passed.queue) \in Nat /\ Len(spawn.queue) \in Nat /\ Len(spawn.hold) \in Nat
    BY <1>2, <1>4
  <2>2. Capacity \in Nat /\ SpawnMax \in Nat /\ Len(<<>>) = 0
    BY ExtrasAssumption
  <2> QED BY <1>1, <1>2, <1>4, <2>1, <2>2
<1>6. /\ TypeOK /\ excused \in SUBSET (1 .. asked) /\ twice \in SUBSET made
  BY DEF QueueSound, TypeOK
<1>7. (ConeActive' <=> ConeActive) /\ (SpawnActive' <=> SpawnActive) /\ (Failed' <=> Failed)
  BY <1>1 DEF ConeActive, SpawnActive, Failed
<1>8. TypeOK' /\ excused' \subseteq 1 .. asked'
  <2>1. carried' \in 0 .. Len(queue') /\ cursor' \in 0 .. ParkCap
    BY <1>1, <1>2, <1>5
  <2>2. /\ ~ConeActive' => park' = <<>>
        /\ ~SpawnActive' => hold' = <<>> /\ carried' = 0
        /\ hold' # <<>> => stage' # "between"
    BY <1>1, <1>2, <1>4, <1>7
  <2> HIDE DEF spawn
  <2> QED BY <1>1, <1>5, <1>6, <2>1, <2>2 DEF TypeOK
<1>9. ASSUME NEW r
      PROVE  /\ Places(r)' \in Nat /\ Places(r) \in Nat /\ Places(r)' <= Places(r)
             /\ r \notin excused => Places(r)' = Places(r)
             /\ r \in stale /\ ~Failed => r \notin Waiting'
  <2>1. /\ Count(queue', r) \in Nat /\ Count(park', r) \in Nat /\ Count(hold', r) \in Nat
        /\ Places(r)' = Count(queue', r) + Count(park', r) + Count(hold', r)
                        + MadeTimes(made', twice', r)
        /\ r \in Waiting' <=> Count(queue', r) + Count(park', r) + Count(hold', r) > 0
    BY <1>1, <1>5, <1>6, PlacesNext
  <2>2. /\ Count(queue, r) \in Nat /\ Count(park, r) \in Nat /\ Count(hold, r) \in Nat
        /\ MadeTimes(made, twice, r) \in Nat
        /\ Places(r) = Count(queue, r) + Count(park, r) + Count(hold, r)
                       + MadeTimes(made, twice, r)
    BY SoundPlaces
  <2>3. MadeTimes(made', twice', r) = MadeTimes(made, twice, r)
    BY <1>1
  <2>4. Count(hold, r) = 0
    BY <1>1, SoundFacts, CountEmpty
  <2>5. /\ Count(passed.queue, r) + Count(passed.park, r) = Count(k, r) + Count(w, r)
        /\ Count(queue', r) + Count(hold', r) = Count(passed.queue, r)
        /\ Count(park', r) = Count(passed.park, r)
    BY <1>1, <1>2, <1>4
  <2>6. /\ Count(k, r) <= Count(queue, r) /\ Count(w, r) <= Count(park, r)
        /\ r \notin excused => Count(k, r) = Count(queue, r) /\ Count(w, r) = Count(park, r)
        /\ r \in stale /\ ~Failed => Count(k, r) = 0 /\ Count(w, r) = 0
    BY <1>3
  <2>7. Count(k, r) \in Nat /\ Count(w, r) \in Nat
    BY <1>3, CountRange
  <2>8. Count(queue', r) + Count(park', r) + Count(hold', r) = Count(k, r) + Count(w, r)
    BY ONLY <2>1, <2>5, <2>7
  <2> DEFINE total == Count(queue', r) + Count(park', r) + Count(hold', r)
  <2>9. /\ total <= Count(queue, r) + Count(park, r) + Count(hold, r)
        /\ r \notin excused => total = Count(queue, r) + Count(park, r) + Count(hold, r)
        /\ r \in stale /\ ~Failed => total = 0
        /\ total \in Nat
    <3>1. total = Count(k, r) + Count(w, r)
      BY <2>8
    <3> HIDE DEF total
    <3> QED BY ONLY <2>2, <2>4, <2>6, <2>7, <3>1
  <2>10. Places(r)' = total + MadeTimes(made, twice, r)
    BY <2>1, <2>3
  <2>11. r \in Waiting' <=> total > 0
    BY <2>1
  <2> HIDE DEF total
  <2> QED BY ONLY <2>2, <2>9, <2>10, <2>11
<1>10. CountsSound'
  <2>1. ASSUME NEW r \in Requests
        PROVE  /\ r > asked' => Places(r)' = 0
               /\ r <= asked' /\ r \notin excused' => Places(r)' = 1
               /\ Places(r)' > 1 => Failed'
    <3>1. /\ r > asked => Places(r) = 0
          /\ r <= asked /\ r \notin excused => Places(r) = 1
          /\ Places(r) > 1 => Failed
      BY DEF QueueSound, CountsSound
    <3> QED BY <1>1, <1>7, <1>9, <3>1
  <2> QED BY <2>1 DEF CountsSound, Requests
<1>11. StagesSound'
  BY <1>1, <1>5 DEF StagesSound
<1>12. RemovalsSound'
  BY <1>1 DEF RemovalsSound
<1>13. StaleSound'
  <2>1. ~Failed => made \cap stale = {}
    BY DEF QueueSound, StaleSound
  <2>2. ~Failed => stale \cap Waiting' = {}
    BY <1>9
  <2> QED BY <1>1, <1>7, <2>1, <2>2 DEF StaleSound
<1> QED BY <1>8, <1>10, <1>11, <1>12, <1>13 DEF QueueSound


\* An array written over another keeps its length, and has no other entries.
LEMMA OverlaidSeq ==
  ASSUME NEW W, NEW new \in Seq(W), NEW old \in Seq(W)
  PROVE  Overlaid(new, old) \in Seq(W) /\ Len(Overlaid(new, old)) = Len(old)
<1> DEFINE u == [i \in DOMAIN old |-> IF i <= Len(new) THEN new[i] ELSE old[i]]
<1>1. DOMAIN old = 1 .. Len(old) /\ Len(old) \in Nat /\ Len(new) \in Nat
  OBVIOUS
<1>2. \A i \in 1 .. Len(old) : (IF i <= Len(new) THEN new[i] ELSE old[i]) \in W
  BY <1>1
<1>3. u \in [1 .. Len(old) -> W]
  BY <1>1, <1>2
<1> HIDE DEF u
<1>4. u \in Seq(W) /\ Len(u) = Len(old)
  BY <1>1, <1>3
<1> QED BY <1>4 DEF Overlaid, u

\* A fault in gu_x_before_queue: what waited is given up.
LEMMA BeforeFaultSound ==
  ASSUME QueueSound, NEW reached, NEW ok, NEW burst, BeforeFault(reached, ok, burst)
  PROVE  QueueSound'
<1> DEFINE kept == Pick(queue, CarriedStill)
           w == WaitingStill
           passed == ConeStep(kept, w, reached, ok, burst)
           stay == DOMAIN kept \ Parks(kept, w, reached)
           dropping == {Overlaid(Pick(queue, CarriedStill \cap 1 .. i), queue) : i \in DOMAIN queue}
           parking == {Overlaid(Pick(kept, stay \cap 1 .. i), Overlaid(kept, queue))
                         : i \in DOMAIN kept}
<1>1. /\ stage = "between" /\ stage' = "make"
      /\ queue' \in {queue, Overlaid(passed.queue, Overlaid(kept, queue))} \cup dropping
                    \cup (IF ConeActive /\ ok THEN parking ELSE {})
      /\ cone_off' = ConeOn /\ spawn_off' = SpawnOn
      /\ park' = <<>> /\ cursor' = 0 /\ hold' = <<>> /\ carried' = 0
      /\ excused' = excused \cup Waiting
      /\ UNCHANGED <<removals, asked, made, twice, stale>>
  BY DEF BeforeFault
<1>2. /\ queue \in Seq(Waiting) /\ kept \in Seq(Waiting) /\ passed.queue \in Seq(Waiting)
      /\ Len(queue) <= Capacity /\ carried \in 0 .. Len(queue)
  <2>1. kept \in Seq(Waiting)
    BY <1>1, DroppedSound
  <2>2. passed.queue \in Seq(Waiting)
    BY <1>1, StepSound
  <2>3. queue \in Seq(Waiting) /\ Len(queue) <= Capacity /\ carried \in 0 .. Len(queue)
    BY SoundFacts, SeqOver DEF Waiting
  <2> QED BY <2>1, <2>2, <2>3
<1> HIDE DEF passed
<1>3. queue' \in Seq(Waiting) /\ Len(queue') = Len(queue)
  <2>1. Overlaid(kept, queue) \in Seq(Waiting) /\ Len(Overlaid(kept, queue)) = Len(queue)
    <3> HIDE DEF kept
    <3> QED BY <1>2, OverlaidSeq
  <2>2. ASSUME NEW u \in dropping PROVE u \in Seq(Waiting) /\ Len(u) = Len(queue)
    <3>1. PICK i \in DOMAIN queue : u = Overlaid(Pick(queue, CarriedStill \cap 1 .. i), queue)
      BY <2>2
    <3>2. CarriedStill \cap 1 .. i \in SUBSET (DOMAIN queue)
      BY DEF CarriedStill
    <3>3. Pick(queue, CarriedStill \cap 1 .. i) \in Seq(Waiting)
      BY <1>2, <3>2, PickCount
    <3> QED BY <1>2, <3>1, <3>3, OverlaidSeq
  <2>3. ASSUME NEW u \in parking PROVE u \in Seq(Waiting) /\ Len(u) = Len(queue)
    <3> HIDE DEF kept
    <3>1. PICK i \in DOMAIN kept :
             u = Overlaid(Pick(kept, stay \cap 1 .. i), Overlaid(kept, queue))
      BY <2>3
    <3>2. stay \cap 1 .. i \in SUBSET (DOMAIN kept)
      OBVIOUS
    <3> HIDE DEF stay
    <3>3. Pick(kept, stay \cap 1 .. i) \in Seq(Waiting)
      BY <1>2, <3>2, PickCount
    <3> QED BY <2>1, <3>1, <3>3, OverlaidSeq
  <2> HIDE DEF dropping, parking, kept
  <2>4. CASE queue' = queue
    BY <1>2, <2>4
  <2>5. CASE queue' = Overlaid(passed.queue, Overlaid(kept, queue))
    BY <1>2, <2>1, <2>5, OverlaidSeq
  <2>6. queue' = queue \/ queue' = Overlaid(passed.queue, Overlaid(kept, queue))
        \/ queue' \in dropping \/ queue' \in parking
    BY <1>1
  <2> QED BY <2>2, <2>3, <2>4, <2>5, <2>6
<1>4. /\ TypeOK /\ excused \in SUBSET (1 .. asked) /\ twice \in SUBSET made
      /\ Waiting \in SUBSET Requests /\ asked \in Nat
  BY SoundFacts DEF QueueSound
<1>5. queue' \in Seq(Requests) /\ Range(queue') \subseteq Waiting
  BY <1>3, <1>4, SeqOver DEF Range
<1>6. Waiting \in SUBSET (1 .. asked)
  <2>1. ASSUME NEW r \in Waiting PROVE r \in 1 .. asked
    <3>1. r \in Requests /\ r \in Nat /\ r >= 1
      BY <1>4, ExtrasAssumption DEF Requests
    <3>2. Places(r) > 0
      BY SoundPlaces
    <3>3. ~(r > asked)
      BY <3>1, <3>2, SoundPlaces
    <3> QED BY <1>4, <3>1, <3>3
  <2> QED BY <2>1
<1>7. TypeOK' /\ excused' \subseteq 1 .. asked'
  <2>1. /\ <<>> \in Seq(Requests) /\ Len(<<>>) = 0 /\ Capacity \in Nat /\ ParkCap \in Nat
        /\ SpawnMax \in Nat
    BY ExtrasAssumption
  <2>2. Len(queue') <= Capacity /\ carried' \in 0 .. Len(queue') /\ cursor' \in 0 .. ParkCap
        /\ Len(park') <= ParkCap /\ Len(hold') <= SpawnMax
    BY <1>1, <1>2, <1>3, <2>1
  <2>3. cone_off' \in BOOLEAN /\ spawn_off' \in BOOLEAN
    BY <1>1, ExtrasAssumption
  <2>4. stale' \subseteq excused' /\ excused' \subseteq Requests /\ excused' \subseteq 1 .. asked'
    BY <1>1, <1>4, <1>6 DEF TypeOK
  <2> QED BY <1>1, <1>4, <1>5, <2>1, <2>2, <2>3, <2>4 DEF TypeOK
<1>8. Failed'
  BY <1>1 DEF Failed
<1>9. CountsSound'
  <2>1. ASSUME NEW r \in Requests
        PROVE  /\ r > asked' => Places(r)' = 0
               /\ r <= asked' /\ r \notin excused' => Places(r)' = 1
    <3>1. /\ Count(queue', r) \in Nat /\ Count(park', r) \in Nat /\ Count(hold', r) \in Nat
          /\ Places(r)' = Count(queue', r) + Count(park', r) + Count(hold', r)
                          + MadeTimes(made', twice', r)
          /\ r \in Range(queue') <=> Count(queue', r) > 0
      BY <1>1, <1>4, <1>5, PlacesNext
    <3>2. /\ Count(queue, r) \in Nat /\ Count(park, r) \in Nat /\ Count(hold, r) \in Nat
          /\ MadeTimes(made, twice, r) \in Nat
          /\ Places(r) = Count(queue, r) + Count(park, r) + Count(hold, r)
                         + MadeTimes(made, twice, r)
          /\ r \in Waiting <=> Count(queue, r) + Count(park, r) + Count(hold, r) > 0
          /\ r > asked => Places(r) = 0
          /\ r <= asked /\ r \notin excused => Places(r) = 1
      BY SoundPlaces
    <3>3. MadeTimes(made', twice', r) = MadeTimes(made, twice, r)
      BY <1>1
    <3>4. Count(park', r) = 0 /\ Count(hold', r) = 0
      BY <1>1, CountEmpty
    <3>5. r \notin Waiting => Places(r)' = Places(r)
      BY <1>5, <3>1, <3>2, <3>3, <3>4
    <3>6. r > asked \/ r \notin excused' => r \notin Waiting
      BY <1>1, <3>2
    <3> QED BY <1>1, <3>2, <3>5, <3>6
  <2> QED BY <1>8, <2>1 DEF CountsSound, Requests
<1>10. StagesSound'
  BY <1>1, ExtrasAssumption DEF StagesSound
<1>11. RemovalsSound' /\ StaleSound'
  BY <1>1, <1>8 DEF RemovalsSound, StaleSound
<1> QED BY <1>7, <1>9, <1>10, <1>11 DEF QueueSound

\* The generator makes what is queued.
LEMMA MakeSound ==
  ASSUME QueueSound, Make
  PROVE  QueueSound'
<1>1. /\ stage = "make" /\ stage' = "after"
      /\ made' = made \cup Range(queue)
      /\ twice' = twice \cup {r \in Range(queue) :
                               r \in made \/ Cardinality({i \in DOMAIN queue : queue[i] = r}) > 1}
      /\ queue' = <<>>
      /\ UNCHANGED <<removals, park, cursor, hold, carried, cone_off, spawn_off, asked, stale,
                     excused>>
  BY DEF Make, mod
<1>2. /\ TypeOK /\ StagesSound /\ StaleSound /\ excused \in SUBSET (1 .. asked)
      /\ queue \in Seq(Requests) /\ park \in Seq(Requests) /\ hold \in Seq(Requests)
      /\ twice \in SUBSET made
  BY SoundFacts DEF QueueSound
<1>3. (ConeActive' <=> ConeActive) /\ (SpawnActive' <=> SpawnActive) /\ (Failed' <=> Failed)
  BY <1>1 DEF ConeActive, SpawnActive, Failed
<1>4. twice' \in SUBSET made'
  BY <1>1, <1>2
<1>5. TypeOK' /\ excused' \subseteq 1 .. asked'
  <2>1. <<>> \in Seq(Requests) /\ Len(<<>>) = 0 /\ Capacity \in Nat
    BY ExtrasAssumption
  <2>2. queue' \in Seq(Requests) /\ Len(queue') <= Capacity /\ carried' \in 0 .. Len(queue')
    BY <1>1, <1>2, <2>1 DEF StagesSound
  <2>3. made' \subseteq Requests
    <3>1. Range(queue) \subseteq Requests
      BY <1>2 DEF Range
    <3>2. made \subseteq Requests
      BY <1>2 DEF TypeOK
    <3> QED BY <1>1, <3>1, <3>2
  <2> QED BY <1>1, <1>2, <1>3, <1>4, <2>2, <2>3 DEF TypeOK
<1>6. ASSUME NEW r
      PROVE  /\ Places(r) \in Nat /\ Places(r)' \in Nat
             /\ Places(r) <= 1 => Places(r)' = Places(r)
             /\ r \in Waiting' => r \in Waiting
  <2>1. /\ Count(queue', r) \in Nat /\ Count(park', r) \in Nat /\ Count(hold', r) \in Nat
        /\ Places(r)' = Count(queue', r) + Count(park', r) + Count(hold', r)
                        + MadeTimes(made', twice', r)
        /\ r \in Waiting' <=> Count(queue', r) + Count(park', r) + Count(hold', r) > 0
    <3>1. queue' \in Seq(Requests) /\ park' \in Seq(Requests) /\ hold' \in Seq(Requests)
      BY <1>1, <1>2
    <3> QED BY <1>4, <3>1, PlacesNext
  <2>2. /\ Count(queue, r) \in Nat /\ Count(park, r) \in Nat /\ Count(hold, r) \in Nat
        /\ MadeTimes(made, twice, r) \in Nat
        /\ Places(r) = Count(queue, r) + Count(park, r) + Count(hold, r)
                       + MadeTimes(made, twice, r)
        /\ r \in Waiting <=> Count(queue, r) + Count(park, r) + Count(hold, r) > 0
        /\ r \in Range(queue) <=> Count(queue, r) > 0
        /\ r \in made <=> MadeTimes(made, twice, r) > 0
    BY SoundPlaces
  <2>3. Count(queue', r) = 0 /\ Count(park', r) = Count(park, r) /\ Count(hold', r) = Count(hold, r)
    BY <1>1, CountEmpty
  <2>4. /\ r \in made' <=> r \in made \/ Count(queue, r) > 0
        /\ r \in twice' <=> \/ r \in twice
                            \/ Count(queue, r) > 0 /\ (r \in made \/ Count(queue, r) > 1)
    BY <1>1, <2>2 DEF Count
  <2>5. MadeTimes(made', twice', r) = IF r \in twice' THEN 2 ELSE IF r \in made' THEN 1 ELSE 0
    BY DEF MadeTimes
  <2>6. MadeTimes(made, twice, r) = IF r \in twice THEN 2 ELSE IF r \in made THEN 1 ELSE 0
    BY DEF MadeTimes
  <2>7. MadeTimes(made', twice', r) \in Nat
    BY <2>5
  <2>8. Count(queue, r) + MadeTimes(made, twice, r) <= 1
          => MadeTimes(made', twice', r) = Count(queue, r) + MadeTimes(made, twice, r)
    BY <2>2, <2>4, <2>5, <2>6
  <2>9. Places(r)' = Count(park, r) + Count(hold, r) + MadeTimes(made', twice', r)
    BY <2>1, <2>2, <2>3, <2>7
  <2>10. Places(r) \in Nat /\ Places(r)' \in Nat
    BY <2>2, <2>7, <2>9
  <2>11. Places(r) <= 1 => Places(r)' = Places(r)
    BY ONLY <2>2, <2>7, <2>8, <2>9
  <2> QED BY <2>1, <2>2, <2>3, <2>10, <2>11
<1>7. CountsSound'
  <2>1. ASSUME NEW r \in Requests
        PROVE  /\ r > asked' => Places(r)' = 0
               /\ r <= asked' /\ r \notin excused' => Places(r)' = 1
               /\ Places(r)' > 1 => Failed'
    <3>1. /\ r > asked => Places(r) = 0
          /\ r <= asked /\ r \notin excused => Places(r) = 1
          /\ Places(r) > 1 => Failed
      BY DEF QueueSound, CountsSound
    <3> QED BY <1>1, <1>3, <1>6, <3>1
  <2> QED BY <2>1 DEF CountsSound, Requests
<1>8. StagesSound' /\ RemovalsSound'
  BY <1>1, <1>2 DEF StagesSound, RemovalsSound
<1>9. StaleSound'
  <2>1. ~Failed => made \cap stale = {} /\ stale \cap Waiting = {}
    BY <1>1, <1>2 DEF StaleSound
  <2>2. ~Failed => stale \cap Waiting' = {}
    BY <1>6, <2>1
  <2>3. ~Failed => made' \cap stale = {}
    BY <1>1, <2>1 DEF Waiting
  <2> QED BY <1>1, <1>3, <2>2, <2>3 DEF StaleSound
<1> QED BY <1>5, <1>7, <1>8, <1>9 DEF QueueSound


\* gu_x_after_queue: what was held is in front of the queue.
LEMMA AfterQueueSound ==
  ASSUME QueueSound, AfterQueue
  PROVE  QueueSound'
<1> DEFINE n == Min({Len(hold), Capacity})
<1>1. /\ stage = "after" /\ stage' = "between"
      /\ queue' = IF SpawnActive THEN queue \o SubSeq(hold, 1, n) ELSE queue
      /\ carried' = IF SpawnActive THEN n ELSE carried
      /\ hold' = <<>> /\ removals' = {}
      /\ UNCHANGED <<park, cursor, cone_off, spawn_off, asked, made, twice, stale, excused>>
  BY DEF AfterQueue, fate
<1>2. /\ TypeOK /\ StagesSound /\ StaleSound /\ excused \in SUBSET (1 .. asked)
      /\ queue \in Seq(Requests) /\ park \in Seq(Requests) /\ hold \in Seq(Requests)
      /\ twice \in SUBSET made
      /\ ~SpawnActive => hold = <<>> /\ carried = 0
  BY SoundFacts DEF QueueSound
<1>3. queue = <<>> /\ carried = 0 /\ Len(hold) <= Capacity
  BY <1>1, <1>2 DEF StagesSound
<1>4. n = Len(hold) /\ n \in Nat
  <2>1. Len(hold) \in Nat /\ Capacity \in Nat
    BY <1>2, ExtrasAssumption
  <2>2. {Len(hold), Capacity} \in SUBSET Nat /\ {Len(hold), Capacity} # {}
    BY <2>1
  <2>3. n \in {Len(hold), Capacity} /\ n <= Len(hold) /\ n <= Capacity
    BY <2>2, MinOf
  <2> QED BY <1>3, <2>1, <2>3
<1> HIDE DEF n
<1>5. queue' = hold /\ carried' = Len(hold)
  <2>1. CASE SpawnActive
    <3>1. SubSeq(hold, 1, n) = hold
      BY <1>2, <1>4
    <3>2. <<>> \o hold = hold
      BY <1>2
    <3> QED BY <1>1, <1>3, <1>4, <2>1, <3>1, <3>2
  <2>2. CASE ~SpawnActive
    <3>1. Len(<<>>) = 0
      OBVIOUS
    <3> QED BY <1>1, <1>2, <1>3, <2>2, <3>1
  <2> QED BY <2>1, <2>2
<1>6. (ConeActive' <=> ConeActive) /\ (SpawnActive' <=> SpawnActive) /\ (Failed' <=> Failed)
  BY <1>1 DEF ConeActive, SpawnActive, Failed
<1>7. TypeOK' /\ excused' \subseteq 1 .. asked'
  <2>1. <<>> \in Seq(Requests) /\ Len(<<>>) = 0 /\ SpawnMax \in Nat
    BY ExtrasAssumption
  <2>2. /\ queue' \in Seq(Requests) /\ Len(queue') <= Capacity /\ carried' \in 0 .. Len(queue')
        /\ Len(hold') <= SpawnMax /\ hold' \in Seq(Requests)
    BY <1>1, <1>2, <1>3, <1>5, <2>1
  <2>3. ~SpawnActive' => hold' = <<>> /\ carried' = 0
    BY <1>1, <1>2, <1>5, <1>6, <2>1
  <2> QED BY <1>1, <1>2, <1>6, <2>2, <2>3 DEF TypeOK
<1>8. ASSUME NEW r
      PROVE  Places(r)' = Places(r) /\ (r \in Waiting' => r \in Waiting)
  <2>1. /\ Places(r)' = Count(queue', r) + Count(park', r) + Count(hold', r)
                        + MadeTimes(made', twice', r)
        /\ r \in Waiting' <=> Count(queue', r) + Count(park', r) + Count(hold', r) > 0
    <3>1. queue' \in Seq(Requests) /\ park' \in Seq(Requests) /\ hold' \in Seq(Requests)
          /\ twice' \in SUBSET made'
      BY <1>1, <1>2, <1>5
    <3> QED BY <3>1, PlacesNext
  <2>2. /\ Count(queue, r) \in Nat /\ Count(park, r) \in Nat /\ Count(hold, r) \in Nat
        /\ MadeTimes(made, twice, r) \in Nat
        /\ Places(r) = Count(queue, r) + Count(park, r) + Count(hold, r)
                       + MadeTimes(made, twice, r)
        /\ r \in Waiting <=> Count(queue, r) + Count(park, r) + Count(hold, r) > 0
    BY SoundPlaces
  <2>3. /\ Count(queue', r) = Count(hold, r) /\ Count(park', r) = Count(park, r)
        /\ Count(hold', r) = 0 /\ Count(queue, r) = 0
        /\ MadeTimes(made', twice', r) = MadeTimes(made, twice, r)
    BY <1>1, <1>3, <1>5, CountEmpty
  <2> QED BY ONLY <2>1, <2>2, <2>3
<1>9. CountsSound'
  <2>1. ASSUME NEW r \in Requests
        PROVE  /\ r > asked' => Places(r)' = 0
               /\ r <= asked' /\ r \notin excused' => Places(r)' = 1
               /\ Places(r)' > 1 => Failed'
    <3>1. /\ r > asked => Places(r) = 0
          /\ r <= asked /\ r \notin excused => Places(r) = 1
          /\ Places(r) > 1 => Failed
      BY DEF QueueSound, CountsSound
    <3> QED BY <1>1, <1>6, <1>8, <3>1
  <2> QED BY <2>1 DEF CountsSound, Requests
<1>10. StagesSound'
  <2>1. Len(<<>>) = 0 /\ Capacity \in Nat
    BY ExtrasAssumption
  <2> QED BY <1>1, <2>1 DEF StagesSound
<1>11. RemovalsSound'
  BY <1>1 DEF RemovalsSound
<1>12. StaleSound'
  <2>1. ~Failed => made \cap stale = {} /\ stale \cap Waiting = {}
    BY <1>1, <1>2 DEF StaleSound
  <2>2. ~Failed => stale \cap Waiting' = {}
    BY <1>8, <2>1
  <2> QED BY <1>1, <1>6, <2>1, <2>2 DEF StaleSound
<1> QED BY <1>7, <1>9, <1>10, <1>11, <1>12 DEF QueueSound

\* A fault in it: what was held is given up.
LEMMA AfterFaultSound ==
  ASSUME QueueSound, AfterFault
  PROVE  QueueSound'
<1>1. /\ stage = "after" /\ stage' = "between" /\ SpawnActive /\ hold # <<>>
      /\ spawn_off' = TRUE /\ hold' = <<>> /\ carried' = 0
      /\ excused' = excused \cup Range(hold) /\ removals' = {}
      /\ UNCHANGED <<queue, park, cursor, cone_off, asked, made, twice, stale>>
  BY DEF AfterFault
<1>2. /\ TypeOK /\ StagesSound /\ StaleSound /\ excused \in SUBSET (1 .. asked)
      /\ queue \in Seq(Requests) /\ park \in Seq(Requests) /\ hold \in Seq(Requests)
      /\ twice \in SUBSET made /\ Waiting \in SUBSET Requests /\ asked \in Nat
      /\ stale \in SUBSET excused
  BY SoundFacts DEF QueueSound
<1>3. /\ ConeActive' <=> ConeActive
      /\ ~Failed' => ~Failed
      /\ ~SpawnActive'
  BY <1>1 DEF ConeActive, SpawnActive, Failed
<1>4. Range(hold) \in SUBSET (1 .. asked) /\ Range(hold) \in SUBSET Requests
  <2>1. ASSUME NEW r \in Range(hold) PROVE r \in 1 .. asked /\ r \in Requests
    <3>1. r \in Requests /\ r \in Nat /\ r >= 1
      BY <1>2, ExtrasAssumption DEF Requests, Waiting
    <3>2. Places(r) > 0
      BY SoundPlaces
    <3>3. ~(r > asked)
      BY <3>1, <3>2, SoundPlaces
    <3> QED BY <1>2, <3>1, <3>3
  <2> QED BY <2>1
<1>5. TypeOK' /\ excused' \subseteq 1 .. asked'
  <2>1. <<>> \in Seq(Requests) /\ Len(<<>>) = 0 /\ SpawnMax \in Nat /\ Len(queue) \in Nat
    BY <1>2, ExtrasAssumption
  <2>2. carried' \in 0 .. Len(queue') /\ Len(hold') <= SpawnMax /\ hold' \in Seq(Requests)
    BY <1>1, <2>1
  <2>3. stale' \subseteq excused' /\ excused' \subseteq Requests /\ excused' \subseteq 1 .. asked'
    BY <1>1, <1>2, <1>4 DEF TypeOK
  <2> QED BY <1>1, <1>2, <1>3, <2>2, <2>3 DEF TypeOK
<1>6. ASSUME NEW r
      PROVE  /\ Places(r)' \in Nat /\ Places(r) \in Nat /\ Places(r)' <= Places(r)
             /\ r \notin Range(hold) => Places(r)' = Places(r)
             /\ r \in Waiting' => r \in Waiting
  <2>1. /\ Places(r)' = Count(queue', r) + Count(park', r) + Count(hold', r)
                        + MadeTimes(made', twice', r)
        /\ r \in Waiting' <=> Count(queue', r) + Count(park', r) + Count(hold', r) > 0
    <3>1. queue' \in Seq(Requests) /\ park' \in Seq(Requests) /\ hold' \in Seq(Requests)
          /\ twice' \in SUBSET made'
      BY <1>1, <1>2
    <3> QED BY <3>1, PlacesNext
  <2>2. /\ Count(queue, r) \in Nat /\ Count(park, r) \in Nat /\ Count(hold, r) \in Nat
        /\ MadeTimes(made, twice, r) \in Nat
        /\ Places(r) = Count(queue, r) + Count(park, r) + Count(hold, r)
                       + MadeTimes(made, twice, r)
        /\ r \in Waiting <=> Count(queue, r) + Count(park, r) + Count(hold, r) > 0
        /\ r \in Range(hold) <=> Count(hold, r) > 0
    BY SoundPlaces
  <2>3. /\ Count(queue', r) = Count(queue, r) /\ Count(park', r) = Count(park, r)
        /\ Count(hold', r) = 0
        /\ MadeTimes(made', twice', r) = MadeTimes(made, twice, r)
    BY <1>1, CountEmpty
  <2> QED BY ONLY <2>1, <2>2, <2>3
<1>7. CountsSound'
  <2>1. ASSUME NEW r \in Requests
        PROVE  /\ r > asked' => Places(r)' = 0
               /\ r <= asked' /\ r \notin excused' => Places(r)' = 1
               /\ Places(r)' > 1 => Failed'
    <3>1. /\ r > asked => Places(r) = 0
          /\ r <= asked /\ r \notin excused => Places(r) = 1
          /\ Places(r) > 1 => Failed
      BY DEF QueueSound, CountsSound
    <3>2. Places(r)' > 1 => Places(r) > 1
      BY <1>6
    <3> QED BY <1>1, <1>3, <1>6, <3>1, <3>2
  <2> QED BY <2>1 DEF CountsSound, Requests
<1>8. StagesSound' /\ RemovalsSound'
  <2>1. Len(<<>>) = 0 /\ Capacity \in Nat
    BY ExtrasAssumption
  <2> QED BY <1>1, <2>1 DEF StagesSound, RemovalsSound
<1>9. StaleSound'
  <2>1. ~Failed => made \cap stale = {} /\ stale \cap Waiting = {}
    BY <1>1, <1>2 DEF StaleSound
  <2>2. ~Failed => stale \cap Waiting' = {}
    BY <1>6, <2>1
  <2> QED BY <1>1, <1>3, <2>1, <2>2 DEF StaleSound
<1> QED BY <1>5, <1>7, <1>8, <1>9 DEF QueueSound

\* A new request is behind what waits.
LEMMA AskSound ==
  ASSUME QueueSound, Ask
  PROVE  QueueSound'
<1> DEFINE x == asked + 1
<1>1. /\ stage = "between" /\ asked < MaxRequests /\ Len(queue) < Capacity
      /\ asked' = asked + 1 /\ queue' = Append(queue, asked + 1)
      /\ UNCHANGED <<removals, stage, park, cursor, hold, carried, cone_off, spawn_off,
                     made, twice, stale, excused>>
  BY DEF Ask, mod, fate
<1>2. /\ TypeOK /\ StagesSound /\ StaleSound /\ excused \in SUBSET (1 .. asked)
      /\ queue \in Seq(Requests) /\ park \in Seq(Requests) /\ hold \in Seq(Requests)
      /\ twice \in SUBSET made /\ asked \in Nat /\ MaxRequests \in Nat
      /\ carried \in 0 .. Len(queue) /\ stale \in SUBSET excused
  BY SoundFacts DEF QueueSound
<1>3. (ConeActive' <=> ConeActive) /\ (SpawnActive' <=> SpawnActive) /\ (Failed' <=> Failed)
  BY <1>1 DEF ConeActive, SpawnActive, Failed
<1>4. x \in Requests /\ x \notin excused
  BY <1>1, <1>2 DEF Requests
<1>5. /\ queue' \in Seq(Requests) /\ Len(queue') = Len(queue) + 1
      /\ \A i \in 1 .. Len(queue) : queue'[i] = queue[i]
  BY <1>1, <1>2, <1>4
<1>6. TypeOK' /\ excused' \subseteq 1 .. asked'
  <2>1. Len(queue') <= Capacity /\ carried' \in 0 .. Len(queue') /\ asked' \in 0 .. MaxRequests
        /\ excused' \subseteq 1 .. asked'
    <3>1. Len(queue) \in Nat /\ Capacity \in Nat
      BY <1>2, ExtrasAssumption
    <3> QED BY <1>1, <1>2, <1>5, <3>1
  <2> QED BY <1>1, <1>2, <1>3, <1>5, <2>1 DEF TypeOK
<1>7. ASSUME NEW r
      PROVE  /\ Places(r) \in Nat /\ Places(r)' = Places(r) + (IF x = r THEN 1 ELSE 0)
             /\ r # x => (r \in Waiting' => r \in Waiting)
  <2>1. /\ Places(r)' = Count(queue', r) + Count(park', r) + Count(hold', r)
                        + MadeTimes(made', twice', r)
        /\ r \in Waiting' <=> Count(queue', r) + Count(park', r) + Count(hold', r) > 0
    <3>1. queue' \in Seq(Requests) /\ park' \in Seq(Requests) /\ hold' \in Seq(Requests)
          /\ twice' \in SUBSET made'
      BY <1>1, <1>2, <1>5
    <3> QED BY <3>1, PlacesNext
  <2>2. /\ Count(queue, r) \in Nat /\ Count(park, r) \in Nat /\ Count(hold, r) \in Nat
        /\ MadeTimes(made, twice, r) \in Nat
        /\ Places(r) = Count(queue, r) + Count(park, r) + Count(hold, r)
                       + MadeTimes(made, twice, r)
        /\ r \in Waiting <=> Count(queue, r) + Count(park, r) + Count(hold, r) > 0
    BY SoundPlaces
  <2>3. /\ Count(park', r) = Count(park, r) /\ Count(hold', r) = Count(hold, r)
        /\ MadeTimes(made', twice', r) = MadeTimes(made, twice, r)
    BY <1>1
  <2>4. Count(queue', r) = Count(queue, r) + (IF x = r THEN 1 ELSE 0)
    BY <1>1, <1>2, <1>4, AppendCount
  <2> HIDE DEF x
  <2> QED BY ONLY <2>1, <2>2, <2>3, <2>4
<1>8. CountsSound'
  <2>1. ASSUME NEW r \in Requests
        PROVE  /\ r > asked' => Places(r)' = 0
               /\ r <= asked' /\ r \notin excused' => Places(r)' = 1
               /\ Places(r)' > 1 => Failed'
    <3>1. /\ r > asked => Places(r) = 0
          /\ r <= asked /\ r \notin excused => Places(r) = 1
          /\ Places(r) > 1 => Failed
      BY DEF QueueSound, CountsSound
    <3>2. r \in Int
      BY DEF Requests
    <3>3. Places(r)' = Places(r) + (IF x = r THEN 1 ELSE 0) /\ Places(r) \in Nat
      BY <1>7
    <3> QED BY <1>1, <1>2, <1>3, <3>1, <3>2, <3>3
  <2> QED BY <2>1 DEF CountsSound, Requests
<1>9. StagesSound'
  BY <1>1, <1>2 DEF StagesSound
<1>10. Exposed' = Exposed
  <2>1. Range(SubSeq(queue, 1, carried)) = {queue[i] : i \in 1 .. carried}
    BY <1>2, FrontRange
  <2>2. Range(SubSeq(queue', 1, carried')) = {queue'[i] : i \in 1 .. carried'}
    <3>1. carried' \in 0 .. Len(queue')
      BY <1>1, <1>2, <1>5
    <3> QED BY <1>5, <3>1, FrontRange
  <2>3. \A i \in 1 .. carried : queue'[i] = queue[i]
    BY <1>2, <1>5
  <2> QED BY <1>1, <2>1, <2>2, <2>3 DEF Exposed
<1>11. RemovalsSound'
  BY <1>1, <1>10 DEF QueueSound, RemovalsSound
<1>12. StaleSound'
  <2>1. \A r \in stale \cap Waiting' : r \in stale \cap Waiting
    BY <1>2, <1>4, <1>7
  <2> QED BY <1>1, <1>2, <1>3, <1>10, <2>1 DEF StaleSound
<1> QED BY <1>6, <1>8, <1>9, <1>11, <1>12 DEF QueueSound

\* A removal makes what waits for the provider stale.
LEMMA RemoveProviderSound ==
  ASSUME QueueSound, NEW p \in AllProviders, RemoveProvider(p)
  PROVE  QueueSound'
<1> DEFINE waits == {r \in Exposed : Provider[r] = p}
<1>1. /\ stage = "between" /\ removals' = removals \cup {p}
      /\ stale' = stale \cup waits /\ excused' = excused \cup waits
      /\ UNCHANGED <<queue, stage, park, cursor, hold, carried, cone_off, spawn_off, asked,
                     made, twice>>
  BY DEF RemoveProvider, mod, Exposed
<1>2. /\ TypeOK /\ StagesSound /\ StaleSound /\ excused \in SUBSET (1 .. asked)
      /\ queue \in Seq(Requests) /\ park \in Seq(Requests) /\ carried \in 0 .. Len(queue)
      /\ Waiting \in SUBSET Requests /\ asked \in Nat
  BY SoundFacts DEF QueueSound
<1>3. /\ ConeActive' <=> ConeActive
      /\ SpawnActive' <=> SpawnActive
      /\ Failed' <=> Failed
      /\ Exposed' = Exposed /\ Waiting' = Waiting
      /\ \A r : Places(r)' = Places(r)
  BY <1>1 DEF ConeActive, SpawnActive, Failed, Exposed, Waiting, Places, Count
<1>4. Exposed \in SUBSET Waiting
  <2>1. Range(SubSeq(queue, 1, carried)) = {queue[i] : i \in 1 .. carried}
    BY <1>2, FrontRange
  <2>2. {queue[i] : i \in 1 .. carried} \subseteq Range(queue)
    BY <1>2 DEF Range
  <2> QED BY <2>1, <2>2 DEF Exposed, Waiting
<1>5. ASSUME NEW r \in Waiting
      PROVE  r \in Requests /\ r \in 1 .. asked /\ (~Failed => r \notin made)
  <2>1. r \in Requests /\ r \in Nat /\ r >= 1
    BY <1>2, ExtrasAssumption DEF Requests
  <2>2. /\ Count(queue, r) \in Nat /\ Count(park, r) \in Nat /\ Count(hold, r) \in Nat
        /\ MadeTimes(made, twice, r) \in Nat
        /\ Places(r) = Count(queue, r) + Count(park, r) + Count(hold, r)
                       + MadeTimes(made, twice, r)
        /\ Count(queue, r) + Count(park, r) + Count(hold, r) > 0
        /\ r \in made <=> MadeTimes(made, twice, r) > 0
        /\ r > asked => Places(r) = 0
        /\ ~Failed => Places(r) <= 1
    BY <2>1, SoundPlaces
  <2> QED BY <1>2, <2>1, <2>2
<1> HIDE DEF waits
<1>6. waits \in SUBSET Waiting /\ \A r \in waits : r \in Exposed /\ Provider[r] = p
  BY <1>4 DEF waits
<1>7. TypeOK' /\ excused' \subseteq 1 .. asked'
  <2>1. stale' \subseteq excused' /\ excused' \subseteq Requests /\ excused' \subseteq 1 .. asked'
    BY <1>1, <1>2, <1>5, <1>6 DEF TypeOK
  <2> QED BY <1>1, <1>2, <1>3, <2>1 DEF TypeOK
<1>8. CountsSound'
  <2>1. ASSUME NEW r \in Requests
        PROVE  /\ r > asked' => Places(r)' = 0
               /\ r <= asked' /\ r \notin excused' => Places(r)' = 1
               /\ Places(r)' > 1 => Failed'
    BY <1>1, <1>3 DEF QueueSound, CountsSound
  <2> QED BY <2>1 DEF CountsSound, Requests
<1>9. StagesSound'
  BY <1>1, <1>2 DEF StagesSound
<1>10. RemovalsSound'
  <2>1. \A r \in Exposed : Provider[r] \in removals => r \in stale
    BY <1>1 DEF QueueSound, RemovalsSound
  <2>2. \A r \in Exposed : Provider[r] = p => r \in waits
    BY DEF waits
  <2> QED BY <1>1, <1>3, <2>1, <2>2 DEF RemovalsSound
<1>11. StaleSound'
  <2>1. ~Failed => /\ made \cap stale = {}
                   /\ \A r \in stale \cap Waiting : r \in Exposed /\ Provider[r] \in removals
    BY <1>1, <1>2 DEF StaleSound
  <2>2. ~Failed => made \cap waits = {}
    BY <1>5, <1>6
  <2>3. ~Failed => \A r \in stale' \cap Waiting : r \in Exposed /\ Provider[r] \in removals'
    BY <1>1, <1>6, <2>1
  <2> QED BY <1>1, <1>3, <2>1, <2>2, <2>3 DEF StaleSound
<1> QED BY <1>7, <1>8, <1>9, <1>10, <1>11 DEF QueueSound

\* gu_x_on_reset: what waited is given up.
LEMMA ResetSound ==
  ASSUME QueueSound, Reset
  PROVE  QueueSound'
<1>1. /\ stage = "between" /\ queue' = <<>> /\ removals' = {}
      /\ park' = <<>> /\ cursor' = 0 /\ hold' = <<>> /\ carried' = 0
      /\ excused' = excused \cup Waiting
      /\ UNCHANGED <<stage, cone_off, spawn_off, asked, made, twice, stale>>
  BY DEF Reset
<1>2. /\ TypeOK /\ StaleSound /\ excused \in SUBSET (1 .. asked)
      /\ Waiting \in SUBSET Requests /\ asked \in Nat /\ twice \in SUBSET made
  BY SoundFacts DEF QueueSound
<1>3. (ConeActive' <=> ConeActive) /\ (SpawnActive' <=> SpawnActive) /\ (Failed' <=> Failed)
  BY <1>1 DEF ConeActive, SpawnActive, Failed
<1>4. Waiting \in SUBSET (1 .. asked)
  <2>1. ASSUME NEW r \in Waiting PROVE r \in 1 .. asked
    <3>1. r \in Requests /\ r \in Nat /\ r >= 1
      BY <1>2, ExtrasAssumption DEF Requests
    <3>2. Places(r) > 0
      BY SoundPlaces
    <3>3. ~(r > asked)
      BY <3>1, <3>2, SoundPlaces
    <3> QED BY <1>2, <3>1, <3>3
  <2> QED BY <2>1
<1>5. /\ <<>> \in Seq(Requests) /\ Len(<<>>) = 0 /\ Capacity \in Nat /\ ParkCap \in Nat
      /\ SpawnMax \in Nat
  BY ExtrasAssumption
<1>6. TypeOK' /\ excused' \subseteq 1 .. asked'
  <2>1. Len(queue') <= Capacity /\ carried' \in 0 .. Len(queue') /\ cursor' \in 0 .. ParkCap
        /\ Len(park') <= ParkCap /\ Len(hold') <= SpawnMax
    BY <1>1, <1>5
  <2>2. stale' \subseteq excused' /\ excused' \subseteq Requests /\ excused' \subseteq 1 .. asked'
    BY <1>1, <1>2, <1>4 DEF TypeOK
  <2> QED BY <1>1, <1>2, <1>3, <1>5, <2>1, <2>2 DEF TypeOK
<1>7. ASSUME NEW r
      PROVE  /\ Places(r)' \in Nat /\ Places(r) \in Nat /\ Places(r)' <= Places(r)
             /\ r \notin Waiting => Places(r)' = Places(r)
             /\ r \notin Waiting'
  <2>1. /\ Places(r)' = Count(queue', r) + Count(park', r) + Count(hold', r)
                        + MadeTimes(made', twice', r)
        /\ r \in Waiting' <=> Count(queue', r) + Count(park', r) + Count(hold', r) > 0
    <3>1. queue' \in Seq(Requests) /\ park' \in Seq(Requests) /\ hold' \in Seq(Requests)
          /\ twice' \in SUBSET made'
      BY <1>1, <1>2, <1>5
    <3> QED BY <3>1, PlacesNext
  <2>2. /\ Count(queue, r) \in Nat /\ Count(park, r) \in Nat /\ Count(hold, r) \in Nat
        /\ MadeTimes(made, twice, r) \in Nat
        /\ Places(r) = Count(queue, r) + Count(park, r) + Count(hold, r)
                       + MadeTimes(made, twice, r)
        /\ r \in Waiting <=> Count(queue, r) + Count(park, r) + Count(hold, r) > 0
    BY SoundPlaces
  <2>3. /\ Count(queue', r) = 0 /\ Count(park', r) = 0 /\ Count(hold', r) = 0
        /\ MadeTimes(made', twice', r) = MadeTimes(made, twice, r)
    BY <1>1, CountEmpty
  <2> QED BY ONLY <2>1, <2>2, <2>3
<1>8. CountsSound'
  <2>1. ASSUME NEW r \in Requests
        PROVE  /\ r > asked' => Places(r)' = 0
               /\ r <= asked' /\ r \notin excused' => Places(r)' = 1
               /\ Places(r)' > 1 => Failed'
    <3>1. /\ r > asked => Places(r) = 0
          /\ r <= asked /\ r \notin excused => Places(r) = 1
          /\ Places(r) > 1 => Failed
      BY DEF QueueSound, CountsSound
    <3>2. /\ Places(r)' > 1 => Places(r) > 1
          /\ Places(r) = 0 => Places(r)' = 0
      BY <1>7
    <3> QED BY <1>1, <1>3, <1>7, <3>1, <3>2
  <2> QED BY <2>1 DEF CountsSound, Requests
<1>9. StagesSound' /\ RemovalsSound'
  BY <1>1, <1>5 DEF StagesSound, RemovalsSound
<1>10. StaleSound'
  <2>1. ~Failed => made \cap stale = {}
    BY <1>2 DEF StaleSound
  <2>2. Waiting' = {}
    BY <1>7
  <2> QED BY <1>1, <1>3, <2>1, <2>2 DEF StaleSound
<1> QED BY <1>6, <1>8, <1>9, <1>10 DEF QueueSound

\* The invariant holds in every state of the generator and its hooks.
LEMMA QueueStepSound ==
  ASSUME QueueSound, [QueueNext]_queue_vars
  PROVE  QueueSound'
<1>1. CASE BeforeStep
  BY <1>1, BeforeQueueSound DEF BeforeStep
<1>2. CASE Make
  BY <1>2, MakeSound
<1>3. CASE AfterQueue
  BY <1>3, AfterQueueSound
<1>4. CASE Fault
  BY <1>4, BeforeFaultSound, AfterFaultSound DEF Fault
<1>5. CASE Ask
  BY <1>5, AskSound
<1>6. CASE \E p \in AllProviders : RemoveProvider(p)
  BY <1>6, RemoveProviderSound
<1>7. CASE Reset
  BY <1>7, ResetSound
<1>8. CASE UNCHANGED queue_vars
  BY <1>8 DEF queue_vars, mod, fate, QueueSound, TypeOK, CountsSound, Places, Count, StagesSound,
              RemovalsSound, Exposed, StaleSound, Waiting, Failed, ConeActive, SpawnActive
<1> QED BY <1>1, <1>2, <1>3, <1>4, <1>5, <1>6, <1>7, <1>8 DEF QueueNext, Update

\* Nothing waits without its feature; no request is lost or doubled unless a
\* hook failed or its provider went, and none is made for a provider that went
\* while it waited: whatever the arrays hold, the cone reaches and the camera
\* shows (gu_extras.c, cone_step, spawn_step and the hooks around the queue).
THEOREM RequestsAccounted == QueueSpec => []ExtrasInv
<1>1. QueueSound => ExtrasInv
  <2>1. ASSUME QueueSound, NEW r \in 1 .. asked
        PROVE  (r \notin excused => Places(r) = 1) /\ (Places(r) > 1 => Failed)
    <3>1. r \in Requests /\ r <= asked
      BY <2>1, SoundFacts DEF Requests
    <3> QED BY <2>1, <3>1 DEF QueueSound, CountsSound
  <2>2. QueueSound => AccountedOnce
    BY <2>1 DEF AccountedOnce
  <2>3. QueueSound => RemovedNeverMade /\ TypeOK
    BY DEF QueueSound, StaleSound, RemovedNeverMade
  <2> QED BY <2>2, <2>3 DEF ExtrasInv
<1>2. QueueInit => QueueSound
  BY QueueInitSound
<1>3. QueueSound /\ [QueueNext]_queue_vars => QueueSound'
  BY QueueStepSound
<1> QED BY <1>1, <1>2, <1>3, PTL DEF QueueSpec

=============================================================================
