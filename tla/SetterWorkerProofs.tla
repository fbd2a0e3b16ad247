------------------------- MODULE SetterWorkerProofs -------------------------
(***************************************************************************)
(* Proofs about the manager's setter: one worker at a time, which tells    *)
(* the engine ever newer pairs and at last the one the manager holds; and  *)
(* an uninstaller that waits for it and gives back the engine's own        *)
(* values; for any number of callers, generations, rounds and distances.   *)
(***************************************************************************)
EXTENDS SetterWorker, TLAPS

Places ==
  {"idle", "postscale", "prebuild", "drain", "set", "look", "token", "claim", "sleep"}
Waiting == {"look", "token", "claim", "sleep"}

\* One worker at a time, with the token; none once disable has returned.
WToken ==
  /\ SingleWorker /\ DisableDrains
  /\ enabled <=> lifecycle = "running"
  /\ shutdown_terminal <=> lifecycle \notin {"install", "running"}
  /\ lifecycle = "install" => generation = 0

\* What the worker was told, what it told the engine and what is reported as
\* applied differ only while it is at it; and the last generation goes with
\* the newest pair.
WGens ==
  /\ applied_generation <= given /\ given <= generation
  /\ ~worker_active => applied_generation = given
  /\ \A c \in Callers : required[c] <= generation
  /\ \A c \in Callers : ~InSetter(c) => mine[c] = 0
  /\ \A c \in Callers : InSetter(c) /\ mine[c] # 0 => mine[c] = given
  /\ \A c \in Callers : InSetter(c) /\ mine[c] = 0 =>
       given = applied_generation /\ given < required[c]
  /\ \A c \in Callers : pc[c] = "set" =>
       /\ given < job[c].gen /\ job[c].gen <= generation /\ calls[c] < MaxCalls
       /\ job[c].gen = generation => job[c].pair = desired
  /\ generation > 0 /\ given = generation /\ enabled => engine = desired

\* Unless a failure is reported the newest generation has somebody who will
\* not leave before it was given to the engine, and the newest pair is what
\* the manager holds or somebody is about to hand on a newer one.
WServed ==
  /\ ~failed /\ given < generation =>
       \E c \in Callers : (InSetter(c) \/ pc[c] \in Waiting) /\ required[c] = generation
  /\ enabled /\ ~failed /\ generation > 0 =>
       \/ manager_key /\ manager = scaled /\ desired = scaled
       \/ \E c \in Callers : pc[c] = "postscale"

\* The manager holds the engine's last far distance or, scaled, the product of
\* what is remembered; and what is remembered is the engine's.
WStock ==
  /\ OriginalsAreStock
  /\ ~manager_key => manager.near = StockNear
  /\ manager_key => scaled = Plan(original)
  /\ IF manager_key /\ manager = scaled THEN original.far = engineFar
                                        ELSE manager.far = engineFar
  /\ lifecycle \in {"resetting", "restored"} => ~manager_key

SWInv == TypeOK /\ WToken /\ WGens /\ WServed /\ WStock

-----------------------------------------------------------------------------
(***************************************************************************)
(* Numbers and plans.                                                      *)
(***************************************************************************)
LEMMA GenerationsAreNumbers ==
  /\ MaxGeneration \in Nat \ {0} /\ MaxCalls \in Nat \ {0} /\ Attempts \in Nat \ {0}
  /\ Gens \subseteq Nat /\ 0 \in Gens
BY SetterAssumption DEF Gens

LEMMA NoPairIsAPair == NoPair \in Pairs
BY SetterAssumption DEF NoPair, Pair, Pairs, Nears, Fars

\* An accepted plan stays in the engine's range, and never looks like a value
\* of the engine's own.
LEMMA PlanSound ==
  ASSUME NEW p \in [near : {StockNear}, far : EngineFars], PlanAccepts(p)
  PROVE  Plan(p) \in Pairs /\ Plan(p).far \notin EngineFars
<1>1. p.near = StockNear /\ p.far \in EngineFars /\ p.far \in Nat /\ Multiplier \in Nat \ {0, 1}
      /\ StockNear \in Nat /\ FarLimit \in Nat
  BY SetterAssumption
<1>2. ASSUME NEW f \in Nat, NEW m \in Nat \ {0, 1}
      PROVE  f * m \in Nat /\ f <= f * m
  BY <1>2
<1>3. p.far * Multiplier \in Nat /\ p.far <= p.far * Multiplier
  BY <1>1, <1>2
<1>4. p.near < p.far /\ p.far * Multiplier <= FarLimit
  BY DEF PlanAccepts
<1> DEFINE f == p.far * Multiplier
<1> HIDE DEF f
<1>5. f - (p.far - p.near) \in 0 .. FarLimit
  BY <1>1, <1>3, <1>4 DEF f
<1>6. f \in Fars /\ f \notin EngineFars
  BY <1>1, SetterAssumption DEF f, Fars
<1>7. Plan(p) = [near |-> f - (p.far - p.near), far |-> f]
  BY DEF Plan, Pair, f
<1> QED BY <1>5, <1>6, <1>7 DEF Pairs, Nears

\* What a hook would scale is the engine's own pair.
LEMMA OriginalIsStock ==
  ASSUME TypeOK, WStock, ~AlreadyScaled
  PROVE  Original \in [near : {StockNear}, far : EngineFars] /\ Original.far = engineFar
<1>1. manager.far = engineFar /\ engineFar \in EngineFars
  BY DEF WStock, AlreadyScaled, TypeOK
<1>2. (IF manager_key THEN original.near ELSE manager.near) = StockNear
  BY DEF WStock, OriginalsAreStock
<1> QED BY <1>1, <1>2 DEF Original, Pair

-----------------------------------------------------------------------------
(***************************************************************************)
(* What several actions have in common.                                    *)
(***************************************************************************)
\* The variables of one caller stay of their types.
LEMMA LeaveTypes ==
  ASSUME TypeOK, NEW c \in Callers, NEW ok \in BOOLEAN, Leave(c, ok)
  PROVE  /\ pc' \in [Callers -> Places] /\ failed' \in BOOLEAN
         /\ required' \in [Callers -> Gens] /\ job' \in [Callers -> [gen : Gens, pair : Pairs]]
         /\ mine' \in [Callers -> Gens] /\ calls' \in [Callers -> 0 .. MaxCalls]
         /\ attempt' \in [Callers -> 0 .. Attempts - 1]
<1>1. [gen |-> 0, pair |-> NoPair] \in [gen : Gens, pair : Pairs]
  BY NoPairIsAPair, GenerationsAreNumbers
<1>2. 0 \in 0 .. MaxCalls /\ 0 \in 0 .. Attempts - 1 /\ 0 \in Gens
  BY GenerationsAreNumbers
<1>3. pc' \in [Callers -> Places] /\ required' \in [Callers -> Gens] /\ mine' \in [Callers -> Gens]
  BY <1>2 DEF Leave, TypeOK, Places
<1>4. job' \in [Callers -> [gen : Gens, pair : Pairs]]
  BY <1>1 DEF Leave, TypeOK
<1>5. calls' \in [Callers -> 0 .. MaxCalls] /\ attempt' \in [Callers -> 0 .. Attempts - 1]
  BY <1>2 DEF Leave, TypeOK
<1>6. failed' \in BOOLEAN
  BY DEF Leave, TypeOK
<1> QED BY <1>3, <1>4, <1>5, <1>6

\* Who leaves keeps nothing, the others everything.
LEMMA LeaveAlone ==
  ASSUME TypeOK, NEW c \in Callers, NEW ok \in BOOLEAN, Leave(c, ok)
  PROVE  /\ pc'[c] = "idle" /\ mine'[c] = 0 /\ required'[c] = 0
         /\ \A d \in Callers \ {c} :
              /\ pc'[d] = pc[d] /\ mine'[d] = mine[d] /\ required'[d] = required[d]
              /\ job'[d] = job[d] /\ calls'[d] = calls[d]
         /\ (failed' = FALSE) <=> (failed = FALSE /\ ok = TRUE)
<1>1. /\ pc'[c] = "idle" /\ mine'[c] = 0 /\ required'[c] = 0
      /\ \A d \in Callers \ {c} :
           /\ pc'[d] = pc[d] /\ mine'[d] = mine[d] /\ required'[d] = required[d]
           /\ job'[d] = job[d] /\ calls'[d] = calls[d]
  BY DEF Leave, TypeOK
<1>2. failed' = (failed \/ ~ok) /\ failed \in BOOLEAN
  BY DEF Leave, TypeOK
<1> QED BY <1>1, <1>2

\* Somebody who is not in the setter leaves: whatever he waited for was given,
\* or a failure is on record.
LEMMA LeaveKeeps ==
  ASSUME SWInv, NEW c \in Callers, NEW ok \in BOOLEAN, Leave(c, ok), ~InSetter(c),
         ok = FALSE \/ required[c] <= given \/ pc[c] \notin Waiting,
         ok = FALSE \/ pc[c] # "postscale",
         UNCHANGED <<flags, token, queue, applied_generation, record, manager, lifecycle, told,
                     engineFar>>
  PROVE  SWInv'
<1> USE DEF SWInv
<1>1. UNCHANGED <<enabled, shutdown_terminal, worker_active, idle_event, generation, desired,
                  applied_generation, manager_key, original, scaled, manager, lifecycle,
                  engine, given, engineFar>>
  BY DEF flags, token, queue, record, told
<1>2. TypeOK'
  BY <1>1, LeaveTypes DEF TypeOK, Places
<1>3. ~InSetter(c)' /\ \A d \in Callers \ {c} : InSetter(d)' <=> InSetter(d)
  BY LeaveAlone DEF InSetter
<1>4. WToken'
  <2>1. (\E d \in Callers : InSetter(d)') <=> \E d \in Callers : InSetter(d)
    BY <1>3
  <2> QED BY <1>1, <1>3, <2>1 DEF WToken, SingleWorker, DisableDrains
<1>5. WGens'
  <2>1. required'[c] <= generation'
    <3>1. generation \in Nat
      BY GenerationsAreNumbers DEF TypeOK
    <3>2. required'[c] = 0
      BY LeaveAlone
    <3> QED BY <1>1, <3>1, <3>2
  <2> QED BY <1>1, <1>3, <2>1, LeaveAlone DEF WGens, InSetter
<1>6. WServed'
  <2>1. ASSUME failed' = FALSE, given < generation
        PROVE  \E d \in Callers : (InSetter(d)' \/ pc'[d] \in Waiting) /\ required'[d] = generation
    <3>1. failed = FALSE /\ ok = TRUE
      BY <2>1, LeaveAlone
    <3>2. PICK d \in Callers : (InSetter(d) \/ pc[d] \in Waiting) /\ required[d] = generation
      BY <2>1, <3>1 DEF WServed
    <3>3. d # c
      BY <2>1, <3>1, <3>2, GenerationsAreNumbers DEF TypeOK
    <3> QED BY <1>3, <3>2, <3>3, LeaveAlone
  <2>2. ASSUME failed' = FALSE, enabled, generation > 0
        PROVE  \/ manager_key /\ manager = scaled /\ desired = scaled
               \/ \E d \in Callers : pc'[d] = "postscale"
    <3>1. failed = FALSE /\ ok = TRUE
      BY <2>2, LeaveAlone
    <3> QED BY <2>2, <3>1, LeaveAlone DEF WServed
  <2>3. failed' \in BOOLEAN
    BY <1>2 DEF TypeOK
  <2> QED BY <1>1, <2>1, <2>2, <2>3 DEF WServed
<1>7. WStock'
  BY <1>1 DEF WStock, OriginalsAreStock, Plan, Pair
<1> QED BY <1>2, <1>4, <1>5, <1>6, <1>7

\* Somebody moves on without touching anything of the others'.
LEMMA MoveKeeps ==
  ASSUME SWInv, NEW c \in Callers, NEW at \in Places, pc' = [pc EXCEPT ![c] = at],
         pc[c] \in Waiting => at \in Waiting,
         ~InSetter(c), at \notin {"drain", "set"}, pc[c] # "postscale",
         UNCHANGED <<flags, token, queue, applied_generation, record, manager, lifecycle, told,
                     engineFar, failed, required, drainer>>,
         attempt' \in [Callers -> 0 .. Attempts - 1]
  PROVE  SWInv'
<1> USE DEF SWInv
<1>1. UNCHANGED <<enabled, shutdown_terminal, worker_active, idle_event, generation, desired,
                  applied_generation, manager_key, original, scaled, manager, lifecycle,
                  engine, given, engineFar, failed, required, job, mine, calls>>
  BY DEF flags, token, queue, record, told, drainer
<1>2. pc' \in [Callers -> Places] /\ pc'[c] = at /\ \A d \in Callers \ {c} : pc'[d] = pc[d]
  BY DEF TypeOK, Places
<1>3. TypeOK'
  BY <1>1, <1>2 DEF TypeOK, Places
<1>4. \A d \in Callers : InSetter(d)' <=> InSetter(d)
  BY <1>2 DEF InSetter
<1>5. WToken'
  BY <1>1, <1>4 DEF WToken, SingleWorker, DisableDrains
<1>6. WGens'
  BY <1>1, <1>2, <1>4 DEF WGens, InSetter
<1>7. WServed'
  BY <1>1, <1>2, <1>4 DEF WServed, Waiting
<1>8. WStock'
  BY <1>1 DEF WStock, OriginalsAreStock, Plan, Pair
<1> QED BY <1>3, <1>5, <1>6, <1>7, <1>8

\* The token is taken by somebody whose generation was not given yet.
LEMMA TakenToken ==
  ASSUME SWInv, NEW c \in Callers, ~InSetter(c), ~worker_active, enabled,
         pc' = [pc EXCEPT ![c] = "drain"], TakeToken
  PROVE  /\ \A d \in Callers : InSetter(d)' <=> d = c
         /\ \A d \in Callers \ {c} : pc'[d] = pc[d]
         /\ mine[c] = 0 /\ applied_generation = given /\ pc' \in [Callers -> Places]
         /\ worker_active' /\ ~idle_event' /\ worker_active' \in BOOLEAN /\ idle_event' \in BOOLEAN
<1>1. \A d \in Callers : ~InSetter(d)
  BY DEF SWInv, WToken, SingleWorker
<1>2. \A d \in Callers \ {c} : pc'[d] = pc[d]
  BY DEF SWInv, TypeOK
<1>3. pc'[c] = "drain"
  BY DEF SWInv, TypeOK
<1>4. \A d \in Callers : InSetter(d)' <=> d = c
  BY <1>1, <1>2, <1>3 DEF InSetter
<1>5. worker_active' = TRUE /\ idle_event' = FALSE
  BY DEF TakeToken
<1> QED BY <1>1, <1>2, <1>4, <1>5 DEF SWInv, WGens, TypeOK, Places

\* A new generation, with its pair in the manager: whoever asked waits for the
\* worker or becomes it.
LEMMA ScheduleKeeps ==
  ASSUME SWInv, NEW c \in Callers, NEW p \in Pairs, pc[c] = "postscale", enabled, Schedulable,
         Schedule(c, p), manager_key', manager' = p, scaled' = p,
         manager_key' \in BOOLEAN, original' \in Pairs,
         WStock', UNCHANGED <<flags, applied_generation, lifecycle, told, engineFar>>
  PROVE  SWInv'
<1> USE DEF SWInv
<1>1. UNCHANGED <<enabled, shutdown_terminal, applied_generation, lifecycle, engine, given,
                  engineFar, failed, job, mine, calls, attempt>>
      /\ desired' = p /\ generation' = generation + 1
      /\ required' = [required EXCEPT ![c] = generation + 1]
  BY DEF flags, told, drainer, Schedule
<1>2. generation \in Nat /\ generation' \in Gens /\ given \in Nat /\ given <= generation
  BY GenerationsAreNumbers, <1>1 DEF TypeOK, Gens, Schedulable, WGens
<1>3. /\ required' \in [Callers -> Gens] /\ required'[c] = generation + 1
      /\ \A d \in Callers \ {c} : required'[d] = required[d]
  BY <1>1, <1>2 DEF TypeOK
<1>4. PICK at \in {"look", "drain"} :
        /\ pc' = [pc EXCEPT ![c] = at]
        /\ IF worker_active THEN at = "look" /\ UNCHANGED token ELSE at = "drain" /\ TakeToken
  BY DEF Schedule
<1>5. /\ pc' \in [Callers -> Places] /\ pc'[c] = at /\ \A d \in Callers \ {c} : pc'[d] = pc[d]
      /\ ~InSetter(c)
  BY <1>4 DEF TypeOK, Places, InSetter
<1>6. CASE worker_active
  <2>1. at = "look" /\ UNCHANGED <<worker_active, idle_event>>
    BY <1>4, <1>6 DEF token
  <2>2. \A d \in Callers : InSetter(d)' <=> InSetter(d)
    BY <1>5, <2>1 DEF InSetter
  <2>3. TypeOK'
    BY <1>1, <1>2, <1>3, <1>5, <2>1 DEF TypeOK, Places
  <2>4. WToken'
    BY <1>1, <1>2, <2>1, <2>2 DEF WToken, SingleWorker, DisableDrains
  <2>5. \A d \in Callers : required'[d] <= generation'
    <3>1. \A d \in Callers : required[d] \in Nat /\ required[d] <= generation
      BY GenerationsAreNumbers DEF WGens, TypeOK
    <3>2. \A d \in Callers \ {c} : required'[d] <= generation + 1
      BY <1>2, <1>3, <3>1
    <3> QED BY <1>1, <1>2, <1>3, <3>2
  <2>6. \A d \in Callers : pc'[d] = "set" => pc[d] = "set" /\ job[d].gen \in Nat
    BY <1>5, <2>1, GenerationsAreNumbers DEF TypeOK
  <2>7. \A d \in Callers : pc'[d] = "set" =>
          /\ given < job[d].gen /\ job[d].gen <= generation' /\ calls[d] < MaxCalls
          /\ job[d].gen # generation'
    BY <1>1, <1>2, <2>6 DEF WGens
  <2>8. \A d \in Callers : InSetter(d)' /\ mine[d] = 0 =>
          given = applied_generation /\ given < required'[d]
    BY <1>3, <1>5, <2>1, <2>2 DEF WGens
  <2>9. given <= generation' /\ given # generation'
    BY <1>1, <1>2
  <2>10. WGens'
    BY <1>1, <2>1, <2>2, <2>5, <2>7, <2>8, <2>9 DEF WGens
  <2>11. WServed'
    BY <1>1, <1>3, <1>5, <2>1 DEF WServed, Waiting
  <2> QED BY <2>3, <2>4, <2>10, <2>11
<1>7. CASE ~worker_active
  <2>1. at = "drain" /\ TakeToken
    BY <1>4, <1>7
  <2>2. /\ \A d \in Callers : InSetter(d)' <=> d = c
        /\ mine[c] = 0 /\ applied_generation = given
        /\ worker_active' /\ ~idle_event' /\ worker_active' \in BOOLEAN /\ idle_event' \in BOOLEAN
    BY <1>4, <1>5, <1>7, <2>1, TakenToken
  <2>3. TypeOK'
    BY <1>1, <1>2, <1>3, <1>5, <2>2 DEF TypeOK, Places
  <2>4. WToken'
    BY <1>1, <2>2 DEF WToken, SingleWorker, DisableDrains
  <2>5. \A d \in Callers : required'[d] <= generation'
    <3>1. \A d \in Callers : required[d] \in Nat /\ required[d] <= generation
      BY GenerationsAreNumbers DEF WGens, TypeOK
    <3>2. \A d \in Callers \ {c} : required'[d] <= generation + 1
      BY <1>2, <1>3, <3>1
    <3> QED BY <1>1, <1>2, <1>3, <3>2
  <2>6. \A d \in Callers : pc'[d] # "set"
    BY <2>1, <2>2, <1>5 DEF InSetter
  <2>7. given <= generation' /\ given # generation' /\ given < required'[c]
    BY <1>1, <1>2, <1>3
  <2>8. \A d \in Callers : ~InSetter(d)' => mine[d] = 0
    BY <1>5, <1>7, <2>2 DEF WGens, WToken, SingleWorker
  <2>9. WGens'
    BY <1>1, <2>2, <2>5, <2>6, <2>7, <2>8 DEF WGens
  <2>10. WServed'
    BY <1>1, <1>3, <2>2 DEF WServed, Waiting
  <2> QED BY <2>3, <2>4, <2>9, <2>10
<1> QED BY <1>6, <1>7

-----------------------------------------------------------------------------
(***************************************************************************)
(* The hooks.                                                              *)
(***************************************************************************)
LEMMA RewriteKeeps ==
  ASSUME SWInv, NEW c \in Callers, NEW f \in EngineFars, Rewrite(c, f)
  PROVE  SWInv'
<1> USE DEF SWInv
<1>1. /\ UNCHANGED <<enabled, shutdown_terminal, worker_active, idle_event, generation, desired,
                     applied_generation, manager_key, original, scaled, lifecycle, engine, given,
                     failed, required, attempt, job, mine, calls>>
      /\ pc[c] = "idle" /\ manager' = [manager EXCEPT !.far = f] /\ engineFar' = f
      /\ pc' = [pc EXCEPT ![c] = "postscale"]
  BY DEF Rewrite, flags, token, queue, record, told, waiter, drainer
<1>2. /\ pc' \in [Callers -> Places] /\ pc'[c] = "postscale"
      /\ \A d \in Callers \ {c} : pc'[d] = pc[d]
  BY <1>1 DEF TypeOK, Places
<1>3. manager' \in Pairs /\ manager'.near = manager.near /\ manager'.far = f
  BY <1>1 DEF TypeOK, Pairs, Fars
<1>4. TypeOK'
  BY <1>1, <1>2, <1>3 DEF TypeOK, Places
<1>5. \A d \in Callers : InSetter(d)' <=> InSetter(d)
  BY <1>1, <1>2 DEF InSetter
<1>6. WToken'
  BY <1>1, <1>5 DEF WToken, SingleWorker, DisableDrains
<1>7. WGens'
  BY <1>1, <1>2, <1>5 DEF WGens, InSetter
<1>8. WServed'
  BY <1>1, <1>2, <1>5 DEF WServed, Waiting
<1>9. WStock'
  <2>1. manager_key => scaled.far = original.far * Multiplier /\ original.far \in EngineFars
    BY DEF WStock, OriginalsAreStock, Plan, Pair
  <2>2. manager_key => scaled.far # f
    BY <2>1, SetterAssumption
  <2>3. manager_key => manager' # scaled
    BY <1>3, <2>2
  <2> QED BY <1>1, <1>3, <2>3 DEF WStock, OriginalsAreStock, Plan, Pair
<1> QED BY <1>4, <1>6, <1>7, <1>8, <1>9

LEMMA RebuildKeeps ==
  ASSUME SWInv, NEW c \in Callers, Rebuild(c)
  PROVE  SWInv'
<1>1. /\ pc[c] = "idle" /\ pc' = [pc EXCEPT ![c] = "prebuild"]
      /\ UNCHANGED <<flags, token, queue, applied_generation, record, manager, lifecycle, told,
                     engineFar, failed, required, drainer>>
      /\ attempt' \in [Callers -> 0 .. Attempts - 1]
  BY DEF Rebuild, waiter, SWInv, TypeOK
<1> QED BY <1>1, MoveKeeps DEF Places, Waiting, InSetter

LEMMA ScaleRefusedKeeps ==
  ASSUME SWInv, NEW c \in Callers, ScaleRefused(c)
  PROVE  SWInv'
<1>1. ~InSetter(c)
  BY DEF ScaleRefused, InHook, InSetter
<1> QED BY <1>1, LeaveKeeps DEF ScaleRefused

LEMMA ScaleKeptKeeps ==
  ASSUME SWInv, NEW c \in Callers, ScaleKept(c)
  PROVE  SWInv'
<1>1. ~InSetter(c) /\ pc[c] \notin Waiting /\ enabled /\ manager_key /\ manager = scaled
  BY DEF ScaleKept, InHook, InSetter, Waiting, AlreadyScaled
<1>2. UNCHANGED <<flags, applied_generation, record, manager, lifecycle, told, engineFar>>
  BY DEF ScaleKept
<1>3. CASE pc[c] = "postscale"
  <2>1. Schedulable /\ Schedule(c, scaled)
    BY <1>3 DEF ScaleKept
  <2>2. /\ manager_key' /\ manager_key' \in BOOLEAN /\ manager' = scaled /\ scaled' = scaled
        /\ original' \in Pairs /\ scaled \in Pairs
    BY <1>1, <1>2 DEF record, SWInv, TypeOK
  <2>3. WStock'
    BY <1>2 DEF record, SWInv, WStock, OriginalsAreStock, Plan, Pair
  <2> QED BY <1>1, <1>2, <1>3, <2>1, <2>2, <2>3, ScheduleKeeps
<1>4. CASE pc[c] = "prebuild"
  BY <1>1, <1>2, <1>4, LeaveKeeps DEF ScaleKept
<1> QED BY <1>3, <1>4 DEF ScaleKept, InHook

\* A newly scaled manager: the plan of the engine's own pair, which is what is
\* remembered.
LEMMA ScaleWriteKeeps ==
  ASSUME SWInv, NEW c \in Callers, ScaleWrite(c)
  PROVE  SWInv'
<1> USE DEF SWInv
<1>1. ~InSetter(c) /\ pc[c] \notin Waiting /\ enabled /\ ~AlreadyScaled /\ PlanAccepts(Original)
  BY DEF ScaleWrite, InHook, InSetter, Waiting
<1>2. /\ UNCHANGED <<enabled, shutdown_terminal, applied_generation, lifecycle, engine, given,
                     engineFar>>
      /\ original' = Original /\ scaled' = Plan(Original) /\ manager' = Plan(Original)
      /\ manager_key' = TRUE
  BY DEF ScaleWrite, flags, told
<1>3. Original \in [near : {StockNear}, far : EngineFars] /\ Original.far = engineFar
  BY <1>1, OriginalIsStock
<1>4. Original \in Pairs /\ Plan(Original) \in Pairs
  BY <1>1, <1>3, PlanSound DEF Pairs, Nears, Fars
<1>5. manager_key' /\ manager_key' \in BOOLEAN /\ original' \in Pairs /\ manager' = scaled'
  BY <1>2, <1>4
<1>6. WStock'
  <2>1. original'.near = StockNear /\ original'.far = engineFar /\ original'.far \in EngineFars
    BY <1>2, <1>3
  <2>2. scaled' = Plan(original')
    BY <1>2
  <2>3. lifecycle' \notin {"resetting", "restored"}
    BY <1>1, <1>2 DEF WToken
  <2> QED BY <1>2, <1>5, <2>1, <2>2, <2>3 DEF WStock, OriginalsAreStock, Plan, Pair
<1>7. CASE pc[c] = "postscale"
  <2>1. Schedulable /\ Schedule(c, Plan(Original))
    BY <1>7 DEF ScaleWrite
  <2>2. UNCHANGED <<flags, applied_generation, lifecycle, told, engineFar>>
    BY DEF ScaleWrite
  <2> QED BY <1>1, <1>2, <1>4, <1>5, <1>6, <1>7, <2>1, <2>2, ScheduleKeeps
<1>8. CASE pc[c] = "prebuild"
  <2>1. Leave(c, TRUE) /\ UNCHANGED <<worker_active, idle_event, generation, desired>>
    BY <1>8 DEF ScaleWrite, token, queue
  <2>2. TypeOK'
    BY <1>2, <1>4, <1>5, <2>1, LeaveTypes DEF TypeOK, Places
  <2>3. ~InSetter(c)' /\ \A d \in Callers \ {c} : InSetter(d)' <=> InSetter(d)
    BY <2>1, LeaveAlone DEF InSetter
  <2>4. WToken'
    <3>1. (\E d \in Callers : InSetter(d)') <=> \E d \in Callers : InSetter(d)
      BY <1>1, <2>3
    <3> QED BY <1>1, <1>2, <2>1, <2>3, <3>1 DEF WToken, SingleWorker, DisableDrains
  <2>5. WGens'
    <3>1. required'[c] <= generation'
      <4>1. generation \in Nat
        BY GenerationsAreNumbers DEF TypeOK
      <4>2. required'[c] = 0
        BY <2>1, LeaveAlone
      <4> QED BY <2>1, <4>1, <4>2
    <3> QED BY <1>1, <1>2, <2>1, <2>3, <3>1, LeaveAlone DEF WGens, InSetter
  <2>6. WServed'
    <3>1. failed' = failed
      BY <2>1 DEF Leave, TypeOK
    <3>2. ASSUME ~failed, given < generation
          PROVE  \E d \in Callers : (InSetter(d)' \/ pc'[d] \in Waiting) /\ required'[d] = generation
      <4>1. PICK d \in Callers : (InSetter(d) \/ pc[d] \in Waiting) /\ required[d] = generation
        BY <3>2 DEF WServed
      <4>2. d # c
        BY <1>1, <4>1
      <4> QED BY <2>1, <2>3, <4>1, <4>2, LeaveAlone
    <3>3. ASSUME ~failed, generation > 0
          PROVE  \E d \in Callers : pc'[d] = "postscale"
      <4>1. PICK d \in Callers : pc[d] = "postscale"
        BY <1>1, <3>3 DEF WServed, AlreadyScaled
      <4> QED BY <1>8, <2>1, <4>1, LeaveAlone
    <3> QED BY <1>2, <2>1, <3>1, <3>2, <3>3 DEF WServed
  <2> QED BY <1>6, <2>2, <2>4, <2>5, <2>6
<1> QED BY <1>7, <1>8 DEF ScaleWrite, InHook

-----------------------------------------------------------------------------
(***************************************************************************)
(* The worker.                                                             *)
(***************************************************************************)
\* The worker leaves: what it gave is published, and the token is free.
LEMMA DrainStopKeeps ==
  ASSUME SWInv, NEW c \in Callers, DrainStop(c)
  PROVE  SWInv'
<1> USE DEF SWInv
<1>1. /\ UNCHANGED <<enabled, shutdown_terminal, generation, desired, manager_key, original,
                     scaled, manager, lifecycle, engine, given, engineFar>>
      /\ pc[c] = "drain" /\ worker_active' = FALSE /\ idle_event' = TRUE
      /\ applied_generation' = PublishedApplied(c)
  BY DEF DrainStop, ReleaseToken, flags, queue, record, told
<1> DEFINE ok == mine[c] >= required[c]
<1>2. ok \in BOOLEAN /\ Leave(c, ok)
  BY DEF DrainStop
<1> HIDE DEF ok
<1>3. InSetter(c) /\ \A d \in Callers \ {c} : ~InSetter(d)
  BY <1>1 DEF InSetter, WToken, SingleWorker
<1>4. \A d \in Callers : ~InSetter(d)'
  BY <1>2, <1>3, LeaveAlone DEF InSetter
<1>5. applied_generation' = given
  BY <1>1, <1>3 DEF WGens, PublishedApplied
<1>6. TypeOK'
  <2>1. worker_active' \in BOOLEAN /\ idle_event' \in BOOLEAN
    BY <1>1
  <2> QED BY <1>1, <1>2, <1>5, <2>1, LeaveTypes DEF TypeOK, Places
<1>7. WToken'
  BY <1>1, <1>4 DEF WToken, SingleWorker, DisableDrains
<1>8. WGens'
  <2>1. generation \in Nat /\ given \in Nat
    BY GenerationsAreNumbers DEF TypeOK
  <2>2. \A d \in Callers : required'[d] <= generation' /\ mine'[d] = 0 /\ pc'[d] # "set"
    <3>1. required'[c] = 0 /\ mine'[c] = 0 /\ pc'[c] = "idle"
      BY <1>2, LeaveAlone
    <3>2. \A d \in Callers \ {c} : required'[d] <= generation /\ mine'[d] = 0 /\ pc'[d] # "set"
      BY <1>2, <1>3, LeaveAlone DEF WGens, InSetter
    <3> QED BY <1>1, <2>1, <3>1, <3>2
  <2> QED BY <1>1, <1>4, <1>5, <2>1, <2>2 DEF WGens
<1>9. WServed'
  <2>1. ASSUME failed' = FALSE, given < generation
        PROVE  \E d \in Callers : (InSetter(d)' \/ pc'[d] \in Waiting) /\ required'[d] = generation
    <3>1. failed = FALSE /\ ok = TRUE
      BY <1>2, <2>1, LeaveAlone
    <3>2. PICK d \in Callers : (InSetter(d) \/ pc[d] \in Waiting) /\ required[d] = generation
      BY <2>1, <3>1 DEF WServed
    <3>3. mine[c] >= required[c]
      BY <3>1 DEF ok
    <3>4. mine[c] \in Nat /\ required[c] \in Nat /\ given \in Nat /\ generation \in Nat
      BY GenerationsAreNumbers DEF TypeOK
    <3>5. d # c
      <4>1. CASE mine[c] = 0
        BY <1>3, <3>3, <3>4, <4>1 DEF WGens
      <4>2. CASE mine[c] # 0
        BY <1>3, <2>1, <3>2, <3>3, <3>4, <4>2 DEF WGens
      <4> QED BY <4>1, <4>2
    <3>6. pc[d] \in Waiting
      BY <1>3, <3>2, <3>5
    <3> QED BY <1>2, <3>2, <3>5, <3>6, LeaveAlone
  <2>2. ASSUME failed' = FALSE, enabled, generation > 0
        PROVE  \/ manager_key /\ manager = scaled /\ desired = scaled
               \/ \E d \in Callers : pc'[d] = "postscale"
    <3>1. failed = FALSE
      BY <1>2, <2>2, LeaveAlone
    <3> QED BY <1>1, <1>2, <2>2, <3>1, LeaveAlone DEF WServed
  <2>3. failed' \in BOOLEAN
    BY <1>6 DEF TypeOK
  <2> QED BY <1>1, <2>1, <2>2, <2>3 DEF WServed
<1>10. WStock'
  BY <1>1 DEF WStock, OriginalsAreStock, Plan, Pair
<1> QED BY <1>6, <1>7, <1>8, <1>9, <1>10

\* It reads a generation the engine was not told yet, and its pair.
LEMMA DrainNextKeeps ==
  ASSUME SWInv, NEW c \in Callers, DrainNext(c)
  PROVE  SWInv'
<1> USE DEF SWInv
<1>1. /\ UNCHANGED <<enabled, shutdown_terminal, worker_active, idle_event, generation, desired,
                     manager_key, original, scaled, manager, lifecycle, engine, given, engineFar,
                     failed, required, attempt, mine, calls>>
      /\ pc[c] = "drain" /\ applied_generation' = PublishedApplied(c)
      /\ job' = [job EXCEPT ![c] = [gen |-> generation, pair |-> desired]]
      /\ pc' = [pc EXCEPT ![c] = "set"]
      /\ generation # mine[c] /\ calls[c] < MaxCalls
  <2>1. ~Drained(c) /\ MaxCalls \in Nat /\ calls[c] \in Nat
    BY GenerationsAreNumbers DEF DrainNext, TypeOK
  <2> QED BY <2>1 DEF DrainNext, Drained, flags, token, queue, record, told, waiter
<1>2. InSetter(c) /\ \A d \in Callers \ {c} : ~InSetter(d)
  BY <1>1 DEF InSetter, WToken, SingleWorker
<1>3. /\ pc' \in [Callers -> Places] /\ pc'[c] = "set" /\ \A d \in Callers \ {c} : pc'[d] = pc[d]
  BY <1>1 DEF TypeOK, Places
<1>4. /\ job' \in [Callers -> [gen : Gens, pair : Pairs]]
      /\ job'[c] = [gen |-> generation, pair |-> desired]
  BY <1>1 DEF TypeOK
<1>5. \A d \in Callers : InSetter(d)' <=> InSetter(d)
  BY <1>1, <1>3 DEF InSetter
<1>6. applied_generation' = given
  BY <1>1, <1>2 DEF WGens, PublishedApplied
<1>7. TypeOK'
  BY <1>1, <1>3, <1>4, <1>6 DEF TypeOK, Places
<1>8. WToken'
  BY <1>1, <1>5 DEF WToken, SingleWorker, DisableDrains
<1>9. WGens'
  <2>1. generation \in Nat /\ given \in Nat /\ required[c] \in Nat
    BY GenerationsAreNumbers DEF TypeOK
  <2>2. given < generation
    <3>1. CASE mine[c] = 0
      BY <1>2, <2>1, <3>1 DEF WGens
    <3>2. CASE mine[c] # 0
      BY <1>1, <1>2, <2>1, <3>2 DEF WGens
    <3> QED BY <3>1, <3>2
  <2>3. \A d \in Callers : pc'[d] = "set" => d = c
    BY <1>2, <1>3 DEF InSetter
  <2>4. job'[c].gen = generation /\ job'[c].pair = desired
    BY <1>4
  <2> QED BY <1>1, <1>2, <1>5, <1>6, <2>1, <2>2, <2>3, <2>4 DEF WGens
<1>10. WServed'
  BY <1>1, <1>2, <1>3, <1>5 DEF WServed, Waiting
<1>11. WStock'
  BY <1>1 DEF WStock, OriginalsAreStock, Plan, Pair
<1> QED BY <1>7, <1>8, <1>9, <1>10, <1>11

\* The engine was told.
LEMMA SetterReturnsKeeps ==
  ASSUME SWInv, NEW c \in Callers, SetterReturns(c)
  PROVE  SWInv'
<1> USE DEF SWInv
<1>1. /\ UNCHANGED <<enabled, shutdown_terminal, worker_active, idle_event, generation, desired,
                     applied_generation, manager_key, original, scaled, manager, lifecycle,
                     engineFar, failed, required, attempt, job>>
      /\ pc[c] = "set" /\ engine' = job[c].pair /\ given' = job[c].gen
      /\ mine' = [mine EXCEPT ![c] = job[c].gen] /\ calls' = [calls EXCEPT ![c] = calls[c] + 1]
      /\ pc' = [pc EXCEPT ![c] = "drain"]
  BY DEF SetterReturns, flags, token, queue, record, waiter
<1>2. InSetter(c) /\ \A d \in Callers \ {c} : ~InSetter(d)
  BY <1>1 DEF InSetter, WToken, SingleWorker
<1>3. /\ pc' \in [Callers -> Places] /\ pc'[c] = "drain" /\ \A d \in Callers \ {c} : pc'[d] = pc[d]
  BY <1>1 DEF TypeOK, Places
<1>4. /\ mine' \in [Callers -> Gens] /\ mine'[c] = job[c].gen /\ job[c].gen \in Gens
      /\ job[c].pair \in Pairs /\ \A d \in Callers \ {c} : mine'[d] = mine[d]
  BY <1>1 DEF TypeOK
<1>5. calls' \in [Callers -> 0 .. MaxCalls]
  <2>1. calls[c] \in 0 .. MaxCalls /\ calls[c] < MaxCalls /\ MaxCalls \in Nat
    BY <1>1, GenerationsAreNumbers DEF TypeOK, WGens
  <2>2. calls[c] + 1 \in 0 .. MaxCalls
    BY <2>1
  <2> QED BY <1>1, <2>2 DEF TypeOK
<1>6. \A d \in Callers : InSetter(d)' <=> InSetter(d)
  BY <1>1, <1>3 DEF InSetter
<1>7. TypeOK'
  BY <1>1, <1>3, <1>4, <1>5 DEF TypeOK, Places
<1>8. WToken'
  BY <1>1, <1>6 DEF WToken, SingleWorker, DisableDrains
<1>9. given \in Nat /\ generation \in Nat /\ job[c].gen \in Nat /\ given < job[c].gen
      /\ job[c].gen <= generation /\ applied_generation \in Nat
  BY <1>1, <1>4, GenerationsAreNumbers DEF TypeOK, WGens
<1>10. WGens'
  <2>1. \A d \in Callers : pc'[d] # "set"
    BY <1>2, <1>3 DEF InSetter
  <2>2. applied_generation' <= given' /\ given' <= generation' /\ mine'[c] # 0
    BY <1>1, <1>4, <1>9 DEF WGens
  <2>3. worker_active'
    BY <1>1, <1>2 DEF WToken, SingleWorker
  <2>4. generation' > 0 /\ given' = generation' /\ enabled' => engine' = desired'
    BY <1>1 DEF WGens
  <2> QED BY <1>1, <1>2, <1>4, <1>6, <2>1, <2>2, <2>3, <2>4 DEF WGens
<1>11. WServed'
  <2>1. given' < generation' => given < generation
    BY <1>1, <1>9
  <2> QED BY <1>1, <1>2, <1>3, <1>6, <2>1 DEF WServed, Waiting
<1>12. WStock'
  BY <1>1 DEF WStock, OriginalsAreStock, Plan, Pair
<1> QED BY <1>7, <1>8, <1>10, <1>11, <1>12

-----------------------------------------------------------------------------
(***************************************************************************)
(* Those that wait for the worker.                                         *)
(***************************************************************************)
LEMMA WaitKeeps ==
  ASSUME SWInv, NEW c \in Callers,
         WaitDone(c) \/ WaitLook(c) \/ WaitToken(c) \/ WaitAgain(c)
  PROVE  SWInv'
<1>1. pc[c] \in Waiting /\ ~InSetter(c) /\ pc[c] # "postscale"
  BY DEF WaitDone, WaitLook, WaitToken, WaitAgain, Waiting, InSetter
<1>2. attempt \in [Callers -> 0 .. Attempts - 1]
  BY DEF SWInv, TypeOK
<1>3. CASE WaitDone(c)
  <2>1. required[c] <= given
    <3>1. required[c] \in Nat /\ applied_generation \in Nat /\ given \in Nat
      BY GenerationsAreNumbers DEF SWInv, TypeOK
    <3> QED BY <1>3, <3>1 DEF WaitDone, Reached, SWInv, WGens
  <2> QED BY <1>1, <1>3, <2>1, LeaveKeeps DEF WaitDone
<1>4. CASE WaitLook(c)
  <2>1. /\ pc' = [pc EXCEPT ![c] = "token"] /\ UNCHANGED attempt
        /\ UNCHANGED <<flags, token, queue, applied_generation, record, manager, lifecycle, told,
                       engineFar, failed, required, drainer>>
    BY <1>4 DEF WaitLook, waiter
  <2> QED BY <1>1, <1>2, <2>1, MoveKeeps DEF Places, Waiting
<1>5. CASE WaitToken(c)
  <2>1. PICK at \in {"sleep", "claim"} : pc' = [pc EXCEPT ![c] = at]
    BY <1>5 DEF WaitToken
  <2>2. UNCHANGED attempt
        /\ UNCHANGED <<flags, token, queue, applied_generation, record, manager, lifecycle, told,
                       engineFar, failed, required, drainer>>
    BY <1>5 DEF WaitToken, waiter
  <2> QED BY <1>1, <1>2, <2>1, <2>2, MoveKeeps DEF Places, Waiting
<1>6. CASE WaitAgain(c)
  <2>1. UNCHANGED <<flags, token, queue, applied_generation, record, manager, lifecycle, told,
                    engineFar>>
    BY <1>6 DEF WaitAgain
  <2>2. CASE /\ attempt[c] + 1 < Attempts /\ attempt' = [attempt EXCEPT ![c] = attempt[c] + 1]
             /\ pc' = [pc EXCEPT ![c] = "look"]
             /\ UNCHANGED <<failed, required, drainer>>
    <3>1. attempt[c] + 1 \in 0 .. Attempts - 1
      <4>1. attempt[c] \in 0 .. Attempts - 1 /\ Attempts \in Nat
        BY <1>2, GenerationsAreNumbers
      <4> QED BY <2>2, <4>1
    <3>2. attempt' \in [Callers -> 0 .. Attempts - 1]
      BY <1>2, <2>2, <3>1
    <3> QED BY <1>1, <2>1, <2>2, <3>2, MoveKeeps DEF Places, Waiting
  <2>3. CASE Leave(c, FALSE)
    BY <1>1, <2>1, <2>3, LeaveKeeps
  <2> QED BY <1>6, <2>2, <2>3 DEF WaitAgain
<1> QED BY <1>3, <1>4, <1>5, <1>6

\* A waiter becomes the worker only for a generation that was not given yet.
LEMMA ClaimKeeps ==
  ASSUME SWInv, NEW c \in Callers, Claim(c)
  PROVE  SWInv'
<1> USE DEF SWInv
<1>1. /\ UNCHANGED <<flags, queue, applied_generation, record, manager, lifecycle, told, engineFar>>
      /\ pc[c] = "claim" /\ pc[c] \in Waiting /\ ~InSetter(c) /\ pc[c] # "postscale"
  BY DEF Claim, Waiting, InSetter
<1>2. required[c] \in Nat /\ applied_generation \in Nat /\ given \in Nat
  BY GenerationsAreNumbers DEF TypeOK
<1>3. CASE Reached(c) /\ Leave(c, TRUE) /\ UNCHANGED token
  <2>1. required[c] <= given
    BY <1>2, <1>3 DEF Reached, WGens
  <2> QED BY <1>1, <1>3, <2>1, LeaveKeeps
<1>4. CASE /\ ~Reached(c) /\ worker_active /\ pc' = [pc EXCEPT ![c] = "sleep"]
           /\ UNCHANGED <<failed, waiter, drainer, token>>
  <2>1. UNCHANGED <<failed, required, drainer, token, attempt>>
    BY <1>4 DEF waiter
  <2>2. attempt' \in [Callers -> 0 .. Attempts - 1]
    BY <2>1 DEF TypeOK
  <2> QED BY <1>1, <1>4, <2>1, <2>2, MoveKeeps DEF Places, Waiting
<1>5. CASE Leave(c, FALSE) /\ UNCHANGED token
  BY <1>1, <1>5, LeaveKeeps
<1>6. CASE /\ ~Reached(c) /\ enabled /\ ~worker_active /\ TakeToken
           /\ pc' = [pc EXCEPT ![c] = "drain"] /\ UNCHANGED <<failed, waiter, drainer>>
  <2>1. /\ UNCHANGED <<enabled, shutdown_terminal, generation, desired, applied_generation,
                       manager_key, original, scaled, manager, lifecycle, engine, given,
                       engineFar, failed, required, attempt, job, mine, calls>>
    BY <1>1, <1>6 DEF flags, queue, record, told, waiter, drainer
  <2>2. /\ \A d \in Callers : InSetter(d)' <=> d = c
        /\ \A d \in Callers \ {c} : pc'[d] = pc[d]
        /\ mine[c] = 0 /\ applied_generation = given /\ pc' \in [Callers -> Places]
        /\ worker_active' /\ ~idle_event' /\ worker_active' \in BOOLEAN /\ idle_event' \in BOOLEAN
    BY <1>1, <1>6, TakenToken
  <2>3. TypeOK'
    BY <2>1, <2>2 DEF TypeOK, Places
  <2>4. WToken'
    BY <1>6, <2>1, <2>2 DEF WToken, SingleWorker, DisableDrains
  <2>5. given < required[c]
    BY <1>2, <1>6, <2>2 DEF Reached
  <2>6. pc'[c] = "drain" /\ \A d \in Callers : pc'[d] # "set"
    <3>1. pc'[c] = "drain"
      BY <1>6 DEF TypeOK
    <3> QED BY <2>2, <3>1 DEF InSetter
  <2>7. \A d \in Callers : mine[d] = 0
    BY <1>6 DEF WGens, WToken, SingleWorker
  <2>8. WGens'
    BY <2>1, <2>2, <2>5, <2>6, <2>7 DEF WGens
  <2>9. WServed'
    <3>1. ASSUME ~failed, given < generation
          PROVE  \E d \in Callers : (InSetter(d)' \/ pc'[d] \in Waiting) /\ required[d] = generation
      <4>1. PICK d \in Callers : (InSetter(d) \/ pc[d] \in Waiting) /\ required[d] = generation
        BY <3>1 DEF WServed
      <4>2. CASE d = c
        BY <2>2, <4>1, <4>2
      <4>3. CASE d # c
        BY <1>6, <2>2, <4>1, <4>3 DEF WToken, SingleWorker
      <4> QED BY <4>2, <4>3
    <3>2. \A d \in Callers : pc[d] = "postscale" => pc'[d] = "postscale"
      BY <1>1, <2>2
    <3> QED BY <2>1, <3>1, <3>2 DEF WServed
  <2>10. WStock'
    BY <2>1 DEF WStock, OriginalsAreStock, Plan, Pair
  <2> QED BY <2>3, <2>4, <2>8, <2>9, <2>10
<1> QED BY <1>3, <1>4, <1>5, <1>6 DEF Claim

-----------------------------------------------------------------------------
(***************************************************************************)
(* The installing and uninstalling thread.                                 *)
(***************************************************************************)
\* It changes the flags and its own place, and leaves the queue alone.
LEMMA LifecycleKeeps ==
  ASSUME SWInv, Enable \/ Disable \/ RundownSignalled \/ RundownTimeout
  PROVE  SWInv'
<1> USE DEF SWInv
<1>1. /\ UNCHANGED <<worker_active, idle_event, generation, desired, applied_generation,
                     manager_key, original, scaled, manager, engine, given, engineFar,
                     failed, pc, required, attempt, job, mine, calls>>
  BY DEF Enable, Disable, RundownSignalled, RundownTimeout, Others, flags, token, queue, record,
         told, waiter, drainer
<1>2. \A c \in Callers : InSetter(c)' <=> InSetter(c)
  BY <1>1 DEF InSetter
<1>3. /\ enabled' \in BOOLEAN /\ shutdown_terminal' \in BOOLEAN
      /\ lifecycle' \in {"running", "rundown", "quiet", "dirty"}
      /\ enabled' <=> lifecycle' = "running"
      /\ shutdown_terminal' <=> lifecycle' \notin {"install", "running"}
      /\ lifecycle' = "quiet" => ~worker_active
      /\ lifecycle' # "resetting" /\ lifecycle' # "restored"
  <2>1. CASE Enable
    <3>1. /\ enabled' = TRUE /\ lifecycle = "install" /\ lifecycle' = "running"
          /\ UNCHANGED shutdown_terminal
      BY <2>1 DEF Enable
    <3>2. ~shutdown_terminal /\ shutdown_terminal \in BOOLEAN
      BY <3>1 DEF WToken, TypeOK
    <3> QED BY <3>1, <3>2
  <2>2. CASE Disable
    BY <2>2 DEF Disable, WToken
  <2>3. CASE RundownSignalled
    BY <2>3 DEF RundownSignalled, WToken, SingleWorker, flags, TypeOK
  <2>4. CASE RundownTimeout
    BY <2>4 DEF RundownTimeout, WToken, flags, TypeOK
  <2> QED BY <2>1, <2>2, <2>3, <2>4
<1>4. TypeOK'
  BY <1>1, <1>3 DEF TypeOK
<1>5. WToken'
  BY <1>1, <1>2, <1>3 DEF WToken, SingleWorker, DisableDrains
<1>6. enabled' /\ generation > 0 => enabled
  <2>1. CASE Enable
    BY <2>1 DEF Enable, WToken
  <2>2. CASE Disable
    BY <2>2 DEF Disable
  <2>3. CASE RundownSignalled \/ RundownTimeout
    BY <2>3 DEF RundownSignalled, RundownTimeout, flags
  <2> QED BY <2>1, <2>2, <2>3
<1>7. WGens'
  BY <1>1, <1>2, <1>6 DEF WGens
<1>8. WServed'
  BY <1>1, <1>2, <1>6 DEF WServed
<1>9. WStock'
  BY <1>1, <1>3 DEF WStock, OriginalsAreStock, Plan, Pair
<1> QED BY <1>4, <1>5, <1>7, <1>8, <1>9

\* What was remembered goes back into a manager that still holds the scaled
\* values.
LEMMA RestoreKeeps ==
  ASSUME SWInv, Restore
  PROVE  SWInv'
<1> USE DEF SWInv
<1>1. /\ UNCHANGED <<enabled, shutdown_terminal, worker_active, idle_event, generation, desired,
                     applied_generation, original, scaled, engine, given, engineFar,
                     pc, required, attempt, job, mine, calls>>
      /\ lifecycle = "quiet" /\ ~enabled /\ shutdown_terminal /\ ~worker_active
      /\ IF manager_key /\ manager = scaled
           THEN /\ manager' = original /\ manager_key' = FALSE /\ lifecycle' = "resetting"
                /\ failed' = failed
           ELSE /\ lifecycle' = IF manager_key THEN "dirty" ELSE "restored"
                /\ failed' = (failed \/ manager_key) /\ UNCHANGED <<manager, manager_key>>
  BY DEF Restore, MayRestore, Others, flags, token, queue, record, told, waiter, drainer
<1>2. \A c \in Callers : InSetter(c)' <=> InSetter(c)
  BY <1>1 DEF InSetter
<1>3. lifecycle' \in {"resetting", "restored", "dirty"}
  BY <1>1
<1>4. TypeOK'
  BY <1>1, <1>3 DEF TypeOK
<1>5. WToken'
  BY <1>1, <1>2, <1>3 DEF WToken, SingleWorker, DisableDrains
<1>6. WGens'
  BY <1>1, <1>2 DEF WGens
<1>7. WServed'
  <2>1. failed' \in BOOLEAN /\ (~failed' => ~failed)
    BY <1>1 DEF TypeOK
  <2> QED BY <1>1, <1>2, <2>1 DEF WServed
<1>8. WStock'
  <2>1. CASE manager_key /\ manager = scaled
    <3>1. manager'.near = StockNear /\ manager'.far = engineFar /\ ~manager_key'
      BY <1>1, <2>1 DEF WStock, OriginalsAreStock
    <3> QED BY <1>1, <3>1 DEF WStock, OriginalsAreStock, Plan, Pair
  <2>2. CASE ~(manager_key /\ manager = scaled)
    BY <1>1, <2>2 DEF WStock, OriginalsAreStock, Plan, Pair
  <2> QED BY <2>1, <2>2
<1> QED BY <1>4, <1>5, <1>6, <1>7, <1>8

LEMMA RestoreSetterKeeps ==
  ASSUME SWInv, RestoreSetterReturns
  PROVE  SWInv'
<1> USE DEF SWInv
<1>1. /\ UNCHANGED <<enabled, shutdown_terminal, worker_active, idle_event, generation, desired,
                     applied_generation, manager_key, original, scaled, manager, given, engineFar,
                     failed, pc, required, attempt, job, mine, calls>>
      /\ lifecycle = "resetting" /\ engine' = original /\ lifecycle' = "restored"
  BY DEF RestoreSetterReturns, Others, flags, token, queue, record, waiter, drainer
<1>2. \A c \in Callers : InSetter(c)' <=> InSetter(c)
  BY <1>1 DEF InSetter
<1>3. TypeOK'
  BY <1>1 DEF TypeOK
<1>4. WToken'
  BY <1>1, <1>2 DEF WToken, SingleWorker, DisableDrains
<1>5. WGens'
  BY <1>1, <1>2 DEF WGens, WToken
<1>6. WServed'
  BY <1>1, <1>2 DEF WServed
<1>7. WStock'
  BY <1>1 DEF WStock, OriginalsAreStock, Plan, Pair
<1> QED BY <1>3, <1>4, <1>5, <1>6, <1>7

-----------------------------------------------------------------------------
(***************************************************************************)
(* The theorems.                                                           *)
(***************************************************************************)
LEMMA StartsSound == Init => SWInv
<1> SUFFICES ASSUME Init PROVE SWInv
  OBVIOUS
<1>1. NoPair \in Pairs /\ 0 \in Gens /\ 0 \in 0 .. MaxCalls /\ 0 \in 0 .. Attempts - 1
  BY NoPairIsAPair, GenerationsAreNumbers
<1>2. PICK f \in EngineFars : manager = Pair(StockNear, f) /\ engineFar = f
  BY DEF Init
<1>3. manager \in Pairs /\ manager.near = StockNear /\ manager.far = engineFar
  BY <1>2 DEF Pair, Pairs, Nears, Fars
<1>4. /\ enabled = FALSE /\ shutdown_terminal = FALSE /\ worker_active = FALSE
      /\ idle_event = TRUE /\ generation = 0 /\ applied_generation = 0 /\ desired = NoPair
      /\ manager_key = FALSE /\ original = NoPair /\ scaled = NoPair /\ failed = FALSE
      /\ pc = [c \in Callers |-> "idle"] /\ required = [c \in Callers |-> 0]
      /\ job = [c \in Callers |-> [gen |-> 0, pair |-> NoPair]]
      /\ mine = [c \in Callers |-> 0] /\ calls = [c \in Callers |-> 0]
      /\ attempt = [c \in Callers |-> 0] /\ lifecycle = "install"
      /\ engine = NoPair /\ given = 0
  BY DEF Init
<1>5. TypeOK
  <2>1. /\ enabled \in BOOLEAN /\ shutdown_terminal \in BOOLEAN /\ worker_active \in BOOLEAN
        /\ idle_event \in BOOLEAN /\ manager_key \in BOOLEAN /\ failed \in BOOLEAN
    BY <1>4
  <2>2. job \in [Callers -> [gen : Gens, pair : Pairs]]
    BY <1>1, <1>4
  <2>3. /\ pc \in [Callers -> Places] /\ required \in [Callers -> Gens]
        /\ mine \in [Callers -> Gens] /\ calls \in [Callers -> 0 .. MaxCalls]
        /\ attempt \in [Callers -> 0 .. Attempts - 1]
    BY <1>1, <1>4 DEF Places
  <2> QED BY <1>1, <1>2, <1>3, <1>4, <2>1, <2>2, <2>3 DEF TypeOK, Places
<1>6. \A c \in Callers : ~InSetter(c) /\ pc[c] = "idle" /\ mine[c] = 0 /\ required[c] = 0
  BY <1>4 DEF InSetter
<1>7. WToken
  <2>1. ~enabled /\ ~shutdown_terminal /\ ~worker_active /\ idle_event
    BY <1>4
  <2> QED BY <1>4, <1>6, <2>1 DEF WToken, SingleWorker, DisableDrains
<1>8. WGens
  BY <1>4, <1>6 DEF WGens
<1>9. WServed
  BY <1>4, <1>6 DEF WServed
<1>10. WStock
  <2>1. ~manager_key
    BY <1>4
  <2> QED BY <1>3, <1>4, <2>1 DEF WStock, OriginalsAreStock
<1> QED BY <1>5, <1>7, <1>8, <1>9, <1>10 DEF SWInv

LEMMA StepsKeep == SWInv /\ [Next]_vars => SWInv'
<1> SUFFICES ASSUME SWInv, [Next]_vars PROVE SWInv'
  OBVIOUS
<1>1. ASSUME NEW c \in Callers,
             \/ \E f \in EngineFars : Rewrite(c, f)
             \/ Rebuild(c)
             \/ ScaleRefused(c) \/ ScaleKept(c) \/ ScaleWrite(c)
             \/ DrainStop(c) \/ DrainNext(c) \/ SetterReturns(c)
             \/ WaitDone(c) \/ WaitLook(c) \/ WaitToken(c) \/ Claim(c)
             \/ WaitAgain(c)
      PROVE  SWInv'
  BY <1>1, RewriteKeeps, RebuildKeeps, ScaleRefusedKeeps, ScaleKeptKeeps, ScaleWriteKeeps,
     DrainStopKeeps, DrainNextKeeps, SetterReturnsKeeps, WaitKeeps, ClaimKeeps
<1>2. CASE Enable \/ Disable \/ RundownSignalled \/ RundownTimeout
  BY <1>2, LifecycleKeeps
<1>3. CASE Restore \/ RestoreSetterReturns
  BY <1>3, RestoreKeeps, RestoreSetterKeeps
<1>4. CASE UNCHANGED vars
  <2>1. UNCHANGED <<enabled, shutdown_terminal, worker_active, idle_event, generation, desired,
                    applied_generation, manager_key, original, scaled, manager, lifecycle,
                    engine, given, engineFar, failed, pc, required, attempt, job, mine, calls>>
    BY <1>4 DEF vars, flags, token, queue, record, told, waiter, drainer
  <2> QED BY <2>1 DEF SWInv, TypeOK, WToken, SingleWorker, DisableDrains, InSetter, WGens, WServed,
                      WStock, OriginalsAreStock, Plan, Pair
<1> QED BY <1>1, <1>2, <1>3, <1>4 DEF Next

\* The invariant the theorems rest on holds of every reachable state.
THEOREM SetterSound == Spec => []SWInv
BY StartsSound, StepsKeep, PTL DEF Spec

\* One worker at a time; what is reported as applied was given to the engine;
\* and at rest, with no failure on record, the engine knows what the manager
\* holds, whatever was coalesced.
THEOREM OneWorker == Spec => []WorkerInv
<1>1. SWInv => WorkerInv
  <2> SUFFICES ASSUME SWInv PROVE WorkerInv
    OBVIOUS
  <2>1. AppliedIsHonest
    BY DEF SWInv, WGens, AppliedIsHonest
  <2>2. ManagerMatchesEngine
    <3> SUFFICES ASSUME enabled, ~failed, generation > 0, \A c \in Callers : pc[c] = "idle"
                 PROVE  engine = manager /\ given = generation
      BY DEF ManagerMatchesEngine
    <3>1. given = generation
      <4>1. given \in Nat /\ generation \in Nat /\ given <= generation
        BY GenerationsAreNumbers DEF SWInv, TypeOK, WGens
      <4>2. ~(given < generation)
        BY DEF SWInv, WServed, InSetter, Waiting
      <4> QED BY <4>1, <4>2
    <3> QED BY <3>1 DEF SWInv, WServed, WGens
  <2> QED BY <2>1, <2>2 DEF SWInv, WToken, WorkerInv
<1> QED BY <1>1, SetterSound, PTL

\* After a disable that returned success no caller is in the setter, nor will
\* be.
THEOREM NoneAfterDisable == Spec => []DisableDrains
<1>1. SWInv => DisableDrains
  BY DEF SWInv, WToken
<1> QED BY <1>1, SetterSound, PTL

\* What is remembered is the engine's own, and a restore that reports success
\* leaves exactly that.
THEOREM EngineValuesReturn == Spec => []RestoreGivesBack
<1>1. SWInv => RestoreGivesBack
  <2> SUFFICES ASSUME SWInv PROVE RestoreGivesBack
    OBVIOUS
  <2>1. ASSUME lifecycle \in {"resetting", "restored"}
        PROVE  manager = Pair(StockNear, engineFar)
    <3>1. manager \in Pairs /\ manager.near = StockNear /\ manager.far = engineFar
      BY <2>1 DEF SWInv, WStock, TypeOK
    <3> QED BY <3>1 DEF Pairs, Pair
  <2> QED BY <2>1 DEF RestoreGivesBack, SWInv, WStock
<1> QED BY <1>1, SetterSound, PTL

\* The engine is never told an older generation after a newer one, nor the
\* same one twice.
THEOREM NewerAndNewer == Spec => GenerationsAdvance
<1>1. SWInv /\ [Next]_vars =>
        [\A c \in Callers : pc[c] = "set" /\ pc'[c] # "set" => job[c].gen > given]_vars
  <2>1. SWInv => \A c \in Callers : pc[c] = "set" => job[c].gen > given
    <3> SUFFICES ASSUME SWInv, NEW c \in Callers, pc[c] = "set" PROVE job[c].gen > given
      OBVIOUS
    <3>1. job[c].gen \in Nat /\ given \in Nat /\ given < job[c].gen
      BY GenerationsAreNumbers DEF SWInv, TypeOK, WGens
    <3> QED BY <3>1
  <2> QED BY <2>1
<1> QED BY <1>1, SetterSound, PTL DEF Spec, GenerationsAdvance
=============================================================================
