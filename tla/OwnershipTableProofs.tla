------------------------ MODULE OwnershipTableProofs ------------------------
(***************************************************************************)
(* Proofs about OwnershipTable for any number of threads, keys, slots,     *)
(* probes, retries and tokens: slots and records, with and without the     *)
(* lock, then what lookups may rely on.                                    *)
(***************************************************************************)
EXTENDS OwnershipTable, FiniteSetTheorems, TLAPS

-----------------------------------------------------------------------------
(***************************************************************************)
(* What holds of a thread's locals, whatever the shared tables contain.    *)
(***************************************************************************)
WrapperOps == {"insert", "commit", "remove", "take", "find_wrapper"}
EntityOps  == {"insert", "commit", "find_entity"}
FwLabels   == {"fw_probe", "fw_token", "fw_copy", "fw_copy_rest", "fw_recheck", "fw_decide"}
FeLabels   == {"fe_probe", "fe_index", "fe_token", "fe_record_key", "fe_record_token",
               "fe_copy", "fe_copy_rest", "fe_recheck_record", "fe_recheck_key",
               "fe_recheck_entry", "fe_decide"}
InLabels   == {"in_token", "in_probe", "in_claim", "in_fill", "in_stamp", "ix_probe",
               "ix_claim", "ix_fill", "ix_publish", "in_count", "in_publish",
               "in_undo", "in_undo_token", "in_bury"}
RxLabels   == {"rx_probe", "rx_claim", "rx_check", "rx_bury"}
RmLabels   == {"rm_claim", "rm_check", "rm_clear", "rm_clear_token", "rm_count",
               "rm_bury"} \cup RxLabels

Sane(r) ==
  /\ r \in Locals
  /\ r.op \in WrapperOps => r.wrapper \in Wrappers
  /\ r.op \in EntityOps => r.entity \in Entities
  /\ r.pc \in FwLabels => r.op \in WrapperOps \ {"insert"}
  /\ r.pc \in FeLabels => r.op \in {"commit", "find_entity"}
  /\ r.pc \in InLabels => r.op \in {"insert", "commit"}
  /\ r.pc \in RmLabels => r.op \in {"remove", "take"}
  /\ r.pc = "fw_decide" => r.snap_entity \in Entities
  /\ r.pc \in {"rm_claim", "rm_check"} /\ r.op = "remove" => r.entity \in Entities
  /\ r.pc \in RxLabels => r.entity \in Entities

LEMMA NumbersFact ==
  /\ Wrappers \subseteq Nat
  /\ Entities \subseteq Nat
  /\ \A w \in Wrappers : w > 3
  /\ \A e \in Entities : e > 3
  /\ Capacity \in Nat /\ Capacity > 0
  /\ Slots \subseteq Nat /\ 0 \in Slots
  /\ MaxToken \in Nat /\ MaxToken >= 3
BY KeyAssumption, SizeAssumption DEF Keys, Slots, RESERVED_MAX, RECLAIMING

LEMMA SlotOfType ==
  ASSUME NEW k \in Keys, NEW p \in Nat
  PROVE  SlotOf(k, p) \in Slots
<1>1. Hash[k] \in Nat
  BY HashAssumption, NumbersFact
<1> QED
  BY <1>1, NumbersFact DEF SlotOf, Slots

LEMMA IdleSane == Sane(Idle)
BY NumbersFact DEF Sane, Locals, Idle, Labels, SlotLabels, WrapperOps, EntityOps, FwLabels, FeLabels, InLabels, RxLabels, RmLabels, WrapperKeys, EntityKeys, Tokens, Data, NoData, RESERVED_MAX, RECLAIMING

LEMMA ForgetType ==
  ASSUME NEW r \in Locals
  PROVE  /\ Forget(r) \in Locals
         /\ Forget(r).pc = r.pc /\ Forget(r).op = r.op
         /\ Forget(r).wrapper = r.wrapper /\ Forget(r).entity = r.entity
         /\ Forget(r).token = r.token /\ Forget(r).slot = r.slot
         /\ Forget(r).entry = r.entry /\ Forget(r).probe = r.probe
         /\ Forget(r).attempt = r.attempt
<1>1. 0 \in WrapperKeys /\ 0 \in Tokens /\ NoData \in Data
  BY NumbersFact DEF WrapperKeys, Tokens, Data, NoData, RESERVED_MAX, RECLAIMING
<1>2. Forget(r) \in Locals
  BY <1>1 DEF Forget, Locals
<1> QED
  BY <1>2 DEF Forget, Locals

LEMMA StartType ==
  ASSUME NEW r \in Locals, NEW l \in Labels
  PROVE  /\ Start(r, l) \in Locals
         /\ Start(r, l).pc = l /\ Start(r, l).op = r.op
         /\ Start(r, l).wrapper = r.wrapper /\ Start(r, l).entity = r.entity
         /\ Start(r, l).token = r.token /\ Start(r, l).slot = r.slot
         /\ Start(r, l).entry = r.entry /\ Start(r, l).probe = 0
BY ForgetType DEF Start, Locals

LEMMA FinishType ==
  ASSUME NEW r \in Locals, NEW l \in Labels
  PROVE  /\ Finish(r, l) \in Locals
         /\ Finish(r, l).pc = l /\ Finish(r, l).op = r.op
         /\ Finish(r, l).wrapper = r.wrapper /\ Finish(r, l).entity = r.entity
         /\ Finish(r, l).token = r.token /\ Finish(r, l).slot = r.slot
         /\ Finish(r, l).entry = r.entry /\ Finish(r, l).probe = r.probe
         /\ Finish(r, l).snap_entity = r.snap_entity
BY DEF Finish, Locals

\* A thread that stays in its operation and goes to a label that belongs to it.
Fits(r, l) ==
  /\ l \in Labels
  /\ l \in FwLabels => r.op \in WrapperOps \ {"insert"}
  /\ l \in FeLabels => r.op \in {"commit", "find_entity"}
  /\ l \in InLabels => r.op \in {"insert", "commit"}
  /\ l \in RmLabels => r.op \in {"remove", "take"}
  /\ l = "fw_decide" => r.snap_entity \in Entities
  /\ l \in {"rm_claim", "rm_check"} /\ r.op = "remove" => r.entity \in Entities
  /\ l \in RxLabels => r.entity \in Entities

LEMMA FinishSane ==
  ASSUME NEW r, Sane(r), NEW l, Fits(r, l)
  PROVE  Sane(Finish(r, l))
<1>1. r \in Locals /\ l \in Labels
  BY DEF Sane, Fits
<1> QED
  BY <1>1, FinishType DEF Sane, Fits

LEMMA StartSane ==
  ASSUME NEW r, Sane(r), NEW l, Fits(r, l), l # "fw_decide"
  PROVE  Sane(Start(r, l))
<1>1. r \in Locals /\ l \in Labels
  BY DEF Sane, Fits
<1> QED
  BY <1>1, StartType DEF Sane, Fits

LEMMA RetrySane ==
  ASSUME NEW r, Sane(r), NEW l, Fits(r, l), l # "fw_decide",
         NEW exhausted, Sane(exhausted)
  PROVE  Sane(Retry(r, l, exhausted))
<1>1. r \in Locals /\ l \in Labels /\ r.attempt \in Nat
  BY DEF Sane, Fits, Locals
<1> DEFINE again == [Forget(r) EXCEPT !.pc = l, !.attempt = @ + 1, !.probe = 0]
<1>f. /\ Forget(r) \in Locals
      /\ Forget(r).attempt + 1 \in Nat
      /\ Forget(r).op = r.op /\ Forget(r).wrapper = r.wrapper
      /\ Forget(r).entity = r.entity
  BY <1>1, ForgetType
<1>2. /\ again \in Locals /\ again.pc = l /\ again.op = r.op
      /\ again.wrapper = r.wrapper /\ again.entity = r.entity
  BY <1>1, <1>f DEF Locals
<1>3. Sane(again)
  BY <1>2 DEF Sane, Fits
<1> QED
  BY <1>3 DEF Retry

LEMMA OnwardSane ==
  ASSUME NEW r, Sane(r), NEW exhausted, Sane(exhausted)
  PROVE  Sane(Onward(r, exhausted))
<1>1. r \in Locals /\ r.probe \in Nat
  BY DEF Sane, Locals
<1> DEFINE next == [r EXCEPT !.probe = @ + 1]
<1>2. /\ next \in Locals /\ next.pc = r.pc /\ next.op = r.op
      /\ next.wrapper = r.wrapper /\ next.entity = r.entity
      /\ next.snap_entity = r.snap_entity
  BY <1>1 DEF Locals
<1>3. Sane(next)
  BY <1>2 DEF Sane
<1> QED
  BY <1>3 DEF Onward

\* A read: only the label and what was read change.
LEMMA ReadSane ==
  ASSUME NEW r, Sane(r), NEW q \in Locals,
         q.op = r.op, q.wrapper = r.wrapper, q.entity = r.entity,
         \/ r.op \in WrapperOps \ {"insert"} /\ q.pc \in FwLabels \ {"fw_decide"}
         \/ r.op \in {"commit", "find_entity"} /\ q.pc \in FeLabels
  PROVE  Sane(q)
BY DEF Sane, FwLabels, FeLabels, InLabels, RxLabels, RmLabels

LEMMA ResultSane ==
  ASSUME NEW r, Sane(r), NEW l \in {"hit", "miss"}
  PROVE  Sane(Result(r, l))
<1>1. Fits(r, l)
  BY DEF Fits, Labels, SlotLabels, FwLabels, FeLabels, InLabels, RxLabels, RmLabels
<1> QED
  BY <1>1, FinishSane, IdleSane DEF Result

LEMMA MissSane ==
  ASSUME NEW r, Sane(r)
  PROVE  Sane(Result(Forget(r), "miss"))
<1>1. r \in Locals /\ "miss" \in Labels
  BY DEF Sane, Labels
<1>2. Forget(r) \in Locals /\ Forget(r).op = r.op
      /\ Forget(r).wrapper = r.wrapper /\ Forget(r).entity = r.entity
  BY <1>1, ForgetType
<1>3. Sane(Finish(Forget(r), "miss"))
  BY <1>1, <1>2, FinishType DEF Sane, FwLabels, FeLabels, InLabels, RxLabels, RmLabels
<1> QED
  BY <1>3, IdleSane DEF Result

LEMMA WrapperAbsentSane ==
  ASSUME NEW r, Sane(r), r.pc \in FwLabels
  PROVE  Sane(WrapperAbsent(r))
<1>1. r.op = "commit" => Fits(r, "fe_probe")
  BY DEF Fits, Sane, Labels, FwLabels, FeLabels, InLabels, RxLabels, RmLabels
<1> QED
  BY <1>1, StartSane, MissSane DEF WrapperAbsent

LEMMA WrapperFoundSane ==
  ASSUME NEW r, Sane(r), r.pc = "fw_decide"
  PROVE  Sane(WrapperFound(r))
<1>1. r \in Locals /\ r.snap_entity \in Entities /\ r.snap_token \in Tokens
  BY DEF Sane, Locals
<1>2. CASE r.op = "take"
  <2>1. Fits(r, "rm_claim")
    BY <1>2 DEF Fits, Sane, Labels, FwLabels, FeLabels, InLabels, RxLabels, RmLabels
  <2>2. Sane(Start(r, "rm_claim"))
    BY <2>1, StartSane
  <2>3. Sane([Start(r, "rm_claim") EXCEPT !.token = r.snap_token])
    BY <2>2, <1>1 DEF Sane, Locals
  <2> QED
    BY <2>3, <1>2 DEF WrapperFound
<1>3. CASE r.op = "remove"
  <2>1. r.snap_entity = r.entity => Fits(r, "rm_claim")
    BY <1>1, <1>3 DEF Fits, Sane, Labels, FwLabels, FeLabels, InLabels, RxLabels, RmLabels
  <2> QED
    BY <2>1, <1>3, StartSane, MissSane DEF WrapperFound
<1>4. CASE r.op \notin {"take", "remove"}
  BY <1>4, ResultSane DEF WrapperFound
<1> QED
  BY <1>2, <1>3, <1>4

LEMMA EntityAbsentSane ==
  ASSUME NEW r, Sane(r), r.pc \in FeLabels
  PROVE  Sane(EntityAbsent(r))
<1>1. r.op = "commit" => Fits(r, "in_token")
  BY DEF Fits, Sane, Labels, FwLabels, FeLabels, InLabels, RxLabels, RmLabels
<1> QED
  BY <1>1, StartSane, MissSane DEF EntityAbsent

-----------------------------------------------------------------------------
(***************************************************************************)
(* The type invariant.  It needs the locals to be Sane: a probe position   *)
(* is a slot only when the key it starts from is a key.                    *)
(***************************************************************************)
Typed == TypeOK /\ \A t \in Threads : Sane(th[t])

LEMMA GotoTyped ==
  ASSUME Typed, NEW t \in Threads, NEW r, Sane(r), Goto(t, r)
  PROVE  /\ th' \in [Threads -> Locals]
         /\ \A u \in Threads : Sane(th'[u])
         /\ th'[t] = r
         /\ \A u \in Threads \ {t} : th'[u] = th[u]
BY DEF Typed, TypeOK, Goto, Sane

LEMMA CallTyped ==
  ASSUME Typed, NEW t \in Threads, Call(t)
  PROVE  Typed'
<1>1. ASSUME NEW op \in WrapperOps \cup EntityOps, NEW w \in {0} \cup Wrappers,
             NEW e \in {0} \cup Entities, NEW k \in Tokens, NEW label,
             Enter(t, op, w, e, k, label),
             op \in WrapperOps => w \in Wrappers,
             op \in EntityOps => e \in Entities,
             \/ op = "insert" /\ label = "in_token"
             \/ op \in WrapperOps \ {"insert"} /\ label = "fw_probe"
             \/ op = "find_entity" /\ label = "fe_probe"
      PROVE  Typed'
  <2> DEFINE r == [Idle EXCEPT !.pc = label, !.op = op, !.wrapper = w,
                               !.entity = e, !.token = k]
  <2>1. Idle \in Locals /\ op \in OperationNames /\ label \in Labels
    BY <1>1, IdleSane, OperationAssumption DEF Sane, Enter, Admitted, Labels
  <2>2. /\ r \in Locals /\ r.pc = label /\ r.op = op
        /\ r.wrapper = w /\ r.entity = e
    BY <2>1 DEF Locals
  <2>3. Sane(r)
    BY <2>2, <1>1 DEF Sane, FwLabels, FeLabels, InLabels, RxLabels, RmLabels, WrapperOps, EntityOps
  <2>4. Goto(t, r)
    BY <1>1 DEF Enter
  <2> QED
    BY <1>1, <2>3, <2>4, GotoTyped DEF Typed, TypeOK, Enter, records, entities
<1>t. 0 \in Tokens
  BY NumbersFact DEF Tokens
<1>2. CASE CallInsert(t)
  BY <1>1, <1>2, <1>t DEF CallInsert, WrapperOps, EntityOps
<1>3. CASE CallCommit(t)
  BY <1>1, <1>3, <1>t DEF CallCommit, WrapperOps, EntityOps
<1>4. CASE CallRemove(t)
  <2>1. PICK s \in Slots : wkey[s] \in Wrappers
                           /\ Enter(t, "remove", wkey[s], ent[s], wtok[s], "fw_probe")
    BY <1>4 DEF CallRemove
  <2>2. ent[s] \in {0} \cup Entities /\ wtok[s] \in Tokens
    BY DEF Typed, TypeOK
  <2> QED
    BY <1>1, <2>1, <2>2 DEF WrapperOps, EntityOps
<1>5. CASE CallTake(t)
  BY <1>1, <1>5, <1>t DEF CallTake, WrapperOps, EntityOps
<1>6. CASE CallFindWrapper(t)
  BY <1>1, <1>6, <1>t DEF CallFindWrapper, WrapperOps, EntityOps
<1>7. CASE CallFindEntity(t)
  BY <1>1, <1>7, <1>t DEF CallFindEntity, WrapperOps, EntityOps
<1> QED
  BY <1>2, <1>3, <1>4, <1>5, <1>6, <1>7 DEF Call

LEMMA ReturnTyped ==
  ASSUME Typed, NEW t \in Threads, Return(t)
  PROVE  Typed'
BY IdleSane, GotoTyped DEF Return, Typed, TypeOK, records, entities

LEMMA FindWrapperTyped ==
  ASSUME Typed, NEW t \in Threads, FindWrapper(t)
  PROVE  Typed'
<1> DEFINE r == th[t]
<1>a. Sane(r) /\ r \in Locals /\ TypeOK
  BY DEF Typed, TypeOK
<1>b. r.pc \in FwLabels /\ r.op \in WrapperOps \ {"insert"} /\ r.wrapper \in Wrappers
  BY <1>a DEF FindWrapper, FwProbe, FwToken, FwCopy, FwCopyRest, FwRecheck, FwDecide,
              At, FwLabels, Sane
<1>c. Sane(WrapperAbsent(r))
  BY <1>a, <1>b, WrapperAbsentSane
<1>d. Fits(r, "fw_probe")
  BY <1>a, <1>b DEF Fits, Labels, FwLabels, FeLabels, InLabels, RxLabels, RmLabels
<1>e. Sane(Retry(r, "fw_probe", WrapperAbsent(r)))
  BY <1>a, <1>c, <1>d, RetrySane
<1>f. ASSUME NEW q, Sane(q), Goto(t, q),
             UNCHANGED <<records, entities, next_token, active_count>>
      PROVE  Typed'
  BY <1>f, GotoTyped DEF Typed, TypeOK, records, entities
<1>1. CASE FwProbe(t)
  <2> DEFINE s == SlotOf(r.wrapper, r.probe)
  <2>1. s \in Slots
    BY <1>a, <1>b, SlotOfType DEF Locals, Keys
  <2> DEFINE q == [r EXCEPT !.pc = "fw_token", !.slot = s]
  <2>q. /\ q \in Locals /\ q.op = r.op /\ q.wrapper = r.wrapper
        /\ q.entity = r.entity /\ q.pc = "fw_token"
    BY <2>1, <1>a, <1>b DEF Locals, Labels
  <2>2. Sane(q)
    BY <2>q, <1>a, <1>b, ReadSane DEF FwLabels
  <2>3. Sane(Onward(r, WrapperAbsent(r)))
    BY <1>a, <1>c, OnwardSane
  <2> QED
    BY <1>1, <1>c, <1>e, <1>f, <2>2, <2>3 DEF FwProbe
<1>2. CASE FwToken(t)
  <2>1. wtok[r.slot] \in Tokens
    BY <1>a DEF Locals, TypeOK
  <2> DEFINE q == [r EXCEPT !.pc = "fw_copy", !.token_before = wtok[r.slot]]
  <2>q. /\ q \in Locals /\ q.op = r.op /\ q.wrapper = r.wrapper
        /\ q.entity = r.entity /\ q.pc = "fw_copy"
    BY <2>1, <1>a, <1>b DEF Locals, Labels
  <2>2. Sane(q)
    BY <2>q, <1>a, <1>b, ReadSane DEF FwLabels
  <2> QED
    BY <1>2, <1>f, <2>2 DEF FwToken
<1>3. CASE FwCopy(t)
  <2>1. ent[r.slot] \in {0} \cup Entities
    BY <1>a DEF Locals, TypeOK
  <2> DEFINE q == [r EXCEPT !.pc = "fw_copy_rest", !.snap_entity = ent[r.slot]]
  <2>q. /\ q \in Locals /\ q.op = r.op /\ q.wrapper = r.wrapper
        /\ q.entity = r.entity /\ q.pc = "fw_copy_rest"
    BY <2>1, <1>a, <1>b DEF Locals, Labels
  <2>2. Sane(q)
    BY <2>q, <1>a, <1>b, ReadSane DEF FwLabels
  <2> QED
    BY <1>3, <1>f, <2>2 DEF FwCopy
<1>4. CASE FwCopyRest(t)
  <2>1. dat[r.slot] \in Data /\ wtok[r.slot] \in Tokens
    BY <1>a DEF Locals, TypeOK
  <2> DEFINE q == [r EXCEPT !.pc = "fw_recheck", !.snap_data = dat[r.slot],
                 !.snap_token = wtok[r.slot]]
  <2>q. /\ q \in Locals /\ q.op = r.op /\ q.wrapper = r.wrapper
        /\ q.entity = r.entity /\ q.pc = "fw_recheck"
    BY <2>1, <1>a, <1>b DEF Locals, Labels
  <2>2. Sane(q)
    BY <2>q, <1>a, <1>b, ReadSane DEF FwLabels
  <2> QED
    BY <1>4, <1>f, <2>2 DEF FwCopyRest
<1>5. CASE FwRecheck(t)
  <2>1. ASSUME r.snap_entity > RESERVED_MAX
        PROVE  Sane(Finish(r, "fw_decide"))
    <3>1. r.snap_entity \in Entities
      BY <1>a, <2>1, NumbersFact DEF Locals, RESERVED_MAX, RECLAIMING
    <3>2. Fits(r, "fw_decide")
      BY <1>b, <3>1 DEF Fits, Labels, FwLabels, FeLabels, InLabels, RxLabels, RmLabels
    <3> QED
      BY <1>a, <3>2, FinishSane
  <2> QED
    BY <1>5, <1>e, <1>f, <2>1 DEF FwRecheck
<1>6. CASE FwDecide(t)
  <2>1. Sane(WrapperFound(r))
    BY <1>6, <1>a, WrapperFoundSane DEF FwDecide, At
  <2> QED
    BY <1>6, <1>e, <1>f, <2>1 DEF FwDecide
<1> QED
  BY <1>1, <1>2, <1>3, <1>4, <1>5, <1>6 DEF FindWrapper

LEMMA FindEntityTyped ==
  ASSUME Typed, NEW t \in Threads, FindEntity(t)
  PROVE  Typed'
<1> DEFINE r == th[t]
<1>a. Sane(r) /\ r \in Locals /\ TypeOK
  BY DEF Typed, TypeOK
<1>b. r.pc \in FeLabels /\ r.op \in {"commit", "find_entity"} /\ r.entity \in Entities
  BY <1>a DEF FindEntity, FeProbe, FeIndex, FeToken, FeRecordKey, FeRecordToken, FeCopy,
              FeCopyRest, FeRecheckRecord, FeRecheckKey, FeRecheckEntry, FeDecide,
              At, FeLabels, Sane, EntityOps
<1>c. Sane(EntityAbsent(r))
  BY <1>a, <1>b, EntityAbsentSane
<1>d. \A l \in FeLabels : Fits(r, l)
  BY <1>a, <1>b DEF Fits, Labels, FwLabels, FeLabels, InLabels, RxLabels, RmLabels
<1>e. Sane(Retry(r, "fe_probe", EntityAbsent(r)))
  BY <1>a, <1>c, <1>d, RetrySane DEF FeLabels
<1>f. ASSUME NEW q, Sane(q), Goto(t, q),
             UNCHANGED <<records, entities, next_token, active_count>>
      PROVE  Typed'
  BY <1>f, GotoTyped DEF Typed, TypeOK, records, entities
<1>g. /\ wkey[r.slot] \in WrapperKeys /\ wtok[r.slot] \in Tokens
      /\ ent[r.slot] \in {0} \cup Entities /\ dat[r.slot] \in Data
      /\ erec[r.entry] \in 0 .. Capacity /\ etok[r.entry] \in Tokens
  BY <1>a DEF Locals, TypeOK
<1>1. CASE FeProbe(t)
  <2> DEFINE x == SlotOf(r.entity, r.probe)
  <2>1. x \in Slots
    BY <1>a, <1>b, SlotOfType DEF Locals, Keys
  <2> DEFINE q == [r EXCEPT !.pc = "fe_index", !.entry = x]
  <2>q. /\ q \in Locals /\ q.op = r.op /\ q.wrapper = r.wrapper
        /\ q.entity = r.entity /\ q.pc = "fe_index"
    BY <2>1, <1>a, <1>b DEF Locals, Labels
  <2>2. Sane(q)
    BY <2>q, <1>a, <1>b, ReadSane DEF FeLabels
  <2>3. Sane(Onward(r, EntityAbsent(r)))
    BY <1>a, <1>c, OnwardSane
  <2> QED
    BY <1>1, <1>c, <1>e, <1>f, <2>2, <2>3 DEF FeProbe
<1>2. CASE FeIndex(t)
  <2> DEFINE n == erec[r.entry]
  <2>1. ASSUME n # 0
        PROVE  Sane([r EXCEPT !.pc = "fe_token", !.slot = n - 1])
    <3>1. n - 1 \in Slots
      BY <1>g, <2>1, NumbersFact DEF Slots
    <3> QED
      BY <3>1, <1>a, <1>b DEF Sane, Locals, Labels, FwLabels, FeLabels, InLabels, RxLabels, RmLabels
  <2> QED
    BY <1>2, <1>e, <1>f, <2>1 DEF FeIndex
<1>3. CASE FeToken(t)
  <2> DEFINE q == [r EXCEPT !.pc = "fe_record_key", !.token_before = etok[r.entry]]
  <2>q. /\ q \in Locals /\ q.op = r.op /\ q.wrapper = r.wrapper
        /\ q.entity = r.entity /\ q.pc = "fe_record_key"
    BY <1>a, <1>b, <1>g DEF Locals, Labels
  <2>1. Sane(q)
    BY <2>q, <1>a, <1>b, ReadSane DEF FeLabels
  <2> QED
    BY <1>3, <1>f, <2>1 DEF FeToken
<1>4. CASE FeRecordKey(t)
  <2> DEFINE q == [r EXCEPT !.pc = "fe_record_token", !.record_key = wkey[r.slot]]
  <2>q. /\ q \in Locals /\ q.op = r.op /\ q.wrapper = r.wrapper
        /\ q.entity = r.entity /\ q.pc = "fe_record_token"
    BY <1>a, <1>b, <1>g DEF Locals, Labels
  <2>1. Sane(q)
    BY <2>q, <1>a, <1>b, ReadSane DEF FeLabels
  <2> QED
    BY <1>4, <1>f, <2>1 DEF FeRecordKey
<1>5. CASE FeRecordToken(t)
  <2> DEFINE q == [r EXCEPT !.pc = "fe_copy", !.record_token = wtok[r.slot]]
  <2>q. /\ q \in Locals /\ q.op = r.op /\ q.wrapper = r.wrapper
        /\ q.entity = r.entity /\ q.pc = "fe_copy"
    BY <1>a, <1>b, <1>g DEF Locals, Labels
  <2>1. Sane(q)
    BY <2>q, <1>a, <1>b, ReadSane DEF FeLabels
  <2> QED
    BY <1>5, <1>f, <2>1 DEF FeRecordToken
<1>6. CASE FeCopy(t)
  <2> DEFINE q == [r EXCEPT !.pc = "fe_copy_rest", !.snap_key = wkey[r.slot],
                 !.snap_entity = ent[r.slot]]
  <2>q. /\ q \in Locals /\ q.op = r.op /\ q.wrapper = r.wrapper
        /\ q.entity = r.entity /\ q.pc = "fe_copy_rest"
    BY <1>a, <1>b, <1>g DEF Locals, Labels
  <2>1. Sane(q)
    BY <2>q, <1>a, <1>b, ReadSane DEF FeLabels
  <2> QED
    BY <1>6, <1>f, <2>1 DEF FeCopy
<1>7. CASE FeCopyRest(t)
  <2> DEFINE q == [r EXCEPT !.pc = "fe_recheck_record", !.snap_data = dat[r.slot],
                 !.snap_token = wtok[r.slot]]
  <2>q. /\ q \in Locals /\ q.op = r.op /\ q.wrapper = r.wrapper
        /\ q.entity = r.entity /\ q.pc = "fe_recheck_record"
    BY <1>a, <1>b, <1>g DEF Locals, Labels
  <2>1. Sane(q)
    BY <2>q, <1>a, <1>b, ReadSane DEF FeLabels
  <2> QED
    BY <1>7, <1>f, <2>1 DEF FeCopyRest
<1>8. CASE FeRecheckRecord(t)
  BY <1>8, <1>a, <1>d, <1>e, <1>f, FinishSane DEF FeRecheckRecord, FeLabels
<1>9. CASE FeRecheckKey(t)
  BY <1>9, <1>a, <1>d, <1>e, <1>f, FinishSane DEF FeRecheckKey, FeLabels
<1>10. CASE FeRecheckEntry(t)
  BY <1>10, <1>a, <1>d, <1>e, <1>f, FinishSane DEF FeRecheckEntry, FeLabels
<1>11. CASE FeDecide(t)
  BY <1>11, <1>a, <1>e, <1>f, ResultSane DEF FeDecide
<1> QED
  BY <1>1, <1>2, <1>3, <1>4, <1>5, <1>6, <1>7, <1>8, <1>9, <1>10, <1>11 DEF FindEntity

\* Clearing a record and returning its slot, shared by failed insertions and
\* removals.
LEMMA ReleaseTyped ==
  ASSUME Typed, NEW t \in Threads, NEW before, NEW after, Fits(th[t], after),
         after # "fw_decide",
         \/ ClearPayload(t, before, after)
         \/ ClearToken(t, before, after)
         \/ Bury(t, before)
  PROVE  Typed'
<1>a. Sane(th[t]) /\ TypeOK /\ th[t].slot \in Slots
  BY DEF Typed, TypeOK, Locals
<1>b. Sane(Finish(th[t], after))
  BY <1>a, FinishSane
<1>c. 0 \in Tokens /\ NoData \in Data /\ TOMBSTONE \in WrapperKeys
  BY NumbersFact DEF Tokens, Data, NoData, WrapperKeys, RESERVED_MAX, RECLAIMING, TOMBSTONE
<1>1. CASE ClearPayload(t, before, after)
  BY <1>1, <1>a, <1>b, <1>c, GotoTyped DEF ClearPayload, Typed, TypeOK, entities
<1>2. CASE ClearToken(t, before, after)
  BY <1>2, <1>a, <1>b, <1>c, GotoTyped DEF ClearToken, Typed, TypeOK, entities
<1>3. CASE Bury(t, before)
  BY <1>3, <1>a, <1>c, IdleSane, GotoTyped DEF Bury, Typed, TypeOK, entities
<1> QED
  BY <1>1, <1>2, <1>3

LEMMA InsertTyped ==
  ASSUME Typed, NEW t \in Threads, Insert(t)
  PROVE  Typed'
<1> DEFINE r == th[t]
<1>a. Sane(r) /\ r \in Locals /\ TypeOK
  BY DEF Typed, TypeOK
<1>b. r.pc \in InLabels /\ r.op \in {"insert", "commit"}
      /\ r.wrapper \in Wrappers /\ r.entity \in Entities
  BY <1>a DEF Insert, InToken, InProbe, InClaim, InFill, InStamp, IxProbe, IxClaim, IxFill,
              IxPublish, InCount, InPublish, InUndo, ClearPayload, ClearToken, Bury,
              At, InLabels, Sane, WrapperOps, EntityOps
<1>d. \A l \in InLabels : Fits(r, l) /\ l # "fw_decide"
  BY <1>a, <1>b DEF Fits, Labels, SlotLabels, FwLabels, FeLabels, InLabels, RxLabels, RmLabels
<1>e. \A l \in InLabels : Sane(Finish(r, l)) /\ Sane(Start(r, l))
  BY <1>a, <1>d, FinishSane, StartSane
<1>f. r.slot \in Slots /\ r.entry \in Slots /\ r.token \in Tokens /\ r.probe \in Nat
  BY <1>a DEF Locals
<1>k. r.wrapper \in Keys /\ r.entity \in Keys
  BY <1>b DEF Keys
<1>g. CLAIMED \in WrapperKeys /\ CLAIMED \in EntityKeys
  BY NumbersFact DEF WrapperKeys, EntityKeys, RESERVED_MAX, RECLAIMING, CLAIMED
<1>h. \A l \in InLabels : \A q : Sane(q) => Sane(Retry(r, l, q))
  BY <1>a, <1>d, RetrySane
<1>1. CASE InToken(t)
  <2> DEFINE q == [Start(r, "in_probe") EXCEPT !.token = next_token + 1]
  <2>a. UNCHANGED <<records, entities, active_count>>
    BY <1>1 DEF InToken
  <2>1. CASE next_token < MaxToken /\ next_token' = next_token + 1 /\ Goto(t, q)
    <3>1. next_token + 1 \in Tokens
      BY <1>a, <2>1, NumbersFact DEF TypeOK, Tokens
    <3>2. Sane(Start(r, "in_probe"))
      BY <1>e DEF InLabels
    <3>3. Sane(q)
      BY <3>1, <3>2 DEF Sane, Locals
    <3> HIDE DEF q
    <3> QED
      BY <2>a, <2>1, <3>1, <3>3, GotoTyped DEF Typed, TypeOK, records, entities
  <2>2. CASE Goto(t, Idle) /\ UNCHANGED next_token
    BY <2>a, <2>2, IdleSane, GotoTyped DEF Typed, TypeOK, records, entities
  <2> QED
    BY <1>1, <2>1, <2>2 DEF InToken
<1>2. CASE InProbe(t)
  <2> DEFINE s == SlotOf(r.wrapper, r.probe)
  <2> DEFINE q == [r EXCEPT !.pc = "in_claim", !.slot = s]
  <2>1. s \in Slots
    BY <1>k, <1>f, SlotOfType
  <2>2. /\ q \in Locals /\ q.op = r.op /\ q.wrapper = r.wrapper
        /\ q.entity = r.entity /\ q.pc = "in_claim"
    BY <2>1, <1>a DEF Locals, Labels, SlotLabels
  <2>3. Sane(q)
    BY <2>2, <1>a, <1>b DEF Sane, FwLabels, FeLabels, InLabels, RxLabels, RmLabels
  <2>4. Sane(Onward(r, Idle)) /\ Sane(Retry(r, "in_probe", Idle)) /\ Sane(Idle)
    BY <1>a, <1>h, IdleSane, OnwardSane DEF InLabels
  <2>5. \E x : Sane(x) /\ Goto(t, x)
    BY <1>2, <2>3, <2>4 DEF InProbe
  <2> QED
    BY <1>2, <2>5, GotoTyped DEF InProbe, Typed, TypeOK, records, entities
<1>3. CASE InClaim(t)
  <2>1. \E x : Sane(x) /\ Goto(t, x)
    BY <1>3, <1>e, <1>h, IdleSane DEF InClaim, InLabels
  <2>2. wkey' \in [Slots -> WrapperKeys]
    BY <1>3, <1>a, <1>f, <1>g DEF InClaim, TypeOK
  <2> QED
    BY <1>3, <2>1, <2>2, GotoTyped DEF InClaim, Typed, TypeOK, entities
<1>4. CASE InFill(t)
  <2>1. <<r.wrapper, r.entity, r.token>> \in Data
    BY <1>b, <1>f DEF Data
  <2> QED
    BY <1>4, <2>1, <1>b, <1>e, <1>f, GotoTyped DEF InFill, Typed, TypeOK, entities, InLabels
<1>5. CASE InStamp(t)
  BY <1>5, <1>e, <1>f, GotoTyped DEF InStamp, Typed, TypeOK, entities, InLabels
<1>6. CASE IxProbe(t)
  <2> DEFINE x == SlotOf(r.entity, r.probe)
  <2> DEFINE q == [r EXCEPT !.pc = "ix_claim", !.entry = x]
  <2>1. x \in Slots
    BY <1>k, <1>f, SlotOfType
  <2>2. /\ q \in Locals /\ q.op = r.op /\ q.wrapper = r.wrapper
        /\ q.entity = r.entity /\ q.pc = "ix_claim"
    BY <2>1, <1>a DEF Locals, Labels, SlotLabels
  <2>3. Sane(q)
    BY <2>2, <1>a, <1>b DEF Sane, FwLabels, FeLabels, InLabels, RxLabels, RmLabels
  <2>4. Sane(Finish(r, "in_undo"))
    BY <1>e DEF InLabels
  <2>5. Sane(Onward(r, Finish(r, "in_undo"))) /\ Sane(Retry(r, "ix_probe", Finish(r, "in_undo")))
    BY <1>a, <1>h, <2>4, OnwardSane DEF InLabels
  <2>6. \E y : Sane(y) /\ Goto(t, y)
    BY <1>6, <2>3, <2>4, <2>5 DEF IxProbe
  <2> QED
    BY <1>6, <2>6, GotoTyped DEF IxProbe, Typed, TypeOK, records, entities
<1>7. CASE IxClaim(t)
  <2>1. Sane(Finish(r, "in_undo")) /\ Sane(Finish(r, "ix_fill"))
    BY <1>e DEF InLabels
  <2>2. Sane(Retry(r, "ix_probe", Finish(r, "in_undo")))
    BY <1>h, <2>1 DEF InLabels
  <2>3. \E y : Sane(y) /\ Goto(t, y)
    BY <1>7, <2>1, <2>2 DEF IxClaim
  <2>4. ekey' \in [Slots -> EntityKeys]
    BY <1>7, <1>a, <1>f, <1>g DEF IxClaim, TypeOK
  <2> QED
    BY <1>7, <2>3, <2>4, GotoTyped DEF IxClaim, Typed, TypeOK, records
<1>8. CASE IxFill(t)
  <2>1. r.slot + 1 \in 0 .. Capacity
    BY <1>f, NumbersFact DEF Slots
  <2> QED
    BY <1>8, <2>1, <1>e, <1>f, GotoTyped DEF IxFill, Typed, TypeOK, records, InLabels
<1>9. CASE IxPublish(t)
  BY <1>9, <1>b, <1>e, <1>f, GotoTyped DEF IxPublish, Typed, TypeOK, records, InLabels, EntityKeys
<1>10. CASE InCount(t)
  BY <1>10, <1>e, GotoTyped DEF InCount, Typed, TypeOK, records, entities, InLabels
<1>11. CASE InPublish(t)
  BY <1>11, <1>b, <1>f, IdleSane, GotoTyped DEF InPublish, Typed, TypeOK, entities, WrapperKeys
<1>12. CASE InUndo(t)
  BY <1>12, <1>d, ReleaseTyped DEF InUndo, InLabels
<1> QED
  BY <1>1, <1>2, <1>3, <1>4, <1>5, <1>6, <1>7, <1>8, <1>9, <1>10, <1>11, <1>12 DEF Insert

LEMMA ReclaimTyped ==
  ASSUME Typed, NEW t \in Threads, Reclaim(t)
  PROVE  Typed'
<1> DEFINE r == th[t]
<1>a. Sane(r) /\ r \in Locals /\ TypeOK
  BY DEF Typed, TypeOK
<1>b. r.pc \in RmLabels /\ r.op \in {"remove", "take"} /\ r.wrapper \in Wrappers
  BY <1>a DEF Reclaim, RmClaim, RmCheck, RxProbe, RxClaim, RxCheck, RxBury, RmFinish,
              RmCount, ClearPayload, ClearToken, Bury, At, RmLabels, RxLabels, Sane,
              WrapperOps
<1>c. r.slot \in Slots /\ r.entry \in Slots /\ r.token \in Tokens /\ r.probe \in Nat
  BY <1>a DEF Locals
<1>d. \A l \in RmLabels \ (RxLabels \cup {"rm_claim", "rm_check"}) : Fits(r, l) /\ l # "fw_decide"
  BY <1>a, <1>b DEF Fits, Labels, SlotLabels, FwLabels, FeLabels, InLabels, RxLabels, RmLabels
<1>e. \A l \in RxLabels : r.entity \in Entities => Fits(r, l) /\ l # "fw_decide"
  BY <1>a, <1>b DEF Fits, Labels, SlotLabels, FwLabels, FeLabels, InLabels, RxLabels, RmLabels
<1>f. Sane(Finish(r, "rm_clear"))
  BY <1>a, <1>d, FinishSane DEF RmLabels, RxLabels
<1>g. RECLAIMING \in WrapperKeys /\ RECLAIMING \in EntityKeys
      /\ TOMBSTONE \in EntityKeys /\ 0 \in Tokens /\ 0 \in 0 .. Capacity
  BY NumbersFact DEF WrapperKeys, EntityKeys, RESERVED_MAX, RECLAIMING, TOMBSTONE, Tokens
<1>1. CASE RmClaim(t)
  <2>1. Fits(r, "rm_check")
    BY <1>1, <1>a, <1>b DEF RmClaim, At, Sane, Fits, Labels, SlotLabels, FwLabels, FeLabels,
                            InLabels, RxLabels, RmLabels
  <2>2. Sane(Finish(r, "rm_check"))
    BY <2>1, <1>a, FinishSane
  <2>3. \E x : Sane(x) /\ Goto(t, x)
    BY <1>1, <2>2, IdleSane DEF RmClaim
  <2>4. wkey' \in [Slots -> WrapperKeys]
    BY <1>1, <1>a, <1>c, <1>g DEF RmClaim, TypeOK
  <2> QED
    BY <1>1, <2>3, <2>4, GotoTyped DEF RmClaim, Typed, TypeOK, entities
<1>2. CASE RmCheck(t)
  <2>1. CASE StillOwned(r)
    <3>1. ent[r.slot] \in Entities
      <4>1. ent[r.slot] \in {0} \cup Entities
        BY <1>a, <1>c DEF TypeOK
      <4>2. CASE r.op = "take"
        BY <2>1, <4>1, <4>2, NumbersFact DEF StillOwned, RESERVED_MAX, RECLAIMING
      <4>3. CASE r.op = "remove"
        BY <1>2, <1>a, <2>1, <4>3 DEF StillOwned, RmCheck, At, Sane
      <4> QED
        BY <1>b, <4>2, <4>3
    <3> DEFINE q == [Start(r, "rx_probe") EXCEPT !.entity = ent[r.slot]]
    <3>2. /\ Start(r, "rx_probe") \in Locals /\ Start(r, "rx_probe").op = r.op
          /\ Start(r, "rx_probe").wrapper = r.wrapper /\ Start(r, "rx_probe").pc = "rx_probe"
      BY <1>a, StartType DEF Labels, SlotLabels
    <3>3. /\ q \in Locals /\ q.op = r.op /\ q.wrapper = r.wrapper
          /\ q.entity = ent[r.slot] /\ q.pc = "rx_probe"
      BY <3>1, <3>2 DEF Locals
    <3>4. Sane(q)
      BY <3>1, <3>3, <1>b DEF Sane, FwLabels, FeLabels, InLabels, RxLabels, RmLabels
    <3> QED
      BY <1>2, <2>1, <3>4, GotoTyped DEF RmCheck, Typed, TypeOK, entities
  <2>2. CASE ~StillOwned(r)
    BY <1>2, <2>2, <1>a, <1>b, <1>c, IdleSane, GotoTyped
       DEF RmCheck, Typed, TypeOK, entities, WrapperKeys
  <2> QED
    BY <2>1, <2>2
<1>x. ASSUME r.pc \in RxLabels
      PROVE  r.entity \in Entities /\ r.entity \in Keys
  BY <1>x, <1>a DEF Sane, Keys
<1>3. CASE RxProbe(t)
  <2> DEFINE x == SlotOf(r.entity, r.probe)
  <2> DEFINE q == [r EXCEPT !.pc = "rx_claim", !.entry = x]
  <2>0. r.pc = "rx_probe" /\ r.entity \in Entities /\ r.entity \in Keys
    BY <1>3, <1>x DEF RxProbe, At, RxLabels
  <2>1. x \in Slots
    BY <2>0, <1>c, SlotOfType
  <2>2. /\ q \in Locals /\ q.op = r.op /\ q.wrapper = r.wrapper
        /\ q.entity = r.entity /\ q.pc = "rx_claim"
    BY <2>1, <1>a DEF Locals, Labels, SlotLabels
  <2>3. Sane(q)
    BY <2>0, <2>2, <1>b DEF Sane, FwLabels, FeLabels, InLabels, RxLabels, RmLabels
  <2>4. Sane(Onward(r, Finish(r, "rm_clear")))
    BY <1>a, <1>f, OnwardSane
  <2>5. \E y : Sane(y) /\ Goto(t, y)
    BY <1>3, <2>3, <2>4, <1>f DEF RxProbe
  <2> QED
    BY <1>3, <2>5, GotoTyped DEF RxProbe, Typed, TypeOK, records, entities
<1>4. CASE RxClaim(t)
  <2>0. r.entity \in Entities
    BY <1>4, <1>x DEF RxClaim, At, RxLabels
  <2>1. Sane(Finish(r, "rx_check"))
    BY <2>0, <1>a, <1>e, FinishSane DEF RxLabels
  <2>2. \E y : Sane(y) /\ Goto(t, y)
    BY <1>4, <1>f, <2>1 DEF RxClaim
  <2>3. ekey' \in [Slots -> EntityKeys]
    BY <1>4, <1>a, <1>c, <1>g DEF RxClaim, TypeOK
  <2> QED
    BY <1>4, <2>2, <2>3, GotoTyped DEF RxClaim, Typed, TypeOK, records
<1>5. CASE RxCheck(t)
  <2>0. r.entity \in Entities
    BY <1>5, <1>x DEF RxCheck, At, RxLabels
  <2>1. Sane(Finish(r, "rx_bury"))
    BY <2>0, <1>a, <1>e, FinishSane DEF RxLabels
  <2>2. \E y : Sane(y) /\ Goto(t, y)
    BY <1>5, <1>f, <2>1 DEF RxCheck
  <2>3. /\ ekey' \in [Slots -> EntityKeys]
        /\ erec' \in [Slots -> 0 .. Capacity]
        /\ etok' \in [Slots -> Tokens]
    BY <1>5, <2>0, <1>a, <1>c, <1>g DEF RxCheck, TypeOK, EntityKeys
  <2> QED
    BY <1>5, <2>2, <2>3, GotoTyped DEF RxCheck, Typed, TypeOK, records
<1>6. CASE RxBury(t)
  BY <1>6, <1>a, <1>c, <1>f, <1>g, GotoTyped DEF RxBury, Typed, TypeOK, records
<1>7. CASE RmFinish(t)
  <2>1. CASE RmCount(t)
    <3>1. Sane(Finish(r, "rm_bury"))
      BY <1>a, <1>d, FinishSane DEF RmLabels, RxLabels
    <3>2. active_count' \in Nat
      BY <2>1, <1>a DEF RmCount, TypeOK
    <3> QED
      BY <2>1, <3>1, <3>2, GotoTyped DEF RmCount, Typed, TypeOK, records, entities
  <2>2. CASE ~RmCount(t)
    BY <1>7, <2>2, <1>d, ReleaseTyped DEF RmFinish, RmLabels, RxLabels
  <2> QED
    BY <2>1, <2>2
<1> QED
  BY <1>1, <1>2, <1>3, <1>4, <1>5, <1>6, <1>7 DEF Reclaim

LEMMA InitTyped == Init => Typed
<1>1. /\ 0 \in WrapperKeys /\ 0 \in EntityKeys /\ 0 \in Tokens /\ NoData \in Data
      /\ 0 \in 0 .. Capacity /\ RESERVED_MAX \in Tokens /\ 0 \in Nat
  BY NumbersFact DEF WrapperKeys, EntityKeys, Tokens, Data, NoData, RESERVED_MAX, RECLAIMING
<1>2. Sane(Idle) /\ Idle \in Locals
  BY IdleSane DEF Sane
<1> QED
  BY <1>1, <1>2 DEF Init, Typed, TypeOK, EMPTY

LEMMA NextTyped == Typed /\ [Next]_vars => Typed'
<1> SUFFICES ASSUME Typed, [Next]_vars
             PROVE  Typed'
  OBVIOUS
<1>1. CASE UNCHANGED vars
  BY <1>1 DEF vars, Typed, TypeOK
<1>2. CASE Next
  BY <1>2, CallTyped, ReturnTyped, FindWrapperTyped, FindEntityTyped, InsertTyped, ReclaimTyped
     DEF Next, Step
<1> QED
  BY <1>1, <1>2

LEMMA AlwaysTyped == Spec => []Typed
BY InitTyped, NextTyped, PTL DEF Spec

\* The variables keep their types and no token is handed out past the last
\* one, however the operations of however many threads interleave.
THEOREM TypeCorrect == Spec => []TypeOK
<1>1. Typed => TypeOK
  BY DEF Typed
<1> QED
  BY <1>1, AlwaysTyped, PTL

-----------------------------------------------------------------------------
(***************************************************************************)
(* Where each step takes the thread that performs it.  The later proofs    *)
(* use these facts and not the records the helpers build.                  *)
(***************************************************************************)
Kept(q, r) ==
  /\ q.slot = r.slot
  /\ q.entry = r.entry
  /\ q.token = r.token
  /\ q.wrapper = r.wrapper
  /\ q.entity = r.entity

LEMMA RetryKeeps ==
  ASSUME NEW r \in Locals, NEW l \in Labels, NEW exhausted
  PROVE  \/ Retry(r, l, exhausted) = exhausted
         \/ Retry(r, l, exhausted).pc = l /\ Kept(Retry(r, l, exhausted), r)
<1> DEFINE again == [Forget(r) EXCEPT !.pc = l, !.attempt = @ + 1, !.probe = 0]
<1>1. Forget(r) \in Locals /\ Kept(Forget(r), r)
  BY ForgetType DEF Kept
<1>2. again.pc = l /\ Kept(again, r)
  BY <1>1 DEF Kept, Locals
<1> QED
  BY <1>2 DEF Retry

LEMMA OnwardKeeps ==
  ASSUME NEW r \in Locals, NEW exhausted
  PROVE  \/ Onward(r, exhausted) = exhausted
         \/ Onward(r, exhausted).pc = r.pc /\ Kept(Onward(r, exhausted), r)
BY DEF Onward, Kept, Locals

LEMMA FinishKeeps ==
  ASSUME NEW r \in Locals, NEW l \in Labels
  PROVE  /\ Finish(r, l).pc = l /\ Kept(Finish(r, l), r)
         /\ Start(r, l).pc = l /\ Kept(Start(r, l), r)
BY FinishType, StartType DEF Kept

\* Looking up, calling, returning and probing touch neither table, and leave
\* the thread without a slot.
Quiet(t) ==
  \/ Call(t) \/ Return(t) \/ FindWrapper(t) \/ FindEntity(t)
  \/ InToken(t) \/ InProbe(t)

LEMMA QuietStep ==
  ASSUME Typed, NEW t \in Threads, Quiet(t)
  PROVE  /\ UNCHANGED <<records, entities>>
         /\ th'[t].pc \notin SlotLabels
         /\ \A u \in Threads \ {t} : th'[u] = th[u]
<1> DEFINE r == th[t]
<1>a. Sane(r) /\ r \in Locals
  BY DEF Typed, TypeOK
<1>b. ASSUME NEW q, Goto(t, q)
      PROVE  th'[t] = q /\ \A u \in Threads \ {t} : th'[u] = th[u]
  BY <1>b DEF Goto, Typed, TypeOK
<1>c. Idle.pc = "idle" /\ "idle" \notin SlotLabels
  BY DEF Idle, SlotLabels
<1>d. Result(Forget(r), "miss").pc \in {"idle", "miss"}
  BY <1>a, <1>c, ForgetType, FinishKeeps DEF Result, Labels
<1>1. CASE Call(t)
  <2>1. ASSUME NEW op, NEW w, NEW e, NEW k, NEW l, Enter(t, op, w, e, k, l)
        PROVE  /\ th'[t].pc = l /\ UNCHANGED <<records, entities>>
               /\ \A u \in Threads \ {t} : th'[u] = th[u]
    <3> DEFINE q == [Idle EXCEPT !.pc = l, !.op = op, !.wrapper = w,
                                 !.entity = e, !.token = k]
    <3>1. q.pc = l
      BY DEF Idle
    <3>2. Goto(t, q) /\ UNCHANGED <<records, entities>>
      BY <2>1 DEF Enter
    <3> QED
      BY <3>1, <3>2, <1>b
  <2>i. CASE CallInsert(t)
    BY <2>1, <2>i DEF CallInsert, SlotLabels
  <2>c. CASE CallCommit(t)
    BY <2>1, <2>c DEF CallCommit, SlotLabels
  <2>r. CASE CallRemove(t)
    BY <2>1, <2>r DEF CallRemove, SlotLabels
  <2>t. CASE CallTake(t)
    BY <2>1, <2>t DEF CallTake, SlotLabels
  <2>w. CASE CallFindWrapper(t)
    BY <2>1, <2>w DEF CallFindWrapper, SlotLabels
  <2>e. CASE CallFindEntity(t)
    BY <2>1, <2>e DEF CallFindEntity, SlotLabels
  <2> QED
    BY <1>1, <2>i, <2>c, <2>r, <2>t, <2>w, <2>e DEF Call
<1>2. CASE Return(t)
  BY <1>2, <1>b, <1>c DEF Return
<1>3. CASE FindWrapper(t)
  <2>1. \E q : Goto(t, q) /\ q.pc \notin SlotLabels
    <3>1. WrapperAbsent(r).pc \in {"idle", "miss", "fe_probe"}
      BY <1>a, <1>d, FinishKeeps DEF WrapperAbsent, Labels
    <3>2. Retry(r, "fw_probe", WrapperAbsent(r)).pc \in {"idle", "miss", "fe_probe", "fw_probe"}
      BY <1>a, <3>1, RetryKeeps DEF Labels
    <3>3. CASE FwProbe(t)
      <4>1. r.pc = "fw_probe"
        BY <3>3 DEF FwProbe, At
      <4>2. Onward(r, WrapperAbsent(r)).pc \in {"idle", "miss", "fe_probe", "fw_probe"}
        BY <1>a, <3>1, <4>1, OnwardKeeps
      <4> DEFINE s == SlotOf(r.wrapper, r.probe)
      <4>3. [r EXCEPT !.pc = "fw_token", !.slot = s].pc = "fw_token"
        BY <1>a DEF Locals
      <4> QED
        BY <3>1, <3>2, <3>3, <4>2, <4>3 DEF FwProbe, SlotLabels
    <3>4. CASE FwToken(t) \/ FwCopy(t) \/ FwCopyRest(t)
      <4>1. /\ [r EXCEPT !.pc = "fw_copy", !.token_before = wtok[r.slot]].pc = "fw_copy"
            /\ [r EXCEPT !.pc = "fw_copy_rest", !.snap_entity = ent[r.slot]].pc = "fw_copy_rest"
            /\ [r EXCEPT !.pc = "fw_recheck", !.snap_data = dat[r.slot],
                         !.snap_token = wtok[r.slot]].pc = "fw_recheck"
        BY <1>a DEF Locals
      <4>a. CASE FwToken(t)
        BY <4>1, <4>a DEF FwToken, SlotLabels
      <4>b. CASE FwCopy(t)
        BY <4>1, <4>b DEF FwCopy, SlotLabels
      <4>c. CASE FwCopyRest(t)
        BY <4>1, <4>c DEF FwCopyRest, SlotLabels
      <4> QED
        BY <3>4, <4>a, <4>b, <4>c
    <3>5. CASE FwRecheck(t)
      BY <3>2, <3>5, <1>a, FinishKeeps DEF FwRecheck, SlotLabels, Labels
    <3>6. CASE FwDecide(t)
      <4>1. WrapperFound(r).pc \in {"idle", "miss", "hit", "rm_claim"}
        <5>1. [Start(r, "rm_claim") EXCEPT !.token = r.snap_token].pc = "rm_claim"
          BY <1>a, StartType DEF Labels, Locals
        <5> QED
          BY <5>1, <1>a, <1>c, <1>d, FinishKeeps DEF WrapperFound, Result, Labels
      <4> QED
        BY <3>2, <3>6, <4>1 DEF FwDecide, SlotLabels
    <3> QED
      BY <1>3, <3>3, <3>4, <3>5, <3>6 DEF FindWrapper
  <2>2. UNCHANGED <<records, entities>>
    BY <1>3 DEF FindWrapper, FwProbe, FwToken, FwCopy, FwCopyRest, FwRecheck, FwDecide
  <2> QED
    BY <2>1, <2>2, <1>b
<1>4. CASE FindEntity(t)
  <2>1. \E q : Goto(t, q) /\ q.pc \notin SlotLabels
    <3>1. EntityAbsent(r).pc \in {"idle", "miss", "in_token"}
      BY <1>a, <1>d, FinishKeeps DEF EntityAbsent, Labels
    <3>2. Retry(r, "fe_probe", EntityAbsent(r)).pc \in {"idle", "miss", "in_token", "fe_probe"}
      BY <1>a, <3>1, RetryKeeps DEF Labels
    <3>3. CASE FeProbe(t)
      <4>1. r.pc = "fe_probe"
        BY <3>3 DEF FeProbe, At
      <4>2. Onward(r, EntityAbsent(r)).pc \in {"idle", "miss", "in_token", "fe_probe"}
        BY <1>a, <3>1, <4>1, OnwardKeeps
      <4> DEFINE x == SlotOf(r.entity, r.probe)
      <4>3. [r EXCEPT !.pc = "fe_index", !.entry = x].pc = "fe_index"
        BY <1>a DEF Locals
      <4> QED
        BY <3>1, <3>2, <3>3, <4>2, <4>3 DEF FeProbe, SlotLabels
    <3>4. CASE FeIndex(t)
      <4>1. [r EXCEPT !.pc = "fe_token", !.slot = erec[r.entry] - 1].pc = "fe_token"
        BY <1>a DEF Locals
      <4> QED
        BY <3>2, <3>4, <4>1 DEF FeIndex, SlotLabels
    <3>5. CASE FeToken(t) \/ FeRecordKey(t) \/ FeRecordToken(t) \/ FeCopy(t) \/ FeCopyRest(t)
      <4>1. /\ [r EXCEPT !.pc = "fe_record_key", !.token_before = etok[r.entry]].pc
                  = "fe_record_key"
            /\ [r EXCEPT !.pc = "fe_record_token", !.record_key = wkey[r.slot]].pc
                  = "fe_record_token"
            /\ [r EXCEPT !.pc = "fe_copy", !.record_token = wtok[r.slot]].pc = "fe_copy"
            /\ [r EXCEPT !.pc = "fe_copy_rest", !.snap_key = wkey[r.slot],
                         !.snap_entity = ent[r.slot]].pc = "fe_copy_rest"
            /\ [r EXCEPT !.pc = "fe_recheck_record", !.snap_data = dat[r.slot],
                         !.snap_token = wtok[r.slot]].pc = "fe_recheck_record"
        BY <1>a DEF Locals
      <4>a. CASE FeToken(t)
        BY <4>1, <4>a DEF FeToken, SlotLabels
      <4>b. CASE FeRecordKey(t)
        BY <4>1, <4>b DEF FeRecordKey, SlotLabels
      <4>c. CASE FeRecordToken(t)
        BY <4>1, <4>c DEF FeRecordToken, SlotLabels
      <4>d. CASE FeCopy(t)
        BY <4>1, <4>d DEF FeCopy, SlotLabels
      <4>e. CASE FeCopyRest(t)
        BY <4>1, <4>e DEF FeCopyRest, SlotLabels
      <4> QED
        BY <3>5, <4>a, <4>b, <4>c, <4>d, <4>e
    <3>6. CASE FeRecheckRecord(t) \/ FeRecheckKey(t) \/ FeRecheckEntry(t)
      <4>1. /\ Finish(r, "fe_recheck_key").pc = "fe_recheck_key"
            /\ Finish(r, "fe_recheck_entry").pc = "fe_recheck_entry"
            /\ Finish(r, "fe_decide").pc = "fe_decide"
        BY <1>a, FinishKeeps DEF Labels
      <4> QED
        BY <3>2, <3>6, <4>1 DEF FeRecheckRecord, FeRecheckKey, FeRecheckEntry, SlotLabels
    <3>7. CASE FeDecide(t)
      <4>1. Result(r, "hit").pc \in {"idle", "hit"}
        BY <1>a, <1>c, FinishKeeps DEF Result, Labels
      <4> QED
        BY <3>2, <3>7, <4>1 DEF FeDecide, SlotLabels
    <3> QED
      BY <1>4, <3>3, <3>4, <3>5, <3>6, <3>7 DEF FindEntity
  <2>2. UNCHANGED <<records, entities>>
    BY <1>4 DEF FindEntity, FeProbe, FeIndex, FeToken, FeRecordKey, FeRecordToken, FeCopy,
                FeCopyRest, FeRecheckRecord, FeRecheckKey, FeRecheckEntry, FeDecide
  <2> QED
    BY <2>1, <2>2, <1>b
<1>5. CASE InToken(t)
  <2>1. [Start(r, "in_probe") EXCEPT !.token = next_token + 1].pc = "in_probe"
    BY <1>a, StartType DEF Labels, Locals
  <2> QED
    BY <1>5, <2>1, <1>b, <1>c DEF InToken, SlotLabels
<1>6. CASE InProbe(t)
  <2>1. r.pc = "in_probe"
    BY <1>6 DEF InProbe, At
  <2>2. Onward(r, Idle).pc \in {"idle", "in_probe"}
    BY <1>a, <1>c, <2>1, OnwardKeeps
  <2>3. Retry(r, "in_probe", Idle).pc \in {"idle", "in_probe"}
    BY <1>a, <1>c, RetryKeeps DEF Labels
  <2> DEFINE s == SlotOf(r.wrapper, r.probe)
  <2>4. [r EXCEPT !.pc = "in_claim", !.slot = s].pc = "in_claim"
    BY <1>a DEF Locals
  <2>5. \E q : Goto(t, q) /\ q.pc \notin SlotLabels
    BY <1>6, <1>c, <2>2, <2>3, <2>4 DEF InProbe, SlotLabels
  <2> QED
    BY <1>6, <2>5, <1>b DEF InProbe
<1> QED
  BY <1>1, <1>2, <1>3, <1>4, <1>5, <1>6 DEF Quiet

\* The steps of a thread that holds a slot or tries to claim one.
LEMMA HolderStep ==
  ASSUME Typed, NEW t \in Threads
  PROVE
    LET r == th[t]
        q == th'[t]
    IN
    /\ InClaim(t) => IF Free(wkey[r.slot]) THEN q.pc = "in_fill" /\ Kept(q, r)
                     ELSE q.pc \in {"in_probe", "idle"}
    /\ InFill(t) => q.pc = "in_stamp" /\ Kept(q, r)
    /\ InStamp(t) => q.pc = "ix_probe" /\ Kept(q, r)
    /\ IxProbe(t) =>
         \/ q.pc \in {"in_undo", "ix_probe"} /\ Kept(q, r)
         \/ q.pc = "ix_claim" /\ q.slot = r.slot /\ q.token = r.token
            /\ q.wrapper = r.wrapper /\ q.entity = r.entity
    /\ IxClaim(t) => IF Free(ekey[r.entry]) THEN q.pc = "ix_fill" /\ Kept(q, r)
                     ELSE q.pc \in {"ix_probe", "in_undo"} /\ Kept(q, r)
    /\ IxFill(t) => q.pc = "ix_publish" /\ Kept(q, r)
    /\ IxPublish(t) => q.pc = "in_count" /\ Kept(q, r)
    /\ InCount(t) => q.pc = "in_publish" /\ Kept(q, r)
    /\ InPublish(t) => q.pc = "idle"
    /\ ClearPayload(t, "in_undo", "in_undo_token") => q.pc = "in_undo_token" /\ Kept(q, r)
    /\ ClearToken(t, "in_undo_token", "in_bury") => q.pc = "in_bury" /\ Kept(q, r)
    /\ Bury(t, "in_bury") => q.pc = "idle"
    /\ RmClaim(t) => IF wkey[r.slot] = r.wrapper THEN q.pc = "rm_check" /\ Kept(q, r)
                     ELSE q.pc = "idle"
    /\ RmCheck(t) =>
         IF StillOwned(r)
         THEN q.pc = "rx_probe" /\ q.slot = r.slot /\ q.token = r.token /\ q.wrapper = r.wrapper
         ELSE q.pc = "idle"
    /\ RxProbe(t) =>
         \/ q.pc \in {"rm_clear", "rx_probe"} /\ Kept(q, r)
         \/ q.pc = "rx_claim" /\ q.slot = r.slot /\ q.token = r.token
    /\ RxClaim(t) => IF ekey[r.entry] = r.entity THEN q.pc = "rx_check" /\ Kept(q, r)
                     ELSE q.pc = "rm_clear" /\ Kept(q, r)
    /\ RxCheck(t) => IF etok[r.entry] = r.token /\ erec[r.entry] = r.slot + 1
                     THEN q.pc = "rx_bury" /\ Kept(q, r)
                     ELSE q.pc = "rm_clear" /\ Kept(q, r)
    /\ RxBury(t) => q.pc = "rm_clear" /\ Kept(q, r)
    /\ ClearPayload(t, "rm_clear", "rm_clear_token") => q.pc = "rm_clear_token" /\ Kept(q, r)
    /\ ClearToken(t, "rm_clear_token", "rm_count") => q.pc = "rm_count" /\ Kept(q, r)
    /\ RmCount(t) => q.pc = "rm_bury" /\ Kept(q, r)
    /\ Bury(t, "rm_bury") => q.pc = "idle"
<1> DEFINE r == th[t]
<1>a. r \in Locals
  BY DEF Typed, TypeOK
<1>b. ASSUME NEW q, Goto(t, q)
      PROVE  th'[t] = q
  BY <1>b DEF Goto, Typed, TypeOK
<1>c. Idle.pc = "idle"
  BY DEF Idle
<1>l. SlotLabels \subseteq Labels /\ {"in_probe", "in_claim"} \subseteq Labels
  BY DEF Labels
<1>d. \A l \in SlotLabels : Finish(r, l).pc = l /\ Kept(Finish(r, l), r)
                            /\ Start(r, l).pc = l /\ Kept(Start(r, l), r)
  BY <1>a, <1>l, FinishKeeps
<1>1. InClaim(t) => IF Free(wkey[r.slot]) THEN th'[t].pc = "in_fill" /\ Kept(th'[t], r)
                    ELSE th'[t].pc \in {"in_probe", "idle"}
  <2>1. Retry(r, "in_probe", Idle).pc \in {"in_probe", "idle"}
    BY <1>a, <1>c, <1>l, RetryKeeps
  <2>2. Finish(r, "in_fill").pc = "in_fill" /\ Kept(Finish(r, "in_fill"), r)
    BY <1>d DEF SlotLabels
  <2> QED
    BY <2>1, <2>2, <1>b DEF InClaim
<1>2. InFill(t) => th'[t].pc = "in_stamp" /\ Kept(th'[t], r)
  BY <1>b, <1>d DEF InFill, SlotLabels
<1>3. InStamp(t) => th'[t].pc = "ix_probe" /\ Kept(th'[t], r)
  BY <1>b, <1>d DEF InStamp, SlotLabels
<1>u. Finish(r, "in_undo").pc = "in_undo" /\ Kept(Finish(r, "in_undo"), r)
  BY <1>d DEF SlotLabels
<1>v. LET q == Retry(r, "ix_probe", Finish(r, "in_undo"))
      IN  q.pc \in {"ix_probe", "in_undo"} /\ Kept(q, r)
  BY <1>a, <1>l, <1>u, RetryKeeps DEF SlotLabels
<1>4. IxProbe(t) =>
         \/ th'[t].pc \in {"in_undo", "ix_probe"} /\ Kept(th'[t], r)
         \/ th'[t].pc = "ix_claim" /\ th'[t].slot = r.slot /\ th'[t].token = r.token
            /\ th'[t].wrapper = r.wrapper /\ th'[t].entity = r.entity
  <2> SUFFICES ASSUME IxProbe(t)
               PROVE  \/ th'[t].pc \in {"in_undo", "ix_probe"} /\ Kept(th'[t], r)
                      \/ th'[t].pc = "ix_claim" /\ th'[t].slot = r.slot
                         /\ th'[t].token = r.token /\ th'[t].wrapper = r.wrapper
                         /\ th'[t].entity = r.entity
    OBVIOUS
  <2> DEFINE x == SlotOf(r.entity, r.probe)
  <2> DEFINE q == [r EXCEPT !.pc = "ix_claim", !.entry = x]
  <2>1. r.pc = "ix_probe"
    BY DEF IxProbe, At
  <2>2. LET o == Onward(r, Finish(r, "in_undo"))
        IN  o.pc \in {"ix_probe", "in_undo"} /\ Kept(o, r)
    BY <1>a, <1>u, <2>1, OnwardKeeps
  <2>3. q.pc = "ix_claim" /\ q.slot = r.slot /\ q.token = r.token
        /\ q.wrapper = r.wrapper /\ q.entity = r.entity
    BY <1>a DEF Locals
  <2> QED
    BY <1>b, <1>u, <1>v, <2>2, <2>3 DEF IxProbe
<1>5. IxClaim(t) => IF Free(ekey[r.entry]) THEN th'[t].pc = "ix_fill" /\ Kept(th'[t], r)
                     ELSE th'[t].pc \in {"ix_probe", "in_undo"} /\ Kept(th'[t], r)
  <2>1. Finish(r, "ix_fill").pc = "ix_fill" /\ Kept(Finish(r, "ix_fill"), r)
    BY <1>d DEF SlotLabels
  <2> QED
    BY <1>b, <1>v, <2>1 DEF IxClaim
<1>6. IxFill(t) => th'[t].pc = "ix_publish" /\ Kept(th'[t], r)
  BY <1>b, <1>d DEF IxFill, SlotLabels
<1>7. IxPublish(t) => th'[t].pc = "in_count" /\ Kept(th'[t], r)
  BY <1>b, <1>d DEF IxPublish, SlotLabels
<1>8. InCount(t) => th'[t].pc = "in_publish" /\ Kept(th'[t], r)
  BY <1>b, <1>d DEF InCount, SlotLabels
<1>9. InPublish(t) => th'[t].pc = "idle"
  BY <1>b, <1>c DEF InPublish
<1>10. /\ ClearPayload(t, "in_undo", "in_undo_token") => th'[t].pc = "in_undo_token" /\ Kept(th'[t], r)
       /\ ClearPayload(t, "rm_clear", "rm_clear_token") => th'[t].pc = "rm_clear_token" /\ Kept(th'[t], r)
  BY <1>b, <1>d DEF ClearPayload, SlotLabels
<1>11. /\ ClearToken(t, "in_undo_token", "in_bury") => th'[t].pc = "in_bury" /\ Kept(th'[t], r)
       /\ ClearToken(t, "rm_clear_token", "rm_count") => th'[t].pc = "rm_count" /\ Kept(th'[t], r)
  BY <1>b, <1>d DEF ClearToken, SlotLabels
<1>12. \A l : Bury(t, l) => th'[t].pc = "idle"
  BY <1>b, <1>c DEF Bury
<1>13. RmClaim(t) => IF wkey[r.slot] = r.wrapper THEN th'[t].pc = "rm_check" /\ Kept(th'[t], r)
                     ELSE th'[t].pc = "idle"
  <2>1. Finish(r, "rm_check").pc = "rm_check" /\ Kept(Finish(r, "rm_check"), r)
    BY <1>d DEF SlotLabels
  <2> QED
    BY <1>b, <1>c, <2>1 DEF RmClaim
<1>14. RmCheck(t) =>
         IF StillOwned(r)
         THEN th'[t].pc = "rx_probe" /\ th'[t].slot = r.slot /\ th'[t].token = r.token
              /\ th'[t].wrapper = r.wrapper
         ELSE th'[t].pc = "idle"
  <2> DEFINE q == [Start(r, "rx_probe") EXCEPT !.entity = ent[r.slot]]
  <2>1. Start(r, "rx_probe") \in Locals
    BY <1>a, <1>l, StartType DEF SlotLabels
  <2>2. Start(r, "rx_probe").pc = "rx_probe" /\ Kept(Start(r, "rx_probe"), r)
    BY <1>d DEF SlotLabels
  <2>3. q.pc = "rx_probe" /\ q.slot = r.slot /\ q.token = r.token /\ q.wrapper = r.wrapper
    BY <2>1, <2>2 DEF Kept, Locals
  <2> QED
    BY <1>b, <1>c, <2>3 DEF RmCheck
<1>c2. Finish(r, "rm_clear").pc = "rm_clear" /\ Kept(Finish(r, "rm_clear"), r)
  BY <1>d DEF SlotLabels
<1>15. RxProbe(t) =>
         \/ th'[t].pc \in {"rm_clear", "rx_probe"} /\ Kept(th'[t], r)
         \/ th'[t].pc = "rx_claim" /\ th'[t].slot = r.slot /\ th'[t].token = r.token
  <2> SUFFICES ASSUME RxProbe(t)
               PROVE  \/ th'[t].pc \in {"rm_clear", "rx_probe"} /\ Kept(th'[t], r)
                      \/ th'[t].pc = "rx_claim" /\ th'[t].slot = r.slot /\ th'[t].token = r.token
    OBVIOUS
  <2> DEFINE x == SlotOf(r.entity, r.probe)
  <2> DEFINE q == [r EXCEPT !.pc = "rx_claim", !.entry = x]
  <2>1. r.pc = "rx_probe"
    BY DEF RxProbe, At
  <2>2. LET o == Onward(r, Finish(r, "rm_clear"))
        IN  o.pc \in {"rx_probe", "rm_clear"} /\ Kept(o, r)
    BY <1>a, <1>c2, <2>1, OnwardKeeps
  <2>3. q.pc = "rx_claim" /\ q.slot = r.slot /\ q.token = r.token
    BY <1>a DEF Locals
  <2> QED
    BY <1>b, <1>c2, <2>2, <2>3 DEF RxProbe
<1>16. RxClaim(t) => IF ekey[r.entry] = r.entity THEN th'[t].pc = "rx_check" /\ Kept(th'[t], r)
                     ELSE th'[t].pc = "rm_clear" /\ Kept(th'[t], r)
  <2>1. Finish(r, "rx_check").pc = "rx_check" /\ Kept(Finish(r, "rx_check"), r)
    BY <1>d DEF SlotLabels
  <2> QED
    BY <1>b, <1>c2, <2>1 DEF RxClaim
<1>17. RxCheck(t) => IF etok[r.entry] = r.token /\ erec[r.entry] = r.slot + 1
                     THEN th'[t].pc = "rx_bury" /\ Kept(th'[t], r)
                     ELSE th'[t].pc = "rm_clear" /\ Kept(th'[t], r)
  <2>1. Finish(r, "rx_bury").pc = "rx_bury" /\ Kept(Finish(r, "rx_bury"), r)
    BY <1>d DEF SlotLabels
  <2> QED
    BY <1>b, <1>c2, <2>1 DEF RxCheck
<1>18. RxBury(t) => th'[t].pc = "rm_clear" /\ Kept(th'[t], r)
  BY <1>b, <1>c2 DEF RxBury
<1>19. RmCount(t) => th'[t].pc = "rm_bury" /\ Kept(th'[t], r)
  BY <1>b, <1>d DEF RmCount, SlotLabels
<1> QED
  BY <1>1, <1>2, <1>3, <1>4, <1>5, <1>6, <1>7, <1>8, <1>9, <1>10, <1>11, <1>12, <1>13,
     <1>14, <1>15, <1>16, <1>17, <1>18, <1>19

-----------------------------------------------------------------------------
(***************************************************************************)
(* Who may touch a slot.  A step keeps slots exclusive when it changes a   *)
(* key only in a slot the thread holds or takes from the free ones.        *)
(***************************************************************************)
LEMMA ExclusiveByFrame ==
  ASSUME Typed, SlotExclusive, NEW t \in Threads,
         \A u \in Threads \ {t} : th'[u] = th[u],
         th'[t].pc \in SlotLabels =>
           /\ th'[t].slot = th[t].slot
           /\ Busy(wkey'[th[t].slot])
           /\ HoldsSlot(t) \/ ~Busy(wkey[th[t].slot]),
         th'[t].pc \in EntryLabels =>
           /\ th'[t].entry = th[t].entry
           /\ Busy(ekey'[th[t].entry])
           /\ HoldsEntry(t) \/ ~Busy(ekey[th[t].entry]),
         \A s \in Slots : wkey'[s] # wkey[s] =>
           s = th[t].slot /\ (HoldsSlot(t) \/ ~Busy(wkey[s])),
         \A x \in Slots : ekey'[x] # ekey[x] =>
           x = th[t].entry /\ (HoldsEntry(t) \/ ~Busy(ekey[x]))
  PROVE  SlotExclusive'
<1>a. \A u \in Threads : th[u].slot \in Slots /\ th[u].entry \in Slots
  BY DEF Typed, TypeOK, Locals
<1>1. ASSUME NEW u \in Threads, u # t, HoldsSlot(u)
      PROVE  /\ Busy(wkey'[th[u].slot])
             /\ th'[t].pc \in SlotLabels => th'[t].slot # th[u].slot
  BY <1>a, <1>1 DEF SlotExclusive
<1>2. ASSUME NEW u \in Threads, u # t, HoldsEntry(u)
      PROVE  /\ Busy(ekey'[th[u].entry])
             /\ th'[t].pc \in EntryLabels => th'[t].entry # th[u].entry
  BY <1>a, <1>2 DEF SlotExclusive
<1>3. \A u \in Threads : HoldsSlot(u)' => Busy(wkey'[th'[u].slot])
  BY <1>1 DEF HoldsSlot
<1>4. \A u \in Threads : HoldsEntry(u)' => Busy(ekey'[th'[u].entry])
  BY <1>2 DEF HoldsEntry
<1>5. \A u, v \in Threads : u # v /\ HoldsSlot(u)' /\ HoldsSlot(v)' => th'[u].slot # th'[v].slot
  BY <1>1 DEF HoldsSlot, SlotExclusive
<1>6. \A u, v \in Threads : u # v /\ HoldsEntry(u)' /\ HoldsEntry(v)' => th'[u].entry # th'[v].entry
  BY <1>2 DEF HoldsEntry, SlotExclusive
<1> QED
  BY <1>3, <1>4, <1>5, <1>6 DEF SlotExclusive

LEMMA LabelFacts == EntryLabels \subseteq SlotLabels
BY DEF EntryLabels, SlotLabels

LEMMA BusyFacts ==
  /\ \A w \in Wrappers \cup Entities : ~Busy(w) /\ ~Free(w)
  /\ \A k : Free(k) => ~Busy(k)
  /\ Busy(CLAIMED) /\ Busy(RECLAIMING) /\ ~Busy(TOMBSTONE) /\ Free(TOMBSTONE)
BY NumbersFact DEF Busy, Free, CLAIMED, RECLAIMING, TOMBSTONE, EMPTY

LEMMA GotoOthers ==
  ASSUME Typed, NEW t \in Threads, NEW r, Goto(t, r)
  PROVE  \A u \in Threads \ {t} : th'[u] = th[u]
BY DEF Goto, Typed, TypeOK

Working(t) == (Insert(t) \/ Reclaim(t)) /\ ~InToken(t) /\ ~InProbe(t)

LEMMA StepOthers ==
  ASSUME Typed, NEW t \in Threads, Working(t)
  PROVE  \A u \in Threads \ {t} : th'[u] = th[u]
<1>1. \E r : Goto(t, r)
  BY DEF Working, Insert, InClaim, InFill, InStamp, IxProbe, IxClaim, IxFill, IxPublish,
         InCount, InPublish, InUndo, ClearPayload, ClearToken, Bury, Reclaim, RmClaim,
         RmCheck, RxProbe, RxClaim, RxCheck, RxBury, RmFinish, RmCount
<1> QED
  BY <1>1, GotoOthers

LEMMA ExclusiveStep ==
  ASSUME Typed, SlotExclusive, NEW t \in Threads, Call(t) \/ Step(t)
  PROVE  SlotExclusive'
<1> DEFINE r == th[t]
<1>a. /\ r \in Locals /\ r.slot \in Slots /\ r.entry \in Slots
      /\ wkey \in [Slots -> WrapperKeys] /\ ekey \in [Slots -> EntityKeys]
      /\ Sane(r)
  BY DEF Typed, TypeOK, Locals
<1>q. CASE Quiet(t)
  BY <1>q, QuietStep, LabelFacts, ExclusiveByFrame DEF records, entities
<1>n. CASE ~Quiet(t)
  <2>o. Working(t)
    BY <1>n DEF Quiet, Step, Working
  <2>b. \A u \in Threads \ {t} : th'[u] = th[u]
    BY <2>o, StepOthers
  <2>h. HoldsSlot(t) => Busy(wkey[r.slot])
    BY DEF SlotExclusive
  <2>e. HoldsEntry(t) => Busy(ekey[r.entry])
    BY DEF SlotExclusive
  <2>1. CASE InClaim(t)
    <3>1. CASE Free(wkey[r.slot])
      <4>1. /\ wkey' = [wkey EXCEPT ![r.slot] = CLAIMED] /\ ekey' = ekey
            /\ th'[t].pc = "in_fill" /\ th'[t].slot = r.slot
        BY <2>1, <3>1, HolderStep DEF InClaim, Kept, entities
      <4> QED
        BY <1>a, <2>b, <3>1, <4>1, BusyFacts, ExclusiveByFrame DEF SlotLabels, EntryLabels
    <3>2. CASE ~Free(wkey[r.slot])
      <4>1. wkey' = wkey /\ ekey' = ekey /\ th'[t].pc \in {"in_probe", "idle"}
        BY <2>1, <3>2, HolderStep DEF InClaim, entities
      <4> QED
        BY <1>a, <2>b, <4>1, ExclusiveByFrame DEF SlotLabels, EntryLabels
    <3> QED
      BY <3>1, <3>2
  \* The slot is held and stays held, its key and the index are untouched.
  <2>2. ASSUME HoldsSlot(t), wkey' = wkey, ekey' = ekey,
               th'[t].slot = r.slot \/ th'[t].pc \notin SlotLabels,
               th'[t].pc \in EntryLabels => HoldsEntry(t) /\ th'[t].entry = r.entry
        PROVE  SlotExclusive'
    BY <1>a, <2>2, <2>b, <2>h, <2>e, ExclusiveByFrame
  <2>3. CASE InFill(t) \/ InStamp(t) \/ IxFill(t) \/ InCount(t) \/ RmCount(t)
    <3>1. HoldsSlot(t) /\ wkey' = wkey /\ ekey' = ekey
      BY <2>3 DEF InFill, InStamp, IxFill, InCount, RmCount, At, HoldsSlot, SlotLabels,
                  entities, records
    <3>2. th'[t].slot = r.slot
      BY <2>3, HolderStep DEF Kept
    <3>3. th'[t].pc \in EntryLabels => HoldsEntry(t) /\ th'[t].entry = r.entry
      BY <2>3, HolderStep DEF Kept, EntryLabels, HoldsEntry, IxFill, At
    <3> QED
      BY <2>2, <3>1, <3>2, <3>3
  <2>4. CASE IxProbe(t) \/ RxProbe(t)
    <3>1. HoldsSlot(t) /\ wkey' = wkey /\ ekey' = ekey
      BY <2>4 DEF IxProbe, RxProbe, At, HoldsSlot, SlotLabels, entities, records
    <3>2. th'[t].slot = r.slot /\ th'[t].pc \notin EntryLabels
      BY <2>4, HolderStep DEF Kept, EntryLabels
    <3> QED
      BY <2>2, <3>1, <3>2
  <2>5. CASE \/ ClearPayload(t, "in_undo", "in_undo_token")
             \/ ClearPayload(t, "rm_clear", "rm_clear_token")
             \/ ClearToken(t, "in_undo_token", "in_bury")
             \/ ClearToken(t, "rm_clear_token", "rm_count")
    <3>1. HoldsSlot(t) /\ wkey' = wkey /\ ekey' = ekey
      BY <2>5 DEF ClearPayload, ClearToken, At, HoldsSlot, SlotLabels, entities
    <3>2. th'[t].slot = r.slot /\ th'[t].pc \notin EntryLabels
      BY <2>5, HolderStep DEF Kept, EntryLabels
    <3> QED
      BY <2>2, <3>1, <3>2
  <2>6. CASE IxClaim(t)
    <3>1. HoldsSlot(t) /\ wkey' = wkey
      BY <2>6 DEF IxClaim, At, HoldsSlot, SlotLabels, records
    <3>2. CASE Free(ekey[r.entry])
      <4>1. /\ ekey' = [ekey EXCEPT ![r.entry] = CLAIMED]
            /\ th'[t].pc = "ix_fill" /\ th'[t].slot = r.slot /\ th'[t].entry = r.entry
        BY <2>6, <3>2, HolderStep DEF IxClaim, Kept
      <4> QED
        BY <1>a, <2>b, <2>h, <3>1, <3>2, <4>1, BusyFacts, ExclusiveByFrame DEF EntryLabels
    <3>3. CASE ~Free(ekey[r.entry])
      <4>1. ekey' = ekey /\ th'[t].slot = r.slot /\ th'[t].pc \notin EntryLabels
        BY <2>6, <3>3, HolderStep DEF IxClaim, Kept, EntryLabels
      <4> QED
        BY <2>2, <3>1, <4>1
    <3> QED
      BY <3>2, <3>3
  \* The index entry is released; the slot stays held.
  <2>7. ASSUME HoldsSlot(t), HoldsEntry(t), wkey' = wkey, th'[t].slot = r.slot,
               th'[t].pc \notin EntryLabels,
               \E k : ekey' = [ekey EXCEPT ![r.entry] = k]
        PROVE  SlotExclusive'
    BY <1>a, <2>7, <2>b, <2>h, <2>e, ExclusiveByFrame
  <2>8. CASE IxPublish(t) \/ RxBury(t)
    <3>1. HoldsSlot(t) /\ HoldsEntry(t) /\ wkey' = wkey
          /\ \E k : ekey' = [ekey EXCEPT ![r.entry] = k]
      BY <2>8 DEF IxPublish, RxBury, At, HoldsSlot, HoldsEntry, SlotLabels, EntryLabels, records
    <3>2. th'[t].slot = r.slot /\ th'[t].pc \notin EntryLabels
      BY <2>8, HolderStep DEF Kept, EntryLabels
    <3> QED
      BY <2>7, <3>1, <3>2
  <2>9. CASE RxCheck(t)
    <3>1. HoldsSlot(t) /\ HoldsEntry(t) /\ wkey' = wkey
      BY <2>9 DEF RxCheck, At, HoldsSlot, HoldsEntry, SlotLabels, EntryLabels, records
    <3>2. CASE etok[r.entry] = r.token /\ erec[r.entry] = r.slot + 1
      <4>1. ekey' = ekey /\ th'[t].slot = r.slot /\ th'[t].entry = r.entry
        BY <2>9, <3>2, HolderStep DEF RxCheck, Kept
      <4> QED
        BY <2>2, <3>1, <4>1
    <3>3. CASE ~(etok[r.entry] = r.token /\ erec[r.entry] = r.slot + 1)
      <4>1. /\ \E k : ekey' = [ekey EXCEPT ![r.entry] = k]
            /\ th'[t].slot = r.slot /\ th'[t].pc \notin EntryLabels
        BY <2>9, <3>3, HolderStep DEF RxCheck, Kept, EntryLabels
      <4> QED
        BY <2>7, <3>1, <4>1
    <3> QED
      BY <3>2, <3>3
  <2>10. CASE RxClaim(t)
    <3>1. HoldsSlot(t) /\ wkey' = wkey
      BY <2>10 DEF RxClaim, At, HoldsSlot, SlotLabels, records
    <3>2. CASE ekey[r.entry] = r.entity
      <4>1. /\ ekey' = [ekey EXCEPT ![r.entry] = RECLAIMING]
            /\ th'[t].pc = "rx_check" /\ th'[t].slot = r.slot /\ th'[t].entry = r.entry
        BY <2>10, <3>2, HolderStep DEF RxClaim, Kept
      <4>2. r.entity \in Entities
        BY <2>10, <1>a DEF RxClaim, At, Sane, RxLabels
      <4>3. ~Busy(ekey[r.entry])
        BY <3>2, <4>2, BusyFacts
      <4> QED
        BY <1>a, <2>b, <2>h, <3>1, <4>1, <4>3, BusyFacts, ExclusiveByFrame DEF EntryLabels
    <3>3. CASE ekey[r.entry] # r.entity
      <4>1. ekey' = ekey /\ th'[t].slot = r.slot /\ th'[t].pc \notin EntryLabels
        BY <2>10, <3>3, HolderStep DEF RxClaim, Kept, EntryLabels
      <4> QED
        BY <2>2, <3>1, <4>1
    <3> QED
      BY <3>2, <3>3
  \* The slot is released.
  <2>11. ASSUME HoldsSlot(t), ekey' = ekey, th'[t].pc \notin SlotLabels,
                \E k : wkey' = [wkey EXCEPT ![r.slot] = k]
         PROVE  SlotExclusive'
    BY <1>a, <2>11, <2>b, LabelFacts, ExclusiveByFrame
  <2>12. CASE InPublish(t) \/ Bury(t, "in_bury") \/ Bury(t, "rm_bury")
    <3>1. HoldsSlot(t) /\ ekey' = ekey /\ \E k : wkey' = [wkey EXCEPT ![r.slot] = k]
      BY <2>12 DEF InPublish, Bury, At, HoldsSlot, SlotLabels, entities
    <3>2. th'[t].pc \notin SlotLabels
      BY <2>12, HolderStep DEF SlotLabels
    <3> QED
      BY <2>11, <3>1, <3>2
  <2>13. CASE RmClaim(t)
    <3>1. CASE wkey[r.slot] = r.wrapper
      <4>1. /\ wkey' = [wkey EXCEPT ![r.slot] = RECLAIMING] /\ ekey' = ekey
            /\ th'[t].pc = "rm_check" /\ th'[t].slot = r.slot
        BY <2>13, <3>1, HolderStep DEF RmClaim, Kept, entities
      <4>2. r.wrapper \in Wrappers
        BY <2>13, <1>a DEF RmClaim, At, Sane, RmLabels, WrapperOps
      <4>3. ~Busy(wkey[r.slot])
        BY <3>1, <4>2, BusyFacts
      <4> QED
        BY <1>a, <2>b, <4>1, <4>3, BusyFacts, ExclusiveByFrame DEF EntryLabels
    <3>2. CASE wkey[r.slot] # r.wrapper
      <4>1. wkey' = wkey /\ ekey' = ekey /\ th'[t].pc = "idle"
        BY <2>13, <3>2, HolderStep DEF RmClaim, entities
      <4> QED
        BY <1>a, <2>b, <4>1, ExclusiveByFrame DEF SlotLabels, EntryLabels
    <3> QED
      BY <3>1, <3>2
  <2>14. CASE RmCheck(t)
    <3>1. HoldsSlot(t) /\ ekey' = ekey
      BY <2>14 DEF RmCheck, At, HoldsSlot, SlotLabels, entities
    <3>2. CASE StillOwned(r)
      <4>1. wkey' = wkey /\ th'[t].slot = r.slot /\ th'[t].pc \notin EntryLabels
        BY <2>14, <3>2, HolderStep DEF RmCheck, EntryLabels
      <4> QED
        BY <2>2, <3>1, <4>1
    <3>3. CASE ~StillOwned(r)
      <4>1. /\ \E k : wkey' = [wkey EXCEPT ![r.slot] = k]
            /\ th'[t].pc \notin SlotLabels
        BY <2>14, <3>3, HolderStep DEF RmCheck, SlotLabels
      <4> QED
        BY <2>11, <3>1, <4>1
    <3> QED
      BY <3>2, <3>3
  <2> QED
    BY <2>o, <2>1, <2>3, <2>4, <2>5, <2>6, <2>8, <2>9, <2>10, <2>12, <2>13, <2>14
       DEF Working, Insert, InUndo, Reclaim, RmFinish
<1> QED
  BY <1>q, <1>n

-----------------------------------------------------------------------------
(***************************************************************************)
(* Nothing is left behind in a free slot.  The strengthening says what has *)
(* been cleared by the time a thread is about to bury its slot.            *)
(***************************************************************************)
ClearedAt(t) ==
  /\ th[t].pc \in {"in_undo_token", "rm_clear_token", "in_bury", "rm_count", "rm_bury"} =>
       ent[th[t].slot] = 0 /\ dat[th[t].slot] = NoData
  /\ th[t].pc \in {"in_bury", "rm_count", "rm_bury"} => wtok[th[t].slot] = 0
  /\ th[t].pc = "rx_bury" => erec[th[t].entry] = 0 /\ etok[th[t].entry] = 0

Custody ==
  /\ Typed
  /\ SlotExclusive
  /\ ReusableIsClear
  /\ \A t \in Threads : ClearedAt(t)

\* A step that touches only its thread's own slot and entry, touches their
\* contents only while it holds them, and leaves them clear where it frees them.
LEMMA ClearByFrame ==
  ASSUME Custody, NEW t \in Threads,
         \A u \in Threads \ {t} : th'[u] = th[u],
         \A s \in Slots : s # th[t].slot =>
           wkey'[s] = wkey[s] /\ ent'[s] = ent[s] /\ dat'[s] = dat[s] /\ wtok'[s] = wtok[s],
         \A x \in Slots : x # th[t].entry =>
           ekey'[x] = ekey[x] /\ erec'[x] = erec[x] /\ etok'[x] = etok[x],
         \/ HoldsSlot(t)
         \/ ent' = ent /\ dat' = dat /\ wtok' = wtok,
         \/ HoldsEntry(t)
         \/ erec' = erec /\ etok' = etok,
         Free(wkey'[th[t].slot]) =>
           ent'[th[t].slot] = 0 /\ dat'[th[t].slot] = NoData /\ wtok'[th[t].slot] = 0,
         Free(ekey'[th[t].entry]) => erec'[th[t].entry] = 0 /\ etok'[th[t].entry] = 0,
         ClearedAt(t)'
  PROVE  ReusableIsClear' /\ \A u \in Threads : ClearedAt(u)'
<1>a. \A u \in Threads : th[u].slot \in Slots /\ th[u].entry \in Slots
  BY DEF Custody, Typed, TypeOK, Locals
<1>1. ReusableIsClear'
  <2>1. ASSUME NEW s \in Slots, Free(wkey'[s])
        PROVE  ent'[s] = 0 /\ dat'[s] = NoData /\ wtok'[s] = 0
    BY <2>1 DEF Custody, ReusableIsClear
  <2>2. ASSUME NEW x \in Slots, Free(ekey'[x])
        PROVE  erec'[x] = 0 /\ etok'[x] = 0
    BY <2>2 DEF Custody, ReusableIsClear
  <2> QED
    BY <2>1, <2>2 DEF ReusableIsClear
<1>2. ASSUME NEW u \in Threads, u # t
      PROVE  ClearedAt(u)'
  <2>1. ClearedAt(u) /\ th'[u] = th[u]
    BY <1>2 DEF Custody
  <2>2. HoldsSlot(u) => /\ ent'[th[u].slot] = ent[th[u].slot]
                        /\ dat'[th[u].slot] = dat[th[u].slot]
                        /\ wtok'[th[u].slot] = wtok[th[u].slot]
    BY <1>a, <1>2 DEF Custody, SlotExclusive
  <2>3. HoldsEntry(u) => /\ erec'[th[u].entry] = erec[th[u].entry]
                         /\ etok'[th[u].entry] = etok[th[u].entry]
    BY <1>a, <1>2 DEF Custody, SlotExclusive
  <2>4. /\ th[u].pc \in {"in_undo_token", "rm_clear_token", "in_bury", "rm_count", "rm_bury"}
             => HoldsSlot(u)
        /\ th[u].pc = "rx_bury" => HoldsEntry(u)
    BY DEF HoldsSlot, HoldsEntry, SlotLabels, EntryLabels
  <2> QED
    BY <2>1, <2>2, <2>3, <2>4 DEF ClearedAt
<1> QED
  BY <1>1, <1>2

LEMMA ClearStep ==
  ASSUME Custody, NEW t \in Threads, Call(t) \/ Step(t)
  PROVE  ReusableIsClear' /\ \A u \in Threads : ClearedAt(u)'
<1> DEFINE r == th[t]
           Settled == {"in_undo_token", "rm_clear_token", "in_bury", "rm_count", "rm_bury", "rx_bury"}
<1>a. /\ r \in Locals /\ r.slot \in Slots /\ r.entry \in Slots
      /\ wkey \in [Slots -> WrapperKeys] /\ ekey \in [Slots -> EntityKeys]
      /\ ent \in [Slots -> {0} \cup Entities] /\ dat \in [Slots -> Data]
      /\ wtok \in [Slots -> Tokens] /\ erec \in [Slots -> 0 .. Capacity]
      /\ etok \in [Slots -> Tokens] /\ Typed /\ Sane(r)
  BY DEF Custody, Typed, TypeOK, Locals
<1>s. th'[t].pc \notin Settled => ClearedAt(t)'
  BY DEF ClearedAt
<1>f. /\ Free(wkey[r.slot]) => ent[r.slot] = 0 /\ dat[r.slot] = NoData /\ wtok[r.slot] = 0
      /\ Free(ekey[r.entry]) => erec[r.entry] = 0 /\ etok[r.entry] = 0
  BY <1>a DEF Custody, ReusableIsClear
<1>h. HoldsSlot(t) => ~Free(wkey[r.slot])
  BY BusyFacts DEF Custody, SlotExclusive
<1>e. HoldsEntry(t) => ~Free(ekey[r.entry])
  BY BusyFacts DEF Custody, SlotExclusive
<1>c. ClearedAt(t)
  BY DEF Custody
<1>q. CASE Quiet(t)
  <2>1. th'[t].pc \notin Settled
    BY <1>a, <1>q, QuietStep DEF SlotLabels
  <2> QED
    BY <1>a, <1>q, <1>s, <1>f, <2>1, QuietStep, ClearByFrame DEF records, entities
<1>n. CASE ~Quiet(t)
  <2>o. Working(t)
    BY <1>n DEF Quiet, Step, Working
  <2>b. \A u \in Threads \ {t} : th'[u] = th[u]
    BY <1>a, <2>o, StepOthers
  \* Only keys change, and none of them becomes free.
  <2>k. ASSUME UNCHANGED <<ent, dat, wtok, erec, etok>>, th'[t].pc \notin Settled,
               \/ wkey' = wkey
               \/ \E k : wkey' = [wkey EXCEPT ![r.slot] = k] /\ ~Free(k),
               \/ ekey' = ekey
               \/ \E k : ekey' = [ekey EXCEPT ![r.entry] = k] /\ ~Free(k)
        PROVE  ReusableIsClear' /\ \A u \in Threads : ClearedAt(u)'
    BY <1>a, <1>s, <1>f, <2>b, <2>k, ClearByFrame
  <2>1. CASE InClaim(t)
    <3>1. th'[t].pc \notin Settled
      BY <1>a, <2>1, HolderStep
    <3> QED
      BY <2>1, <2>k, <3>1, BusyFacts DEF InClaim, entities, Busy, Free, CLAIMED, EMPTY, TOMBSTONE
  <2>2. CASE IxProbe(t) \/ RxProbe(t) \/ InCount(t)
    <3>1. th'[t].pc \notin Settled
      BY <1>a, <2>2, HolderStep
    <3> QED
      BY <2>2, <2>k, <3>1 DEF IxProbe, RxProbe, InCount, records, entities
  <2>3. CASE IxClaim(t)
    <3>1. th'[t].pc \notin Settled
      BY <1>a, <2>3, HolderStep
    <3> QED
      BY <2>3, <2>k, <3>1 DEF IxClaim, records, Free, CLAIMED, EMPTY, TOMBSTONE
  <2>4. CASE RxClaim(t)
    <3>1. th'[t].pc \notin Settled
      BY <1>a, <2>4, HolderStep
    <3> QED
      BY <2>4, <2>k, <3>1 DEF RxClaim, records, Free, RECLAIMING, EMPTY, TOMBSTONE
  <2>5. CASE RmClaim(t)
    <3>1. th'[t].pc \notin Settled
      BY <1>a, <2>5, HolderStep
    <3> QED
      BY <2>5, <2>k, <3>1 DEF RmClaim, entities, Free, RECLAIMING, EMPTY, TOMBSTONE
  <2>6. CASE RmCheck(t)
    <3>1. th'[t].pc \notin Settled
      BY <1>a, <2>6, HolderStep
    <3>2. r.wrapper \in Wrappers
      BY <1>a, <2>6 DEF RmCheck, At, Sane, RmLabels, WrapperOps
    <3> QED
      BY <2>6, <2>k, <3>1, <3>2, BusyFacts DEF RmCheck, entities
  <2>7. CASE InPublish(t)
    <3>1. th'[t].pc \notin Settled
      BY <1>a, <2>7, HolderStep
    <3>2. r.wrapper \in Wrappers
      BY <1>a, <2>7 DEF InPublish, At, Sane, InLabels, WrapperOps
    <3> QED
      BY <2>7, <2>k, <3>1, <3>2, BusyFacts DEF InPublish, entities
  <2>8. CASE IxPublish(t)
    <3>1. th'[t].pc \notin Settled
      BY <1>a, <2>8, HolderStep
    <3>2. r.entity \in Entities
      BY <1>a, <2>8 DEF IxPublish, At, Sane, InLabels, EntityOps
    <3> QED
      BY <2>8, <2>k, <3>1, <3>2, BusyFacts DEF IxPublish, records
  <2>9. CASE InFill(t) \/ InStamp(t)
    <3>1. th'[t].pc \notin Settled
      BY <1>a, <2>9, HolderStep
    <3>2. HoldsSlot(t) /\ wkey' = wkey /\ ekey' = ekey /\ erec' = erec /\ etok' = etok
      BY <2>9 DEF InFill, InStamp, At, HoldsSlot, SlotLabels, entities
    <3>3. \A s \in Slots : s # r.slot => ent'[s] = ent[s] /\ dat'[s] = dat[s] /\ wtok'[s] = wtok[s]
      BY <1>a, <2>9 DEF InFill, InStamp
    <3> QED
      BY <1>s, <1>f, <1>h, <2>b, <3>1, <3>2, <3>3, ClearByFrame
  <2>10. CASE IxFill(t)
    <3>1. th'[t].pc \notin Settled
      BY <1>a, <2>10, HolderStep
    <3>2. HoldsEntry(t) /\ UNCHANGED records /\ ekey' = ekey
      BY <2>10 DEF IxFill, At, HoldsEntry, EntryLabels
    <3>3. \A x \in Slots : x # r.entry => erec'[x] = erec[x] /\ etok'[x] = etok[x]
      BY <1>a, <2>10 DEF IxFill
    <3> QED
      BY <1>s, <1>f, <1>e, <2>b, <3>1, <3>2, <3>3, ClearByFrame DEF records
  <2>11. CASE \/ ClearPayload(t, "in_undo", "in_undo_token")
              \/ ClearPayload(t, "rm_clear", "rm_clear_token")
    <3>1. th'[t].pc \in {"in_undo_token", "rm_clear_token"} /\ th'[t].slot = r.slot
      BY <1>a, <2>11, HolderStep DEF Kept
    <3>2. /\ HoldsSlot(t) /\ wkey' = wkey /\ wtok' = wtok
          /\ ekey' = ekey /\ erec' = erec /\ etok' = etok
          /\ ent' = [ent EXCEPT ![r.slot] = 0] /\ dat' = [dat EXCEPT ![r.slot] = NoData]
      BY <2>11 DEF ClearPayload, At, HoldsSlot, SlotLabels, entities
    <3>3. ClearedAt(t)'
      BY <1>a, <3>1, <3>2 DEF ClearedAt
    <3> QED
      BY <1>a, <1>f, <1>h, <2>b, <3>2, <3>3, ClearByFrame
  <2>12. CASE \/ ClearToken(t, "in_undo_token", "in_bury")
              \/ ClearToken(t, "rm_clear_token", "rm_count")
    <3>1. th'[t].pc \in {"in_bury", "rm_count"} /\ th'[t].slot = r.slot
      BY <1>a, <2>12, HolderStep DEF Kept
    <3>2. /\ HoldsSlot(t) /\ wkey' = wkey /\ ent' = ent /\ dat' = dat
          /\ ekey' = ekey /\ erec' = erec /\ etok' = etok
          /\ wtok' = [wtok EXCEPT ![r.slot] = 0]
          /\ r.pc \in {"in_undo_token", "rm_clear_token"}
      BY <2>12 DEF ClearToken, At, HoldsSlot, SlotLabels, entities
    <3>3. ClearedAt(t)'
      BY <1>a, <1>c, <3>1, <3>2 DEF ClearedAt
    <3> QED
      BY <1>a, <1>f, <1>h, <2>b, <3>2, <3>3, ClearByFrame
  <2>13. CASE RmCount(t)
    <3>1. th'[t].pc = "rm_bury" /\ th'[t].slot = r.slot
      BY <1>a, <2>13, HolderStep DEF Kept
    <3>2. UNCHANGED records /\ UNCHANGED entities /\ r.pc = "rm_count"
      BY <2>13 DEF RmCount, At
    <3>3. ClearedAt(t)'
      BY <1>c, <3>1, <3>2 DEF ClearedAt, records
    <3> QED
      BY <1>f, <2>b, <3>2, <3>3, ClearByFrame DEF records, entities
  <2>14. CASE Bury(t, "in_bury") \/ Bury(t, "rm_bury")
    <3>1. th'[t].pc \notin Settled
      BY <1>a, <2>14, HolderStep
    <3>2. /\ wkey' = [wkey EXCEPT ![r.slot] = TOMBSTONE]
          /\ UNCHANGED <<ent, dat, wtok, ekey, erec, etok>>
          /\ r.pc \in {"in_bury", "rm_bury"}
      BY <2>14 DEF Bury, At, entities
    <3>3. ent[r.slot] = 0 /\ dat[r.slot] = NoData /\ wtok[r.slot] = 0
      BY <1>c, <3>2 DEF ClearedAt
    <3> QED
      BY <1>a, <1>s, <1>f, <2>b, <3>1, <3>2, <3>3, ClearByFrame
  <2>15. CASE RxCheck(t)
    <3>1. CASE etok[r.entry] = r.token /\ erec[r.entry] = r.slot + 1
      <4>1. th'[t].pc = "rx_bury" /\ th'[t].entry = r.entry
        BY <1>a, <2>15, <3>1, HolderStep DEF Kept
      <4>2. /\ HoldsEntry(t) /\ UNCHANGED records /\ ekey' = ekey
            /\ erec' = [erec EXCEPT ![r.entry] = 0] /\ etok' = [etok EXCEPT ![r.entry] = 0]
        BY <2>15, <3>1 DEF RxCheck, At, HoldsEntry, EntryLabels
      <4>3. ClearedAt(t)'
        BY <1>a, <4>1, <4>2 DEF ClearedAt
      <4> QED
        BY <1>a, <1>f, <1>e, <2>b, <4>2, <4>3, ClearByFrame DEF records
    <3>2. CASE ~(etok[r.entry] = r.token /\ erec[r.entry] = r.slot + 1)
      <4>1. th'[t].pc \notin Settled
        BY <1>a, <2>15, <3>2, HolderStep
      <4>2. r.entity \in Entities
        BY <1>a, <2>15 DEF RxCheck, At, Sane, RxLabels
      <4> QED
        BY <2>15, <2>k, <3>2, <4>1, <4>2, BusyFacts DEF RxCheck, records
    <3> QED
      BY <3>1, <3>2
  <2>16. CASE RxBury(t)
    <3>1. th'[t].pc \notin Settled
      BY <1>a, <2>16, HolderStep
    <3>2. /\ ekey' = [ekey EXCEPT ![r.entry] = TOMBSTONE]
          /\ UNCHANGED records /\ erec' = erec /\ etok' = etok /\ r.pc = "rx_bury"
      BY <2>16 DEF RxBury, At
    <3>3. erec[r.entry] = 0 /\ etok[r.entry] = 0
      BY <1>c, <3>2 DEF ClearedAt
    <3> QED
      BY <1>a, <1>s, <1>f, <2>b, <3>1, <3>2, <3>3, ClearByFrame DEF records
  <2> QED
    BY <2>o, <2>1, <2>2, <2>3, <2>4, <2>5, <2>6, <2>7, <2>8, <2>9, <2>10, <2>11, <2>12,
       <2>13, <2>14, <2>15, <2>16
       DEF Working, Insert, InUndo, Reclaim, RmFinish
<1> QED
  BY <1>q, <1>n

LEMMA InitCustody == Init => Custody
<1> SUFFICES ASSUME Init
             PROVE  Custody
  OBVIOUS
<1>1. Typed
  BY InitTyped
<1>2. \A t \in Threads : th[t].pc = "idle"
  BY DEF Init, Idle
<1>3. SlotExclusive
  BY <1>2 DEF SlotExclusive, HoldsSlot, HoldsEntry, SlotLabels, EntryLabels
<1>4. ReusableIsClear
  BY DEF Init, ReusableIsClear
<1>5. \A t \in Threads : ClearedAt(t)
  BY <1>2 DEF ClearedAt
<1> QED
  BY <1>1, <1>3, <1>4, <1>5 DEF Custody

LEMMA NextCustody == Custody /\ [Next]_vars => Custody'
<1> SUFFICES ASSUME Custody, [Next]_vars
             PROVE  Custody'
  OBVIOUS
<1>1. Typed'
  BY NextTyped DEF Custody
<1>2. CASE UNCHANGED vars
  BY <1>1, <1>2 DEF vars, Custody, SlotExclusive, HoldsSlot, HoldsEntry, ReusableIsClear, ClearedAt
<1>3. CASE Next
  BY <1>1, <1>3, ExclusiveStep, ClearStep DEF Next, Custody
<1> QED
  BY <1>2, <1>3

LEMMA AlwaysCustody == Spec => []Custody
BY InitCustody, NextCustody, PTL DEF Spec

\* However many threads insert, remove and take, a slot in transition belongs
\* to exactly one of them.
THEOREM SlotsAreExclusive == Spec => []SlotExclusive
<1>1. Custody => SlotExclusive
  BY DEF Custody
<1> QED
  BY <1>1, AlwaysCustody, PTL

\* A slot that can be claimed carries nothing of its last occupant.
THEOREM FreeSlotsAreClear == Spec => []ReusableIsClear
<1>1. Custody => ReusableIsClear
  BY DEF Custody
<1> QED
  BY <1>1, AlwaysCustody, PTL

LEMMA FrozenStep ==
  ASSUME Custody, NEW t \in Threads, Call(t) \/ Step(t),
         NEW s \in Slots, wkey[s] \in Wrappers
  PROVE  ent'[s] = ent[s] /\ dat'[s] = dat[s] /\ wtok'[s] = wtok[s]
<1>a. /\ Typed /\ th[t].slot \in Slots
      /\ ent \in [Slots -> {0} \cup Entities] /\ dat \in [Slots -> Data]
      /\ wtok \in [Slots -> Tokens]
  BY DEF Custody, Typed, TypeOK, Locals
<1>1. CASE Quiet(t)
  BY <1>a, <1>1, QuietStep DEF records
<1>2. CASE ~Quiet(t)
  <2>o. Working(t)
    BY <1>2 DEF Quiet, Step, Working
  <2>h. HoldsSlot(t) => th[t].slot # s
    BY BusyFacts DEF Custody, SlotExclusive
  <2>1. CASE InFill(t) \/ InStamp(t)
    BY <1>a, <2>1, <2>h DEF InFill, InStamp, At, HoldsSlot, SlotLabels
  <2>2. CASE \/ ClearPayload(t, "in_undo", "in_undo_token")
             \/ ClearPayload(t, "rm_clear", "rm_clear_token")
    BY <1>a, <2>2, <2>h DEF ClearPayload, At, HoldsSlot, SlotLabels
  <2>3. CASE \/ ClearToken(t, "in_undo_token", "in_bury")
             \/ ClearToken(t, "rm_clear_token", "rm_count")
    BY <1>a, <2>3, <2>h DEF ClearToken, At, HoldsSlot, SlotLabels
  <2>4. CASE UNCHANGED <<ent, dat, wtok>>
    BY <2>4
  <2>5. CASE InClaim(t) \/ InPublish(t) \/ RmClaim(t) \/ RmCheck(t)
             \/ Bury(t, "in_bury") \/ Bury(t, "rm_bury")
    BY <2>4, <2>5 DEF InClaim, InPublish, RmClaim, RmCheck, Bury
  <2>6. CASE IxProbe(t) \/ IxClaim(t) \/ IxFill(t) \/ IxPublish(t) \/ InCount(t)
             \/ RxProbe(t) \/ RxClaim(t) \/ RxCheck(t) \/ RxBury(t) \/ RmCount(t)
    BY <2>4, <2>6 DEF IxProbe, IxClaim, IxFill, IxPublish, InCount, RxProbe, RxClaim,
                      RxCheck, RxBury, RmCount, records
  <2> QED
    BY <2>o, <2>1, <2>2, <2>3, <2>5, <2>6 DEF Working, Insert, InUndo, Reclaim, RmFinish
<1> QED
  BY <1>1, <1>2

\* A published record is frozen until it is claimed for removal: what a reader
\* copies between two reads of the same key can only change through the claim.
THEOREM PublishedRecordsAreFrozen == Spec => PublishedFrozen
<1> DEFINE Frozen == \A s \in Slots : wkey[s] \in Wrappers /\ wkey'[s] = wkey[s] =>
                       ent'[s] = ent[s] /\ dat'[s] = dat[s] /\ wtok'[s] = wtok[s]
<1>1. Custody /\ [Next]_vars => [Frozen]_vars
  <2> SUFFICES ASSUME Custody, Next, NEW s \in Slots,
                      wkey[s] \in Wrappers, wkey'[s] = wkey[s]
               PROVE  ent'[s] = ent[s] /\ dat'[s] = dat[s] /\ wtok'[s] = wtok[s]
    OBVIOUS
  <2>1. PICK t \in Threads : Call(t) \/ Step(t)
    BY DEF Next
  <2> QED
    BY <2>1, FrozenStep
<1>2. Spec => [][Frozen]_vars
  BY <1>1, AlwaysCustody, PTL DEF Spec
<1> QED
  BY <1>2 DEF PublishedFrozen

-----------------------------------------------------------------------------
(***************************************************************************)
(* What lookups may rely on.  Part 1 holds with and without the lock, part *)
(* 2 where the mutators take turns under ownership_lock, part 3 is the     *)
(* reader that takes no lock.                                              *)
(***************************************************************************)

(***************************************************************************)
(* Part 1.  A published key stays on its probe path: a slot that was used  *)
(* once never becomes EMPTY again, so what an insertion saw on its way to  *)
(* its slot is still there when it publishes.                              *)
(***************************************************************************)
PathAt(t) ==
  LET r == th[t]
  IN  /\ HoldsSlot(t) => Reaches(r.wrapper, r.slot, wkey)
      /\ HoldsEntry(t) => Reaches(r.entity, r.entry, ekey)
      /\ r.pc \in {"in_probe", "in_claim"} =>
           /\ r.probe < Probes
           /\ \A q \in 0 .. r.probe - 1 : wkey[SlotOf(r.wrapper, q)] # EMPTY
      /\ r.pc = "in_claim" => r.slot = SlotOf(r.wrapper, r.probe)
      /\ r.pc \in {"ix_probe", "ix_claim"} =>
           /\ r.probe < Probes
           /\ \A q \in 0 .. r.probe - 1 : ekey[SlotOf(r.entity, q)] # EMPTY
      /\ r.pc = "ix_claim" => r.entry = SlotOf(r.entity, r.probe)

Paths == Custody /\ PublishedReachable /\ \A t \in Threads : PathAt(t)

-----------------------------------------------------------------------------
(***************************************************************************)
(* Part 2.  Under ownership_lock.  Books is what the tables promise        *)
(* whoever looks at them, Duty what the thread under the lock has found    *)
(* out or done so far.                                                     *)
(***************************************************************************)
Pub(s)    == wkey[s] \in Wrappers
Listed(x) == ekey[x] \in Entities
EntryFor(x, s) == ekey[x] = ent[s] /\ erec[x] = s + 1 /\ etok[x] = wtok[s]

\* Where a record that is not published is still in the index,
InHandLabels  == {"in_count", "in_publish", "rm_check", "rx_probe", "rx_claim"}
\* and where it is still counted.
CountedLabels == {"in_publish", "rm_check", "rx_probe", "rx_claim", "rx_check", "rx_bury",
                  "rm_clear", "rm_clear_token", "rm_count"}

Solo == \A t, u \in Threads : Mutating(t) /\ Mutating(u) => t = u

WrappersOnce == \A s, r \in Slots : Pub(s) /\ wkey[r] = wkey[s] => r = s
EntitiesOnce == \A s, r \in Slots : ent[s] # 0 /\ ent[r] = ent[s] => r = s
EntriesOnce  == \A x, y \in Slots : Listed(x) /\ ekey[y] = ekey[x] => y = x

Whole(s, w) ==
  /\ dat[s] = <<w, ent[s], wtok[s]>>
  /\ ent[s] \in Entities
  /\ wtok[s] > RESERVED_MAX
  /\ \E x \in Slots : EntryFor(x, s)
RecordsWhole == \A s \in Slots : Pub(s) => Whole(s, wkey[s])

EntriesPoint ==
  \A x \in Slots : Listed(x) =>
    \E s \in Slots :
      /\ EntryFor(x, s)
      /\ Pub(s) \/ \E t \in Threads : th[t].pc \in InHandLabels /\ th[t].slot = s

BusyHeld ==
  /\ \A s \in Slots : Busy(wkey[s]) => \E t \in Threads : HoldsSlot(t) /\ th[t].slot = s
  /\ \A x \in Slots : Busy(ekey[x]) => \E t \in Threads : HoldsEntry(t) /\ th[t].entry = x

Published == {s \in Slots : Pub(s)}
CountRight ==
  /\ (\E t \in Threads : th[t].pc \in CountedLabels) =>
       active_count = Cardinality(Published) + 1
  /\ (\A t \in Threads : th[t].pc \notin CountedLabels) =>
       active_count = Cardinality(Published)

Books == /\ WrappersOnce /\ EntitiesOnce /\ EntriesOnce
         /\ RecordsWhole /\ EntriesPoint /\ BusyHeld /\ CountRight

\* Tokens: k was issued, and no insertion that carries it is at these places.
Past(k, labels) ==
  /\ k <= next_token
  /\ \A t \in Threads : th[t].pc \in labels => th[t].token # k
StampLabels == {"in_probe", "in_claim", "in_fill", "in_stamp"}
IndexLabels == StampLabels \cup {"ix_probe", "ix_claim", "ix_fill"}
\* No index entry carries k now, nor will one ever again.
Dropped(k) == Past(k, IndexLabels) /\ \A x \in Slots : etok[x] # k

TokensPast ==
  /\ next_token >= RESERVED_MAX
  /\ \A s \in Slots : wtok[s] # 0 => Past(wtok[s], StampLabels)
  /\ \A x \in Slots : etok[x] # 0 => Past(etok[x], IndexLabels)
  /\ \A x, y \in Slots : etok[x] # 0 /\ etok[y] = etok[x] => y = x

NoWrapper(w) == \A s \in Slots : wkey[s] # w
NoEntry(e)   == \A x \in Slots : ekey[x] # e
NoRecord(e)  == \A s \in Slots : ent[s] # e

\* The lookup by wrapper: it finds the record when there is one.
FwDuty(r) ==
  /\ r.pc = "fw_probe" =>
       /\ r.probe < Probes
       /\ \A q \in 0 .. r.probe - 1 : wkey[SlotOf(r.wrapper, q)] # r.wrapper
  /\ r.pc \in {"fw_token", "fw_copy", "fw_copy_rest", "fw_recheck", "fw_decide"} =>
       wkey[r.slot] = r.wrapper
  /\ r.pc \in {"fw_copy", "fw_copy_rest", "fw_recheck"} => r.token_before = wtok[r.slot]
  /\ r.pc \in {"fw_copy_rest", "fw_recheck"} => r.snap_entity = ent[r.slot]
  /\ r.pc = "fw_recheck" => r.snap_token = wtok[r.slot]
  /\ r.pc = "miss" /\ r.op = "find_wrapper" => NoWrapper(r.wrapper)

\* The lookup by entity of a commit, after that by wrapper.
FeDuty(r) ==
  /\ r.pc \in FeLabels => NoWrapper(r.wrapper)
  /\ r.pc = "fe_probe" =>
       /\ r.probe < Probes
       /\ \A q \in 0 .. r.probe - 1 : ekey[SlotOf(r.entity, q)] # r.entity
  /\ r.pc \in FeLabels \ {"fe_probe"} => ekey[r.entry] = r.entity
  /\ r.pc \in FeLabels \ {"fe_probe", "fe_index"} => EntryFor(r.entry, r.slot) /\ Pub(r.slot)
  /\ r.pc \in FeLabels \ {"fe_probe", "fe_index", "fe_token"} =>
       r.token_before = etok[r.entry]
  /\ r.pc \in FeLabels \ {"fe_probe", "fe_index", "fe_token", "fe_record_key"} =>
       r.record_key = wkey[r.slot]
  /\ r.pc \in {"fe_copy", "fe_copy_rest", "fe_recheck_record"} =>
       r.record_token = wtok[r.slot]
  /\ r.pc \in {"fe_copy_rest", "fe_recheck_record"} =>
       r.snap_key = wkey[r.slot] /\ r.snap_entity = ent[r.slot]
  /\ r.pc = "fe_recheck_record" => r.snap_token = wtok[r.slot]

InDuty(r) ==
  /\ r.pc \in InLabels => NoWrapper(r.wrapper)
  /\ r.pc \in IndexLabels \cup {"in_token", "ix_publish"} => NoEntry(r.entity)
  /\ r.pc \in {"in_token", "in_probe", "in_claim", "in_fill"} => NoRecord(r.entity)
  /\ r.pc \in InLabels \ {"in_token"} => r.token > RESERVED_MAX /\ r.token <= next_token
  /\ r.pc \in {"in_fill", "in_stamp"} => wtok[r.slot] = 0
  /\ r.pc \in {"in_stamp", "ix_probe", "ix_claim", "ix_fill", "ix_publish", "in_count",
               "in_publish"} =>
       ent[r.slot] = r.entity /\ dat[r.slot] = <<r.wrapper, r.entity, r.token>>
  /\ r.pc \in {"ix_probe", "ix_claim", "ix_fill", "ix_publish", "in_count",
               "in_publish", "in_undo"} => wtok[r.slot] = r.token
  /\ r.pc = "ix_publish" => erec[r.entry] = r.slot + 1 /\ etok[r.entry] = r.token
  /\ r.pc \in {"in_count", "in_publish"} => EntryFor(r.entry, r.slot)
  /\ r.pc = "in_undo" => Dropped(r.token)

RmDuty(r) ==
  /\ r.pc = "rm_check" => NoWrapper(r.wrapper) /\ Whole(r.slot, r.wrapper)
  /\ r.pc \in RxLabels \cup {"rm_clear"} => wtok[r.slot] = r.token
  /\ r.pc \in {"rx_probe", "rx_claim", "rx_check"} => ent[r.slot] = r.entity /\ r.token # 0
  /\ r.pc = "rx_probe" =>
       /\ \E x \in Slots : EntryFor(x, r.slot)
       /\ r.probe < Probes
       /\ \A q \in 0 .. r.probe - 1 : ekey[SlotOf(r.entity, q)] # r.entity
  /\ r.pc = "rx_claim" => EntryFor(r.entry, r.slot)
  /\ r.pc = "rx_check" => erec[r.entry] = r.slot + 1 /\ etok[r.entry] = r.token
  /\ r.pc \in {"rx_bury", "rm_clear"} => Dropped(r.token)

Duty(t) ==
  Mutating(t) => /\ FwDuty(th[t]) /\ FeDuty(th[t]) /\ InDuty(th[t]) /\ RmDuty(th[t])

\* The lookup without the lock.
Reading(t) ==
  LET r == th[t]
  IN  r.op = "find_entity" =>
      /\ r.pc \in {"fe_copy", "fe_copy_rest"} /\ r.record_token # 0 =>
           Past(r.record_token, StampLabels)
      /\ r.pc = "fe_copy_rest" /\ r.snap_key \in Wrappers /\ r.record_token # 0
           /\ wtok[r.slot] = r.record_token =>
           \/ dat[r.slot] = <<r.snap_key, r.snap_entity, r.record_token>>
           \/ dat[r.slot] = NoData /\ Dropped(r.record_token)
      /\ r.pc \in {"fe_recheck_record", "fe_recheck_key", "fe_recheck_entry"}
           /\ r.snap_key \in Wrappers /\ r.snap_token # 0
           /\ r.snap_token = r.record_token =>
           \/ r.snap_data = <<r.snap_key, r.snap_entity, r.snap_token>>
           \/ Dropped(r.snap_token)
      /\ r.pc \in {"fe_recheck_key", "fe_recheck_entry"} =>
           /\ r.snap_key \in Wrappers /\ r.snap_token # 0 /\ r.snap_token = r.record_token
           /\ r.token_before = r.snap_token /\ r.snap_entity = r.entity
      /\ r.pc \in {"fe_decide", "hit"} => r.snap_data = <<r.snap_key, r.entity, r.snap_token>>

Ledger ==
  serialized => /\ Solo /\ Books /\ TokensPast
                /\ \A t \in Threads : Duty(t) /\ Reading(t)

-----------------------------------------------------------------------------
(***************************************************************************)
(* What the helpers make of a thread's record.                             *)
(***************************************************************************)
Same(q, r) == Kept(q, r) /\ q.op = r.op

LEMMA IdleShape == Idle.pc = "idle" /\ Idle.op = "none"
BY DEF Idle

LEMMA FinishShape ==
  ASSUME NEW r \in Locals, NEW l \in Labels
  PROVE  /\ Finish(r, l).pc = l /\ Same(Finish(r, l), r)
         /\ Finish(r, l).probe = r.probe
         /\ Finish(r, l).token_before = r.token_before
         /\ Finish(r, l).record_key = r.record_key
         /\ Finish(r, l).record_token = r.record_token
         /\ Finish(r, l).snap_key = r.snap_key
         /\ Finish(r, l).snap_entity = r.snap_entity
         /\ Finish(r, l).snap_token = r.snap_token
         /\ Finish(r, l).snap_data = r.snap_data
BY DEF Finish, Same, Kept, Locals

LEMMA StartShape ==
  ASSUME NEW r \in Locals, NEW l \in Labels
  PROVE  /\ Start(r, l) \in Locals
         /\ Start(r, l).pc = l /\ Same(Start(r, l), r) /\ Start(r, l).probe = 0
BY StartType DEF Same, Kept

LEMMA RetryShape ==
  ASSUME NEW r \in Locals, NEW l \in Labels, NEW exhausted
  PROVE  \/ Retry(r, l, exhausted) = exhausted
         \/ /\ Retry(r, l, exhausted).pc = l /\ Same(Retry(r, l, exhausted), r)
            /\ Retry(r, l, exhausted).probe = 0
<1> DEFINE again == [Forget(r) EXCEPT !.pc = l, !.attempt = @ + 1, !.probe = 0]
<1>1. Forget(r) \in Locals /\ Same(Forget(r), r)
  BY ForgetType DEF Kept, Same
<1>2. again.pc = l /\ Same(again, r) /\ again.probe = 0
  BY <1>1 DEF Same, Kept, Locals
<1> QED
  BY <1>2 DEF Retry

LEMMA OnwardShape ==
  ASSUME NEW r \in Locals, NEW exhausted
  PROVE  \/ Onward(r, exhausted) = exhausted /\ ~(r.probe + 1 < Probes)
         \/ /\ Onward(r, exhausted).pc = r.pc /\ Same(Onward(r, exhausted), r)
            /\ Onward(r, exhausted).probe = r.probe + 1 /\ r.probe + 1 < Probes
BY DEF Onward, Same, Kept, Locals

LEMMA ResultShape ==
  ASSUME NEW r \in Locals, NEW l \in Labels
  PROVE  IF r.op \in {"find_wrapper", "find_entity"}
         THEN Result(r, l) = Finish(r, l)
         ELSE Result(r, l) = Idle
BY DEF Result

LEMMA MissShape ==
  ASSUME NEW r \in Locals
  PROVE  IF r.op \in {"find_wrapper", "find_entity"}
         THEN Result(Forget(r), "miss").pc = "miss" /\ Same(Result(Forget(r), "miss"), r)
         ELSE Result(Forget(r), "miss") = Idle
<1>1. Forget(r) \in Locals /\ Same(Forget(r), r) /\ "miss" \in Labels
  BY ForgetType DEF Kept, Same, Labels
<1>2. Finish(Forget(r), "miss").pc = "miss" /\ Same(Finish(Forget(r), "miss"), Forget(r))
  BY <1>1, FinishShape
<1> QED
  BY <1>1, <1>2 DEF Result, Same, Kept

LEMMA WrapperAbsentShape ==
  ASSUME NEW r \in Locals
  PROVE  LET q == WrapperAbsent(r)
         IN  \/ q = Idle
             \/ q.pc = "fe_probe" /\ r.op = "commit" /\ Same(q, r) /\ q.probe = 0
             \/ q.pc = "miss" /\ r.op \in {"find_wrapper", "find_entity"} /\ Same(q, r)
BY StartShape, MissShape DEF WrapperAbsent, Labels

LEMMA EntityAbsentShape ==
  ASSUME NEW r \in Locals
  PROVE  LET q == EntityAbsent(r)
         IN  \/ q = Idle
             \/ q.pc = "in_token" /\ r.op = "commit" /\ Same(q, r)
             \/ q.pc = "miss" /\ r.op \in {"find_wrapper", "find_entity"} /\ Same(q, r)
BY StartShape, MissShape DEF EntityAbsent, Labels

LEMMA WrapperFoundShape ==
  ASSUME NEW r \in Locals
  PROVE  LET q == WrapperFound(r)
         IN  \/ q = Idle
             \/ q.pc = "rm_claim" /\ r.op \in {"take", "remove"} /\ q.op = r.op
                /\ q.wrapper = r.wrapper /\ q.slot = r.slot
             \/ q.pc = "hit" /\ r.op \in {"find_wrapper", "find_entity"} /\ Same(q, r)
<1>1. /\ Start(r, "rm_claim") \in Locals /\ Same(Start(r, "rm_claim"), r)
      /\ Start(r, "rm_claim").pc = "rm_claim"
  BY StartShape DEF Labels
<1> DEFINE k == [Start(r, "rm_claim") EXCEPT !.token = r.snap_token]
<1>2. k.pc = "rm_claim" /\ k.op = r.op /\ k.wrapper = r.wrapper /\ k.slot = r.slot
  BY <1>1 DEF Same, Kept, Locals
<1>3. CASE r.op = "take"
  BY <1>2, <1>3 DEF WrapperFound
<1>4. CASE r.op = "remove"
  BY <1>1, <1>4, MissShape DEF WrapperFound, Same, Kept
<1>5. CASE r.op \notin {"take", "remove"}
  <2>1. WrapperFound(r) = Result(r, "hit")
    BY <1>5 DEF WrapperFound
  <2>2. Finish(r, "hit").pc = "hit" /\ Same(Finish(r, "hit"), r) /\ "hit" \in Labels
    BY FinishShape DEF Labels
  <2> QED
    BY <2>1, <2>2, ResultShape
<1> QED
  BY <1>3, <1>4, <1>5

\* Where a step that touches no slot leads.
LEMMA QuietLabels ==
  ASSUME Typed, NEW t \in Threads, Call(t) \/ Return(t) \/ FindWrapper(t) \/ FindEntity(t)
  PROVE  th'[t].pc \notin SlotLabels \cup {"in_probe", "in_claim", "in_fill"}
<1> DEFINE r == th[t]
           Off(l) == l \notin SlotLabels \cup {"in_probe", "in_claim", "in_fill"}
<1>a. r \in Locals
  BY DEF Typed, TypeOK
<1>b. ASSUME NEW q, Goto(t, q)
      PROVE  th'[t] = q
  BY <1>b DEF Goto, Typed, TypeOK
<1>o. /\ Off("idle") /\ Off("miss") /\ Off("hit") /\ Off("fe_probe") /\ Off("fw_probe")
      /\ Off("in_token") /\ Off("rm_claim") /\ Off("fw_token") /\ Off("fw_copy")
      /\ Off("fw_copy_rest") /\ Off("fw_recheck") /\ Off("fw_decide") /\ Off("fe_index")
      /\ Off("fe_token") /\ Off("fe_record_key") /\ Off("fe_record_token") /\ Off("fe_copy")
      /\ Off("fe_copy_rest") /\ Off("fe_recheck_record") /\ Off("fe_recheck_key")
      /\ Off("fe_recheck_entry") /\ Off("fe_decide")
  BY DEF SlotLabels
<1> HIDE DEF Off
<1>1. CASE Call(t)
  <2>1. ASSUME NEW op, NEW w, NEW e, NEW k, NEW l, Enter(t, op, w, e, k, l)
        PROVE  th'[t].pc = l
    <3> DEFINE q == [Idle EXCEPT !.pc = l, !.op = op, !.wrapper = w,
                                 !.entity = e, !.token = k]
    <3>1. q.pc = l
      BY DEF Idle
    <3>2. Goto(t, q)
      BY <2>1 DEF Enter
    <3> QED
      BY <3>1, <3>2, <1>b
  <2>2. th'[t].pc \in {"in_token", "fw_probe", "fe_probe"}
    <3>i. CASE CallInsert(t)
      BY <2>1, <3>i DEF CallInsert
    <3>c. CASE CallCommit(t)
      BY <2>1, <3>c DEF CallCommit
    <3>r. CASE CallRemove(t)
      BY <2>1, <3>r DEF CallRemove
    <3>t. CASE CallTake(t)
      BY <2>1, <3>t DEF CallTake
    <3>w. CASE CallFindWrapper(t)
      BY <2>1, <3>w DEF CallFindWrapper
    <3>e. CASE CallFindEntity(t)
      BY <2>1, <3>e DEF CallFindEntity
    <3> QED
      BY <1>1, <3>i, <3>c, <3>r, <3>t, <3>w, <3>e DEF Call
  <2> QED
    BY <2>2, <1>o DEF Off
<1>2. CASE Return(t)
  BY <1>2, <1>b, <1>o, IdleShape DEF Return, Off
<1>3. CASE FindWrapper(t)
  <2>1. Off(WrapperAbsent(r).pc)
    BY <1>a, <1>o, WrapperAbsentShape, IdleShape
  <2>2. Off(Retry(r, "fw_probe", WrapperAbsent(r)).pc)
    BY <1>a, <1>o, <2>1, RetryShape DEF Labels
  <2>3. CASE FwProbe(t)
    <3>1. Off(Onward(r, WrapperAbsent(r)).pc)
      BY <1>a, <1>o, <2>1, <2>3, OnwardShape DEF FwProbe, At
    <3> DEFINE s == SlotOf(r.wrapper, r.probe)
    <3>2. [r EXCEPT !.pc = "fw_token", !.slot = s].pc = "fw_token"
      BY <1>a DEF Locals
    <3>3. Off(th'[t].pc)
      BY <1>b, <1>o, <2>1, <2>2, <2>3, <3>1, <3>2 DEF FwProbe
    <3> QED
      BY <3>3 DEF Off
  <2>4. CASE FwToken(t) \/ FwCopy(t) \/ FwCopyRest(t)
    <3>1. /\ [r EXCEPT !.pc = "fw_copy", !.token_before = wtok[r.slot]].pc = "fw_copy"
          /\ [r EXCEPT !.pc = "fw_copy_rest", !.snap_entity = ent[r.slot]].pc = "fw_copy_rest"
          /\ [r EXCEPT !.pc = "fw_recheck", !.snap_data = dat[r.slot],
                       !.snap_token = wtok[r.slot]].pc = "fw_recheck"
      BY <1>a DEF Locals
    <3>2. th'[t].pc \in {"fw_copy", "fw_copy_rest", "fw_recheck"}
      BY <1>b, <2>4, <3>1 DEF FwToken, FwCopy, FwCopyRest
    <3> QED
      BY <3>2, <1>o DEF Off
  <2>5. CASE FwRecheck(t)
    <3>1. Finish(r, "fw_decide").pc = "fw_decide"
      BY <1>a, FinishShape DEF Labels
    <3>2. Off(th'[t].pc)
      BY <1>b, <1>o, <2>2, <2>5, <3>1 DEF FwRecheck
    <3> QED
      BY <3>2 DEF Off
  <2>6. CASE FwDecide(t)
    <3>1. Off(WrapperFound(r).pc)
      BY <1>a, <1>o, WrapperFoundShape, IdleShape
    <3>2. Off(th'[t].pc)
      BY <1>b, <2>2, <2>6, <3>1 DEF FwDecide
    <3> QED
      BY <3>2 DEF Off
  <2> QED
    BY <1>3, <2>3, <2>4, <2>5, <2>6 DEF FindWrapper
<1>4. CASE FindEntity(t)
  <2>1. Off(EntityAbsent(r).pc)
    BY <1>a, <1>o, EntityAbsentShape, IdleShape
  <2>2. Off(Retry(r, "fe_probe", EntityAbsent(r)).pc)
    <3>1. "fe_probe" \in Labels
      BY DEF Labels
    <3> QED
      BY <1>a, <1>o, <2>1, <3>1, RetryShape
  <2>3. CASE FeProbe(t)
    <3>1. Off(Onward(r, EntityAbsent(r)).pc)
      BY <1>a, <1>o, <2>1, <2>3, OnwardShape DEF FeProbe, At
    <3> DEFINE x == SlotOf(r.entity, r.probe)
    <3>2. [r EXCEPT !.pc = "fe_index", !.entry = x].pc = "fe_index"
      BY <1>a DEF Locals
    <3>3. Off(th'[t].pc)
      BY <1>b, <1>o, <2>1, <2>2, <2>3, <3>1, <3>2 DEF FeProbe
    <3> QED
      BY <3>3 DEF Off
  <2>4. CASE FeIndex(t)
    <3>1. [r EXCEPT !.pc = "fe_token", !.slot = erec[r.entry] - 1].pc = "fe_token"
      BY <1>a DEF Locals
    <3>2. Off(th'[t].pc)
      BY <1>b, <1>o, <2>2, <2>4, <3>1 DEF FeIndex
    <3> QED
      BY <3>2 DEF Off
  <2>5. CASE FeToken(t) \/ FeRecordKey(t) \/ FeRecordToken(t) \/ FeCopy(t) \/ FeCopyRest(t)
    <3>1. /\ [r EXCEPT !.pc = "fe_record_key", !.token_before = etok[r.entry]].pc
                = "fe_record_key"
          /\ [r EXCEPT !.pc = "fe_record_token", !.record_key = wkey[r.slot]].pc
                = "fe_record_token"
          /\ [r EXCEPT !.pc = "fe_copy", !.record_token = wtok[r.slot]].pc = "fe_copy"
          /\ [r EXCEPT !.pc = "fe_copy_rest", !.snap_key = wkey[r.slot],
                       !.snap_entity = ent[r.slot]].pc = "fe_copy_rest"
          /\ [r EXCEPT !.pc = "fe_recheck_record", !.snap_data = dat[r.slot],
                       !.snap_token = wtok[r.slot]].pc = "fe_recheck_record"
      BY <1>a DEF Locals
    <3>2. th'[t].pc \in {"fe_record_key", "fe_record_token", "fe_copy", "fe_copy_rest",
                         "fe_recheck_record"}
      <4>a. CASE FeToken(t)
        BY <1>b, <3>1, <4>a DEF FeToken
      <4>b. CASE FeRecordKey(t)
        BY <1>b, <3>1, <4>b DEF FeRecordKey
      <4>c. CASE FeRecordToken(t)
        BY <1>b, <3>1, <4>c DEF FeRecordToken
      <4>d. CASE FeCopy(t)
        BY <1>b, <3>1, <4>d DEF FeCopy
      <4>e. CASE FeCopyRest(t)
        BY <1>b, <3>1, <4>e DEF FeCopyRest
      <4> QED
        BY <2>5, <4>a, <4>b, <4>c, <4>d, <4>e
    <3> QED
      BY <3>2, <1>o DEF Off
  <2>6. CASE FeRecheckRecord(t) \/ FeRecheckKey(t) \/ FeRecheckEntry(t)
    <3>1. /\ Finish(r, "fe_recheck_key").pc = "fe_recheck_key"
          /\ Finish(r, "fe_recheck_entry").pc = "fe_recheck_entry"
          /\ Finish(r, "fe_decide").pc = "fe_decide"
      BY <1>a, FinishShape DEF Labels
    <3>2. Off(th'[t].pc)
      BY <1>b, <1>o, <2>2, <2>6, <3>1 DEF FeRecheckRecord, FeRecheckKey, FeRecheckEntry
    <3> QED
      BY <3>2 DEF Off
  <2>7. CASE FeDecide(t)
    <3>1. Finish(r, "hit").pc = "hit"
      BY <1>a, FinishShape DEF Labels
    <3>2. Off(Result(r, "hit").pc)
      BY <1>a, <1>o, <3>1, IdleShape DEF Result
    <3>3. Off(th'[t].pc)
      BY <1>b, <2>2, <2>7, <3>2 DEF FeDecide
    <3> QED
      BY <3>3 DEF Off
  <2> QED
    BY <1>4, <2>3, <2>4, <2>5, <2>6, <2>7 DEF FindEntity
<1> QED
  BY <1>1, <1>2, <1>3, <1>4

-----------------------------------------------------------------------------
(***************************************************************************)
(* Part 1: paths.                                                          *)
(***************************************************************************)
LEMMA ReachesStays ==
  ASSUME NEW k \in Keys, NEW s, NEW f, NEW g,
         \A i \in Slots : f[i] # EMPTY => g[i] # EMPTY,
         Reaches(k, s, f)
  PROVE  Reaches(k, s, g)
<1>1. PICK p \in 0 .. Probes - 1 :
        /\ SlotOf(k, p) = s
        /\ \A q \in 0 .. p - 1 : f[SlotOf(k, q)] # EMPTY
  BY DEF Reaches
<1>2. \A q \in 0 .. p - 1 : SlotOf(k, q) \in Slots
  BY <1>1, SlotOfType, SizeAssumption
<1> QED
  BY <1>1, <1>2 DEF Reaches

LEMMA ProbedReaches ==
  ASSUME NEW k \in Keys, NEW p \in Nat, p < Probes, NEW f,
         \A q \in 0 .. p - 1 : f[SlotOf(k, q)] # EMPTY
  PROVE  Reaches(k, SlotOf(k, p), f)
<1>1. p \in 0 .. Probes - 1
  BY SizeAssumption
<1> QED
  BY <1>1 DEF Reaches

\* A step that empties no slot and publishes only reachable keys.
LEMMA PathFrame ==
  ASSUME Paths, NEW t \in Threads,
         \A u \in Threads \ {t} : th'[u] = th[u],
         \A s \in Slots : wkey[s] # EMPTY => wkey'[s] # EMPTY,
         \A x \in Slots : ekey[x] # EMPTY => ekey'[x] # EMPTY,
         \A s \in Slots : wkey'[s] \in Wrappers =>
           wkey'[s] = wkey[s] \/ Reaches(wkey'[s], s, wkey),
         \A x \in Slots : ekey'[x] \in Entities =>
           ekey'[x] = ekey[x] \/ Reaches(ekey'[x], x, ekey),
         PathAt(t)'
  PROVE  PublishedReachable' /\ \A u \in Threads : PathAt(u)'
<1>1. ASSUME NEW s \in Slots, wkey'[s] \in Wrappers
      PROVE  Reaches(wkey'[s], s, wkey')
  <2>1. Reaches(wkey'[s], s, wkey)
    BY <1>1 DEF Paths, PublishedReachable
  <2> QED
    BY <1>1, <2>1, ReachesStays DEF Keys
<1>2. ASSUME NEW x \in Slots, ekey'[x] \in Entities
      PROVE  Reaches(ekey'[x], x, ekey')
  <2>1. Reaches(ekey'[x], x, ekey)
    BY <1>2 DEF Paths, PublishedReachable
  <2> QED
    BY <1>2, <2>1, ReachesStays DEF Keys
<1>3. PublishedReachable'
  <2>1. \A s \in Slots : wkey'[s] \in Wrappers => Reaches(wkey'[s], s, wkey')
    BY <1>1
  <2>2. \A x \in Slots : ekey'[x] \in Entities => Reaches(ekey'[x], x, ekey')
    BY <1>2
  <2>3. /\ (\A s \in Slots : wkey[s] \in Wrappers => Reaches(wkey[s], s, wkey))'
        /\ (\A x \in Slots : ekey[x] \in Entities => Reaches(ekey[x], x, ekey))'
    BY <2>1, <2>2 DEF Reaches
  <2> QED
    BY <2>3 DEF PublishedReachable
<1>4. ASSUME NEW u \in Threads, u # t
      PROVE  PathAt(u)'
  <2> DEFINE r == th[u]
  <2>a. /\ PathAt(u) /\ th'[u] = r /\ Sane(r) /\ r \in Locals
        /\ HoldsSlot(u)' = HoldsSlot(u) /\ HoldsEntry(u)' = HoldsEntry(u)
    BY <1>4 DEF Paths, Custody, Typed, TypeOK, HoldsSlot, HoldsEntry
  <2>1. HoldsSlot(u) => r.wrapper \in Keys
    BY <2>a DEF HoldsSlot, SlotLabels, Sane, InLabels, RmLabels, RxLabels, WrapperOps, Keys
  <2>2. HoldsEntry(u) => r.entity \in Keys
    BY <2>a DEF HoldsEntry, EntryLabels, Sane, InLabels, RxLabels, EntityOps, Keys
  <2>3. HoldsSlot(u) => Reaches(r.wrapper, r.slot, wkey')
    BY <2>a, <2>1, ReachesStays DEF PathAt
  <2>4. HoldsEntry(u) => Reaches(r.entity, r.entry, ekey')
    BY <2>a, <2>2, ReachesStays DEF PathAt
  <2>5. ASSUME r.pc \in {"in_probe", "in_claim"}
        PROVE  /\ r.probe < Probes
               /\ \A q \in 0 .. r.probe - 1 : wkey'[SlotOf(r.wrapper, q)] # EMPTY
    <3>1. r.wrapper \in Keys
      BY <2>a, <2>5 DEF Sane, InLabels, WrapperOps, Keys
    <3>2. \A q \in 0 .. r.probe - 1 : SlotOf(r.wrapper, q) \in Slots
      BY <2>a, <3>1, SlotOfType DEF Locals
    <3> QED
      BY <2>a, <2>5, <3>2 DEF PathAt
  <2>6. ASSUME r.pc \in {"ix_probe", "ix_claim"}
        PROVE  /\ r.probe < Probes
               /\ \A q \in 0 .. r.probe - 1 : ekey'[SlotOf(r.entity, q)] # EMPTY
    <3>1. r.entity \in Keys
      BY <2>a, <2>6 DEF Sane, InLabels, EntityOps, Keys
    <3>2. \A q \in 0 .. r.probe - 1 : SlotOf(r.entity, q) \in Slots
      BY <2>a, <3>1, SlotOfType DEF Locals
    <3> QED
      BY <2>a, <2>6, <3>2 DEF PathAt
  <2>7. /\ r.pc = "in_claim" => r.slot = SlotOf(r.wrapper, r.probe)
        /\ r.pc = "ix_claim" => r.entry = SlotOf(r.entity, r.probe)
    BY <2>a DEF PathAt
  <2>8. LET q == th'[u]
        IN  /\ HoldsSlot(u)' => Reaches(q.wrapper, q.slot, wkey')
            /\ HoldsEntry(u)' => Reaches(q.entity, q.entry, ekey')
    BY <2>a, <2>3, <2>4
  <2> QED
    BY <2>a, <2>5, <2>6, <2>7, <2>8 DEF PathAt, Reaches, SlotOf
<1> QED
  BY <1>3, <1>4

\* The three probes that go through the window slot by slot.
LEMMA ProbeShape ==
  ASSUME Typed, NEW t \in Threads
  PROVE  LET r == th[t]
             q == th'[t]
             s == SlotOf(r.wrapper, r.probe)
             x == SlotOf(r.entity, r.probe)
         IN
         /\ InProbe(t) =>
              \/ q = Idle
              \/ q.pc = "in_probe" /\ Same(q, r) /\ q.probe = 0
              \/ /\ q.pc = "in_probe" /\ Same(q, r) /\ q.probe = r.probe + 1
                 /\ q.probe < Probes /\ wkey[s] # EMPTY
              \/ /\ q.pc = "in_claim" /\ q.op = r.op /\ q.wrapper = r.wrapper
                 /\ q.entity = r.entity /\ q.token = r.token
                 /\ q.probe = r.probe /\ q.slot = s
         /\ IxProbe(t) =>
              \/ q.pc = "in_undo" /\ Same(q, r)
              \/ q.pc = "ix_probe" /\ Same(q, r) /\ q.probe = 0
              \/ /\ q.pc = "ix_probe" /\ Same(q, r) /\ q.probe = r.probe + 1
                 /\ q.probe < Probes /\ ekey[x] # EMPTY
              \/ /\ q.pc = "ix_claim" /\ q.op = r.op /\ q.wrapper = r.wrapper
                 /\ q.entity = r.entity /\ q.token = r.token /\ q.slot = r.slot
                 /\ q.probe = r.probe /\ q.entry = x
         /\ RxProbe(t) =>
              \/ /\ q.pc = "rm_clear" /\ Same(q, r)
                 /\ ekey[x] # r.entity
                 /\ ekey[x] = EMPTY \/ ~(r.probe + 1 < Probes)
              \/ /\ q.pc = "rx_probe" /\ Same(q, r) /\ q.probe = r.probe + 1
                 /\ q.probe < Probes /\ ekey[x] # r.entity /\ ekey[x] # EMPTY
              \/ /\ q.pc = "rx_claim" /\ q.op = r.op /\ q.wrapper = r.wrapper
                 /\ q.entity = r.entity /\ q.token = r.token /\ q.slot = r.slot
                 /\ q.entry = x /\ ekey[x] = r.entity
<1> DEFINE r == th[t]
           s == SlotOf(r.wrapper, r.probe)
           x == SlotOf(r.entity, r.probe)
<1>a. /\ r \in Locals /\ "in_probe" \in Labels /\ "ix_probe" \in Labels
      /\ "in_undo" \in Labels /\ "rm_clear" \in Labels
  BY DEF Typed, TypeOK, Labels, SlotLabels
<1>b. ASSUME NEW q, Goto(t, q)
      PROVE  th'[t] = q
  BY <1>b DEF Goto, Typed, TypeOK
<1>f. \A k : Free(k) \/ k # EMPTY
  BY DEF Free
<1> HIDE DEF s, x
<1>1. ASSUME InProbe(t)
      PROVE  LET q == th'[t]
             IN  \/ q = Idle
                 \/ q.pc = "in_probe" /\ Same(q, r) /\ q.probe = 0
                 \/ /\ q.pc = "in_probe" /\ Same(q, r) /\ q.probe = r.probe + 1
                    /\ q.probe < Probes /\ wkey[s] # EMPTY
                 \/ /\ q.pc = "in_claim" /\ q.op = r.op /\ q.wrapper = r.wrapper
                    /\ q.entity = r.entity /\ q.token = r.token
                    /\ q.probe = r.probe /\ q.slot = s
  <2> DEFINE c == [r EXCEPT !.pc = "in_claim", !.slot = s]
             o == Onward(r, Idle)
             again == Retry(r, "in_probe", Idle)
  <2>1. c.pc = "in_claim" /\ c.op = r.op /\ c.wrapper = r.wrapper /\ c.entity = r.entity
        /\ c.token = r.token /\ c.probe = r.probe /\ c.slot = s
    BY <1>a DEF Locals
  <2>2. \/ o = Idle /\ ~(r.probe + 1 < Probes)
        \/ o.pc = "in_probe" /\ Same(o, r) /\ o.probe = r.probe + 1 /\ o.probe < Probes
    BY <1>a, <1>1, OnwardShape DEF InProbe, At
  <2>3. \/ again = Idle
        \/ again.pc = "in_probe" /\ Same(again, r) /\ again.probe = 0
    BY <1>a, RetryShape
  <2> HIDE DEF c, o, again
  <2>4. \/ th'[t] = Idle \/ th'[t] = again
        \/ th'[t] = c
        \/ th'[t] = o /\ wkey[s] # EMPTY
    BY <1>b, <1>1, <1>f DEF InProbe, s, c, o, again
  <2> QED
    BY <2>1, <2>2, <2>3, <2>4
<1>2. ASSUME IxProbe(t)
      PROVE  LET q == th'[t]
             IN  \/ q.pc = "in_undo" /\ Same(q, r)
                 \/ q.pc = "ix_probe" /\ Same(q, r) /\ q.probe = 0
                 \/ /\ q.pc = "ix_probe" /\ Same(q, r) /\ q.probe = r.probe + 1
                    /\ q.probe < Probes /\ ekey[x] # EMPTY
                 \/ /\ q.pc = "ix_claim" /\ q.op = r.op /\ q.wrapper = r.wrapper
                    /\ q.entity = r.entity /\ q.token = r.token /\ q.slot = r.slot
                    /\ q.probe = r.probe /\ q.entry = x
  <2> DEFINE f == Finish(r, "in_undo")
             c == [r EXCEPT !.pc = "ix_claim", !.entry = x]
             o == Onward(r, f)
             again == Retry(r, "ix_probe", f)
  <2>0. f.pc = "in_undo" /\ Same(f, r)
    BY <1>a, FinishShape
  <2>1. c.pc = "ix_claim" /\ c.op = r.op /\ c.wrapper = r.wrapper /\ c.entity = r.entity
        /\ c.token = r.token /\ c.probe = r.probe /\ c.slot = r.slot /\ c.entry = x
    BY <1>a DEF Locals
  <2>2. \/ o = f /\ ~(r.probe + 1 < Probes)
        \/ o.pc = "ix_probe" /\ Same(o, r) /\ o.probe = r.probe + 1 /\ o.probe < Probes
    BY <1>a, <1>2, OnwardShape DEF IxProbe, At
  <2>3. \/ again = f
        \/ again.pc = "ix_probe" /\ Same(again, r) /\ again.probe = 0
    BY <1>a, RetryShape
  <2>4. \/ th'[t] = f \/ th'[t] = again
        \/ th'[t] = c
        \/ th'[t] = o /\ ekey[x] # EMPTY
    BY <1>b, <1>2, <1>f DEF IxProbe, x
  <2> HIDE DEF c, o, again, f
  <2> QED
    BY <2>0, <2>1, <2>2, <2>3, <2>4
<1>3. ASSUME RxProbe(t)
      PROVE  LET q == th'[t]
             IN  \/ /\ q.pc = "rm_clear" /\ Same(q, r)
                    /\ ekey[x] # r.entity
                    /\ ekey[x] = EMPTY \/ ~(r.probe + 1 < Probes)
                 \/ /\ q.pc = "rx_probe" /\ Same(q, r) /\ q.probe = r.probe + 1
                    /\ q.probe < Probes /\ ekey[x] # r.entity /\ ekey[x] # EMPTY
                 \/ /\ q.pc = "rx_claim" /\ q.op = r.op /\ q.wrapper = r.wrapper
                    /\ q.entity = r.entity /\ q.token = r.token /\ q.slot = r.slot
                    /\ q.entry = x /\ ekey[x] = r.entity
  <2> DEFINE f == Finish(r, "rm_clear")
             c == [r EXCEPT !.pc = "rx_claim", !.entry = x]
             o == Onward(r, f)
  <2>0. f.pc = "rm_clear" /\ Same(f, r)
    BY <1>a, FinishShape
  <2>1. c.pc = "rx_claim" /\ c.op = r.op /\ c.wrapper = r.wrapper /\ c.entity = r.entity
        /\ c.token = r.token /\ c.slot = r.slot /\ c.entry = x
    BY <1>a DEF Locals
  <2>2. \/ o = f /\ ~(r.probe + 1 < Probes)
        \/ o.pc = "rx_probe" /\ Same(o, r) /\ o.probe = r.probe + 1 /\ o.probe < Probes
    BY <1>a, <1>3, OnwardShape DEF RxProbe, At
  <2>4. \/ th'[t] = f /\ ekey[x] # r.entity /\ ekey[x] = EMPTY
        \/ th'[t] = c /\ ekey[x] = r.entity
        \/ th'[t] = o /\ ekey[x] # r.entity /\ ekey[x] # EMPTY
    BY <1>b, <1>3 DEF RxProbe, x
  <2> HIDE DEF c, o, f
  <2> QED
    BY <2>0, <2>1, <2>2, <2>4
<1> QED
  BY <1>1, <1>2, <1>3 DEF s, x

\* A thread that keeps its slot, and its entry if it has one.
LEMMA PathKept ==
  ASSUME Paths, NEW t \in Threads,
         \A s \in Slots : wkey[s] # EMPTY => wkey'[s] # EMPTY,
         \A x \in Slots : ekey[x] # EMPTY => ekey'[x] # EMPTY,
         HoldsSlot(t), th'[t].slot = th[t].slot, th'[t].wrapper = th[t].wrapper,
         th'[t].pc \in EntryLabels =>
           /\ HoldsEntry(t)
           /\ th'[t].entry = th[t].entry /\ th'[t].entity = th[t].entity,
         th'[t].pc \notin {"in_probe", "in_claim", "ix_probe", "ix_claim"}
  PROVE  PathAt(t)'
<1> DEFINE r == th[t]
<1>a. PathAt(t) /\ Sane(r) /\ r \in Locals
  BY DEF Paths, Custody, Typed, TypeOK
<1>1. r.wrapper \in Keys
  BY <1>a DEF HoldsSlot, SlotLabels, Sane, InLabels, RmLabels, RxLabels, WrapperOps, Keys
<1>2. HoldsEntry(t) => r.entity \in Keys
  BY <1>a DEF HoldsEntry, EntryLabels, Sane, InLabels, RxLabels, EntityOps, Keys
<1>3. Reaches(r.wrapper, r.slot, wkey')
  BY <1>a, <1>1, ReachesStays DEF PathAt
<1>4. HoldsEntry(t) => Reaches(r.entity, r.entry, ekey')
  BY <1>a, <1>2, ReachesStays DEF PathAt
<1> DEFINE q == th'[t]
<1>5. /\ HoldsSlot(t)' => Reaches(q.wrapper, q.slot, wkey')
      /\ HoldsEntry(t)' => Reaches(q.entity, q.entry, ekey')
  BY <1>3, <1>4 DEF HoldsEntry
<1> QED
  BY <1>5 DEF PathAt, Reaches, SlotOf

LEMMA PathStep ==
  ASSUME Paths, Custody', NEW t \in Threads, Call(t) \/ Step(t)
  PROVE  PublishedReachable' /\ \A u \in Threads : PathAt(u)'
<1> DEFINE r == th[t]
           q == th'[t]
           Window == {"in_probe", "in_claim", "ix_probe", "ix_claim"}
<1>a. /\ Typed /\ r \in Locals /\ r.slot \in Slots /\ r.entry \in Slots /\ Sane(r)
      /\ r.probe \in Nat
      /\ wkey \in [Slots -> WrapperKeys] /\ ekey \in [Slots -> EntityKeys]
      /\ PathAt(t) /\ Custody
      /\ \A s \in Slots : wkey[s] \in Wrappers => Reaches(wkey[s], s, wkey)
      /\ \A x \in Slots : ekey[x] \in Entities => Reaches(ekey[x], x, ekey)
  BY DEF Paths, Custody, Typed, TypeOK, Locals, PublishedReachable
<1>p. 0 < Probes
  BY SizeAssumption
<1>k. /\ \A k \in Wrappers \cup Entities : k # EMPTY
      /\ CLAIMED # EMPTY /\ RECLAIMING # EMPTY /\ TOMBSTONE # EMPTY
  BY NumbersFact DEF EMPTY, CLAIMED, RECLAIMING, TOMBSTONE
<1>o. \A u \in Threads \ {t} : th'[u] = th[u]
  <2>1. CASE Quiet(t)
    BY <1>a, <2>1, QuietStep
  <2>2. CASE ~Quiet(t)
    BY <1>a, <2>2, StepOthers DEF Quiet, Step, Working
  <2> QED
    BY <2>1, <2>2
<1>q. ASSUME Quiet(t)
      PROVE  PublishedReachable' /\ \A u \in Threads : PathAt(u)'
  <2>1. wkey' = wkey /\ ekey' = ekey /\ q.pc \notin SlotLabels
    BY <1>a, <1>q, QuietStep DEF records, entities
  <2>2. PathAt(t)'
    <3>1. CASE InToken(t)
      <4>1. q = Idle \/ q = [Start(r, "in_probe") EXCEPT !.token = next_token + 1]
        BY <1>a, <3>1 DEF InToken, Goto, Typed, TypeOK
      <4>2. Start(r, "in_probe") \in Locals /\ Start(r, "in_probe").probe = 0
            /\ Start(r, "in_probe").pc = "in_probe"
        BY <1>a, StartShape DEF Labels
      <4>3. \/ q.pc = "idle"
            \/ q.pc = "in_probe" /\ q.probe = 0
        BY <4>1, <4>2, IdleShape DEF Locals
      <4> QED
        BY <2>1, <4>3, <1>p, LabelFacts DEF PathAt, HoldsSlot, HoldsEntry, SlotLabels
    <3>2. CASE InProbe(t)
      <4>1. r.pc = "in_probe"
        BY <3>2 DEF InProbe, At
      <4>2. \/ q.pc = "idle"
            \/ q.pc = "in_probe" /\ q.wrapper = r.wrapper /\ q.probe = 0
            \/ /\ q.pc = "in_probe" /\ q.wrapper = r.wrapper /\ q.probe = r.probe + 1
               /\ q.probe < Probes /\ wkey[SlotOf(r.wrapper, r.probe)] # EMPTY
            \/ /\ q.pc = "in_claim" /\ q.wrapper = r.wrapper
               /\ q.probe = r.probe /\ q.slot = SlotOf(r.wrapper, r.probe)
        BY <1>a, <3>2, ProbeShape, IdleShape DEF Same, Kept
      <4>3. r.probe < Probes /\ \A i \in 0 .. r.probe - 1 : wkey[SlotOf(r.wrapper, i)] # EMPTY
        BY <1>a, <4>1 DEF PathAt
      <4>4. q.pc \in {"in_probe", "in_claim"} =>
              /\ q.probe < Probes
              /\ \A i \in 0 .. q.probe - 1 : wkey'[SlotOf(q.wrapper, i)] # EMPTY
        <5>1. \A i \in 0 .. (r.probe + 1) - 1 : i \in 0 .. r.probe - 1 \/ i = r.probe
          BY <1>a
        <5> QED
          BY <2>1, <4>2, <4>3, <1>p, <1>a, <5>1
      <4> QED
        BY <2>1, <4>2, <4>4, LabelFacts DEF PathAt, HoldsSlot, HoldsEntry, SlotLabels
    <3>3. CASE Call(t) \/ Return(t) \/ FindWrapper(t) \/ FindEntity(t)
      <4>1. q.pc \notin {"in_probe", "in_claim"}
        BY <1>a, <3>3, QuietLabels
      <4> QED
        BY <2>1, <4>1, LabelFacts DEF PathAt, HoldsSlot, HoldsEntry, SlotLabels
    <3> QED
      BY <1>q, <3>1, <3>2, <3>3 DEF Quiet
  <2> QED
    BY <1>o, <2>1, <2>2, PathFrame
<1>n. CASE ~Quiet(t)
  <2>o. Working(t)
    BY <1>n DEF Quiet, Step, Working
  \* A step of a holder that keeps what it holds and publishes nothing new.
  <2>k. ASSUME HoldsSlot(t),
               \A s \in Slots : wkey[s] # EMPTY => wkey'[s] # EMPTY,
               \A x \in Slots : ekey[x] # EMPTY => ekey'[x] # EMPTY,
               \A s \in Slots : wkey'[s] \in Wrappers => wkey'[s] = wkey[s],
               \A x \in Slots : ekey'[x] \in Entities => ekey'[x] = ekey[x],
               q.slot = r.slot, q.wrapper = r.wrapper,
               q.pc \in EntryLabels => HoldsEntry(t) /\ q.entry = r.entry /\ q.entity = r.entity,
               q.pc \notin Window
        PROVE  PublishedReachable' /\ \A u \in Threads : PathAt(u)'
    <3>1. PathAt(t)'
      BY <2>k, PathKept
    <3> QED
      BY <1>o, <2>k, <3>1, PathFrame
  \* A step that ends the operation.
  <2>i. ASSUME q.pc = "idle",
               \A s \in Slots : wkey[s] # EMPTY => wkey'[s] # EMPTY,
               \A s \in Slots : wkey'[s] \in Wrappers =>
                 wkey'[s] = wkey[s] \/ Reaches(wkey'[s], s, wkey),
               ekey' = ekey
        PROVE  PublishedReachable' /\ \A u \in Threads : PathAt(u)'
    <3>1. PathAt(t)'
      BY <2>i DEF PathAt, HoldsSlot, HoldsEntry, SlotLabels, EntryLabels
    <3> QED
      BY <1>o, <2>i, <3>1, PathFrame
  <2>1. CASE InClaim(t)
    <3>0. r.pc = "in_claim" /\ r.wrapper \in Keys /\ ekey' = ekey
      BY <1>a, <2>1 DEF InClaim, At, Sane, InLabels, WrapperOps, Keys, entities
    <3>1. CASE Free(wkey[r.slot])
      <4>1. wkey' = [wkey EXCEPT ![r.slot] = CLAIMED] /\ q.pc = "in_fill" /\ Kept(q, r)
        BY <1>a, <2>1, <3>1, HolderStep DEF InClaim
      <4>2. /\ \A s \in Slots : wkey[s] # EMPTY => wkey'[s] # EMPTY
            /\ \A s \in Slots : wkey'[s] \in Wrappers => wkey'[s] = wkey[s]
        BY <1>a, <1>k, <4>1, BusyFacts
      <4>3. Reaches(r.wrapper, r.slot, wkey)
        BY <1>a, <3>0, ProbedReaches DEF PathAt
      <4>4. Reaches(r.wrapper, r.slot, wkey')
        BY <3>0, <4>2, <4>3, ReachesStays
      <4>5. PathAt(t)'
        BY <4>1, <4>4 DEF PathAt, HoldsEntry, EntryLabels, Kept, Reaches, SlotOf
      <4> QED
        BY <1>o, <3>0, <4>2, <4>5, PathFrame
    <3>2. CASE ~Free(wkey[r.slot])
      <4>1. wkey' = wkey /\ q = Retry(r, "in_probe", Idle)
        BY <1>a, <2>1, <3>2 DEF InClaim, Goto, Typed, TypeOK
      <4>2. \/ q = Idle
            \/ q.pc = "in_probe" /\ Same(q, r) /\ q.probe = 0
        BY <1>a, <4>1, RetryShape DEF Labels
      <4>3. PathAt(t)'
        BY <1>p, <4>2, IdleShape DEF PathAt, HoldsSlot, HoldsEntry, SlotLabels, EntryLabels
      <4> QED
        BY <1>o, <3>0, <4>1, <4>3, PathFrame
    <3> QED
      BY <3>1, <3>2
  <2>2. CASE InFill(t) \/ InStamp(t) \/ IxFill(t) \/ InCount(t) \/ RmCount(t)
    <3>1. HoldsSlot(t) /\ wkey' = wkey /\ ekey' = ekey
      BY <2>2 DEF InFill, InStamp, IxFill, InCount, RmCount, At, HoldsSlot, SlotLabels,
                  entities, records
    <3>2. Kept(q, r)
      BY <1>a, <2>2, HolderStep
    <3>3. InStamp(t) => q.pc = "ix_probe" /\ q.probe = 0
      <4>1. InStamp(t) => q = Start(r, "ix_probe")
        BY <1>a DEF InStamp, Goto, Typed, TypeOK
      <4> QED
        BY <1>a, <4>1, StartShape DEF Labels, SlotLabels
    <3>4. CASE InStamp(t)
      <4>1. Reaches(r.wrapper, r.slot, wkey)
        BY <1>a, <3>1 DEF PathAt
      <4>2. PathAt(t)'
        BY <1>p, <3>1, <3>2, <3>3, <3>4, <4>1
           DEF PathAt, HoldsEntry, EntryLabels, Kept, Reaches, SlotOf
      <4> QED
        BY <1>o, <3>1, <4>2, PathFrame
    <3>5. CASE ~InStamp(t)
      <4>1. q.pc \notin Window
        BY <1>a, <2>2, <3>5, HolderStep
      <4>2. q.pc \in EntryLabels => HoldsEntry(t)
        BY <1>a, <2>2, <3>5, HolderStep DEF EntryLabels, HoldsEntry, IxFill, At
      <4> QED
        BY <2>k, <3>1, <3>2, <4>1, <4>2 DEF Kept
    <3> QED
      BY <3>4, <3>5
  <2>3. CASE IxProbe(t)
    <3>1. /\ HoldsSlot(t) /\ wkey' = wkey /\ ekey' = ekey /\ r.pc = "ix_probe"
      BY <2>3 DEF IxProbe, At, HoldsSlot, SlotLabels, entities, records
    <3>2. Reaches(r.wrapper, r.slot, wkey) /\ r.probe < Probes
          /\ \A i \in 0 .. r.probe - 1 : ekey[SlotOf(r.entity, i)] # EMPTY
      BY <1>a, <3>1 DEF PathAt
    <3>3. \/ q.pc = "in_undo" /\ Same(q, r)
          \/ q.pc = "ix_probe" /\ Same(q, r) /\ q.probe = 0
          \/ /\ q.pc = "ix_probe" /\ Same(q, r) /\ q.probe = r.probe + 1
             /\ q.probe < Probes /\ ekey[SlotOf(r.entity, r.probe)] # EMPTY
          \/ /\ q.pc = "ix_claim" /\ q.wrapper = r.wrapper
             /\ q.entity = r.entity /\ q.slot = r.slot
             /\ q.probe = r.probe /\ q.entry = SlotOf(r.entity, r.probe)
      BY <1>a, <2>3, ProbeShape
    <3>4. q.pc \in {"ix_probe", "ix_claim"} =>
            /\ q.probe < Probes
            /\ \A i \in 0 .. q.probe - 1 : ekey'[SlotOf(q.entity, i)] # EMPTY
      <4>1. \A i \in 0 .. (r.probe + 1) - 1 : i \in 0 .. r.probe - 1 \/ i = r.probe
        BY <1>a
      <4> QED
        BY <1>a, <1>p, <3>1, <3>2, <3>3, <4>1 DEF Same, Kept
    <3>5. q.slot = r.slot /\ q.wrapper = r.wrapper /\ q.pc \in {"in_undo", "ix_probe", "ix_claim"}
          /\ (q.pc = "ix_claim" => q.entry = SlotOf(q.entity, q.probe))
      BY <3>3 DEF Same, Kept
    <3>6. PathAt(t)'
      BY <3>1, <3>2, <3>4, <3>5 DEF PathAt, HoldsEntry, EntryLabels, Reaches, SlotOf
    <3> QED
      BY <1>o, <3>1, <3>6, PathFrame
  <2>4. CASE IxClaim(t)
    <3>0. /\ r.pc = "ix_claim" /\ r.wrapper \in Keys /\ r.entity \in Keys /\ wkey' = wkey
          /\ HoldsSlot(t)
      BY <1>a, <2>4 DEF IxClaim, At, Sane, InLabels, WrapperOps, EntityOps, Keys, records,
                        HoldsSlot, SlotLabels
    <3>w. Reaches(r.wrapper, r.slot, wkey)
      BY <1>a, <3>0 DEF PathAt
    <3>1. CASE Free(ekey[r.entry])
      <4>1. ekey' = [ekey EXCEPT ![r.entry] = CLAIMED] /\ q.pc = "ix_fill" /\ Kept(q, r)
        BY <1>a, <2>4, <3>1, HolderStep DEF IxClaim
      <4>2. /\ \A x \in Slots : ekey[x] # EMPTY => ekey'[x] # EMPTY
            /\ \A x \in Slots : ekey'[x] \in Entities => ekey'[x] = ekey[x]
        BY <1>a, <1>k, <4>1, BusyFacts
      <4>3. Reaches(r.entity, r.entry, ekey)
        BY <1>a, <3>0, ProbedReaches DEF PathAt
      <4>4. Reaches(r.entity, r.entry, ekey')
        BY <3>0, <4>2, <4>3, ReachesStays
      <4>5. PathAt(t)'
        BY <3>0, <3>w, <4>1, <4>4 DEF PathAt, Kept, Reaches, SlotOf
      <4> QED
        BY <1>o, <3>0, <4>2, <4>5, PathFrame
    <3>2. CASE ~Free(ekey[r.entry])
      <4> DEFINE f == Finish(r, "in_undo")
      <4>1. ekey' = ekey /\ q = Retry(r, "ix_probe", f)
        BY <1>a, <2>4, <3>2 DEF IxClaim, Goto, Typed, TypeOK
      <4>f. f.pc = "in_undo" /\ Same(f, r) /\ "ix_probe" \in Labels
        BY <1>a, FinishShape DEF Labels, SlotLabels
      <4>2. \/ q.pc = "in_undo" /\ Same(q, r)
            \/ q.pc = "ix_probe" /\ Same(q, r) /\ q.probe = 0
        BY <1>a, <4>1, <4>f, RetryShape
      <4>3. PathAt(t)'
        BY <1>p, <3>0, <3>w, <4>2 DEF PathAt, HoldsEntry, EntryLabels, Same, Kept, Reaches, SlotOf
      <4> QED
        BY <1>o, <3>0, <4>1, <4>3, PathFrame
    <3> QED
      BY <3>1, <3>2
  <2>5. CASE IxPublish(t)
    <3>1. /\ HoldsSlot(t) /\ HoldsEntry(t) /\ wkey' = wkey /\ r.entity \in Entities
          /\ ekey' = [ekey EXCEPT ![r.entry] = r.entity]
      BY <1>a, <2>5 DEF IxPublish, At, HoldsSlot, SlotLabels, HoldsEntry, EntryLabels, records,
                        Sane, InLabels, EntityOps
    <3>2. q.pc = "in_count" /\ Kept(q, r)
      BY <1>a, <2>5, HolderStep
    <3>3. Reaches(r.entity, r.entry, ekey)
      BY <1>a, <3>1 DEF PathAt
    <3>4. /\ \A x \in Slots : ekey[x] # EMPTY => ekey'[x] # EMPTY
          /\ \A x \in Slots : ekey'[x] \in Entities => ekey'[x] = ekey[x] \/ Reaches(ekey'[x], x, ekey)
      BY <1>a, <1>k, <3>1, <3>3
    <3>5. PathAt(t)'
      BY <3>1, <3>2, <3>4, PathKept DEF Kept, EntryLabels
    <3> QED
      BY <1>o, <3>1, <3>4, <3>5, PathFrame
  <2>6. CASE \/ InPublish(t)
             \/ RmCheck(t) /\ ~StillOwned(r)
    <3>1. /\ HoldsSlot(t) /\ ekey' = ekey /\ r.wrapper \in Wrappers
          /\ wkey' = [wkey EXCEPT ![r.slot] = r.wrapper]
      BY <1>a, <2>6 DEF InPublish, RmCheck, At, HoldsSlot, SlotLabels, entities,
                        Sane, InLabels, RmLabels, WrapperOps
    <3>2. q.pc = "idle"
      BY <1>a, <2>6, HolderStep
    <3>3. Reaches(r.wrapper, r.slot, wkey)
      BY <1>a, <3>1 DEF PathAt
    <3>4. /\ \A s \in Slots : wkey[s] # EMPTY => wkey'[s] # EMPTY
          /\ \A s \in Slots : wkey'[s] \in Wrappers => wkey'[s] = wkey[s] \/ Reaches(wkey'[s], s, wkey)
      BY <1>a, <1>k, <3>1, <3>3
    <3> QED
      BY <2>i, <3>1, <3>2, <3>4
  <2>7. CASE \/ ClearPayload(t, "in_undo", "in_undo_token")
             \/ ClearPayload(t, "rm_clear", "rm_clear_token")
             \/ ClearToken(t, "in_undo_token", "in_bury")
             \/ ClearToken(t, "rm_clear_token", "rm_count")
    <3>1. HoldsSlot(t) /\ wkey' = wkey /\ ekey' = ekey
      BY <2>7 DEF ClearPayload, ClearToken, At, HoldsSlot, SlotLabels, entities
    <3>2. Kept(q, r) /\ q.pc \in {"in_undo_token", "rm_clear_token", "in_bury", "rm_count"}
      BY <1>a, <2>7, HolderStep
    <3> QED
      BY <2>k, <3>1, <3>2 DEF Kept, EntryLabels
  <2>8. CASE Bury(t, "in_bury") \/ Bury(t, "rm_bury")
    <3>1. /\ q.pc = "idle" /\ ekey' = ekey /\ wkey' = [wkey EXCEPT ![r.slot] = TOMBSTONE]
      BY <1>a, <2>8, HolderStep DEF Bury, entities
    <3>2. /\ \A s \in Slots : wkey[s] # EMPTY => wkey'[s] # EMPTY
          /\ \A s \in Slots : wkey'[s] \in Wrappers => wkey'[s] = wkey[s]
      BY <1>a, <1>k, <3>1, BusyFacts
    <3> QED
      BY <2>i, <3>1, <3>2
  <2>9. CASE RmClaim(t)
    <3>0. ekey' = ekey
      BY <2>9 DEF RmClaim, entities
    <3>1. CASE wkey[r.slot] = r.wrapper
      <4>1. /\ wkey' = [wkey EXCEPT ![r.slot] = RECLAIMING] /\ r.wrapper \in Wrappers
            /\ q.pc = "rm_check" /\ Kept(q, r)
        BY <1>a, <2>9, <3>1, HolderStep DEF RmClaim, At, Sane, RmLabels, WrapperOps
      <4>2. /\ \A s \in Slots : wkey[s] # EMPTY => wkey'[s] # EMPTY
            /\ \A s \in Slots : wkey'[s] \in Wrappers => wkey'[s] = wkey[s]
        BY <1>a, <1>k, <4>1, BusyFacts
      <4>3. Reaches(r.wrapper, r.slot, wkey)
        BY <1>a, <3>1, <4>1
      <4>4. Reaches(r.wrapper, r.slot, wkey')
        BY <4>1, <4>2, <4>3, ReachesStays DEF Keys
      <4>5. PathAt(t)'
        BY <4>1, <4>4 DEF PathAt, HoldsEntry, EntryLabels, Kept, Reaches, SlotOf
      <4> QED
        BY <1>o, <3>0, <4>2, <4>5, PathFrame
    <3>2. CASE wkey[r.slot] # r.wrapper
      <4>1. wkey' = wkey /\ q.pc = "idle"
        BY <1>a, <2>9, <3>2, HolderStep DEF RmClaim
      <4> QED
        BY <2>i, <3>0, <4>1
    <3> QED
      BY <3>1, <3>2
  <2>10. CASE RmCheck(t) /\ StillOwned(r)
    <3>1. HoldsSlot(t) /\ wkey' = wkey /\ ekey' = ekey
      BY <2>10 DEF RmCheck, At, HoldsSlot, SlotLabels, entities
    <3>2. q.pc = "rx_probe" /\ q.slot = r.slot /\ q.wrapper = r.wrapper
      BY <1>a, <2>10, HolderStep
    <3> QED
      BY <2>k, <3>1, <3>2 DEF EntryLabels
  <2>11. CASE RxProbe(t)
    <3>1. HoldsSlot(t) /\ wkey' = wkey /\ ekey' = ekey
      BY <2>11 DEF RxProbe, At, HoldsSlot, SlotLabels, entities, records
    <3>2. q.pc \in {"rm_clear", "rx_probe", "rx_claim"} /\ q.slot = r.slot /\ q.wrapper = r.wrapper
      BY <1>a, <2>11, ProbeShape DEF Same, Kept
    <3> QED
      BY <2>k, <3>1, <3>2 DEF EntryLabels
  <2>12. CASE RxClaim(t)
    <3>0. HoldsSlot(t) /\ wkey' = wkey /\ r.wrapper \in Keys
      BY <1>a, <2>12 DEF RxClaim, At, HoldsSlot, SlotLabels, records, Sane, RmLabels, RxLabels,
                         WrapperOps, Keys
    <3>1. CASE ekey[r.entry] = r.entity
      <4>1. /\ ekey' = [ekey EXCEPT ![r.entry] = RECLAIMING] /\ r.entity \in Entities
            /\ q.pc = "rx_check" /\ Kept(q, r)
        BY <1>a, <2>12, <3>1, HolderStep DEF RxClaim, At, Sane, RxLabels
      <4>2. /\ \A x \in Slots : ekey[x] # EMPTY => ekey'[x] # EMPTY
            /\ \A x \in Slots : ekey'[x] \in Entities => ekey'[x] = ekey[x]
        BY <1>a, <1>k, <4>1, BusyFacts
      <4>3. Reaches(r.entity, r.entry, ekey)
        BY <1>a, <3>1, <4>1
      <4>4. Reaches(r.entity, r.entry, ekey')
        BY <4>1, <4>2, <4>3, ReachesStays DEF Keys
      <4>w. Reaches(r.wrapper, r.slot, wkey)
        BY <1>a, <3>0 DEF PathAt
      <4>5. PathAt(t)'
        BY <3>0, <4>w, <4>1, <4>4 DEF PathAt, Kept, Reaches, SlotOf
      <4> QED
        BY <1>o, <3>0, <4>2, <4>5, PathFrame
    <3>2. CASE ekey[r.entry] # r.entity
      <4>1. ekey' = ekey /\ q.pc = "rm_clear" /\ Kept(q, r)
        BY <1>a, <2>12, <3>2, HolderStep DEF RxClaim
      <4> QED
        BY <2>k, <3>0, <4>1 DEF Kept, EntryLabels
    <3> QED
      BY <3>1, <3>2
  <2>13. CASE RxCheck(t)
    <3>0. HoldsSlot(t) /\ HoldsEntry(t) /\ wkey' = wkey /\ r.entity \in Entities
      BY <1>a, <2>13 DEF RxCheck, At, HoldsSlot, SlotLabels, HoldsEntry, EntryLabels, records,
                         Sane, RxLabels
    <3>1. CASE etok[r.entry] = r.token /\ erec[r.entry] = r.slot + 1
      <4>1. ekey' = ekey /\ q.pc = "rx_bury" /\ Kept(q, r)
        BY <1>a, <2>13, <3>1, HolderStep DEF RxCheck
      <4> QED
        BY <2>k, <3>0, <4>1 DEF Kept
    <3>2. CASE ~(etok[r.entry] = r.token /\ erec[r.entry] = r.slot + 1)
      <4>1. /\ ekey' = [ekey EXCEPT ![r.entry] = r.entity] /\ q.pc = "rm_clear" /\ Kept(q, r)
        BY <1>a, <2>13, <3>2, HolderStep DEF RxCheck
      <4>2. Reaches(r.entity, r.entry, ekey)
        BY <1>a, <3>0 DEF PathAt
      <4>3. /\ \A x \in Slots : ekey[x] # EMPTY => ekey'[x] # EMPTY
            /\ \A x \in Slots : ekey'[x] \in Entities => ekey'[x] = ekey[x] \/ Reaches(ekey'[x], x, ekey)
        BY <1>a, <1>k, <3>0, <4>1, <4>2
      <4>4. PathAt(t)'
        BY <3>0, <4>1, <4>3, PathKept DEF Kept, EntryLabels
      <4> QED
        BY <1>o, <3>0, <4>3, <4>4, PathFrame
    <3> QED
      BY <3>1, <3>2
  <2>14. CASE RxBury(t)
    <3>1. /\ HoldsSlot(t) /\ wkey' = wkey /\ ekey' = [ekey EXCEPT ![r.entry] = TOMBSTONE]
          /\ q.pc = "rm_clear" /\ Kept(q, r)
      BY <1>a, <2>14, HolderStep DEF RxBury, At, HoldsSlot, SlotLabels, records
    <3>2. /\ \A x \in Slots : ekey[x] # EMPTY => ekey'[x] # EMPTY
          /\ \A x \in Slots : ekey'[x] \in Entities => ekey'[x] = ekey[x]
      BY <1>a, <1>k, <3>1, BusyFacts
    <3> QED
      BY <2>k, <3>1, <3>2 DEF Kept, EntryLabels
  <2> QED
    BY <2>o, <2>1, <2>2, <2>3, <2>4, <2>5, <2>6, <2>7, <2>8, <2>9, <2>10, <2>11, <2>12, <2>13, <2>14
       DEF Working, Insert, InUndo, Reclaim, RmFinish
<1> QED
  BY <1>q, <1>n

LEMMA InitPaths == Init => Paths
<1> SUFFICES ASSUME Init
             PROVE  Paths
  OBVIOUS
<1>1. \A t \in Threads : th[t].pc = "idle"
  BY DEF Init, Idle
<1>2. \A t \in Threads : PathAt(t)
  BY <1>1 DEF PathAt, HoldsSlot, HoldsEntry, SlotLabels, EntryLabels
<1>3. PublishedReachable
  BY BusyFacts DEF Init, PublishedReachable, Free, EMPTY
<1> QED
  BY <1>2, <1>3, InitCustody DEF Paths

LEMMA NextPaths == Paths /\ [Next]_vars => Paths'
<1> SUFFICES ASSUME Paths, [Next]_vars
             PROVE  Paths'
  OBVIOUS
<1>1. Custody'
  BY NextCustody DEF Paths
<1>2. CASE UNCHANGED vars
  BY <1>1, <1>2 DEF vars, Paths, PublishedReachable, PathAt, HoldsSlot, HoldsEntry, Reaches, SlotOf
<1>3. CASE Next
  BY <1>1, <1>3, PathStep DEF Next, Paths
<1> QED
  BY <1>2, <1>3

LEMMA AlwaysPaths == Spec => []Paths
BY InitPaths, NextPaths, PTL DEF Spec

\* A lookup that stops at the first slot that was never used misses nothing:
\* every published key is before it on its probe path, with the lock and
\* without it, whatever was removed in the meantime.
THEOREM KeysStayReachable == Spec => []PublishedReachable
<1>1. Paths => PublishedReachable
  BY DEF Paths
<1> QED
  BY <1>1, AlwaysPaths, PTL

-----------------------------------------------------------------------------
(***************************************************************************)
(* Part 2: one mutator at a time.                                          *)
(***************************************************************************)
LEMMA MutatingFacts ==
  ASSUME Typed, NEW t \in Threads
  PROVE  /\ th[t].pc \in SlotLabels \cup FwLabels \cup InLabels \cup RmLabels => Mutating(t)
         /\ th[t].pc \in FeLabels /\ th[t].op # "find_entity" => Mutating(t)
         /\ InHandLabels \subseteq SlotLabels /\ CountedLabels \subseteq SlotLabels
         /\ EntryLabels \subseteq SlotLabels
         /\ IndexLabels \subseteq InLabels /\ StampLabels \subseteq IndexLabels
         /\ SlotLabels \subseteq InLabels \cup RmLabels
         /\ RxLabels \subseteq RmLabels
<1>1. Sane(th[t])
  BY DEF Typed
<1>2. /\ InHandLabels \subseteq SlotLabels /\ CountedLabels \subseteq SlotLabels
      /\ EntryLabels \subseteq SlotLabels
      /\ IndexLabels \subseteq InLabels /\ StampLabels \subseteq IndexLabels
  BY DEF InHandLabels, CountedLabels, SlotLabels, EntryLabels, IndexLabels, StampLabels, InLabels
<1>3. SlotLabels \subseteq InLabels \cup RmLabels /\ RxLabels \subseteq RmLabels
  BY DEF SlotLabels, InLabels, RmLabels, RxLabels
<1>4. th[t].pc \in FwLabels \cup InLabels \cup RmLabels => Mutating(t)
  BY <1>1 DEF Sane, Mutating, WrapperOps
<1>5. th[t].pc \in FeLabels /\ th[t].op # "find_entity" => Mutating(t)
  BY <1>1 DEF Sane, Mutating
<1> QED
  BY <1>2, <1>3, <1>4, <1>5

\* Inside an operation the operation stays what it is.
LEMMA OpKept ==
  ASSUME Typed, NEW t \in Threads, Step(t)
  PROVE  th'[t].op \in {"none", th[t].op}
<1> DEFINE r == th[t]
           Fine(q) == q.op \in {"none", r.op}
<1>a. r \in Locals
  BY DEF Typed, TypeOK
<1>b. ASSUME NEW q, Goto(t, q)
      PROVE  th'[t] = q
  BY <1>b DEF Goto, Typed, TypeOK
<1>i. Fine(Idle)
  BY IdleShape
<1>l. SlotLabels \subseteq Labels
  BY DEF Labels
<1>f. \A l \in Labels : Fine(Finish(r, l)) /\ Fine(Start(r, l))
  BY <1>a, FinishShape, StartShape DEF Same
<1>w. Fine(WrapperAbsent(r))
  BY <1>a, <1>i, WrapperAbsentShape DEF Same
<1>e. Fine(EntityAbsent(r))
  BY <1>a, <1>i, EntityAbsentShape DEF Same
<1>r. \A l \in Labels : \A z : Fine(z) => Fine(Retry(r, l, z))
  BY <1>a, RetryShape DEF Same
<1>o. \A z : Fine(z) => Fine(Onward(r, z))
  BY <1>a, OnwardShape DEF Same
<1>n. Fine(WrapperFound(r)) /\ Fine(Result(r, "hit"))
  <2>1. "hit" \in Labels
    BY DEF Labels
  <2> QED
    BY <1>a, <1>i, <1>f, <2>1, WrapperFoundShape, ResultShape DEF Same
<1>0. Fine(r)
  OBVIOUS
<1>x. ASSUME NEW l, NEW a, NEW b, NEW c, NEW d
      PROVE  /\ Fine([r EXCEPT !.pc = l, !.slot = a])
             /\ Fine([r EXCEPT !.pc = l, !.entry = a])
             /\ Fine([r EXCEPT !.pc = l, !.token_before = a])
             /\ Fine([r EXCEPT !.pc = l, !.snap_entity = a])
             /\ Fine([r EXCEPT !.pc = l, !.snap_data = a, !.snap_token = b])
             /\ Fine([r EXCEPT !.pc = l, !.record_key = a])
             /\ Fine([r EXCEPT !.pc = l, !.record_token = a])
             /\ Fine([r EXCEPT !.pc = l, !.snap_key = a, !.snap_entity = b])
  BY <1>a DEF Locals
<1>s. Start(r, "in_probe") \in Locals /\ Start(r, "rx_probe") \in Locals
  BY <1>a, StartShape DEF Labels, SlotLabels
<1>y. ASSUME NEW a
      PROVE  /\ Fine([Start(r, "in_probe") EXCEPT !.token = a])
             /\ Fine([Start(r, "rx_probe") EXCEPT !.entity = a])
  <2>1. "in_probe" \in Labels /\ "rx_probe" \in Labels
    BY DEF Labels, SlotLabels
  <2>2. Fine(Start(r, "in_probe")) /\ Fine(Start(r, "rx_probe"))
    BY <1>f, <2>1
  <2> QED
    BY <2>2, <1>s DEF Locals
<1>k. /\ "fw_probe" \in Labels /\ "fw_decide" \in Labels /\ "fe_probe" \in Labels
      /\ "fe_recheck_key" \in Labels /\ "fe_recheck_entry" \in Labels /\ "fe_decide" \in Labels
      /\ "in_probe" \in Labels
  BY DEF Labels
<1> SUFFICES Fine(th'[t])
  OBVIOUS
<1> HIDE DEF Fine
<1>1. CASE FindWrapper(t)
  <2>1. CASE FwProbe(t)
    <3>9. Fine([r EXCEPT !.pc = "fw_token", !.slot = SlotOf(r.wrapper, r.probe)])
      BY <1>x
    <3> QED
      BY <1>b, <1>w, <1>r, <1>o, <1>k, <2>1, <3>9 DEF FwProbe
  <2>2. CASE FwToken(t) \/ FwCopy(t) \/ FwCopyRest(t)
    <3>9. /\ Fine([r EXCEPT !.pc = "fw_copy", !.token_before = wtok[r.slot]])
          /\ Fine([r EXCEPT !.pc = "fw_copy_rest", !.snap_entity = ent[r.slot]])
          /\ Fine([r EXCEPT !.pc = "fw_recheck", !.snap_data = dat[r.slot],
                            !.snap_token = wtok[r.slot]])
      BY <1>x
    <3> QED
      BY <1>b, <2>2, <3>9 DEF FwToken, FwCopy, FwCopyRest
  <2>3. CASE FwRecheck(t)
    BY <1>b, <1>f, <1>w, <1>r, <1>k, <2>3 DEF FwRecheck
  <2>4. CASE FwDecide(t)
    BY <1>b, <1>n, <1>w, <1>r, <1>k, <2>4 DEF FwDecide
  <2> QED
    BY <1>1, <2>1, <2>2, <2>3, <2>4 DEF FindWrapper
<1>2. CASE FindEntity(t)
  <2>1. CASE FeProbe(t)
    <3>9. Fine([r EXCEPT !.pc = "fe_index", !.entry = SlotOf(r.entity, r.probe)])
      BY <1>x
    <3> QED
      BY <1>b, <1>e, <1>r, <1>o, <1>k, <2>1, <3>9 DEF FeProbe
  <2>2. CASE FeIndex(t)
    <3>9. Fine([r EXCEPT !.pc = "fe_token", !.slot = erec[r.entry] - 1])
      BY <1>x
    <3> QED
      BY <1>b, <1>e, <1>r, <1>k, <2>2, <3>9 DEF FeIndex
  <2>3. CASE FeToken(t) \/ FeRecordKey(t) \/ FeRecordToken(t) \/ FeCopy(t) \/ FeCopyRest(t)
    <3>9. /\ Fine([r EXCEPT !.pc = "fe_record_key", !.token_before = etok[r.entry]])
          /\ Fine([r EXCEPT !.pc = "fe_record_token", !.record_key = wkey[r.slot]])
          /\ Fine([r EXCEPT !.pc = "fe_copy", !.record_token = wtok[r.slot]])
          /\ Fine([r EXCEPT !.pc = "fe_copy_rest", !.snap_key = wkey[r.slot],
                            !.snap_entity = ent[r.slot]])
          /\ Fine([r EXCEPT !.pc = "fe_recheck_record", !.snap_data = dat[r.slot],
                            !.snap_token = wtok[r.slot]])
      BY <1>x
    <3> QED
      BY <1>b, <2>3, <3>9 DEF FeToken, FeRecordKey, FeRecordToken, FeCopy, FeCopyRest
  <2>4. CASE FeRecheckRecord(t)
    BY <1>b, <1>f, <1>e, <1>r, <1>k, <2>4 DEF FeRecheckRecord
  <2>5. CASE FeRecheckKey(t) \/ FeRecheckEntry(t)
    BY <1>b, <1>f, <1>e, <1>r, <1>k, <2>5 DEF FeRecheckKey, FeRecheckEntry
  <2>6. CASE FeDecide(t)
    BY <1>b, <1>n, <1>e, <1>r, <1>k, <2>6 DEF FeDecide
  <2> QED
    BY <1>2, <2>1, <2>2, <2>3, <2>4, <2>5, <2>6 DEF FindEntity
<1>3. CASE Insert(t)
  <2>0. Fine(Finish(r, "in_undo"))
    BY <1>f, <1>l DEF SlotLabels
  <2>1. CASE InToken(t)
    BY <1>b, <1>i, <1>y, <2>1 DEF InToken
  <2>2. CASE InProbe(t)
    <3>9. Fine([r EXCEPT !.pc = "in_claim", !.slot = SlotOf(r.wrapper, r.probe)])
      BY <1>x
    <3> QED
      BY <1>b, <1>i, <1>r, <1>o, <1>k, <2>2, <3>9 DEF InProbe
  <2>3. CASE InClaim(t)
    <3>1. Fine(Finish(r, "in_fill"))
      BY <1>f, <1>l DEF SlotLabels
    <3> QED
      BY <1>b, <1>i, <1>r, <1>k, <2>3, <3>1 DEF InClaim
  <2>4. CASE InFill(t) \/ InStamp(t)
    BY <1>b, <1>f, <1>l, <2>4 DEF InFill, InStamp, SlotLabels
  <2>5. CASE IxProbe(t)
    <3>1. Fine(Retry(r, "ix_probe", Finish(r, "in_undo")))
      BY <1>r, <1>l, <2>0 DEF SlotLabels
    <3>2. Fine([r EXCEPT !.pc = "ix_claim", !.entry = SlotOf(r.entity, r.probe)])
      BY <1>x
    <3> QED
      BY <1>b, <1>o, <2>0, <2>5, <3>1, <3>2 DEF IxProbe
  <2>6. CASE IxClaim(t)
    <3>1. Fine(Retry(r, "ix_probe", Finish(r, "in_undo"))) /\ Fine(Finish(r, "ix_fill"))
      BY <1>r, <1>f, <1>l, <2>0 DEF SlotLabels
    <3> QED
      BY <1>b, <2>6, <3>1 DEF IxClaim
  <2>7. CASE IxFill(t) \/ IxPublish(t) \/ InCount(t)
    BY <1>b, <1>f, <1>l, <2>7 DEF IxFill, IxPublish, InCount, SlotLabels
  <2>8. CASE InPublish(t)
    BY <1>b, <1>i, <2>8 DEF InPublish
  <2>9. CASE InUndo(t)
    BY <1>b, <1>i, <1>f, <1>l, <2>9 DEF InUndo, ClearPayload, ClearToken, Bury, SlotLabels
  <2> QED
    BY <1>3, <2>1, <2>2, <2>3, <2>4, <2>5, <2>6, <2>7, <2>8, <2>9 DEF Insert
<1>4. CASE Reclaim(t)
  <2>0. Fine(Finish(r, "rm_clear")) /\ Fine(Finish(r, "rm_check")) /\ Fine(Finish(r, "rx_check"))
        /\ Fine(Finish(r, "rx_bury"))
    BY <1>f, <1>l DEF SlotLabels
  <2>1. CASE RmClaim(t)
    BY <1>b, <1>i, <2>0, <2>1 DEF RmClaim
  <2>2. CASE RmCheck(t)
    BY <1>b, <1>i, <1>y, <2>2 DEF RmCheck
  <2>3. CASE RxProbe(t)
    <3>9. Fine([r EXCEPT !.pc = "rx_claim", !.entry = SlotOf(r.entity, r.probe)])
      BY <1>x
    <3> QED
      BY <1>b, <1>o, <2>0, <2>3, <3>9 DEF RxProbe
  <2>4. CASE RxClaim(t) \/ RxCheck(t) \/ RxBury(t)
    BY <1>b, <2>0, <2>4 DEF RxClaim, RxCheck, RxBury
  <2>5. CASE RmFinish(t)
    BY <1>b, <1>i, <1>f, <1>l, <2>5 DEF RmFinish, RmCount, ClearPayload, ClearToken, Bury, SlotLabels
  <2> QED
    BY <1>4, <2>1, <2>2, <2>3, <2>4, <2>5 DEF Reclaim
<1>5. CASE Return(t)
  BY <1>b, <1>5, <1>i DEF Return
<1> QED
  BY <1>1, <1>2, <1>3, <1>4, <1>5 DEF Step

LEMMA OthersKept ==
  ASSUME Typed, NEW t \in Threads, Call(t) \/ Step(t)
  PROVE  \A u \in Threads \ {t} : th'[u] = th[u]
<1>1. CASE Quiet(t)
  BY <1>1, QuietStep
<1>2. CASE ~Quiet(t)
  BY <1>2, StepOthers DEF Quiet, Step, Working
<1> QED
  BY <1>1, <1>2

\* What a call leaves in the thread's record.
LEMMA CallShape ==
  ASSUME Typed, NEW t \in Threads, Call(t)
  PROVE  /\ th[t] = Idle
         /\ th'[t].op \in (IF serialized THEN LockedOperations ELSE BareOperations)
         /\ th'[t].probe = 0
         /\ \/ th'[t].op = "insert" /\ th'[t].pc = "in_token"
            \/ th'[t].op \in {"commit", "remove", "take", "find_wrapper"} /\ th'[t].pc = "fw_probe"
            \/ th'[t].op = "find_entity" /\ th'[t].pc = "fe_probe"
         /\ serialized /\ th'[t].op # "find_entity" => \A u \in Threads \ {t} : ~Mutating(u)
         /\ UNCHANGED <<records, entities, next_token, active_count>>
<1>1. ASSUME NEW op, NEW w, NEW e, NEW k, NEW l, Enter(t, op, w, e, k, l)
      PROVE  /\ th[t] = Idle
             /\ th'[t].op = op /\ th'[t].pc = l /\ th'[t].probe = 0
             /\ op \in (IF serialized THEN LockedOperations ELSE BareOperations)
             /\ serialized /\ op # "find_entity" => \A u \in Threads \ {t} : ~Mutating(u)
             /\ UNCHANGED <<records, entities, next_token, active_count>>
  <2> DEFINE q == [Idle EXCEPT !.pc = l, !.op = op, !.wrapper = w, !.entity = e, !.token = k]
  <2>1. q.op = op /\ q.pc = l /\ q.probe = 0
    BY DEF Idle
  <2>2. Goto(t, q) /\ Admitted(t, op) /\ UNCHANGED <<records, entities, next_token, active_count>>
    BY <1>1 DEF Enter
  <2>3. th'[t] = q
    BY <2>2 DEF Goto, Typed, TypeOK
  <2> QED
    BY <2>1, <2>2, <2>3 DEF Admitted
<1>i. CASE CallInsert(t)
  BY <1>1, <1>i DEF CallInsert
<1>c. CASE CallCommit(t)
  BY <1>1, <1>c DEF CallCommit
<1>r. CASE CallRemove(t)
  BY <1>1, <1>r DEF CallRemove
<1>t. CASE CallTake(t)
  BY <1>1, <1>t DEF CallTake
<1>w. CASE CallFindWrapper(t)
  BY <1>1, <1>w DEF CallFindWrapper
<1>e. CASE CallFindEntity(t)
  BY <1>1, <1>e DEF CallFindEntity
<1> QED
  BY <1>i, <1>c, <1>r, <1>t, <1>w, <1>e DEF Call

LEMMA SoloStep ==
  ASSUME Typed, Solo, serialized, NEW t \in Threads, Call(t) \/ Step(t)
  PROVE  Solo'
<1>1. \A u \in Threads \ {t} : th'[u] = th[u]
  BY OthersKept
<1>2. Mutating(t)' => \A u \in Threads \ {t} : ~Mutating(u)
  <2>1. CASE Call(t)
    BY <2>1, CallShape DEF Mutating
  <2>2. CASE Step(t)
    BY <2>2, OpKept DEF Mutating, Solo
  <2> QED
    BY <2>1, <2>2
<1>3. \A u \in Threads \ {t} : Mutating(u)' <=> Mutating(u)
  BY <1>1 DEF Mutating
<1> QED
  BY <1>2, <1>3 DEF Solo

\* Tokens come from the counter and stay with the insertion that drew them.
LEMMA TokenStep ==
  ASSUME Typed, NEW t \in Threads, Call(t) \/ Step(t)
  PROVE  LET r == th[t]
             q == th'[t]
         IN
         /\ \/ next_token' = next_token
            \/ InToken(t) /\ next_token' = next_token + 1 /\ q.token = next_token + 1
         /\ q.pc \in StampLabels =>
              \/ q.token = next_token + 1 /\ next_token' = next_token + 1
              \/ r.pc \in StampLabels /\ q.token = r.token
         /\ q.pc \in IndexLabels =>
              \/ q.token = next_token + 1 /\ next_token' = next_token + 1
              \/ r.pc \in IndexLabels /\ q.token = r.token
<1> DEFINE r == th[t]
           q == th'[t]
           Holds(labels) ==
             q.pc \in labels =>
               \/ q.token = next_token + 1 /\ next_token' = next_token + 1
               \/ r.pc \in labels /\ q.token = r.token
           Counts == \/ next_token' = next_token
                     \/ InToken(t) /\ next_token' = next_token + 1 /\ q.token = next_token + 1
<1>a. r \in Locals
  BY DEF Typed, TypeOK
<1> SUFFICES Counts /\ Holds(StampLabels) /\ Holds(IndexLabels)
  OBVIOUS
<1>n. ASSUME next_token' = next_token, q.pc \notin IndexLabels
      PROVE  Counts /\ Holds(StampLabels) /\ Holds(IndexLabels)
  BY <1>n DEF IndexLabels
<1>s. ASSUME next_token' = next_token, q.token = r.token,
             q.pc \in StampLabels => r.pc \in StampLabels, r.pc \in IndexLabels
      PROVE  Counts /\ Holds(StampLabels) /\ Holds(IndexLabels)
  BY <1>s
<1> HIDE DEF Counts, Holds
<1>1. CASE Call(t) \/ Return(t) \/ FindWrapper(t) \/ FindEntity(t)
  <2>1. next_token' = next_token
    BY <1>1 DEF Call, CallInsert, CallCommit, CallRemove, CallTake, CallFindWrapper,
                CallFindEntity, Enter, Return, FindWrapper, FwProbe, FwToken, FwCopy,
                FwCopyRest, FwRecheck, FwDecide, FindEntity, FeProbe, FeIndex, FeToken,
                FeRecordKey, FeRecordToken, FeCopy, FeCopyRest, FeRecheckRecord,
                FeRecheckKey, FeRecheckEntry, FeDecide
  <2>2. q.pc \notin IndexLabels
    BY <1>1, QuietLabels DEF IndexLabels, StampLabels, SlotLabels
  <2> QED
    BY <1>n, <2>1, <2>2
<1>2. CASE InToken(t)
  <2>1. \/ q = Idle /\ next_token' = next_token
        \/ /\ q = [Start(r, "in_probe") EXCEPT !.token = next_token + 1]
           /\ next_token' = next_token + 1
    BY <1>2 DEF InToken, Goto, Typed, TypeOK
  <2>2. Start(r, "in_probe") \in Locals
    BY <1>a, StartShape DEF Labels
  <2>3. CASE q = Idle /\ next_token' = next_token
    BY <1>n, <2>3, IdleShape DEF IndexLabels, StampLabels
  <2>4. CASE /\ q = [Start(r, "in_probe") EXCEPT !.token = next_token + 1]
             /\ next_token' = next_token + 1
    <3>1. q.token = next_token + 1
      BY <2>2, <2>4 DEF Locals
    <3> QED
      BY <1>2, <2>4, <3>1 DEF Counts, Holds
  <2> QED
    BY <2>1, <2>3, <2>4
<1>3. CASE InProbe(t)
  <2>1. next_token' = next_token /\ r.pc = "in_probe"
    BY <1>3 DEF InProbe, At
  <2>2. q = Idle \/ q.token = r.token
    BY <1>3, ProbeShape DEF Same, Kept
  <2>3. CASE q = Idle
    BY <1>n, <2>1, <2>3, IdleShape DEF IndexLabels, StampLabels
  <2>4. CASE q.token = r.token
    BY <1>s, <2>1, <2>4 DEF IndexLabels, StampLabels
  <2> QED
    BY <2>2, <2>3, <2>4
<1>4. CASE InClaim(t)
  <2>1. next_token' = next_token /\ r.pc = "in_claim"
    BY <1>4 DEF InClaim, At
  <2>2. CASE Free(wkey[r.slot])
    BY <1>4, <1>s, <2>1, <2>2, HolderStep DEF Kept, IndexLabels, StampLabels
  <2>3. CASE ~Free(wkey[r.slot])
    <3>1. q = Retry(r, "in_probe", Idle)
      BY <1>4, <2>3 DEF InClaim, Goto, Typed, TypeOK
    <3>2. \/ q = Idle
          \/ q.pc = "in_probe" /\ Same(q, r) /\ q.probe = 0
      BY <1>a, <3>1, RetryShape DEF Labels
    <3>3. CASE q = Idle
      BY <1>n, <2>1, <3>3, IdleShape DEF IndexLabels, StampLabels
    <3>4. CASE q.pc = "in_probe" /\ Same(q, r)
      BY <1>s, <2>1, <3>4 DEF IndexLabels, StampLabels, Same, Kept
    <3> QED
      BY <3>2, <3>3, <3>4
  <2> QED
    BY <2>2, <2>3
<1>5. CASE InFill(t) \/ InStamp(t) \/ IxProbe(t) \/ IxClaim(t) \/ IxFill(t)
  <2>1. next_token' = next_token /\ r.pc \in IndexLabels
    BY <1>5 DEF InFill, InStamp, IxProbe, IxClaim, IxFill, At, IndexLabels, StampLabels
  <2>2. /\ q.token = r.token
        /\ q.pc \in StampLabels => r.pc \in StampLabels
    <3>1. CASE InFill(t)
      BY <3>1, HolderStep DEF Kept, InFill, At, StampLabels
    <3>2. CASE InStamp(t) \/ IxFill(t)
      BY <3>2, HolderStep DEF Kept, StampLabels
    <3>3. CASE IxProbe(t)
      BY <3>3, HolderStep DEF Kept, StampLabels
    <3>4. CASE IxClaim(t)
      BY <3>4, HolderStep DEF Kept, StampLabels
    <3> QED
      BY <1>5, <3>1, <3>2, <3>3, <3>4
  <2> QED
    BY <1>s, <2>1, <2>2
<1>6. CASE \/ IxPublish(t) \/ InCount(t) \/ InPublish(t) \/ InUndo(t) \/ Reclaim(t)
  <2>1. next_token' = next_token
    BY <1>6 DEF IxPublish, InCount, InPublish, InUndo, Reclaim, ClearPayload, ClearToken, Bury,
                RmClaim, RmCheck, RxProbe, RxClaim, RxCheck, RxBury, RmFinish, RmCount
  <2>2. q.pc \notin IndexLabels
    <3>1. CASE IxPublish(t) \/ InCount(t) \/ InPublish(t) \/ InUndo(t)
      BY <3>1, HolderStep DEF InUndo, IndexLabels, StampLabels
    <3>2. CASE RmClaim(t) \/ RmCheck(t) \/ RxProbe(t)
      BY <3>2, HolderStep DEF IndexLabels, StampLabels
    <3>3. CASE RxClaim(t) \/ RxCheck(t) \/ RxBury(t) \/ RmFinish(t)
      BY <3>3, HolderStep DEF RmFinish, IndexLabels, StampLabels
    <3> QED
      BY <1>6, <3>1, <3>2, <3>3 DEF Reclaim
  <2> QED
    BY <1>n, <2>1, <2>2
<1> QED
  BY <1>1, <1>2, <1>3, <1>4, <1>5, <1>6 DEF Step, Insert

\* A token whose insertion has gone on stays behind.
LEMMA PastStep ==
  ASSUME Typed, NEW t \in Threads, Call(t) \/ Step(t), NEW k \in Nat
  PROVE  /\ Past(k, StampLabels) => Past(k, StampLabels)'
         /\ Past(k, IndexLabels) => Past(k, IndexLabels)'
<1>1. next_token \in Nat /\ next_token' \in Nat /\ next_token <= next_token'
  <2>1. next_token \in Nat
    BY NumbersFact DEF Typed, TypeOK, Tokens
  <2> QED
    BY <2>1, TokenStep
<1>2. \A u \in Threads \ {t} : th'[u] = th[u]
  BY OthersKept
<1>3. /\ th'[t].pc \in StampLabels =>
           \/ th'[t].token = next_token + 1
           \/ th[t].pc \in StampLabels /\ th'[t].token = th[t].token
      /\ th'[t].pc \in IndexLabels =>
           \/ th'[t].token = next_token + 1
           \/ th[t].pc \in IndexLabels /\ th'[t].token = th[t].token
  BY TokenStep
<1>4. ASSUME Past(k, StampLabels)
      PROVE  Past(k, StampLabels)'
  <2>1. k <= next_token' /\ k # next_token + 1
    BY <1>1, <1>4 DEF Past
  <2>2. \A u \in Threads : th'[u].pc \in StampLabels => th'[u].token # k
    BY <1>2, <1>3, <1>4, <2>1 DEF Past
  <2> QED
    BY <2>1, <2>2 DEF Past
<1>5. ASSUME Past(k, IndexLabels)
      PROVE  Past(k, IndexLabels)'
  <2>1. k <= next_token' /\ k # next_token + 1
    BY <1>1, <1>5 DEF Past
  <2>2. \A u \in Threads : th'[u].pc \in IndexLabels => th'[u].token # k
    BY <1>2, <1>3, <1>5, <2>1 DEF Past
  <2> QED
    BY <2>1, <2>2 DEF Past
<1> QED
  BY <1>4, <1>5

\* What each step does to the tables: the slot and the entry it may change.
LEMMA ContentStep ==
  ASSUME Typed, NEW t \in Threads, Call(t) \/ Step(t)
  PROVE  LET r == th[t]
         IN
         /\ \/ ent' = ent /\ dat' = dat
            \/ /\ InFill(t)
               /\ ent' = [ent EXCEPT ![r.slot] = r.entity]
               /\ dat' = [dat EXCEPT ![r.slot] = <<r.wrapper, r.entity, r.token>>]
            \/ /\ r.pc \in {"in_undo", "rm_clear"}
               /\ ent' = [ent EXCEPT ![r.slot] = 0]
               /\ dat' = [dat EXCEPT ![r.slot] = NoData]
         /\ \/ wtok' = wtok
            \/ InStamp(t) /\ wtok' = [wtok EXCEPT ![r.slot] = r.token]
            \/ r.pc \in {"in_undo_token", "rm_clear_token"} /\ wtok' = [wtok EXCEPT ![r.slot] = 0]
         /\ \/ erec' = erec /\ etok' = etok
            \/ /\ IxFill(t)
               /\ erec' = [erec EXCEPT ![r.entry] = r.slot + 1]
               /\ etok' = [etok EXCEPT ![r.entry] = r.token]
            \/ /\ r.pc = "rx_check" /\ etok[r.entry] = r.token /\ erec[r.entry] = r.slot + 1
               /\ erec' = [erec EXCEPT ![r.entry] = 0]
               /\ etok' = [etok EXCEPT ![r.entry] = 0]
<1> DEFINE r == th[t]
<1>1. CASE Quiet(t)
  BY <1>1, QuietStep DEF records, entities
<1>2. CASE InFill(t)
  BY <1>2 DEF InFill, entities
<1>3. CASE InStamp(t)
  BY <1>3 DEF InStamp, entities
<1>4. CASE IxFill(t)
  BY <1>4 DEF IxFill, records
<1>5. CASE InUndo(t)
  BY <1>5 DEF InUndo, ClearPayload, ClearToken, Bury, At, entities
<1>6. CASE RmFinish(t)
  BY <1>6 DEF RmFinish, RmCount, ClearPayload, ClearToken, Bury, At, entities, records
<1>7. CASE RxCheck(t)
  BY <1>7 DEF RxCheck, At, records
<1>8. CASE \/ InClaim(t) \/ IxProbe(t) \/ IxClaim(t) \/ IxPublish(t) \/ InCount(t) \/ InPublish(t)
           \/ RmClaim(t) \/ RmCheck(t) \/ RxProbe(t) \/ RxClaim(t) \/ RxBury(t)
  BY <1>8 DEF InClaim, IxProbe, IxClaim, IxPublish, InCount, InPublish, RmClaim, RmCheck,
              RxProbe, RxClaim, RxBury, records, entities
<1> QED
  BY <1>1, <1>2, <1>3, <1>4, <1>5, <1>6, <1>7, <1>8 DEF Quiet, Step, Insert, Reclaim

LEMMA DroppedStep ==
  ASSUME Typed, NEW t \in Threads, Call(t) \/ Step(t), NEW k \in Nat, k # 0, Dropped(k)
  PROVE  Dropped(k)'
<1>1. Past(k, IndexLabels)'
  BY PastStep DEF Dropped
<1>2. IxFill(t) => th[t].token # k
  BY DEF IxFill, At, Dropped, Past, IndexLabels
<1>3. etok \in [Slots -> Tokens] /\ th[t].entry \in Slots
  BY DEF Typed, TypeOK, Locals
<1>4. \A x \in Slots : etok'[x] # k
  BY <1>2, <1>3, ContentStep DEF Dropped
<1> QED
  BY <1>1, <1>4 DEF Dropped

-----------------------------------------------------------------------------
(***************************************************************************)
(* The books while one thread r works on the tables: it is the only one    *)
(* that can hold a slot.                                                   *)
(***************************************************************************)
Held(r) ==
  /\ \A s \in Slots : Busy(wkey[s]) => r.pc \in SlotLabels /\ r.slot = s
  /\ \A x \in Slots : Busy(ekey[x]) => r.pc \in EntryLabels /\ r.entry = x
Points(r) ==
  \A x \in Slots : Listed(x) =>
    \E s \in Slots : /\ EntryFor(x, s)
                     /\ Pub(s) \/ (r.pc \in InHandLabels /\ r.slot = s)
Extra(r) == IF r.pc \in CountedLabels THEN 1 ELSE 0
Counts(r) == active_count = Cardinality(Published) + Extra(r)

BooksBy(r) == /\ WrappersOnce /\ EntitiesOnce /\ EntriesOnce
              /\ RecordsWhole /\ Points(r) /\ Held(r) /\ Counts(r)

Alone(t) == \A u \in Threads \ {t} : ~HoldsSlot(u)

LEMMA BooksOne ==
  ASSUME NEW t \in Threads, Alone(t), Typed
  PROVE  Books <=> BooksBy(th[t])
<1>0. \A u \in Threads : u # t => th[u].pc \notin SlotLabels
  BY DEF Alone, HoldsSlot
<1>a. /\ InHandLabels \subseteq SlotLabels /\ CountedLabels \subseteq SlotLabels
      /\ EntryLabels \subseteq SlotLabels
  BY MutatingFacts
<1>1. EntriesPoint <=> Points(th[t])
  BY <1>0, <1>a DEF EntriesPoint, Points
<1>2. BusyHeld <=> Held(th[t])
  BY <1>0, <1>a DEF BusyHeld, Held, HoldsSlot, HoldsEntry
<1>3. CountRight <=> Counts(th[t])
  <2>1. /\ (\E u \in Threads : th[u].pc \in CountedLabels) <=> th[t].pc \in CountedLabels
        /\ (\A u \in Threads : th[u].pc \notin CountedLabels) <=> th[t].pc \notin CountedLabels
    BY <1>0, <1>a
  <2>2. Cardinality(Published) \in Nat
    <3>1. IsFiniteSet(Slots)
      BY FS_Interval, NumbersFact DEF Slots
    <3> QED
      BY <3>1, FS_Subset, FS_CardinalityType DEF Published
  <2>3. active_count \in Nat
    BY DEF Typed, TypeOK
  <2> QED
    BY <2>1, <2>2, <2>3 DEF CountRight, Counts, Extra
<1> QED
  BY <1>1, <1>2, <1>3 DEF Books, BooksBy

LEMMA PublishedSize ==
  /\ IsFiniteSet(Published) /\ Cardinality(Published) \in Nat
<1>1. IsFiniteSet(Slots)
  BY FS_Interval, NumbersFact DEF Slots
<1> QED
  BY <1>1, FS_Subset, FS_CardinalityType DEF Published

\* A step that leaves the set of published records and of listed entries as
\* they are, and touches no other slot and entry than the thread's own.
LEMMA BooksKept ==
  ASSUME Typed, Typed', NEW t \in Threads, BooksBy(th[t]),
         \A s \in Slots : Pub(s)' = Pub(s),
         \A s \in Slots : s # th[t].slot \/ Pub(s) =>
           wkey'[s] = wkey[s] /\ ent'[s] = ent[s] /\ dat'[s] = dat[s] /\ wtok'[s] = wtok[s],
         \A x \in Slots : Listed(x)' = Listed(x),
         \A x \in Slots : x # th[t].entry \/ Listed(x) =>
           ekey'[x] = ekey[x] /\ erec'[x] = erec[x] /\ etok'[x] = etok[x],
         LET e == ent'[th[t].slot]
         IN  e = ent[th[t].slot] \/ e = 0 \/ NoRecord(e),
         th[t].pc \in InHandLabels =>
           /\ th'[t].pc \in InHandLabels
           /\ th'[t].slot = th[t].slot
           /\ ent' = ent /\ wtok' = wtok,
         Held(th[t])',
         active_count' - Extra(th[t])' = active_count - Extra(th[t])
  PROVE  BooksBy(th[t])'
<1>a. /\ th[t].slot \in Slots /\ th[t].entry \in Slots
      /\ ent \in [Slots -> {0} \cup Entities]
      /\ \A e \in Entities : e # 0
  BY NumbersFact DEF Typed, TypeOK, Locals
<1>b. /\ WrappersOnce /\ EntitiesOnce /\ EntriesOnce
      /\ RecordsWhole /\ Points(th[t]) /\ Counts(th[t])
  BY DEF BooksBy
<1>1. WrappersOnce'
  BY <1>b DEF WrappersOnce, Pub
<1>2. EntitiesOnce'
  <2>1. ASSUME NEW s \in Slots, NEW r \in Slots, ent'[s] # 0, ent'[r] = ent'[s], r # s
        PROVE  FALSE
    <3>1. CASE s # th[t].slot /\ r # th[t].slot
      BY <1>b, <2>1, <3>1 DEF EntitiesOnce
    <3>2. CASE ent'[th[t].slot] = ent[th[t].slot]
      BY <1>b, <2>1, <3>2 DEF EntitiesOnce
    <3>3. CASE s = th[t].slot /\ NoRecord(ent'[s])
      BY <2>1, <3>3 DEF NoRecord
    <3>4. CASE r = th[t].slot /\ NoRecord(ent'[r])
      BY <2>1, <3>4 DEF NoRecord
    <3> QED
      BY <2>1, <3>1, <3>2, <3>3, <3>4
  <2> QED
    BY <2>1 DEF EntitiesOnce
<1>3. EntriesOnce'
  BY <1>b DEF EntriesOnce, Listed
<1>4. RecordsWhole'
  <2>1. ASSUME NEW s \in Slots, Pub(s)'
        PROVE  Whole(s, wkey[s])'
    <3>1. Pub(s) /\ wkey'[s] = wkey[s] /\ ent'[s] = ent[s] /\ dat'[s] = dat[s] /\ wtok'[s] = wtok[s]
      BY <2>1
    <3>2. Whole(s, wkey[s])
      BY <1>b, <3>1 DEF RecordsWhole
    <3>3. PICK x \in Slots : EntryFor(x, s)
      BY <3>2 DEF Whole
    <3>4. Listed(x)
      BY <3>2, <3>3 DEF Listed, EntryFor, Whole
    <3>5. EntryFor(x, s)'
      BY <3>1, <3>3, <3>4 DEF EntryFor
    <3> QED
      BY <3>1, <3>2, <3>5 DEF Whole
  <2> QED
    BY <2>1 DEF RecordsWhole
<1>5. Points(th[t])'
  <2>1. ASSUME NEW x \in Slots, Listed(x)'
        PROVE  \E s \in Slots : /\ EntryFor(x, s)'
                                /\ Pub(s)' \/ (th'[t].pc \in InHandLabels /\ th'[t].slot = s)
    <3>1. Listed(x) /\ ekey'[x] = ekey[x] /\ erec'[x] = erec[x] /\ etok'[x] = etok[x]
      BY <2>1
    <3>2. PICK s \in Slots : /\ EntryFor(x, s)
                             /\ Pub(s) \/ (th[t].pc \in InHandLabels /\ th[t].slot = s)
      BY <1>b, <3>1 DEF Points
    <3>3. ent'[s] = ent[s] /\ wtok'[s] = wtok[s]
      BY <3>2
    <3>4. EntryFor(x, s)'
      BY <3>1, <3>2, <3>3 DEF EntryFor
    <3>5. Pub(s)' \/ (th'[t].pc \in InHandLabels /\ th'[t].slot = s)
      BY <3>2
    <3> QED
      BY <3>4, <3>5
  <2> QED
    BY <2>1 DEF Points
<1>6. Counts(th[t])'
  <2>1. Published' = Published
    BY DEF Published
  <2>2. active_count' - Extra(th[t])' = Cardinality(Published)
    <3>1. Extra(th[t]) \in Int
      BY DEF Extra
    <3> QED
      BY <1>b, <3>1, PublishedSize DEF Counts
  <2>3. active_count' = Cardinality(Published) + Extra(th[t])'
    <3>1. Extra(th[t])' \in Int
      BY DEF Extra
    <3>2. active_count' \in Int
      BY DEF Typed, TypeOK
    <3> QED
      BY <2>2, <3>1, <3>2, PublishedSize
  <2> QED
    BY <2>1, <2>3 DEF Counts
<1> QED
  BY <1>1, <1>2, <1>3, <1>4, <1>5, <1>6 DEF BooksBy

\* The thread's record appears among the published ones,
LEMMA BooksAppear ==
  ASSUME Typed, Typed', NEW t \in Threads, BooksBy(th[t]), NEW w \in Wrappers,
         ~Pub(th[t].slot), NoWrapper(w), Whole(th[t].slot, w),
         wkey' = [wkey EXCEPT ![th[t].slot] = w],
         UNCHANGED <<ent, dat, wtok, entities, active_count>>,
         th[t].pc \in CountedLabels, th'[t].pc \notin CountedLabels,
         Held(th[t])'
  PROVE  BooksBy(th[t])'
<1> DEFINE o == th[t].slot
<1>a. /\ o \in Slots /\ wkey \in [Slots -> WrapperKeys]
      /\ ent' = ent /\ dat' = dat /\ wtok' = wtok
      /\ ekey' = ekey /\ erec' = erec /\ etok' = etok
  BY DEF Typed, TypeOK, Locals, entities
<1>b. /\ WrappersOnce /\ EntitiesOnce /\ EntriesOnce
      /\ RecordsWhole /\ Points(th[t]) /\ Counts(th[t])
  BY DEF BooksBy
<1>k. /\ wkey'[o] = w /\ \A s \in Slots : s # o => wkey'[s] = wkey[s]
      /\ \A s \in Slots : Pub(s)' <=> Pub(s) \/ s = o
  BY <1>a DEF Pub
<1>1. WrappersOnce'
  BY <1>a, <1>b, <1>k DEF WrappersOnce, Pub, NoWrapper
<1>2. EntitiesOnce' /\ EntriesOnce'
  BY <1>a, <1>b DEF EntitiesOnce, EntriesOnce, Listed
<1>3. RecordsWhole'
  <2>1. ASSUME NEW s \in Slots, Pub(s)'
        PROVE  Whole(s, wkey[s])'
    <3>1. Whole(s, wkey'[s])
      BY <1>b, <1>k, <2>1 DEF RecordsWhole
    <3> QED
      BY <1>a, <3>1 DEF Whole, EntryFor
  <2> QED
    BY <2>1 DEF RecordsWhole
<1>4. Points(th[t])'
  <2>1. ASSUME NEW x \in Slots, Listed(x)'
        PROVE  \E s \in Slots : EntryFor(x, s)' /\ Pub(s)'
    <3>1. Listed(x)
      BY <1>a, <2>1 DEF Listed
    <3>2. PICK s \in Slots : EntryFor(x, s) /\ (Pub(s) \/ s = o)
      BY <1>b, <3>1 DEF Points
    <3> QED
      BY <1>a, <1>k, <3>2 DEF EntryFor
  <2> QED
    BY <2>1 DEF Points
<1>5. Counts(th[t])'
  <2>1. Published' = Published \cup {o} /\ o \notin Published
    BY <1>a, <1>k DEF Published
  <2>2. Cardinality(Published') = Cardinality(Published) + 1
    BY <2>1, PublishedSize, FS_AddElement
  <2>3. active_count = Cardinality(Published) + 1
    BY <1>b DEF Counts, Extra
  <2>4. active_count' = Cardinality(Published') + 0
    BY <2>2, <2>3, PublishedSize
  <2> QED
    BY <2>4 DEF Counts, Extra
<1> QED
  BY <1>1, <1>2, <1>3, <1>4, <1>5 DEF BooksBy

\* and disappears from them, while it stays in the index and counted.
LEMMA BooksVanish ==
  ASSUME Typed, Typed', NEW t \in Threads, BooksBy(th[t]),
         Pub(th[t].slot),
         wkey' = [wkey EXCEPT ![th[t].slot] = RECLAIMING],
         UNCHANGED <<ent, dat, wtok, entities, active_count>>,
         th[t].pc \notin SlotLabels,
         th'[t].pc = "rm_check", th'[t].slot = th[t].slot,
         Held(th[t])'
  PROVE  BooksBy(th[t])'
<1> DEFINE o == th[t].slot
<1>a. /\ o \in Slots /\ wkey \in [Slots -> WrapperKeys]
      /\ ent' = ent /\ dat' = dat /\ wtok' = wtok
      /\ ekey' = ekey /\ erec' = erec /\ etok' = etok
  BY DEF Typed, TypeOK, Locals, entities
<1>b. /\ WrappersOnce /\ EntitiesOnce /\ EntriesOnce
      /\ RecordsWhole /\ Points(th[t]) /\ Counts(th[t])
  BY DEF BooksBy
<1>l. /\ "rm_check" \in InHandLabels /\ "rm_check" \in CountedLabels
      /\ th[t].pc \notin InHandLabels /\ th[t].pc \notin CountedLabels
  BY MutatingFacts DEF InHandLabels, CountedLabels
<1>k. /\ \A s \in Slots : s # o => wkey'[s] = wkey[s]
      /\ \A s \in Slots : Pub(s)' <=> Pub(s) /\ s # o
  <2>1. RECLAIMING \notin Wrappers
    BY BusyFacts
  <2> QED
    BY <1>a, <2>1 DEF Pub
<1>1. WrappersOnce'
  <2>1. ASSUME NEW s \in Slots, NEW r \in Slots, Pub(s)', wkey'[r] = wkey'[s]
        PROVE  r = s
    <3>1. Pub(s) /\ wkey'[s] = wkey[s] /\ wkey'[s] \in Wrappers
      BY <1>k, <2>1 DEF Pub
    <3>2. r # o
      BY <1>k, <2>1, <3>1 DEF Pub
    <3> QED
      BY <1>b, <1>k, <2>1, <3>1, <3>2 DEF WrappersOnce
  <2> QED
    BY <2>1 DEF WrappersOnce
<1>2. EntitiesOnce' /\ EntriesOnce'
  BY <1>a, <1>b DEF EntitiesOnce, EntriesOnce, Listed
<1>3. RecordsWhole'
  <2>1. ASSUME NEW s \in Slots, Pub(s)'
        PROVE  Whole(s, wkey[s])'
    <3>1. Whole(s, wkey'[s])
      BY <1>b, <1>k, <2>1 DEF RecordsWhole
    <3> QED
      BY <1>a, <3>1 DEF Whole, EntryFor
  <2> QED
    BY <2>1 DEF RecordsWhole
<1>4. Points(th[t])'
  <2>1. ASSUME NEW x \in Slots, Listed(x)'
        PROVE  \E s \in Slots : EntryFor(x, s)' /\ (Pub(s)' \/ th'[t].slot = s)
    <3>1. Listed(x)
      BY <1>a, <2>1 DEF Listed
    <3>2. PICK s \in Slots : EntryFor(x, s) /\ Pub(s)
      BY <1>b, <1>l, <3>1 DEF Points
    <3> QED
      BY <1>a, <1>k, <3>2 DEF EntryFor
  <2> QED
    BY <1>l, <2>1 DEF Points
<1>5. Counts(th[t])'
  <2>1. Published' = Published \ {o} /\ o \in Published
    BY <1>a, <1>k DEF Published
  <2>2. Cardinality(Published') = Cardinality(Published) - 1
    BY <2>1, PublishedSize, FS_RemoveElement
  <2>3. active_count = Cardinality(Published)
    BY <1>b, <1>l, PublishedSize DEF Counts, Extra
  <2>4. active_count' = Cardinality(Published') + 1
    BY <2>2, <2>3, PublishedSize
  <2> QED
    BY <1>l, <2>4 DEF Counts, Extra
<1> QED
  BY <1>1, <1>2, <1>3, <1>4, <1>5 DEF BooksBy

\* The thread's entry is listed before its record is published,
LEMMA BooksListed ==
  ASSUME Typed, Typed', NEW t \in Threads, BooksBy(th[t]), NEW e \in Entities,
         ~Listed(th[t].entry), NoEntry(e), ent[th[t].slot] = e,
         erec[th[t].entry] = th[t].slot + 1, etok[th[t].entry] = wtok[th[t].slot],
         ekey' = [ekey EXCEPT ![th[t].entry] = e],
         UNCHANGED <<records, erec, etok, active_count>>,
         th[t].pc \notin InHandLabels \cup CountedLabels,
         th'[t].pc = "in_count", th'[t].slot = th[t].slot,
         Held(th[t])'
  PROVE  BooksBy(th[t])'
<1> DEFINE o == th[t].slot
           z == th[t].entry
<1>a. /\ o \in Slots /\ z \in Slots /\ ekey \in [Slots -> EntityKeys]
      /\ ent' = ent /\ dat' = dat /\ wtok' = wtok /\ wkey' = wkey
      /\ erec' = erec /\ etok' = etok
  BY DEF Typed, TypeOK, Locals, records
<1>b. /\ WrappersOnce /\ EntitiesOnce /\ EntriesOnce
      /\ RecordsWhole /\ Points(th[t]) /\ Counts(th[t])
  BY DEF BooksBy
<1>l. "in_count" \in InHandLabels /\ "in_count" \notin CountedLabels
  BY DEF InHandLabels, CountedLabels
<1>k. /\ ekey'[z] = e /\ \A x \in Slots : x # z => ekey'[x] = ekey[x]
      /\ \A x \in Slots : Listed(x)' <=> Listed(x) \/ x = z
      /\ \A s \in Slots : Pub(s)' <=> Pub(s)
  BY <1>a DEF Listed, Pub
<1>1. WrappersOnce' /\ EntitiesOnce'
  BY <1>a, <1>b DEF WrappersOnce, EntitiesOnce, Pub
<1>2. EntriesOnce'
  BY <1>a, <1>b, <1>k DEF EntriesOnce, Listed, NoEntry
<1>e. \A x, s \in Slots : EntryFor(x, s) /\ Listed(x) => EntryFor(x, s)'
  BY <1>a, <1>k DEF EntryFor
<1>3. RecordsWhole'
  <2>1. ASSUME NEW s \in Slots, Pub(s)'
        PROVE  Whole(s, wkey[s])'
    <3>1. Whole(s, wkey[s])
      BY <1>b, <1>k, <2>1 DEF RecordsWhole
    <3>2. PICK x \in Slots : EntryFor(x, s)
      BY <3>1 DEF Whole
    <3>3. EntryFor(x, s)'
      BY <1>e, <3>1, <3>2 DEF Whole, EntryFor, Listed
    <3> QED
      BY <1>a, <3>1, <3>3 DEF Whole
  <2> QED
    BY <2>1 DEF RecordsWhole
<1>4. Points(th[t])'
  <2>1. ASSUME NEW x \in Slots, Listed(x)'
        PROVE  \E s \in Slots : EntryFor(x, s)' /\ (Pub(s)' \/ s = o)
    <3>1. CASE x = z
      <4>1. \A s \in Slots : s = o => EntryFor(x, s)'
        BY <1>a, <1>k, <3>1 DEF EntryFor
      <4> QED
        BY <1>a, <4>1
    <3>2. CASE x # z
      <4>1. Listed(x)
        BY <1>k, <2>1, <3>2
      <4>2. PICK s \in Slots : EntryFor(x, s) /\ Pub(s)
        BY <1>b, <4>1 DEF Points
      <4> QED
        BY <1>e, <1>k, <4>1, <4>2
    <3> QED
      BY <3>1, <3>2
  <2> QED
    BY <1>l, <2>1 DEF Points
<1>5. Counts(th[t])'
  <2>1. Published' = Published
    BY <1>k DEF Published
  <2> QED
    BY <1>b, <1>l, <2>1 DEF Counts, Extra
<1> QED
  BY <1>1, <1>2, <1>3, <1>4, <1>5 DEF BooksBy

\* and leaves the list after its record was claimed.
LEMMA BooksUnlisted ==
  ASSUME Typed, Typed', NEW t \in Threads, BooksBy(th[t]),
         ~Pub(th[t].slot), EntryFor(th[t].entry, th[t].slot), Listed(th[t].entry),
         ekey' = [ekey EXCEPT ![th[t].entry] = RECLAIMING],
         UNCHANGED <<records, erec, etok, active_count>>,
         th[t].pc \in CountedLabels, th'[t].pc \in CountedLabels,
         Held(th[t])'
  PROVE  BooksBy(th[t])'
<1> DEFINE o == th[t].slot
           z == th[t].entry
<1>a. /\ o \in Slots /\ z \in Slots /\ ekey \in [Slots -> EntityKeys]
      /\ ent' = ent /\ dat' = dat /\ wtok' = wtok /\ wkey' = wkey
      /\ erec' = erec /\ etok' = etok
  BY DEF Typed, TypeOK, Locals, records
<1>b. /\ WrappersOnce /\ EntitiesOnce /\ EntriesOnce
      /\ RecordsWhole /\ Points(th[t]) /\ Counts(th[t])
  BY DEF BooksBy
<1>n. RECLAIMING \notin Entities /\ 0 \notin Entities
  BY BusyFacts, NumbersFact
<1>k. /\ \A x \in Slots : x # z => ekey'[x] = ekey[x]
      /\ \A x \in Slots : Listed(x)' <=> Listed(x) /\ x # z
      /\ \A s \in Slots : Pub(s)' <=> Pub(s)
  BY <1>a, <1>n DEF Listed, Pub
<1>1. WrappersOnce' /\ EntitiesOnce'
  BY <1>a, <1>b DEF WrappersOnce, EntitiesOnce, Pub
<1>2. EntriesOnce'
  <2>1. ASSUME NEW x \in Slots, NEW y \in Slots, Listed(x)', ekey'[y] = ekey'[x]
        PROVE  y = x
    <3>1. Listed(y)'
      BY <2>1 DEF Listed
    <3> QED
      BY <1>b, <1>k, <2>1, <3>1 DEF EntriesOnce
  <2> QED
    BY <2>1 DEF EntriesOnce
<1>e. \A x, s \in Slots : EntryFor(x, s) /\ x # z => EntryFor(x, s)'
  BY <1>a, <1>k DEF EntryFor
<1>o. \A x, s \in Slots : EntryFor(x, s) /\ Listed(x) => (x = z <=> s = o)
  <2>1. ASSUME NEW x \in Slots, NEW s \in Slots, EntryFor(x, s), Listed(x)
        PROVE  x = z <=> s = o
    <3>1. x = z => ent[s] = ent[o] /\ ent[s] # 0
      BY <1>n, <2>1 DEF EntryFor, Listed
    <3>2. s = o => ekey[x] = ekey[z]
      BY <2>1 DEF EntryFor
    <3> QED
      BY <1>a, <1>b, <2>1, <3>1, <3>2 DEF EntitiesOnce, EntriesOnce
  <2> QED
    BY <2>1
<1>3. RecordsWhole'
  <2>1. ASSUME NEW s \in Slots, Pub(s)'
        PROVE  Whole(s, wkey[s])'
    <3>1. Whole(s, wkey[s]) /\ s # o
      BY <1>b, <1>k, <2>1 DEF RecordsWhole
    <3>2. PICK x \in Slots : EntryFor(x, s)
      BY <3>1 DEF Whole
    <3>3. x # z
      BY <1>a, <1>o, <3>1, <3>2 DEF Whole, EntryFor, Listed
    <3> QED
      BY <1>a, <1>e, <3>1, <3>2, <3>3 DEF Whole
  <2> QED
    BY <2>1 DEF RecordsWhole
<1>4. Points(th[t])'
  <2>1. ASSUME NEW x \in Slots, Listed(x)'
        PROVE  \E s \in Slots : EntryFor(x, s)' /\ Pub(s)'
    <3>1. Listed(x) /\ x # z
      BY <1>k, <2>1
    <3>2. PICK s \in Slots : EntryFor(x, s) /\ (Pub(s) \/ s = o)
      BY <1>b, <3>1 DEF Points
    <3>3. s # o
      BY <1>o, <3>1, <3>2
    <3> QED
      BY <1>e, <1>k, <3>1, <3>2, <3>3
  <2> QED
    BY <2>1 DEF Points
<1>5. Counts(th[t])'
  <2>1. Published' = Published
    BY <1>k DEF Published
  <2> QED
    BY <1>b, <2>1 DEF Counts, Extra
<1> QED
  BY <1>1, <1>2, <1>3, <1>4, <1>5 DEF BooksBy

LEMMA QuietFacts ==
  ASSUME Typed, NEW t \in Threads, Quiet(t)
  PROVE  th[t].pc \notin SlotLabels /\ active_count' = active_count
<1>1. CASE Call(t)
  BY <1>1, CallShape, IdleShape DEF SlotLabels
<1>2. CASE Return(t) \/ InToken(t) \/ InProbe(t)
  BY <1>2 DEF Return, InToken, InProbe, At, SlotLabels
<1>3. CASE FindWrapper(t)
  BY <1>3 DEF FindWrapper, FwProbe, FwToken, FwCopy, FwCopyRest, FwRecheck, FwDecide, At,
              SlotLabels
<1>4. CASE FindEntity(t)
  BY <1>4 DEF FindEntity, FeProbe, FeIndex, FeToken, FeRecordKey, FeRecordToken, FeCopy,
              FeCopyRest, FeRecheckRecord, FeRecheckKey, FeRecheckEntry, FeDecide, At,
              SlotLabels
<1> QED
  BY <1>1, <1>2, <1>3, <1>4 DEF Quiet

LEMMA WorkingFacts ==
  ASSUME Typed, NEW t \in Threads, Working(t)
  PROVE  /\ th[t].pc \in SlotLabels \cup {"in_claim", "rm_claim"}
         /\ Mutating(t)
<1>1. th[t].pc \in SlotLabels \cup {"in_claim", "rm_claim"}
  <2>1. CASE Insert(t)
    BY <2>1 DEF Working, Insert, InClaim, InFill, InStamp, IxProbe, IxClaim, IxFill,
                IxPublish, InCount, InPublish, InUndo, ClearPayload, ClearToken, Bury, At,
                SlotLabels
  <2>2. CASE Reclaim(t)
    BY <2>2 DEF Reclaim, RmClaim, RmCheck, RxProbe, RxClaim, RxCheck, RxBury, RmFinish,
                RmCount, ClearPayload, ClearToken, Bury, At, SlotLabels
  <2> QED
    BY <2>1, <2>2 DEF Working
<1>2. "in_claim" \in InLabels /\ "rm_claim" \in RmLabels
  BY DEF InLabels, RmLabels
<1> QED
  BY <1>1, <1>2, MutatingFacts

LEMMA AloneFacts ==
  ASSUME Typed, Solo, NEW t \in Threads, Mutating(t)
  PROVE  /\ Alone(t)
         /\ \A u \in Threads \ {t} : ~Mutating(u) /\ th[u].pc \notin SlotLabels \cup InLabels
<1>1. \A u \in Threads \ {t} : ~Mutating(u)
  BY DEF Solo
<1> QED
  BY <1>1, MutatingFacts DEF Alone, HoldsSlot

LEMMA BooksQuiet ==
  ASSUME Typed, Books, NEW t \in Threads,
         \A u \in Threads \ {t} : th'[u] = th[u],
         th[t].pc \notin SlotLabels, th'[t].pc \notin SlotLabels,
         UNCHANGED <<records, entities, active_count>>
  PROVE  Books'
<1>a. /\ wkey' = wkey /\ ent' = ent /\ dat' = dat /\ wtok' = wtok
      /\ ekey' = ekey /\ erec' = erec /\ etok' = etok /\ active_count' = active_count
  BY DEF records, entities
<1>b. InHandLabels \subseteq SlotLabels /\ CountedLabels \subseteq SlotLabels
      /\ EntryLabels \subseteq SlotLabels
  BY MutatingFacts
<1>c. \A u \in Threads : th[u].pc \in SlotLabels \/ th'[u].pc \in SlotLabels => th'[u] = th[u]
  OBVIOUS
<1>1. WrappersOnce' /\ EntitiesOnce' /\ EntriesOnce'
  BY <1>a DEF Books, WrappersOnce, EntitiesOnce, EntriesOnce, Pub, Listed
<1>2. RecordsWhole'
  BY <1>a DEF Books, RecordsWhole, Pub, Whole, EntryFor
<1>3. EntriesPoint'
  <2>1. ASSUME NEW x \in Slots, Listed(x)'
        PROVE  \E s \in Slots :
                 /\ EntryFor(x, s)'
                 /\ Pub(s)' \/ \E u \in Threads : th'[u].pc \in InHandLabels /\ th'[u].slot = s
    <3>1. PICK s \in Slots :
            /\ EntryFor(x, s)
            /\ Pub(s) \/ \E u \in Threads : th[u].pc \in InHandLabels /\ th[u].slot = s
      BY <1>a, <2>1 DEF Books, EntriesPoint, Listed
    <3>2. EntryFor(x, s)' /\ (Pub(s) => Pub(s)')
      BY <1>a, <3>1 DEF EntryFor, Pub
    <3> QED
      BY <1>b, <1>c, <3>1, <3>2
  <2> QED
    BY <2>1 DEF EntriesPoint
<1>4. BusyHeld'
  <2>1. ASSUME NEW s \in Slots, Busy(wkey'[s])
        PROVE  \E u \in Threads : th'[u].pc \in SlotLabels /\ th'[u].slot = s
    <3>1. PICK u \in Threads : HoldsSlot(u) /\ th[u].slot = s
      BY <1>a, <2>1 DEF Books, BusyHeld
    <3> QED
      BY <1>c, <3>1 DEF HoldsSlot
  <2>2. ASSUME NEW x \in Slots, Busy(ekey'[x])
        PROVE  \E u \in Threads : th'[u].pc \in EntryLabels /\ th'[u].entry = x
    <3>1. PICK u \in Threads : HoldsEntry(u) /\ th[u].entry = x
      BY <1>a, <2>2 DEF Books, BusyHeld
    <3> QED
      BY <1>b, <1>c, <3>1 DEF HoldsEntry
  <2> QED
    BY <2>1, <2>2 DEF BusyHeld, HoldsSlot, HoldsEntry
<1>5. CountRight'
  <2>1. Published' = Published
    BY <1>a DEF Published, Pub
  <2>2. \A u \in Threads : th'[u].pc \in CountedLabels <=> th[u].pc \in CountedLabels
    BY <1>b, <1>c
  <2> QED
    BY <1>a, <2>1, <2>2 DEF Books, CountRight
<1> QED
  BY <1>1, <1>2, <1>3, <1>4, <1>5 DEF Books

LEMMA HeldByFrame ==
  ASSUME Typed, NEW t \in Threads, Held(th[t]),
         \A s \in Slots : s # th[t].slot => wkey'[s] = wkey[s],
         \A x \in Slots : x # th[t].entry => ekey'[x] = ekey[x],
         Busy(wkey'[th[t].slot]) => th'[t].pc \in SlotLabels /\ th'[t].slot = th[t].slot,
         Busy(ekey'[th[t].entry]) => th'[t].pc \in EntryLabels /\ th'[t].entry = th[t].entry
  PROVE  Held(th[t])'
<1>1. \A s \in Slots : Busy(wkey'[s]) => th'[t].pc \in SlotLabels /\ th'[t].slot = s
  BY DEF Held
<1>2. \A x \in Slots : Busy(ekey'[x]) => th'[t].pc \in EntryLabels /\ th'[t].entry = x
  BY DEF Held
<1> QED
  BY <1>1, <1>2 DEF Held

\* A probe that has not met a reachable key yet meets it or can go on.
LEMMA KeyFound ==
  ASSUME NEW k \in Keys, NEW f, NEW y, Reaches(k, y, f), f[y] = k,
         NEW p \in Nat, \A q \in 0 .. p - 1 : f[SlotOf(k, q)] # k
  PROVE  \/ f[SlotOf(k, p)] = k
         \/ f[SlotOf(k, p)] # EMPTY /\ p + 1 < Probes
<1>1. PICK m \in 0 .. Probes - 1 :
        /\ SlotOf(k, m) = y
        /\ \A q \in 0 .. m - 1 : f[SlotOf(k, q)] # EMPTY
  BY DEF Reaches
<1>2. m >= p
  BY <1>1
<1>3. CASE m = p
  BY <1>1, <1>3
<1>4. CASE m > p
  <2>1. p \in 0 .. m - 1 /\ p + 1 < Probes
    BY <1>1, <1>4, SizeAssumption
  <2> QED
    BY <1>1, <2>1
<1> QED
  BY <1>1, <1>2, <1>3, <1>4

\* The index entry of a record that is being removed is where the probe looks.
LEMMA RxFound ==
  ASSUME Paths, Books, NEW t \in Threads, Duty(t), Mutating(t), RxProbe(t)
  PROVE  /\ ekey[SlotOf(th[t].entity, th[t].probe)] = th[t].entity =>
              th'[t].pc = "rx_claim"
         /\ \/ /\ th'[t].pc = "rx_claim" /\ th'[t].token = th[t].token
               /\ th'[t].slot = th[t].slot /\ th'[t].wrapper = th[t].wrapper
               /\ th'[t].entity = th[t].entity
               /\ th'[t].entry \in Slots /\ EntryFor(th'[t].entry, th[t].slot)
            \/ /\ th'[t].pc = "rx_probe" /\ Kept(th'[t], th[t])
               /\ th'[t].probe = th[t].probe + 1 /\ th'[t].probe < Probes
               /\ \A q \in 0 .. th[t].probe : ekey[SlotOf(th[t].entity, q)] # th[t].entity
<1> DEFINE r == th[t]
           q == th'[t]
           x == SlotOf(r.entity, r.probe)
<1>a. /\ Typed /\ r \in Locals /\ Sane(r) /\ r.probe \in Nat
      /\ r.pc = "rx_probe" /\ PublishedReachable
  BY DEF Paths, Custody, Typed, TypeOK, Locals, RxProbe, At
<1>b. r.entity \in Entities /\ r.entity \in Keys
  BY <1>a DEF Sane, RxLabels, Keys
<1>c. /\ ent[r.slot] = r.entity
      /\ \E y \in Slots : EntryFor(y, r.slot)
      /\ \A i \in 0 .. r.probe - 1 : ekey[SlotOf(r.entity, i)] # r.entity
  BY <1>a DEF Duty, RmDuty
<1>1. PICK y \in Slots : EntryFor(y, r.slot)
  BY <1>c
<1>2. ekey[y] = r.entity /\ Reaches(r.entity, y, ekey)
  BY <1>a, <1>b, <1>c, <1>1 DEF EntryFor, PublishedReachable
<1>3. \/ ekey[x] = r.entity
      \/ ekey[x] # EMPTY /\ r.probe + 1 < Probes
  BY <1>a, <1>b, <1>c, <1>2, KeyFound
<1>4. x \in Slots
  BY <1>a, <1>b, SlotOfType
<1>5. \/ /\ q.pc = "rx_probe" /\ Same(q, r) /\ q.probe = r.probe + 1
         /\ q.probe < Probes /\ ekey[x] # r.entity
      \/ /\ q.pc = "rx_claim" /\ q.op = r.op /\ q.wrapper = r.wrapper
         /\ q.entity = r.entity /\ q.token = r.token /\ q.slot = r.slot
         /\ q.entry = x /\ ekey[x] = r.entity
  BY <1>a, <1>3, ProbeShape
<1>6. ekey[x] = r.entity => x = y
  BY <1>b, <1>2, <1>4 DEF Books, EntriesOnce, Listed
<1>7. ASSUME q.pc = "rx_probe"
      PROVE  \A i \in 0 .. r.probe : ekey[SlotOf(r.entity, i)] # r.entity
  <2>1. ekey[x] # r.entity
    BY <1>5, <1>7
  <2> QED
    BY <1>a, <1>c, <2>1
<1> QED
  BY <1>1, <1>4, <1>5, <1>6, <1>7 DEF Same

LEMMA BooksStill ==
  ASSUME Typed, Typed', NEW t \in Threads, BooksBy(th[t]),
         UNCHANGED <<records, entities, active_count>>,
         HoldsSlot(t), th'[t].pc \in SlotLabels, th'[t].slot = th[t].slot,
         th[t].pc \notin EntryLabels,
         th[t].pc \in InHandLabels => th'[t].pc \in InHandLabels,
         th'[t].pc \in CountedLabels <=> th[t].pc \in CountedLabels
  PROVE  BooksBy(th[t])'
<1>a. /\ wkey' = wkey /\ ent' = ent /\ dat' = dat /\ wtok' = wtok
      /\ ekey' = ekey /\ erec' = erec /\ etok' = etok /\ active_count' = active_count
  BY DEF records, entities
<1>1. Held(th[t])'
  <2>1. \A s \in Slots : Busy(wkey'[s]) => th'[t].pc \in SlotLabels /\ th'[t].slot = s
    BY <1>a DEF BooksBy, Held
  <2>2. \A x \in Slots : ~Busy(ekey'[x])
    BY <1>a DEF BooksBy, Held
  <2> QED
    BY <2>1, <2>2 DEF Held
<1>2. Extra(th[t])' = Extra(th[t])
  BY DEF Extra
<1>3. /\ \A s \in Slots : Pub(s)' = Pub(s)
      /\ \A x \in Slots : Listed(x)' = Listed(x)
  BY <1>a DEF Pub, Listed
<1>4. active_count' - Extra(th[t])' = active_count - Extra(th[t])
  BY <1>a, <1>2
<1> QED
  BY <1>a, <1>1, <1>3, <1>4, BooksKept

LEMMA BooksStep ==
  ASSUME Paths, Custody', Solo, Books, NEW t \in Threads, Duty(t), Call(t) \/ Step(t)
  PROVE  Books'
<1> DEFINE r == th[t]
           q == th'[t]
           o == r.slot
           z == r.entry
<1>a. /\ Typed /\ Typed' /\ r \in Locals /\ Sane(r) /\ o \in Slots /\ z \in Slots
      /\ wkey \in [Slots -> WrapperKeys] /\ ekey \in [Slots -> EntityKeys]
      /\ ent \in [Slots -> {0} \cup Entities] /\ dat \in [Slots -> Data]
      /\ wtok \in [Slots -> Tokens] /\ erec \in [Slots -> 0 .. Capacity]
      /\ etok \in [Slots -> Tokens]
  BY DEF Paths, Custody, Typed, TypeOK, Locals
<1>o. \A u \in Threads \ {t} : th'[u] = th[u]
  BY <1>a, OthersKept
<1>q. CASE Quiet(t)
  BY <1>a, <1>o, <1>q, QuietStep, QuietFacts, BooksQuiet
<1>n. CASE ~Quiet(t)
  <2>w. Working(t)
    BY <1>n DEF Quiet, Step, Working
  <2>m. Mutating(t) /\ Alone(t)
    BY <1>a, <2>w, WorkingFacts, AloneFacts
  <2>n. Alone(t)'
    BY <1>o, <2>m DEF Alone, HoldsSlot
  <2>b. BooksBy(r)
    BY <1>a, <2>m, BooksOne
  <2>d. /\ Held(r)
        /\ FwDuty(r) /\ FeDuty(r) /\ InDuty(r) /\ RmDuty(r)
    BY <2>b, <2>m DEF BooksBy, Duty
  <2>h. /\ r.pc \in SlotLabels => Busy(wkey[o]) /\ ~Pub(o)
        /\ r.pc \in EntryLabels => Busy(ekey[z]) /\ ~Listed(z)
    BY <1>a, BusyFacts DEF Paths, Custody, SlotExclusive, HoldsSlot, HoldsEntry, Pub, Listed
  <2>k. /\ r.pc \notin EntryLabels => \A x \in Slots : ~Busy(ekey[x])
        /\ r.pc \notin SlotLabels => \A s \in Slots : ~Busy(wkey[s])
    BY <2>d DEF Held
  <2> SUFFICES BooksBy(th[t])'
    <3>1. (Alone(t) /\ Typed => (Books <=> BooksBy(th[t])))'
      BY BooksOne, PTL
    <3> QED
      BY <1>a, <2>n, <3>1
  <2>x. /\ CLAIMED \notin Wrappers \cup Entities /\ TOMBSTONE \notin Wrappers \cup Entities
        /\ RECLAIMING \notin Wrappers \cup Entities
        /\ Busy(CLAIMED) /\ Busy(RECLAIMING) /\ ~Busy(TOMBSTONE)
    BY BusyFacts
  <2>1. CASE InClaim(t)
    <3>p. r.pc = "in_claim"
      BY <2>1 DEF InClaim, At
    <3>l. /\ r.pc \notin SlotLabels \cup EntryLabels \cup InHandLabels \cup CountedLabels
          /\ "in_fill" \in SlotLabels
          /\ "in_fill" \notin EntryLabels \cup CountedLabels
      BY <3>p DEF SlotLabels, EntryLabels, InHandLabels, CountedLabels
    <3>1. CASE Free(wkey[o])
      <4>1. /\ wkey' = [wkey EXCEPT ![o] = CLAIMED] /\ q.pc = "in_fill" /\ Kept(q, r)
            /\ UNCHANGED <<ent, dat, wtok, entities, active_count>>
        BY <1>a, <2>1, <3>1, HolderStep DEF InClaim
      <4>2. /\ \A s \in Slots : s # o => wkey'[s] = wkey[s]
            /\ ~Pub(o) /\ wkey'[o] = CLAIMED
            /\ ent' = ent /\ dat' = dat /\ wtok' = wtok
            /\ ekey' = ekey /\ erec' = erec /\ etok' = etok /\ active_count' = active_count
        BY <1>a, <3>1, <4>1, BusyFacts DEF Pub, entities
      <4>3. Held(th[t])'
        BY <1>a, <2>d, <2>k, <3>l, <4>1, <4>2, HeldByFrame DEF Kept
      <4>4. /\ \A s \in Slots : Pub(s)' = Pub(s)
            /\ \A x \in Slots : Listed(x)' = Listed(x)
        BY <2>x, <4>2 DEF Pub, Listed
      <4>5. active_count' - Extra(th[t])' = active_count - Extra(th[t])
        BY <3>l, <4>1, <4>2 DEF Extra
      <4> QED
        BY <1>a, <2>b, <3>l, <4>2, <4>3, <4>4, <4>5, BooksKept
    <3>2. CASE ~Free(wkey[o])
      <4>1. q.pc \in {"in_probe", "idle"}
        BY <1>a, <2>1, <3>2, HolderStep
      <4>2. q.pc \notin SlotLabels
        BY <4>1 DEF SlotLabels
      <4>3. UNCHANGED <<records, entities, active_count>>
        BY <2>1, <3>2 DEF InClaim, records
      <4>4. Books'
        BY <1>a, <1>o, <3>l, <4>2, <4>3, BooksQuiet
      <4>5. (Alone(t) /\ Typed => (Books <=> BooksBy(th[t])))'
        BY BooksOne, PTL
      <4> QED
        BY <1>a, <2>n, <4>4, <4>5
    <3> QED
      BY <3>1, <3>2
  \* The contents of a slot that is not published.
  <2>c. ASSUME /\ r.pc \in SlotLabels \ (EntryLabels \cup InHandLabels)
               /\ q.pc \in SlotLabels \ EntryLabels
               /\ q.slot = o
               /\ wkey' = wkey /\ UNCHANGED <<entities, active_count>>
               /\ \A s \in Slots : s # o =>
                    ent'[s] = ent[s] /\ dat'[s] = dat[s] /\ wtok'[s] = wtok[s]
               /\ LET e == ent'[o]
                  IN  e = ent[o] \/ e = 0 \/ NoRecord(e),
               q.pc \in CountedLabels <=> r.pc \in CountedLabels
        PROVE  BooksBy(th[t])'
    <3>1. ekey' = ekey /\ erec' = erec /\ etok' = etok /\ active_count' = active_count
      BY <2>c DEF entities
    <3>2. Held(th[t])'
      BY <1>a, <2>c, <2>d, <2>k, <3>1, HeldByFrame
    <3>3. /\ \A s \in Slots : Pub(s)' = Pub(s)
          /\ \A x \in Slots : Listed(x)' = Listed(x)
      BY <2>c, <3>1 DEF Pub, Listed
    <3>4. active_count' - Extra(th[t])' = active_count - Extra(th[t])
      BY <2>c, <3>1 DEF Extra
    <3>5. \A s \in Slots : s # o \/ Pub(s) =>
            wkey'[s] = wkey[s] /\ ent'[s] = ent[s] /\ dat'[s] = dat[s] /\ wtok'[s] = wtok[s]
      BY <2>c, <2>h
    <3> QED
      BY <1>a, <2>b, <2>c, <3>1, <3>2, <3>3, <3>4, <3>5, BooksKept
  <2>2. CASE InFill(t)
    <3>1. /\ r.pc = "in_fill" /\ q.pc = "in_stamp" /\ Kept(q, r)
          /\ ent' = [ent EXCEPT ![o] = r.entity]
          /\ dat' = [dat EXCEPT ![o] = <<r.wrapper, r.entity, r.token>>]
          /\ wkey' = wkey /\ wtok' = wtok /\ UNCHANGED <<entities, active_count>>
      BY <1>a, <2>2, HolderStep DEF InFill, At
    <3>2. NoRecord(r.entity)
      BY <2>d, <3>1 DEF InDuty
    <3>3. /\ ent'[o] = r.entity
          /\ \A s \in Slots : s # o => ent'[s] = ent[s] /\ dat'[s] = dat[s] /\ wtok'[s] = wtok[s]
      BY <1>a, <3>1
    <3>4. /\ r.pc \in SlotLabels \ (EntryLabels \cup InHandLabels)
          /\ q.pc \in SlotLabels \ EntryLabels
          /\ q.pc \in CountedLabels <=> r.pc \in CountedLabels
      BY <3>1 DEF SlotLabels, EntryLabels, InHandLabels, CountedLabels
    <3> QED
      BY <2>c, <3>1, <3>2, <3>3, <3>4 DEF Kept
  <2>3. CASE InStamp(t)
    <3>1. /\ r.pc = "in_stamp" /\ q.pc = "ix_probe" /\ Kept(q, r)
          /\ wtok' = [wtok EXCEPT ![o] = r.token]
          /\ wkey' = wkey /\ ent' = ent /\ dat' = dat /\ UNCHANGED <<entities, active_count>>
      BY <1>a, <2>3, HolderStep DEF InStamp, At
    <3>3. \A s \in Slots : s # o => ent'[s] = ent[s] /\ dat'[s] = dat[s] /\ wtok'[s] = wtok[s]
      BY <1>a, <3>1
    <3>4. /\ r.pc \in SlotLabels \ (EntryLabels \cup InHandLabels)
          /\ q.pc \in SlotLabels \ EntryLabels
          /\ q.pc \in CountedLabels <=> r.pc \in CountedLabels
      BY <3>1 DEF SlotLabels, EntryLabels, InHandLabels, CountedLabels
    <3> QED
      BY <2>c, <3>1, <3>3, <3>4 DEF Kept
  <2>4. CASE \/ ClearPayload(t, "in_undo", "in_undo_token")
             \/ ClearPayload(t, "rm_clear", "rm_clear_token")
    <3>1. /\ \/ r.pc = "in_undo" /\ q.pc = "in_undo_token"
             \/ r.pc = "rm_clear" /\ q.pc = "rm_clear_token"
          /\ Kept(q, r)
      BY <1>a, <2>4, HolderStep DEF ClearPayload, At
    <3>2. /\ ent' = [ent EXCEPT ![o] = 0]
          /\ dat' = [dat EXCEPT ![o] = NoData]
          /\ wkey' = wkey /\ wtok' = wtok /\ UNCHANGED <<entities, active_count>>
      BY <2>4 DEF ClearPayload
    <3>3. /\ ent'[o] = 0
          /\ \A s \in Slots : s # o => ent'[s] = ent[s] /\ dat'[s] = dat[s] /\ wtok'[s] = wtok[s]
      BY <1>a, <3>2
    <3>4. /\ r.pc \in SlotLabels \ (EntryLabels \cup InHandLabels)
          /\ q.pc \in SlotLabels \ EntryLabels
          /\ q.pc \in CountedLabels <=> r.pc \in CountedLabels
      BY <3>1 DEF SlotLabels, EntryLabels, InHandLabels, CountedLabels
    <3> QED
      BY <2>c, <3>1, <3>2, <3>3, <3>4 DEF Kept
  <2>5. CASE \/ ClearToken(t, "in_undo_token", "in_bury")
             \/ ClearToken(t, "rm_clear_token", "rm_count")
    <3>1. /\ \/ r.pc = "in_undo_token" /\ q.pc = "in_bury"
             \/ r.pc = "rm_clear_token" /\ q.pc = "rm_count"
          /\ Kept(q, r)
      BY <1>a, <2>5, HolderStep DEF ClearToken, At
    <3>2. /\ wtok' = [wtok EXCEPT ![o] = 0]
          /\ wkey' = wkey /\ ent' = ent /\ dat' = dat /\ UNCHANGED <<entities, active_count>>
      BY <2>5 DEF ClearToken
    <3>3. \A s \in Slots : s # o => ent'[s] = ent[s] /\ dat'[s] = dat[s] /\ wtok'[s] = wtok[s]
      BY <1>a, <3>2
    <3>4. /\ r.pc \in SlotLabels \ (EntryLabels \cup InHandLabels)
          /\ q.pc \in SlotLabels \ EntryLabels
          /\ q.pc \in CountedLabels <=> r.pc \in CountedLabels
      BY <3>1 DEF SlotLabels, EntryLabels, InHandLabels, CountedLabels
    <3> QED
      BY <2>c, <3>1, <3>2, <3>3, <3>4 DEF Kept
  <2>6. CASE Bury(t, "in_bury") \/ Bury(t, "rm_bury")
    <3>1. /\ r.pc \in {"in_bury", "rm_bury"} /\ q.pc = "idle"
          /\ wkey' = [wkey EXCEPT ![o] = TOMBSTONE]
          /\ UNCHANGED <<ent, dat, wtok, entities, active_count>>
      BY <1>a, <2>6, HolderStep DEF Bury, At
    <3>l. /\ r.pc \in SlotLabels \ (EntryLabels \cup InHandLabels \cup CountedLabels)
          /\ q.pc \notin CountedLabels \cup EntryLabels
      BY <3>1 DEF SlotLabels, EntryLabels, InHandLabels, CountedLabels
    <3>2. /\ \A s \in Slots : s # o => wkey'[s] = wkey[s]
          /\ ~Pub(o) /\ wkey'[o] = TOMBSTONE
          /\ ent' = ent /\ dat' = dat /\ wtok' = wtok
          /\ ekey' = ekey /\ erec' = erec /\ etok' = etok /\ active_count' = active_count
      BY <1>a, <2>h, <3>1, <3>l DEF entities
    <3>3. Held(th[t])'
      BY <1>a, <2>d, <2>k, <2>x, <3>l, <3>2, HeldByFrame
    <3>4. /\ \A s \in Slots : Pub(s)' = Pub(s)
          /\ \A x \in Slots : Listed(x)' = Listed(x)
      BY <2>x, <3>2 DEF Pub, Listed
    <3>5. active_count' - Extra(th[t])' = active_count - Extra(th[t])
      BY <3>l, <3>2 DEF Extra
    <3> QED
      BY <1>a, <2>b, <3>l, <3>2, <3>3, <3>4, <3>5, BooksKept
  \* The contents and the key of an entry that is not listed.
  <2>e. ASSUME /\ r.pc \in SlotLabels \ InHandLabels
               /\ q.pc \in SlotLabels
               /\ Kept(q, r)
               /\ ~Listed(z) /\ ~Listed(z)'
               /\ \A x \in Slots : x # z =>
                    ekey'[x] = ekey[x] /\ erec'[x] = erec[x] /\ etok'[x] = etok[x]
               /\ UNCHANGED <<records, active_count>>,
               Busy(ekey'[z]) => q.pc \in EntryLabels,
               q.pc \in CountedLabels <=> r.pc \in CountedLabels
        PROVE  BooksBy(th[t])'
    <3>1. wkey' = wkey /\ ent' = ent /\ dat' = dat /\ wtok' = wtok /\ active_count' = active_count
      BY <2>e DEF records
    <3>2. Held(th[t])'
      BY <1>a, <2>d, <2>e, <3>1, HeldByFrame DEF Kept
    <3>3. \A s \in Slots : Pub(s)' = Pub(s)
      BY <3>1 DEF Pub
    <3>4. \A x \in Slots : Listed(x)' = Listed(x)
      <4>1. ASSUME NEW x \in Slots
            PROVE  Listed(x)' = Listed(x)
        <5>1. CASE x = z
          BY <2>e, <5>1 DEF Listed, Kept
        <5>2. CASE x # z
          BY <2>e, <5>2 DEF Listed
        <5> QED
          BY <5>1, <5>2
      <4> QED
        BY <4>1
    <3>5. active_count' - Extra(th[t])' = active_count - Extra(th[t])
      BY <2>e, <3>1 DEF Extra
    <3> QED
      BY <1>a, <2>b, <2>e, <3>1, <3>2, <3>3, <3>4, <3>5, BooksKept
  <2>7. CASE IxProbe(t)
    <3>1. /\ r.pc = "ix_probe" /\ q.pc \in {"in_undo", "ix_probe", "ix_claim"} /\ q.slot = o
          /\ UNCHANGED <<records, entities, active_count>>
      BY <1>a, <2>7, HolderStep DEF IxProbe, At, Kept
    <3>2. /\ r.pc \in SlotLabels \ (EntryLabels \cup InHandLabels \cup CountedLabels)
          /\ q.pc \in SlotLabels \ CountedLabels
      BY <3>1 DEF SlotLabels, EntryLabels, InHandLabels, CountedLabels
    <3> QED
      BY <1>a, <2>b, <3>1, <3>2, BooksStill DEF HoldsSlot
  <2>8. CASE IxClaim(t)
    <3>p. r.pc = "ix_claim"
      BY <2>8 DEF IxClaim, At
    <3>l. r.pc \in SlotLabels \ (EntryLabels \cup InHandLabels \cup CountedLabels)
      BY <3>p DEF SlotLabels, EntryLabels, InHandLabels, CountedLabels
    <3>1. CASE Free(ekey[z])
      <4>1. /\ ekey' = [ekey EXCEPT ![z] = CLAIMED] /\ q.pc = "ix_fill" /\ Kept(q, r)
            /\ UNCHANGED <<records, erec, etok, active_count>>
        BY <1>a, <2>8, <3>1, HolderStep DEF IxClaim
      <4>2. /\ \A x \in Slots : x # z =>
                 ekey'[x] = ekey[x] /\ erec'[x] = erec[x] /\ etok'[x] = etok[x]
            /\ ~Listed(z) /\ ekey'[z] = CLAIMED
        BY <1>a, <3>1, <4>1, BusyFacts DEF Listed
      <4>3. ekey'[z] \notin Entities
        BY <2>x, <4>2
      <4>4. q.pc \in SlotLabels /\ q.pc \in EntryLabels /\ q.pc \notin CountedLabels
        BY <4>1 DEF SlotLabels, EntryLabels, CountedLabels
      <4>5. ~Listed(z)'
        BY <4>1, <4>3 DEF Listed, Kept
      <4> QED
        BY <2>e, <3>l, <4>1, <4>2, <4>4, <4>5
    <3>2. CASE ~Free(ekey[z])
      <4>1. /\ q.pc \in {"ix_probe", "in_undo"} /\ q.slot = o
            /\ UNCHANGED <<records, entities, active_count>>
        BY <1>a, <2>8, <3>2, HolderStep DEF IxClaim, Kept, entities
      <4>2. q.pc \in SlotLabels \ CountedLabels
        BY <4>1 DEF SlotLabels, CountedLabels
      <4> QED
        BY <1>a, <2>b, <3>l, <4>1, <4>2, BooksStill DEF HoldsSlot
    <3> QED
      BY <3>1, <3>2
  <2>9. CASE IxFill(t)
    <3>1. /\ r.pc = "ix_fill" /\ q.pc = "ix_publish" /\ Kept(q, r)
          /\ ekey' = ekey
          /\ erec' = [erec EXCEPT ![z] = o + 1] /\ etok' = [etok EXCEPT ![z] = r.token]
          /\ UNCHANGED <<records, active_count>>
      BY <1>a, <2>9, HolderStep DEF IxFill, At
    <3>2. /\ r.pc \in SlotLabels \ (InHandLabels \cup CountedLabels) /\ r.pc \in EntryLabels
          /\ q.pc \in SlotLabels \ CountedLabels /\ q.pc \in EntryLabels
      BY <3>1 DEF SlotLabels, EntryLabels, InHandLabels, CountedLabels
    <3>3. /\ ~Listed(z) /\ ~Listed(z)'
          /\ \A x \in Slots : x # z =>
               ekey'[x] = ekey[x] /\ erec'[x] = erec[x] /\ etok'[x] = etok[x]
      BY <1>a, <2>h, <3>1, <3>2 DEF Listed, Kept
    <3> QED
      BY <2>e, <3>1, <3>2, <3>3
  <2>10. CASE RxCheck(t)
    <3>1. r.pc = "rx_check" /\ etok[z] = r.token /\ erec[z] = o + 1
      BY <2>10, <2>d DEF RxCheck, At, RmDuty
    <3>2. /\ q.pc = "rx_bury" /\ Kept(q, r)
          /\ ekey' = ekey
          /\ erec' = [erec EXCEPT ![z] = 0] /\ etok' = [etok EXCEPT ![z] = 0]
          /\ UNCHANGED <<records, active_count>>
      BY <1>a, <2>10, <3>1, HolderStep DEF RxCheck
    <3>3. /\ r.pc \in SlotLabels \ InHandLabels /\ r.pc \in EntryLabels
          /\ q.pc \in SlotLabels /\ q.pc \in EntryLabels
          /\ q.pc \in CountedLabels /\ r.pc \in CountedLabels
      BY <3>1, <3>2 DEF SlotLabels, EntryLabels, InHandLabels, CountedLabels
    <3>4. /\ ~Listed(z) /\ ~Listed(z)'
          /\ \A x \in Slots : x # z =>
               ekey'[x] = ekey[x] /\ erec'[x] = erec[x] /\ etok'[x] = etok[x]
      BY <1>a, <2>h, <3>2, <3>3 DEF Listed, Kept
    <3> QED
      BY <2>e, <3>2, <3>3, <3>4
  <2>11. CASE RxBury(t)
    <3>1. /\ r.pc = "rx_bury" /\ q.pc = "rm_clear" /\ Kept(q, r)
          /\ ekey' = [ekey EXCEPT ![z] = TOMBSTONE]
          /\ UNCHANGED <<records, erec, etok, active_count>>
      BY <1>a, <2>11, HolderStep DEF RxBury, At
    <3>3. /\ r.pc \in SlotLabels \ InHandLabels /\ r.pc \in EntryLabels
          /\ q.pc \in SlotLabels
          /\ q.pc \in CountedLabels /\ r.pc \in CountedLabels
      BY <3>1 DEF SlotLabels, EntryLabels, InHandLabels, CountedLabels
    <3>4. /\ ekey'[z] = TOMBSTONE
          /\ \A x \in Slots : x # z =>
               ekey'[x] = ekey[x] /\ erec'[x] = erec[x] /\ etok'[x] = etok[x]
      BY <1>a, <3>1
    <3>5. ~Listed(z) /\ ~Busy(ekey'[z])
      BY <2>h, <2>x, <3>3, <3>4
    <3>6. ~Listed(z)'
      BY <2>x, <3>1, <3>4 DEF Listed, Kept
    <3> QED
      BY <2>e, <3>1, <3>3, <3>4, <3>5, <3>6
  <2>12. CASE IxPublish(t)
    <3>1. /\ r.pc = "ix_publish" /\ q.pc = "in_count" /\ Kept(q, r)
          /\ ekey' = [ekey EXCEPT ![z] = r.entity]
          /\ UNCHANGED <<records, erec, etok, active_count>>
      BY <1>a, <2>12, HolderStep DEF IxPublish, At
    <3>2. /\ NoEntry(r.entity) /\ ent[o] = r.entity /\ wtok[o] = r.token
          /\ erec[z] = o + 1 /\ etok[z] = r.token
      BY <2>d, <3>1 DEF InDuty
    <3>3. r.entity \in Entities /\ ~Busy(r.entity)
      BY <1>a, <3>1, BusyFacts DEF Sane, InLabels, EntityOps
    <3>4. /\ r.pc \in SlotLabels \ (InHandLabels \cup CountedLabels) /\ r.pc \in EntryLabels
          /\ q.pc \in SlotLabels
      BY <3>1 DEF SlotLabels, EntryLabels, InHandLabels, CountedLabels
    <3>5. Held(th[t])'
      <4>1. /\ wkey' = wkey /\ ekey'[z] = r.entity
            /\ \A x \in Slots : x # z => ekey'[x] = ekey[x]
        BY <1>a, <3>1 DEF records
      <4> QED
        BY <1>a, <2>d, <3>1, <3>3, <3>4, <4>1, HeldByFrame DEF Kept
    <3>6. r.pc \notin InHandLabels \cup CountedLabels /\ ~Listed(z)
      BY <2>h, <3>4
    <3> QED
      BY <1>a, <2>b, <3>1, <3>2, <3>3, <3>5, <3>6, BooksListed DEF Kept
  <2>13. CASE RxClaim(t)
    <3>1. r.pc = "rx_claim" /\ EntryFor(z, o) /\ ent[o] = r.entity
      BY <2>13, <2>d DEF RxClaim, At, RmDuty
    <3>2. ekey[z] = r.entity /\ r.entity \in Entities
      BY <1>a, <3>1 DEF EntryFor, Sane, RxLabels
    <3>3. /\ q.pc = "rx_check" /\ Kept(q, r)
          /\ ekey' = [ekey EXCEPT ![z] = RECLAIMING]
          /\ UNCHANGED <<records, erec, etok, active_count>>
      BY <1>a, <2>13, <3>2, HolderStep DEF RxClaim
    <3>4. /\ r.pc \in SlotLabels /\ r.pc \in CountedLabels
          /\ q.pc \in SlotLabels /\ q.pc \in CountedLabels /\ q.pc \in EntryLabels
      BY <3>1, <3>3 DEF SlotLabels, EntryLabels, CountedLabels
    <3>5. Held(th[t])'
      <4>1. /\ wkey' = wkey
            /\ \A x \in Slots : x # z => ekey'[x] = ekey[x]
        BY <1>a, <3>3 DEF records
      <4> QED
        BY <1>a, <2>d, <3>3, <3>4, <4>1, HeldByFrame DEF Kept
    <3>6. ~Pub(o) /\ Listed(z)
      BY <2>h, <3>2, <3>4 DEF Listed
    <3> QED
      BY <1>a, <2>b, <3>1, <3>3, <3>4, <3>5, <3>6, BooksUnlisted
  <2>14. CASE InCount(t) \/ RmCount(t)
    <3>1. /\ \/ r.pc = "in_count" /\ q.pc = "in_publish" /\ active_count' = active_count + 1
             \/ /\ r.pc = "rm_count" /\ q.pc = "rm_bury"
                /\ active_count' = IF active_count > 0 THEN active_count - 1 ELSE 0
          /\ Kept(q, r)
          /\ UNCHANGED <<records, entities>>
      BY <1>a, <2>14, HolderStep DEF InCount, RmCount, At
    <3>2. /\ wkey' = wkey /\ ent' = ent /\ dat' = dat /\ wtok' = wtok
          /\ ekey' = ekey /\ erec' = erec /\ etok' = etok
      BY <3>1 DEF records, entities
    <3>3. /\ r.pc \in SlotLabels \ EntryLabels
          /\ q.pc \in SlotLabels
          /\ r.pc \in InHandLabels => q.pc \in InHandLabels
      BY <3>1 DEF SlotLabels, EntryLabels, InHandLabels
    <3>4. Held(th[t])'
      BY <1>a, <2>d, <2>k, <3>1, <3>2, <3>3, HeldByFrame DEF Kept
    <3>5. /\ \A s \in Slots : Pub(s)' = Pub(s)
          /\ \A x \in Slots : Listed(x)' = Listed(x)
      BY <3>2 DEF Pub, Listed
    <3>6. active_count' - Extra(th[t])' = active_count - Extra(th[t])
      <4>1. CASE r.pc = "in_count"
        <5>1. Extra(th[t]) = 0 /\ Extra(th[t])' = 1 /\ active_count' = active_count + 1
          BY <3>1, <4>1 DEF Extra, CountedLabels
        <5> QED
          BY <1>a, <5>1 DEF Typed, TypeOK
      <4>2. CASE r.pc = "rm_count"
        <5>1. Extra(th[t]) = 1 /\ Extra(th[t])' = 0
          BY <3>1, <4>2 DEF Extra, CountedLabels
        <5>2. active_count = Cardinality(Published) + 1
          BY <2>b, <5>1 DEF BooksBy, Counts
        <5>3. active_count' = active_count - 1
          BY <3>1, <4>2, <5>2, PublishedSize
        <5> QED
          BY <5>1, <5>2, <5>3, PublishedSize
      <4> QED
        BY <3>1, <4>1, <4>2
    <3> QED
      BY <1>a, <2>b, <3>1, <3>2, <3>3, <3>4, <3>5, <3>6, BooksKept DEF Kept
  \* The record becomes visible, again in the case of a removal given up.
  <2>p. ASSUME /\ r.pc \in SlotLabels \ EntryLabels /\ r.pc \in CountedLabels
               /\ q.pc = "idle"
               /\ wkey' = [wkey EXCEPT ![o] = r.wrapper]
               /\ UNCHANGED <<ent, dat, wtok, entities, active_count>>
               /\ r.wrapper \in Wrappers /\ NoWrapper(r.wrapper) /\ Whole(o, r.wrapper)
        PROVE  BooksBy(th[t])'
    <3>1. /\ ekey' = ekey /\ wkey'[o] = r.wrapper
          /\ \A s \in Slots : s # o => wkey'[s] = wkey[s]
      BY <1>a, <2>p DEF entities
    <3>2. ~Busy(r.wrapper) /\ ~Pub(o)
      BY <2>h, <2>p, BusyFacts
    <3>3. Held(th[t])'
      BY <1>a, <2>d, <2>k, <2>p, <3>1, <3>2, HeldByFrame
    <3>4. q.pc \notin CountedLabels
      BY <2>p DEF CountedLabels
    <3> QED
      BY <1>a, <2>b, <2>p, <3>2, <3>3, <3>4, BooksAppear
  <2>15. CASE InPublish(t)
    <3>1. /\ r.pc = "in_publish" /\ q.pc = "idle"
          /\ wkey' = [wkey EXCEPT ![o] = r.wrapper]
          /\ UNCHANGED <<ent, dat, wtok, entities, active_count>>
      BY <1>a, <2>15, HolderStep DEF InPublish, At
    <3>2. /\ NoWrapper(r.wrapper) /\ EntryFor(z, o)
          /\ ent[o] = r.entity /\ dat[o] = <<r.wrapper, r.entity, r.token>>
          /\ wtok[o] = r.token /\ r.token > RESERVED_MAX
      BY <2>d, <3>1 DEF InDuty, InLabels
    <3>3. r.wrapper \in Wrappers /\ r.entity \in Entities
      BY <1>a, <3>1 DEF Sane, InLabels, EntityOps, WrapperOps
    <3>4. Whole(o, r.wrapper)
      BY <1>a, <3>2, <3>3 DEF Whole
    <3>5. r.pc \in SlotLabels \ EntryLabels /\ r.pc \in CountedLabels
      BY <3>1 DEF SlotLabels, EntryLabels, CountedLabels
    <3> QED
      BY <2>p, <3>1, <3>2, <3>3, <3>4, <3>5
  <2>16. CASE RmCheck(t)
    <3>1. /\ r.pc = "rm_check" /\ NoWrapper(r.wrapper) /\ Whole(o, r.wrapper)
          /\ UNCHANGED <<ent, dat, wtok, entities, active_count>>
      BY <2>16, <2>d DEF RmCheck, At, RmDuty
    <3>2. r.wrapper \in Wrappers
      BY <1>a, <3>1 DEF Sane, RmLabels, WrapperOps
    <3>l. /\ r.pc \in SlotLabels \ EntryLabels /\ r.pc \in CountedLabels
          /\ "rx_probe" \in SlotLabels /\ "rx_probe" \in CountedLabels
          /\ "rx_probe" \in InHandLabels
      BY <3>1 DEF SlotLabels, EntryLabels, CountedLabels, InHandLabels
    <3>3. CASE StillOwned(r)
      <4>1. q.pc = "rx_probe" /\ q.slot = o /\ UNCHANGED <<records, entities, active_count>>
        BY <1>a, <2>16, <3>3, HolderStep DEF RmCheck, records
      <4> QED
        BY <1>a, <2>b, <3>l, <4>1, BooksStill DEF HoldsSlot
    <3>4. CASE ~StillOwned(r)
      <4>1. q.pc = "idle" /\ wkey' = [wkey EXCEPT ![o] = r.wrapper]
        BY <1>a, <2>16, <3>4, HolderStep DEF RmCheck
      <4> QED
        BY <2>p, <3>1, <3>2, <3>l, <4>1
    <3> QED
      BY <3>3, <3>4
  <2>17. CASE RxProbe(t)
    <3>1. /\ r.pc = "rx_probe" /\ q.pc \in {"rx_probe", "rx_claim"} /\ q.slot = o
          /\ UNCHANGED <<records, entities, active_count>>
      BY <2>17, <2>m, RxFound DEF RxProbe, At, Kept
    <3>2. /\ r.pc \in SlotLabels \ EntryLabels /\ r.pc \in CountedLabels
          /\ q.pc \in SlotLabels /\ q.pc \in CountedLabels /\ q.pc \in InHandLabels
      BY <3>1 DEF SlotLabels, EntryLabels, CountedLabels, InHandLabels
    <3> QED
      BY <1>a, <2>b, <3>1, <3>2, BooksStill DEF HoldsSlot
  <2>18. CASE RmClaim(t)
    <3>p. r.pc = "rm_claim"
      BY <2>18 DEF RmClaim, At
    <3>l. r.pc \notin SlotLabels \cup EntryLabels /\ "rm_check" \in SlotLabels
      BY <3>p DEF SlotLabels, EntryLabels
    <3>w. r.wrapper \in Wrappers
      BY <1>a, <3>p DEF Sane, RmLabels, WrapperOps
    <3>1. CASE wkey[o] = r.wrapper
      <4>1. /\ wkey' = [wkey EXCEPT ![o] = RECLAIMING] /\ q.pc = "rm_check" /\ Kept(q, r)
            /\ UNCHANGED <<ent, dat, wtok, entities, active_count>>
        BY <1>a, <2>18, <3>1, HolderStep DEF RmClaim
      <4>2. /\ ekey' = ekey
            /\ \A s \in Slots : s # o => wkey'[s] = wkey[s]
        BY <1>a, <4>1 DEF entities
      <4>3. Held(th[t])'
        BY <1>a, <2>d, <2>k, <3>l, <4>1, <4>2, HeldByFrame DEF Kept
      <4>4. Pub(o)
        BY <3>w, <3>1 DEF Pub
      <4> QED
        BY <1>a, <2>b, <3>l, <4>1, <4>3, <4>4, BooksVanish DEF Kept
    <3>2. CASE wkey[o] # r.wrapper
      <4>1. q.pc = "idle"
        BY <1>a, <2>18, <3>2, HolderStep
      <4>2. q.pc \notin SlotLabels
        BY <4>1 DEF SlotLabels
      <4>3. UNCHANGED <<records, entities, active_count>>
        BY <2>18, <3>2 DEF RmClaim, records
      <4>4. Books'
        BY <1>a, <1>o, <3>l, <4>2, <4>3, BooksQuiet
      <4>5. (Alone(t) /\ Typed => (Books <=> BooksBy(th[t])))'
        BY BooksOne, PTL
      <4> QED
        BY <1>a, <2>n, <4>4, <4>5
    <3> QED
      BY <3>1, <3>2
  <2> QED
    BY <2>w, <2>1, <2>2, <2>3, <2>4, <2>5, <2>6, <2>7, <2>8, <2>9, <2>10, <2>11, <2>12, <2>13,
       <2>14, <2>15, <2>16, <2>17, <2>18
       DEF Working, Insert, InUndo, Reclaim, RmFinish
<1> QED
  BY <1>q, <1>n

\* A token that goes into the tables is past where it came from.
LEMMA TokensStep ==
  ASSUME Typed, Solo, TokensPast, NEW t \in Threads, Duty(t), Call(t) \/ Step(t)
  PROVE  TokensPast'
<1> DEFINE r == th[t]
<1>a. /\ r \in Locals /\ r.slot \in Slots /\ r.entry \in Slots /\ r.token \in Nat
      /\ wtok \in [Slots -> Tokens] /\ etok \in [Slots -> Tokens] /\ Tokens \subseteq Nat
      /\ next_token \in Nat
  BY NumbersFact DEF Typed, TypeOK, Locals, Tokens
<1>o. \A u \in Threads \ {t} : th'[u] = th[u]
  BY OthersKept
<1>n. next_token' \in Nat /\ next_token <= next_token'
  BY <1>a, TokenStep
<1>k. \A k \in Nat : /\ Past(k, StampLabels) => Past(k, StampLabels)'
                     /\ Past(k, IndexLabels) => Past(k, IndexLabels)'
  BY PastStep
<1>m. ASSUME r.pc \in InLabels \ {"in_token"}
      PROVE  /\ r.token <= next_token
             /\ \A u \in Threads \ {t} : th[u].pc \notin IndexLabels \cup StampLabels
  BY <1>m, MutatingFacts, AloneFacts DEF Duty, InDuty
<1>1. next_token' >= RESERVED_MAX
  BY <1>a, <1>n DEF TokensPast, RESERVED_MAX, RECLAIMING
<1>2. ASSUME NEW s \in Slots, wtok'[s] # 0
      PROVE  Past(wtok[s], StampLabels)'
  <2>1. CASE wtok'[s] = wtok[s]
    <3>1. Past(wtok[s], StampLabels) /\ wtok[s] \in Nat
      BY <1>2, <1>a, <2>1 DEF TokensPast
    <3> QED
      BY <1>k, <2>1, <3>1 DEF Past
  <2>2. CASE wtok'[s] # wtok[s]
    <3>1. InStamp(t) /\ wtok'[s] = r.token
      BY <1>a, <1>2, <2>2, ContentStep
    <3>2. r.pc = "in_stamp" /\ th'[t].pc = "ix_probe"
      BY <3>1, HolderStep DEF InStamp, At
    <3>3. r.pc \in InLabels \ {"in_token"} /\ th'[t].pc \notin StampLabels
      BY <3>2 DEF InLabels, StampLabels
    <3> QED
      BY <1>a, <1>m, <1>n, <1>o, <3>1, <3>3 DEF Past
  <2> QED
    BY <2>1, <2>2
<1>3. ASSUME NEW x \in Slots, etok'[x] # 0, etok'[x] # etok[x]
      PROVE  /\ IxFill(t) /\ x = r.entry /\ etok'[x] = r.token
             /\ r.pc = "ix_fill" /\ th'[t].pc = "ix_publish"
             /\ \A y \in Slots : y # x => etok'[y] = etok[y]
  <2>1. IxFill(t) /\ x = r.entry /\ etok'[x] = r.token
        /\ \A y \in Slots : y # x => etok'[y] = etok[y]
    BY <1>a, <1>3, ContentStep
  <2> QED
    BY <2>1, HolderStep DEF IxFill, At
<1>4. ASSUME NEW x \in Slots, etok'[x] # 0
      PROVE  Past(etok[x], IndexLabels)'
  <2>1. CASE etok'[x] = etok[x]
    <3>1. Past(etok[x], IndexLabels) /\ etok[x] \in Nat
      BY <1>4, <1>a, <2>1 DEF TokensPast
    <3> QED
      BY <1>k, <2>1, <3>1 DEF Past
  <2>2. CASE etok'[x] # etok[x]
    <3>1. etok'[x] = r.token /\ r.pc = "ix_fill" /\ th'[t].pc = "ix_publish"
      BY <1>3, <1>4, <2>2
    <3>3. r.pc \in InLabels \ {"in_token"} /\ th'[t].pc \notin IndexLabels
      BY <3>1 DEF InLabels, IndexLabels, StampLabels
    <3> QED
      BY <1>a, <1>m, <1>n, <1>o, <3>1, <3>3 DEF Past
  <2> QED
    BY <2>1, <2>2
<1>5. ASSUME NEW x \in Slots, NEW y \in Slots, etok'[x] # 0, etok'[y] = etok'[x], y # x
      PROVE  FALSE
  <2>1. CASE etok'[x] # etok[x]
    <3>1. etok'[x] = r.token /\ r.pc \in IndexLabels /\ etok'[y] = etok[y]
      BY <1>3, <1>5, <2>1 DEF IndexLabels
    <3> QED
      BY <1>5, <3>1 DEF TokensPast, Past
  <2>2. CASE etok'[y] # etok[y]
    <3>1. etok'[y] = r.token /\ r.pc \in IndexLabels /\ etok'[x] = etok[x]
      BY <1>3, <1>5, <2>2 DEF IndexLabels
    <3> QED
      BY <1>5, <3>1 DEF TokensPast, Past
  <2>3. CASE etok'[x] = etok[x] /\ etok'[y] = etok[y]
    BY <1>5, <2>3 DEF TokensPast
  <2> QED
    BY <2>1, <2>2, <2>3
<1> QED
  BY <1>1, <1>2, <1>4, <1>5 DEF TokensPast

-----------------------------------------------------------------------------
(***************************************************************************)
(* The duty of the thread under the lock, step by step.                    *)
(***************************************************************************)
LEMMA DutyOff ==
  ASSUME NEW t \in Threads
  PROVE  /\ th[t].pc \notin FwLabels \cup {"miss"} => FwDuty(th[t])
         /\ th[t].pc \notin FeLabels => FeDuty(th[t])
         /\ th[t].pc \notin InLabels => InDuty(th[t])
         /\ th[t].pc \notin RmLabels => RmDuty(th[t])
<1>1. th[t].pc \notin FwLabels \cup {"miss"} => FwDuty(th[t])
  BY DEF FwLabels, FwDuty
<1>2. th[t].pc \notin FeLabels => FeDuty(th[t])
  BY DEF FeLabels, FeDuty
<1>3. th[t].pc \notin InLabels => InDuty(th[t])
  <2>1. /\ IndexLabels \cup {"in_token", "ix_publish"} \subseteq InLabels
        /\ {"in_token", "in_probe", "in_claim", "in_fill"} \subseteq InLabels
        /\ {"in_fill", "in_stamp"} \subseteq InLabels
        /\ {"in_stamp", "ix_probe", "ix_claim", "ix_fill", "ix_publish", "in_count",
            "in_publish"} \subseteq InLabels
        /\ {"ix_probe", "ix_claim", "ix_fill", "ix_publish", "in_count",
            "in_publish", "in_undo"} \subseteq InLabels
        /\ {"ix_publish", "in_count", "in_publish", "in_undo"} \subseteq InLabels
    BY DEF IndexLabels, StampLabels, InLabels
  <2> QED
    BY <2>1 DEF InDuty
<1>4. th[t].pc \notin RmLabels => RmDuty(th[t])
  BY DEF RmLabels, RxLabels, RmDuty
<1> QED
  BY <1>1, <1>2, <1>3, <1>4

\* Where a duty is all there is to show.
LEMMA DutyIs ==
  ASSUME NEW t \in Threads
  PROVE  /\ th[t].pc \in {"idle", "hit"} \/ th[t].op \in {"none", "find_entity"} => Duty(t)
         /\ th[t].pc \in FwLabels \cup {"miss"} /\ FwDuty(th[t]) => Duty(t)
         /\ th[t].pc \in FeLabels /\ FeDuty(th[t]) => Duty(t)
         /\ th[t].pc \in InLabels /\ InDuty(th[t]) => Duty(t)
         /\ th[t].pc \in RmLabels /\ RmDuty(th[t]) => Duty(t)
<1>1. /\ FwLabels \cap FeLabels = {} /\ FwLabels \cap InLabels = {} /\ FwLabels \cap RmLabels = {}
      /\ FeLabels \cap InLabels = {} /\ FeLabels \cap RmLabels = {}
      /\ InLabels \cap RmLabels = {}
  BY DEF FwLabels, FeLabels, InLabels, RmLabels, RxLabels
<1>2. \A l \in {"idle", "hit", "miss"} : l \notin FeLabels \cup InLabels \cup RmLabels
  BY DEF FeLabels, InLabels, RmLabels, RxLabels
<1>3. \A l \in {"idle", "hit"} : l \notin FwLabels \cup {"miss"}
  BY DEF FwLabels
<1>4. th[t].pc \in {"idle", "hit"} => Duty(t)
  BY <1>2, <1>3, DutyOff DEF Duty
<1>5. th[t].op \in {"none", "find_entity"} => Duty(t)
  BY DEF Duty, Mutating
<1>6. th[t].pc \in FwLabels \cup {"miss"} /\ FwDuty(th[t]) => Duty(t)
  BY <1>1, <1>2, DutyOff DEF Duty
<1>7. th[t].pc \in FeLabels /\ FeDuty(th[t]) => Duty(t)
  <2>1. "miss" \notin FeLabels
    BY <1>2
  <2> QED
    BY <1>1, <2>1, DutyOff DEF Duty
<1>8. th[t].pc \in InLabels /\ InDuty(th[t]) => Duty(t)
  <2>1. "miss" \notin InLabels
    BY <1>2
  <2> QED
    BY <1>1, <2>1, DutyOff DEF Duty
<1>9. th[t].pc \in RmLabels /\ RmDuty(th[t]) => Duty(t)
  <2>1. "miss" \notin RmLabels
    BY <1>2
  <2> QED
    BY <1>1, <2>1, DutyOff DEF Duty
<1> QED
  BY <1>4, <1>5, <1>6, <1>7, <1>8, <1>9

\* Nobody else's step disturbs it.
LEMMA DutyOthers ==
  ASSUME NEW t \in Threads, NEW u \in Threads, u # t,
         Typed, Solo, Call(t) \/ Step(t), Duty(u)
  PROVE  Duty(u)'
<1>1. th'[u] = th[u]
  BY OthersKept
<1>2. CASE ~Mutating(u)
  <2>1. th'[u].op \in {"none", "find_entity"}
    BY <1>1, <1>2 DEF Mutating
  <2> QED
    BY <2>1 DEF Duty, Mutating
<1>3. CASE Mutating(u)
  <2>1. ~Mutating(t)
    BY <1>3 DEF Solo
  <2>2. ~Working(t) /\ ~InToken(t) /\ ~InProbe(t)
    <3>1. InToken(t) \/ InProbe(t) => th[t].pc \in InLabels
      BY DEF InToken, InProbe, At, InLabels
    <3> QED
      BY <2>1, <3>1, WorkingFacts, MutatingFacts
  <2>3. Quiet(t)
    BY <2>2 DEF Working, Quiet, Step
  <2>4. /\ wkey' = wkey /\ ent' = ent /\ dat' = dat /\ wtok' = wtok
        /\ ekey' = ekey /\ erec' = erec /\ etok' = etok
    BY <2>3, QuietStep DEF records, entities
  <2>5. next_token' = next_token
    BY <2>2, TokenStep
  <2>6. th[u].token \in Nat
    BY NumbersFact DEF Typed, TypeOK, Locals, Tokens
  <2>7. Dropped(th[u].token) => Dropped(th[u].token)'
    <3>1. \A k \in Nat : Past(k, IndexLabels) => Past(k, IndexLabels)'
      BY PastStep
    <3> QED
      BY <1>1, <2>4, <2>6, <3>1 DEF Dropped, Past
  <2>8. FwDuty(th[u]) => FwDuty(th[u])'
    BY <1>1, <2>4 DEF FwDuty, NoWrapper, SlotOf
  <2>9. FeDuty(th[u]) => FeDuty(th[u])'
    BY <1>1, <2>4 DEF FeDuty, NoWrapper, SlotOf, EntryFor, Pub
  <2>10. InDuty(th[u]) => InDuty(th[u])'
    BY <1>1, <2>4, <2>5, <2>7 DEF InDuty, NoWrapper, NoEntry, NoRecord, EntryFor
  <2>11. RmDuty(th[u]) => RmDuty(th[u])'
    <3>1. (\E x \in Slots : EntryFor(x, th[u].slot)) => (\E x \in Slots : EntryFor(x, th[u].slot)')
      BY <1>1, <2>4 DEF EntryFor
    <3>2. Whole(th[u].slot, th[u].wrapper) => Whole(th[u].slot, th[u].wrapper)'
      BY <1>1, <2>4 DEF Whole, EntryFor
    <3>3. EntryFor(th[u].entry, th[u].slot) => EntryFor(th[u].entry, th[u].slot)'
      BY <1>1, <2>4 DEF EntryFor
    <3>4. NoWrapper(th[u].wrapper) => NoWrapper(th[u].wrapper)'
      BY <1>1, <2>4 DEF NoWrapper
    <3> QED
      BY <1>1, <2>4, <2>7, <3>1, <3>2, <3>3, <3>4 DEF RmDuty, SlotOf
  <2> QED
    BY <1>1, <1>3, <2>8, <2>9, <2>10, <2>11 DEF Duty
<1> QED
  BY <1>2, <1>3

LEMMA DutyCall ==
  ASSUME Typed, serialized, NEW t \in Threads, Call(t)
  PROVE  Duty(t)'
<1>1. \/ th'[t].op = "find_entity"
      \/ th'[t].pc = "fw_probe" /\ th'[t].probe = 0
  BY CallShape, OperationAssumption
<1>2. CASE th'[t].op = "find_entity"
  <2>1. (th[t].op \in {"none", "find_entity"} => Duty(t))'
    BY DutyIs, PTL
  <2> QED
    BY <1>2, <2>1
<1>3. CASE th'[t].pc = "fw_probe" /\ th'[t].probe = 0
  <2>1. FwDuty(th[t])'
    BY <1>3, SizeAssumption DEF FwDuty
  <2>2. (th[t].pc \in FwLabels \cup {"miss"} /\ FwDuty(th[t]) => Duty(t))'
    BY DutyIs, PTL
  <2> QED
    BY <1>3, <2>1, <2>2 DEF FwLabels
<1> QED
  BY <1>1, <1>2, <1>3

LEMMA NothingHeld ==
  ASSUME Typed, Solo, Books, NEW t \in Threads, Mutating(t), th[t].pc \notin SlotLabels
  PROVE  /\ \A s \in Slots : ~Busy(wkey[s]) /\ ~Busy(ekey[s])
         /\ \A u \in Threads : th[u].pc \notin SlotLabels
<1>1. \A u \in Threads : th[u].pc \notin SlotLabels
  BY AloneFacts
<1> QED
  BY <1>1, LabelFacts DEF Books, BusyHeld, HoldsSlot, HoldsEntry

LEMMA DutyFindWrapper ==
  ASSUME Paths, Solo, Books, NEW t \in Threads, Duty(t), FindWrapper(t)
  PROVE  Duty(t)'
<1> DEFINE r == th[t]
           q == th'[t]
           s == SlotOf(r.wrapper, r.probe)
           o == r.slot
<1>a. /\ Typed /\ r \in Locals /\ Sane(r) /\ r.probe \in Nat /\ o \in Slots
      /\ wkey \in [Slots -> WrapperKeys] /\ PublishedReachable
  BY DEF Paths, Custody, Typed, TypeOK, Locals
<1>p. r.pc \in FwLabels
  BY DEF FindWrapper, FwProbe, FwToken, FwCopy, FwCopyRest, FwRecheck, FwDecide, At, FwLabels
<1>w. /\ r.wrapper \in Wrappers /\ r.wrapper \in Keys /\ r.op \in WrapperOps
      /\ Mutating(t) /\ FwDuty(r)
  BY <1>a, <1>p, MutatingFacts DEF Sane, Keys, Duty
<1>n. \A k \in Slots : ~Busy(wkey[k])
  <2>1. r.pc \notin SlotLabels
    BY <1>p DEF FwLabels, SlotLabels
  <2> QED
    BY <1>a, <1>w, <2>1, NothingHeld
<1>t. /\ wkey' = wkey /\ ent' = ent /\ dat' = dat /\ wtok' = wtok
  BY <1>a, QuietStep DEF Quiet, records
<1>g. ASSUME NEW v, Goto(t, v)
      PROVE  q = v
  BY <1>a, <1>g DEF Goto, Typed, TypeOK
<1>f. (th[t].pc \in FwLabels \cup {"miss"} /\ FwDuty(th[t]) => Duty(t))'
  BY DutyIs, PTL
<1>e. (th[t].pc \in FeLabels /\ FeDuty(th[t]) => Duty(t))'
  BY DutyIs, PTL
<1>i. (th[t].pc \in {"idle", "hit"} \/ th[t].op \in {"none", "find_entity"} => Duty(t))'
  BY DutyIs, PTL
<1>r. (th[t].pc \in RmLabels /\ RmDuty(th[t]) => Duty(t))'
  BY DutyIs, PTL
<1>l. {"fw_probe", "fw_token", "fw_copy", "fw_copy_rest", "fw_recheck", "fw_decide"} \subseteq FwLabels
  BY DEF FwLabels
<1>0. ASSUME NoWrapper(r.wrapper), q = WrapperAbsent(r)
      PROVE  Duty(t)'
  <2>1. CASE q = Idle
    BY <1>i, <2>1, IdleShape
  <2>2. CASE q.pc = "fe_probe" /\ Same(q, r) /\ q.probe = 0
    <3>1. NoWrapper(th[t].wrapper)'
      BY <1>0, <1>t, <2>2 DEF NoWrapper, Same, Kept
    <3>2. FeDuty(th[t])'
      BY <2>2, <3>1, SizeAssumption DEF FeDuty
    <3> QED
      BY <1>e, <2>2, <3>2 DEF FeLabels
  <2>3. CASE q.pc = "miss" /\ Same(q, r)
    <3>1. FwDuty(th[t])'
      BY <1>0, <1>t, <2>3 DEF FwDuty, NoWrapper, Same, Kept
    <3> QED
      BY <1>f, <2>3, <3>1
  <2> QED
    BY <1>a, <1>0, <2>1, <2>2, <2>3, WrapperAbsentShape
<1>1. CASE FwProbe(t)
  <2>p. r.pc = "fw_probe"
    BY <1>1 DEF FwProbe, At
  <2>s. s \in Slots
    BY <1>a, <1>w, SlotOfType
  <2>b. /\ r.probe < Probes
        /\ \A i \in 0 .. r.probe - 1 : wkey[SlotOf(r.wrapper, i)] # r.wrapper
    BY <1>w, <2>p DEF FwDuty
  <2>1. CASE wkey[s] = r.wrapper
    <3> DEFINE v == [r EXCEPT !.pc = "fw_token", !.slot = s]
    <3>1. v.pc = "fw_token" /\ v.slot = s /\ v.wrapper = r.wrapper
      BY <1>a DEF Locals
    <3>2. q = v
      BY <1>1, <1>g, <2>1 DEF FwProbe
    <3>3. q.pc = "fw_token" /\ q.slot = s /\ q.wrapper = r.wrapper
      BY <3>1, <3>2
    <3>4. FwDuty(th[t])'
      BY <1>t, <2>1, <3>3 DEF FwDuty
    <3> QED
      BY <1>f, <1>l, <3>3, <3>4
  <2>2. CASE wkey[s] # r.wrapper
    <3>0. \A k \in Slots : wkey[k] = r.wrapper =>
            wkey[s] # EMPTY /\ r.probe + 1 < Probes
      BY <1>a, <1>w, <2>b, <2>2, KeyFound DEF PublishedReachable
    <3>1. CASE wkey[s] = EMPTY
      <4>1. NoWrapper(r.wrapper)
        BY <3>0, <3>1 DEF NoWrapper
      <4>2. q = WrapperAbsent(r)
        BY <1>1, <1>g, <1>n, <2>s, <2>2, <3>1 DEF FwProbe
      <4> QED
        BY <1>0, <4>1, <4>2
    <3>2. CASE wkey[s] # EMPTY
      <4>1. q = Onward(r, WrapperAbsent(r))
        BY <1>1, <1>g, <1>n, <2>s, <2>2, <3>2 DEF FwProbe
      <4>2. CASE q = WrapperAbsent(r) /\ ~(r.probe + 1 < Probes)
        <5>1. NoWrapper(r.wrapper)
          BY <3>0, <4>2 DEF NoWrapper
        <5> QED
          BY <1>0, <4>2, <5>1
      <4>3. CASE /\ q.pc = r.pc /\ Same(q, r)
                 /\ q.probe = r.probe + 1 /\ r.probe + 1 < Probes
        <5>1. \A i \in 0 .. r.probe : wkey[SlotOf(r.wrapper, i)] # r.wrapper
          BY <1>a, <2>b, <2>2
        <5>2. q.pc = "fw_probe" /\ q.wrapper = r.wrapper /\ q.probe - 1 = r.probe
          BY <1>a, <2>p, <4>3 DEF Same, Kept
        <5>3. FwDuty(th[t])'
          BY <1>t, <4>3, <5>1, <5>2 DEF FwDuty, SlotOf
        <5> QED
          BY <1>f, <1>l, <5>2, <5>3
      <4> QED
        BY <1>a, <4>1, <4>2, <4>3, OnwardShape
    <3> QED
      BY <3>1, <3>2
  <2> QED
    BY <2>1, <2>2
<1>2. CASE FwToken(t)
  <2>p. r.pc = "fw_token" /\ wkey[o] = r.wrapper
    BY <1>2, <1>w DEF FwToken, At, FwDuty
  <2> DEFINE v == [r EXCEPT !.pc = "fw_copy", !.token_before = wtok[o]]
  <2>1. v.pc = "fw_copy" /\ v.token_before = wtok[o] /\ v.slot = o /\ v.wrapper = r.wrapper
    BY <1>a DEF Locals
  <2>2. q = v
    BY <1>2, <1>g DEF FwToken
  <2>3. q.pc = "fw_copy" /\ q.token_before = wtok[o] /\ q.slot = o /\ q.wrapper = r.wrapper
    BY <2>1, <2>2
  <2>4. FwDuty(th[t])'
    BY <1>t, <2>p, <2>3 DEF FwDuty
  <2> QED
    BY <1>f, <1>l, <2>3, <2>4
<1>3. CASE FwCopy(t)
  <2>p. r.pc = "fw_copy" /\ wkey[o] = r.wrapper /\ r.token_before = wtok[o]
    BY <1>3, <1>w DEF FwCopy, At, FwDuty
  <2> DEFINE v == [r EXCEPT !.pc = "fw_copy_rest", !.snap_entity = ent[o]]
  <2>1. /\ v.pc = "fw_copy_rest" /\ v.token_before = r.token_before
        /\ v.slot = o /\ v.wrapper = r.wrapper /\ v.snap_entity = ent[o]
    BY <1>a DEF Locals
  <2>2. q = v
    BY <1>3, <1>g DEF FwCopy
  <2>3. /\ q.pc = "fw_copy_rest" /\ q.token_before = r.token_before
        /\ q.slot = o /\ q.wrapper = r.wrapper /\ q.snap_entity = ent[o]
    BY <2>1, <2>2
  <2>4. FwDuty(th[t])'
    BY <1>t, <2>p, <2>3 DEF FwDuty
  <2> QED
    BY <1>f, <1>l, <2>3, <2>4
<1>4. CASE FwCopyRest(t)
  <2>p. /\ r.pc = "fw_copy_rest" /\ wkey[o] = r.wrapper /\ r.token_before = wtok[o]
        /\ r.snap_entity = ent[o]
    BY <1>4, <1>w DEF FwCopyRest, At, FwDuty
  <2> DEFINE v == [r EXCEPT !.pc = "fw_recheck", !.snap_data = dat[o], !.snap_token = wtok[o]]
  <2>1. /\ v.pc = "fw_recheck" /\ v.token_before = r.token_before
        /\ v.slot = o /\ v.wrapper = r.wrapper /\ v.snap_entity = r.snap_entity
        /\ v.snap_token = wtok[o]
    BY <1>a DEF Locals
  <2>2. q = v
    BY <1>4, <1>g DEF FwCopyRest
  <2>3. /\ q.pc = "fw_recheck" /\ q.token_before = r.token_before
        /\ q.slot = o /\ q.wrapper = r.wrapper /\ q.snap_entity = r.snap_entity
        /\ q.snap_token = wtok[o]
    BY <2>1, <2>2
  <2>4. FwDuty(th[t])'
    BY <1>t, <2>p, <2>3 DEF FwDuty
  <2> QED
    BY <1>f, <1>l, <2>3, <2>4
<1>5. CASE FwRecheck(t)
  <2>p. /\ r.pc = "fw_recheck" /\ wkey[o] = r.wrapper /\ r.token_before = wtok[o]
        /\ r.snap_entity = ent[o] /\ r.snap_token = wtok[o]
    BY <1>5, <1>w DEF FwRecheck, At, FwDuty
  <2>1. wtok[o] > RESERVED_MAX /\ ent[o] > RESERVED_MAX
    BY <1>a, <1>w, <2>p, NumbersFact
       DEF Books, RecordsWhole, Pub, Whole, RESERVED_MAX, RECLAIMING
  <2>2. q = Finish(r, "fw_decide")
    BY <1>5, <1>g, <2>p, <2>1 DEF FwRecheck
  <2>3. q.pc = "fw_decide" /\ Same(q, r)
    BY <1>a, <2>2, FinishShape DEF Labels
  <2>4. FwDuty(th[t])'
    BY <1>t, <2>p, <2>3 DEF FwDuty, Same, Kept
  <2> QED
    BY <1>f, <1>l, <2>3, <2>4
<1>6. CASE FwDecide(t)
  <2>p. r.pc = "fw_decide" /\ wkey[o] = r.wrapper
    BY <1>6, <1>w DEF FwDecide, At, FwDuty
  <2>1. q = WrapperFound(r)
    BY <1>6, <1>g, <2>p DEF FwDecide
  <2>2. CASE q = Idle \/ q.pc = "hit"
    BY <1>i, <2>2, IdleShape
  <2>3. CASE q.pc = "rm_claim"
    <3>1. RmDuty(th[t])'
      BY <2>3 DEF RmDuty, RxLabels
    <3> QED
      BY <1>r, <2>3, <3>1 DEF RmLabels
  <2> QED
    BY <1>a, <2>1, <2>2, <2>3, WrapperFoundShape
<1> QED
  BY <1>1, <1>2, <1>3, <1>4, <1>5, <1>6 DEF FindWrapper

\* An entity without an entry has no record either, when nobody holds a slot.
LEMMA UnlistedUnrecorded ==
  ASSUME Custody, Solo, Books, NEW t \in Threads, Mutating(t), th[t].pc \notin SlotLabels,
         NEW e \in Entities, NoEntry(e)
  PROVE  NoRecord(e)
<1>1. ASSUME NEW s \in Slots, ent[s] = e
      PROVE  FALSE
  <2>1. ~Free(wkey[s])
    BY <1>1, NumbersFact DEF Custody, ReusableIsClear
  <2>2. ~Busy(wkey[s])
    BY NothingHeld DEF Custody
  <2>3. wkey[s] \in WrapperKeys
    BY DEF Custody, Typed, TypeOK
  <2>4. Pub(s)
    BY <2>1, <2>2, <2>3
       DEF Pub, WrapperKeys, Free, Busy, EMPTY, TOMBSTONE, CLAIMED, RECLAIMING, RESERVED_MAX
  <2>5. \E x \in Slots : EntryFor(x, s)
    BY <2>4 DEF Books, RecordsWhole, Whole
  <2> QED
    BY <1>1, <2>5 DEF NoEntry, EntryFor
<1> QED
  BY <1>1 DEF NoRecord

LEMMA DutyFindEntity ==
  ASSUME Paths, Solo, Books, NEW t \in Threads, Duty(t), FindEntity(t)
  PROVE  Duty(t)'
<1> DEFINE r == th[t]
           q == th'[t]
           x == SlotOf(r.entity, r.probe)
           o == r.slot
           z == r.entry
<1>a. /\ Typed /\ r \in Locals /\ Sane(r) /\ r.probe \in Nat /\ o \in Slots /\ z \in Slots
      /\ ekey \in [Slots -> EntityKeys] /\ PublishedReachable /\ Custody
  BY DEF Paths, Custody, Typed, TypeOK, Locals
<1>p. r.pc \in FeLabels
  BY DEF FindEntity, FeProbe, FeIndex, FeToken, FeRecordKey, FeRecordToken, FeCopy, FeCopyRest,
         FeRecheckRecord, FeRecheckKey, FeRecheckEntry, FeDecide, At, FeLabels
<1>y. r.op \in {"commit", "find_entity"}
  BY <1>a, <1>p DEF Sane
<1>i. (th[t].pc \in {"idle", "hit"} \/ th[t].op \in {"none", "find_entity"} => Duty(t))'
  BY DutyIs, PTL
<1>c. CASE r.op = "find_entity"
  <2>1. q.op \in {"none", "find_entity"}
    BY <1>a, <1>c, OpKept DEF Step
  <2> QED
    BY <1>i, <2>1
<1>d. CASE r.op = "commit"
  <2>w. /\ r.entity \in Entities /\ r.entity \in Keys
        /\ r.wrapper \in Wrappers /\ Mutating(t) /\ FeDuty(r) /\ NoWrapper(r.wrapper)
    BY <1>a, <1>d, <1>p DEF Sane, Keys, Duty, Mutating, FeDuty, EntityOps, WrapperOps
  <2>h. r.pc \notin SlotLabels
    BY <1>p DEF FeLabels, SlotLabels
  <2>n. /\ \A k \in Slots : ~Busy(ekey[k])
        /\ \A u \in Threads : th[u].pc \notin InHandLabels
    BY <1>a, <2>w, <2>h, NothingHeld, MutatingFacts
  <2>t. /\ wkey' = wkey /\ ent' = ent /\ dat' = dat /\ wtok' = wtok
        /\ ekey' = ekey /\ erec' = erec /\ etok' = etok
    BY <1>a, QuietStep DEF Quiet, records, entities
  <2>g. ASSUME NEW v, Goto(t, v)
        PROVE  q = v
    BY <1>a, <2>g DEF Goto, Typed, TypeOK
  <2>e. (th[t].pc \in FeLabels /\ FeDuty(th[t]) => Duty(t))'
    BY DutyIs, PTL
  <2>j. (th[t].pc \in InLabels /\ InDuty(th[t]) => Duty(t))'
    BY DutyIs, PTL
  <2>0. ASSUME NoEntry(r.entity), q = EntityAbsent(r)
        PROVE  Duty(t)'
    <3>1. CASE q = Idle
      BY <1>i, <3>1, IdleShape
    <3>2. CASE q.pc = "in_token" /\ Same(q, r)
      <4>1. NoRecord(r.entity)
        BY <1>a, <2>0, <2>w, <2>h, UnlistedUnrecorded
      <4>2. /\ NoWrapper(th[t].wrapper)' /\ NoEntry(th[t].entity)' /\ NoRecord(th[t].entity)'
        BY <2>0, <2>t, <2>w, <3>2, <4>1 DEF NoWrapper, NoEntry, NoRecord, Same, Kept
      <4>3. InDuty(th[t])'
        BY <3>2, <4>2 DEF InDuty, IndexLabels, StampLabels
      <4> QED
        BY <2>j, <3>2, <4>3 DEF InLabels
    <3> QED
      BY <1>a, <1>d, <2>0, <3>1, <3>2, EntityAbsentShape
  \* One read after another agrees with what the tables hold.
  <2>k. /\ r.pc # "fe_probe" => ekey[z] = r.entity
        /\ r.pc \notin {"fe_probe", "fe_index"} => EntryFor(z, o) /\ Pub(o)
        /\ r.pc \notin {"fe_probe", "fe_index", "fe_token"} => r.token_before = etok[z]
        /\ r.pc \notin {"fe_probe", "fe_index", "fe_token", "fe_record_key"} =>
             r.record_key = wkey[o]
    BY <1>p, <2>w DEF FeDuty
  <2>s. ASSUME /\ q.pc \in FeLabels \ {"fe_probe", "fe_index"}
               /\ r.pc \notin {"fe_probe", "fe_index"}
               /\ q.wrapper = r.wrapper /\ q.entity = r.entity /\ q.slot = o /\ q.entry = z
        PROVE  /\ NoWrapper(th[t].wrapper)'
               /\ (ekey[th[t].entry] = th[t].entity)'
               /\ EntryFor(th[t].entry, th[t].slot)' /\ Pub(th[t].slot)'
    BY <2>k, <2>s, <2>t, <2>w DEF NoWrapper, EntryFor, Pub
  <2>1. CASE FeProbe(t)
    <3>p. r.pc = "fe_probe"
      BY <2>1 DEF FeProbe, At
    <3>s. x \in Slots
      BY <1>a, <2>w, SlotOfType
    <3>b. /\ r.probe < Probes
          /\ \A i \in 0 .. r.probe - 1 : ekey[SlotOf(r.entity, i)] # r.entity
      BY <2>w, <3>p DEF FeDuty
    <3>1. CASE ekey[x] = r.entity
      <4> DEFINE v == [r EXCEPT !.pc = "fe_index", !.entry = x]
      <4>1. v.pc = "fe_index" /\ v.entry = x /\ v.entity = r.entity /\ v.wrapper = r.wrapper
        BY <1>a DEF Locals
      <4>2. q = v
        BY <2>1, <2>g, <3>1 DEF FeProbe
      <4>3. q.pc = "fe_index" /\ q.entry = x /\ q.entity = r.entity /\ q.wrapper = r.wrapper
        BY <4>1, <4>2
      <4>4. NoWrapper(th[t].wrapper)'
        BY <2>t, <2>w, <4>3 DEF NoWrapper
      <4>5. FeDuty(th[t])'
        BY <2>t, <3>1, <4>3, <4>4 DEF FeDuty
      <4> QED
        BY <2>e, <4>3, <4>5 DEF FeLabels
    <3>2. CASE ekey[x] # r.entity
      <4>0. \A k \in Slots : ekey[k] = r.entity =>
              ekey[x] # EMPTY /\ r.probe + 1 < Probes
        BY <1>a, <2>w, <3>b, <3>2, KeyFound DEF PublishedReachable
      <4>1. CASE ekey[x] = EMPTY
        <5>1. NoEntry(r.entity)
          BY <4>0, <4>1 DEF NoEntry
        <5>2. q = EntityAbsent(r)
          BY <2>1, <2>g, <2>n, <3>s, <3>2, <4>1 DEF FeProbe
        <5> QED
          BY <2>0, <5>1, <5>2
      <4>2. CASE ekey[x] # EMPTY
        <5>1. q = Onward(r, EntityAbsent(r))
          BY <2>1, <2>g, <2>n, <3>s, <3>2, <4>2 DEF FeProbe
        <5>2. CASE q = EntityAbsent(r) /\ ~(r.probe + 1 < Probes)
          <6>1. NoEntry(r.entity)
            BY <4>0, <5>2 DEF NoEntry
          <6> QED
            BY <2>0, <5>2, <6>1
        <5>3. CASE /\ q.pc = r.pc /\ Same(q, r)
                   /\ q.probe = r.probe + 1 /\ r.probe + 1 < Probes
          <6>1. \A i \in 0 .. r.probe : ekey[SlotOf(r.entity, i)] # r.entity
            BY <1>a, <3>b, <3>2
          <6>2. /\ q.pc = "fe_probe" /\ q.entity = r.entity /\ q.wrapper = r.wrapper
                /\ q.probe - 1 = r.probe
            BY <1>a, <3>p, <5>3 DEF Same, Kept
          <6>3. NoWrapper(th[t].wrapper)'
            BY <2>t, <2>w, <6>2 DEF NoWrapper
          <6>4. FeDuty(th[t])'
            BY <2>t, <5>3, <6>1, <6>2, <6>3 DEF FeDuty, SlotOf
          <6> QED
            BY <2>e, <6>2, <6>4 DEF FeLabels
        <5> QED
          BY <1>a, <5>1, <5>2, <5>3, OnwardShape
      <4> QED
        BY <4>1, <4>2
    <3> QED
      BY <3>1, <3>2
  <2>2. CASE FeIndex(t)
    <3>p. r.pc = "fe_index" /\ ekey[z] = r.entity
      BY <2>2, <2>k DEF FeIndex, At
    <3>1. PICK k \in Slots : EntryFor(z, k) /\ Pub(k)
      BY <1>a, <2>n, <2>w, <3>p DEF Books, EntriesPoint, Listed
    <3>2. erec[z] # 0 /\ erec[z] - 1 = k
      BY <3>1, NumbersFact DEF EntryFor
    <3> DEFINE v == [r EXCEPT !.pc = "fe_token", !.slot = erec[z] - 1]
    <3>3. /\ v.pc = "fe_token" /\ v.slot = erec[z] - 1 /\ v.entry = z
          /\ v.entity = r.entity /\ v.wrapper = r.wrapper
      BY <1>a DEF Locals
    <3>4. q = v
      BY <2>2, <2>g, <3>2 DEF FeIndex
    <3>5. /\ q.pc = "fe_token" /\ q.slot = k /\ q.entry = z
          /\ q.entity = r.entity /\ q.wrapper = r.wrapper
      BY <3>2, <3>3, <3>4
    <3>6. /\ NoWrapper(th[t].wrapper)' /\ EntryFor(th[t].entry, th[t].slot)' /\ Pub(th[t].slot)'
      BY <2>t, <2>w, <3>1, <3>5 DEF NoWrapper, EntryFor, Pub
    <3>7. FeDuty(th[t])'
      BY <2>t, <3>p, <3>5, <3>6 DEF FeDuty
    <3> QED
      BY <2>e, <3>5, <3>7 DEF FeLabels
  <2>3. CASE FeToken(t)
    <3>p. r.pc = "fe_token"
      BY <2>3 DEF FeToken, At
    <3> DEFINE v == [r EXCEPT !.pc = "fe_record_key", !.token_before = etok[z]]
    <3>1. /\ v.pc = "fe_record_key" /\ v.token_before = etok[z] /\ v.slot = o /\ v.entry = z
          /\ v.entity = r.entity /\ v.wrapper = r.wrapper
      BY <1>a DEF Locals
    <3>2. q = v
      BY <2>3, <2>g DEF FeToken
    <3>3. /\ q.pc = "fe_record_key" /\ q.token_before = etok[z] /\ q.slot = o /\ q.entry = z
          /\ q.entity = r.entity /\ q.wrapper = r.wrapper
      BY <3>1, <3>2
    <3>4. q.pc \in FeLabels \ {"fe_probe", "fe_index"}
      BY <3>3 DEF FeLabels
    <3>5. FeDuty(th[t])'
      BY <2>s, <2>t, <3>p, <3>3, <3>4 DEF FeDuty
    <3> QED
      BY <2>e, <3>4, <3>5
  <2>4. CASE FeRecordKey(t)
    <3>p. r.pc = "fe_record_key"
      BY <2>4 DEF FeRecordKey, At
    <3> DEFINE v == [r EXCEPT !.pc = "fe_record_token", !.record_key = wkey[o]]
    <3>1. /\ v.pc = "fe_record_token" /\ v.record_key = wkey[o] /\ v.slot = o /\ v.entry = z
          /\ v.token_before = r.token_before
          /\ v.entity = r.entity /\ v.wrapper = r.wrapper
      BY <1>a DEF Locals
    <3>2. q = v
      BY <2>4, <2>g DEF FeRecordKey
    <3>3. /\ q.pc = "fe_record_token" /\ q.record_key = wkey[o] /\ q.slot = o /\ q.entry = z
          /\ q.token_before = r.token_before
          /\ q.entity = r.entity /\ q.wrapper = r.wrapper
      BY <3>1, <3>2
    <3>4. q.pc \in FeLabels \ {"fe_probe", "fe_index"}
      BY <3>3 DEF FeLabels
    <3>5. FeDuty(th[t])'
      BY <2>k, <2>s, <2>t, <3>p, <3>3, <3>4 DEF FeDuty
    <3> QED
      BY <2>e, <3>4, <3>5
  <2>5. CASE FeRecordToken(t)
    <3>p. r.pc = "fe_record_token"
      BY <2>5 DEF FeRecordToken, At
    <3> DEFINE v == [r EXCEPT !.pc = "fe_copy", !.record_token = wtok[o]]
    <3>1. /\ v.pc = "fe_copy" /\ v.record_token = wtok[o] /\ v.slot = o /\ v.entry = z
          /\ v.token_before = r.token_before /\ v.record_key = r.record_key
          /\ v.entity = r.entity /\ v.wrapper = r.wrapper
      BY <1>a DEF Locals
    <3>2. q = v
      BY <2>5, <2>g DEF FeRecordToken
    <3>3. /\ q.pc = "fe_copy" /\ q.record_token = wtok[o] /\ q.slot = o /\ q.entry = z
          /\ q.token_before = r.token_before /\ q.record_key = r.record_key
          /\ q.entity = r.entity /\ q.wrapper = r.wrapper
      BY <3>1, <3>2
    <3>4. q.pc \in FeLabels \ {"fe_probe", "fe_index"}
      BY <3>3 DEF FeLabels
    <3>5. FeDuty(th[t])'
      BY <2>k, <2>s, <2>t, <3>p, <3>3, <3>4 DEF FeDuty
    <3> QED
      BY <2>e, <3>4, <3>5
  <2>6. CASE FeCopy(t)
    <3>p. r.pc = "fe_copy" /\ r.record_token = wtok[o]
      BY <2>6, <2>w DEF FeCopy, At, FeDuty
    <3> DEFINE v == [r EXCEPT !.pc = "fe_copy_rest", !.snap_key = wkey[o],
                              !.snap_entity = ent[o]]
    <3>1. /\ v.pc = "fe_copy_rest" /\ v.snap_key = wkey[o] /\ v.snap_entity = ent[o]
          /\ v.record_token = r.record_token /\ v.slot = o /\ v.entry = z
          /\ v.token_before = r.token_before /\ v.record_key = r.record_key
          /\ v.entity = r.entity /\ v.wrapper = r.wrapper
      BY <1>a DEF Locals
    <3>2. q = v
      BY <2>6, <2>g DEF FeCopy
    <3>3. /\ q.pc = "fe_copy_rest" /\ q.snap_key = wkey[o] /\ q.snap_entity = ent[o]
          /\ q.record_token = r.record_token /\ q.slot = o /\ q.entry = z
          /\ q.token_before = r.token_before /\ q.record_key = r.record_key
          /\ q.entity = r.entity /\ q.wrapper = r.wrapper
      BY <3>1, <3>2
    <3>4. q.pc \in FeLabels \ {"fe_probe", "fe_index"}
      BY <3>3 DEF FeLabels
    <3>5. FeDuty(th[t])'
      BY <2>k, <2>s, <2>t, <3>p, <3>3, <3>4 DEF FeDuty
    <3> QED
      BY <2>e, <3>4, <3>5
  <2>7. CASE FeCopyRest(t)
    <3>p. /\ r.pc = "fe_copy_rest" /\ r.record_token = wtok[o]
          /\ r.snap_key = wkey[o] /\ r.snap_entity = ent[o]
      BY <2>7, <2>w DEF FeCopyRest, At, FeDuty
    <3> DEFINE v == [r EXCEPT !.pc = "fe_recheck_record", !.snap_data = dat[o],
                              !.snap_token = wtok[o]]
    <3>1. /\ v.pc = "fe_recheck_record" /\ v.snap_key = r.snap_key
          /\ v.snap_entity = r.snap_entity /\ v.snap_token = wtok[o]
          /\ v.record_token = r.record_token /\ v.slot = o /\ v.entry = z
          /\ v.token_before = r.token_before /\ v.record_key = r.record_key
          /\ v.entity = r.entity /\ v.wrapper = r.wrapper
      BY <1>a DEF Locals
    <3>2. q = v
      BY <2>7, <2>g DEF FeCopyRest
    <3>3. /\ q.pc = "fe_recheck_record" /\ q.snap_key = r.snap_key
          /\ q.snap_entity = r.snap_entity /\ q.snap_token = wtok[o]
          /\ q.record_token = r.record_token /\ q.slot = o /\ q.entry = z
          /\ q.token_before = r.token_before /\ q.record_key = r.record_key
          /\ q.entity = r.entity /\ q.wrapper = r.wrapper
      BY <3>1, <3>2
    <3>4. q.pc \in FeLabels \ {"fe_probe", "fe_index"}
      BY <3>3 DEF FeLabels
    <3>5. FeDuty(th[t])'
      BY <2>k, <2>s, <2>t, <3>p, <3>3, <3>4 DEF FeDuty
    <3> QED
      BY <2>e, <3>4, <3>5
  <2>f. ASSUME NEW l \in {"fe_recheck_key", "fe_recheck_entry", "fe_decide"}, q = Finish(r, l),
               r.pc \in {"fe_recheck_record", "fe_recheck_key", "fe_recheck_entry"}
        PROVE  Duty(t)'
    <3>0. l \in Labels /\ l \in FeLabels \ {"fe_probe", "fe_index"}
      BY DEF Labels, FeLabels
    <3>1. /\ q.pc = l /\ Same(q, r)
          /\ q.token_before = r.token_before /\ q.record_key = r.record_key
      BY <1>a, <2>f, <3>0, FinishShape
    <3>2. FeDuty(th[t])'
      BY <2>f, <2>k, <2>s, <2>t, <3>0, <3>1 DEF FeDuty, Same, Kept
    <3> QED
      BY <2>e, <3>0, <3>1, <3>2
  <2>8. CASE FeRecheckRecord(t)
    <3>p. /\ r.pc = "fe_recheck_record" /\ r.record_token = wtok[o]
          /\ r.snap_key = wkey[o] /\ r.snap_entity = ent[o] /\ r.snap_token = wtok[o]
      BY <2>8, <2>w DEF FeRecheckRecord, At, FeDuty
    <3>1. /\ EntryFor(z, o) /\ Pub(o) /\ ekey[z] = r.entity /\ r.token_before = etok[z]
          /\ r.record_key = wkey[o]
      BY <2>k, <3>p
    <3>2. wtok[o] > RESERVED_MAX /\ wkey[o] > RESERVED_MAX
      BY <1>a, <3>1, NumbersFact DEF Books, RecordsWhole, Pub, Whole, RESERVED_MAX, RECLAIMING
    <3>3. q = Finish(r, "fe_recheck_key")
      BY <2>8, <2>g, <3>p, <3>1, <3>2 DEF FeRecheckRecord, EntryFor
    <3> QED
      BY <2>f, <3>p, <3>3
  <2>9. CASE FeRecheckKey(t)
    <3>1. r.pc = "fe_recheck_key" /\ r.record_key = wkey[o]
      BY <2>9, <2>k DEF FeRecheckKey, At
    <3>2. q = Finish(r, "fe_recheck_entry")
      BY <2>9, <2>g, <3>1 DEF FeRecheckKey
    <3> QED
      BY <2>f, <3>1, <3>2
  <2>10. CASE FeRecheckEntry(t)
    <3>1. r.pc = "fe_recheck_entry" /\ r.token_before = etok[z]
      BY <2>10, <2>k DEF FeRecheckEntry, At
    <3>2. q = Finish(r, "fe_decide")
      BY <2>10, <2>g, <3>1 DEF FeRecheckEntry
    <3> QED
      BY <2>f, <3>1, <3>2
  <2>11. CASE FeDecide(t)
    <3>1. ekey[z] = r.entity
      BY <2>11, <2>k DEF FeDecide, At
    <3>2. q = Idle
      BY <1>d, <2>11, <2>g, <3>1 DEF FeDecide, Result
    <3> QED
      BY <1>i, <3>2, IdleShape
  <2> QED
    BY <2>1, <2>2, <2>3, <2>4, <2>5, <2>6, <2>7, <2>8, <2>9, <2>10, <2>11 DEF FindEntity
<1> QED
  BY <1>y, <1>c, <1>d

LEMMA DutyInsert ==
  ASSUME Paths, Solo, Books, TokensPast, NEW t \in Threads, Duty(t), Insert(t)
  PROVE  Duty(t)'
<1> DEFINE r == th[t]
           q == th'[t]
           o == r.slot
           z == r.entry
<1>a. /\ Typed /\ r \in Locals /\ Sane(r) /\ o \in Slots /\ z \in Slots /\ r.token \in Nat
      /\ wkey \in [Slots -> WrapperKeys] /\ ekey \in [Slots -> EntityKeys]
      /\ ent \in [Slots -> {0} \cup Entities] /\ dat \in [Slots -> Data]
      /\ wtok \in [Slots -> Tokens] /\ erec \in [Slots -> 0 .. Capacity]
      /\ etok \in [Slots -> Tokens] /\ next_token \in Nat
      /\ Custody
  BY NumbersFact DEF Paths, Custody, Typed, TypeOK, Locals, Tokens
<1>p. r.pc \in InLabels
  BY DEF Insert, InToken, InProbe, InClaim, InFill, InStamp, IxProbe, IxClaim, IxFill,
         IxPublish, InCount, InPublish, InUndo, ClearPayload, ClearToken, Bury, At, InLabels
<1>w. /\ r.wrapper \in Wrappers /\ r.entity \in Entities
      /\ Mutating(t) /\ InDuty(r) /\ NoWrapper(r.wrapper)
  BY <1>a, <1>p, MutatingFacts DEF Sane, Duty, InDuty, EntityOps, WrapperOps
<1>k. r.pc # "in_token" => r.token > RESERVED_MAX /\ r.token <= next_token
  BY <1>p, <1>w DEF InDuty
<1>i. (th[t].pc \in {"idle", "hit"} \/ th[t].op \in {"none", "find_entity"} => Duty(t))'
  BY DutyIs, PTL
<1>j. (th[t].pc \in InLabels /\ InDuty(th[t]) => Duty(t))'
  BY DutyIs, PTL
<1>g. ASSUME NEW v, Goto(t, v)
      PROVE  q = v
  BY <1>a, <1>g DEF Goto, Typed, TypeOK
<1>z. q = Idle \/ q.pc = "idle" => Duty(t)'
  BY <1>i, IdleShape
<1>n. ~InToken(t) => next_token' = next_token
  BY <1>a, TokenStep DEF Step
<1>x. /\ \A w \in Wrappers : ~Busy(w)
      /\ \A e \in Entities : ~Busy(e)
      /\ Busy(CLAIMED)
  BY BusyFacts
<1>h. /\ r.pc \in SlotLabels => Busy(wkey[o])
      /\ r.pc \in EntryLabels => Busy(ekey[z])
  BY <1>a DEF Custody, SlotExclusive, HoldsSlot, HoldsEntry
\* A token that could not be indexed never will be.
<1>d. r.pc \in {"ix_probe", "ix_claim"} /\ q.pc = "in_undo" /\ q.token = r.token
        /\ etok' = etok /\ next_token' = next_token => Dropped(th[t].token)'
  <2> SUFFICES ASSUME r.pc \in {"ix_probe", "ix_claim"}, q.pc = "in_undo", q.token = r.token,
                      etok' = etok, next_token' = next_token
               PROVE  Dropped(th[t].token)'
    OBVIOUS
  <2>1. r.pc \in IndexLabels /\ r.pc # "in_token" /\ q.pc \notin IndexLabels
    BY DEF IndexLabels, StampLabels
  <2>2. \A x \in Slots : etok[x] # r.token
    BY <1>a, <1>k, <2>1 DEF TokensPast, Past, RESERVED_MAX, RECLAIMING
  <2>3. \A u \in Threads : th'[u].pc \in IndexLabels => u # t /\ th'[u] = th[u]
    BY <1>a, <2>1, OthersKept DEF Step
  <2>4. \A u \in Threads : th'[u].pc \notin IndexLabels
    BY <1>a, <1>w, <2>3, AloneFacts, MutatingFacts
  <2> QED
    BY <1>k, <2>1, <2>2, <2>4 DEF Dropped, Past
  \* Steps that leave the tables alone and go on with the same record.
<1>s. ASSUME q.wrapper = r.wrapper, wkey' = wkey, next_token' = next_token,
             r.pc # "in_token", q.token = r.token
      PROVE  /\ NoWrapper(th[t].wrapper)'
             /\ (th[t].token > RESERVED_MAX /\ th[t].token <= next_token)'
  BY <1>s, <1>k, <1>w DEF NoWrapper
<1>1. CASE InToken(t)
  <2>p. r.pc = "in_token"
    BY <1>1 DEF InToken, At
  <2>1. CASE q = Idle
    BY <1>z, <2>1
  <2>2. CASE q # Idle
    <3>1. /\ next_token' = next_token + 1
          /\ q = [Start(r, "in_probe") EXCEPT !.token = next_token + 1]
          /\ wkey' = wkey /\ ent' = ent /\ ekey' = ekey
      BY <1>1, <1>g, <2>2 DEF InToken, records, entities
    <3>2. /\ Start(r, "in_probe") \in Locals
          /\ Start(r, "in_probe").pc = "in_probe" /\ Same(Start(r, "in_probe"), r)
      BY <1>a, StartShape DEF Labels
    <3>3. /\ q.pc = "in_probe" /\ q.token = next_token + 1
          /\ q.wrapper = r.wrapper /\ q.entity = r.entity
      BY <3>1, <3>2 DEF Locals, Same, Kept
    <3>4. NoEntry(r.entity) /\ NoRecord(r.entity)
      BY <1>w, <2>p DEF InDuty
    <3>5. NoWrapper(th[t].wrapper)' /\ NoEntry(th[t].entity)' /\ NoRecord(th[t].entity)'
      BY <1>w, <3>1, <3>3, <3>4 DEF NoWrapper, NoEntry, NoRecord
    <3>6. (th[t].token > RESERVED_MAX /\ th[t].token <= next_token)'
      BY <1>a, <3>1, <3>3 DEF TokensPast, RESERVED_MAX, RECLAIMING
    <3>7. InDuty(th[t])'
      BY <3>3, <3>5, <3>6 DEF InDuty
    <3> QED
      BY <1>j, <3>3, <3>7 DEF InLabels
  <2> QED
    BY <2>1, <2>2
  \* From the probe for a slot to the claim.
<1>b. ASSUME r.pc \in {"in_probe", "in_claim"}, q.pc \in {"in_probe", "in_claim"},
             q.wrapper = r.wrapper, q.entity = r.entity, q.token = r.token,
             wkey' = wkey, ent' = ent, ekey' = ekey, next_token' = next_token
      PROVE  Duty(t)'
  <2>1. q.pc \in InLabels \ {"in_token"}
    BY <1>b DEF InLabels
  <2>2. NoEntry(r.entity) /\ NoRecord(r.entity)
    BY <1>b, <1>w DEF InDuty, IndexLabels, StampLabels
  <2>3. NoEntry(th[t].entity)' /\ NoRecord(th[t].entity)'
    BY <1>b, <2>2 DEF NoEntry, NoRecord
  <2>4. InDuty(th[t])'
    BY <1>b, <1>s, <2>1, <2>3 DEF InDuty
  <2> QED
    BY <1>j, <2>1, <2>4
<1>2. CASE InProbe(t)
  <2>1. /\ r.pc = "in_probe" /\ wkey' = wkey /\ ent' = ent /\ ekey' = ekey
        /\ next_token' = next_token
    BY <1>2 DEF InProbe, At, records, entities
  <2>2. \/ q = Idle
        \/ /\ q.pc \in {"in_probe", "in_claim"} /\ q.wrapper = r.wrapper
           /\ q.entity = r.entity /\ q.token = r.token
    BY <1>a, <1>2, ProbeShape DEF Same, Kept
  <2> QED
    BY <1>b, <1>z, <2>1, <2>2
<1>3. CASE InClaim(t)
  <2>p. r.pc = "in_claim" /\ next_token' = next_token /\ ent' = ent /\ wtok' = wtok /\ ekey' = ekey
    BY <1>3 DEF InClaim, At, entities
  <2>1. CASE Free(wkey[o])
    <3>1. wkey' = [wkey EXCEPT ![o] = CLAIMED] /\ q.pc = "in_fill" /\ Kept(q, r)
      BY <1>a, <1>3, <2>1, HolderStep DEF InClaim
    <3>2. NoEntry(r.entity) /\ NoRecord(r.entity)
      BY <1>w, <2>p DEF InDuty, IndexLabels, StampLabels
    <3>3. NoEntry(th[t].entity)' /\ NoRecord(th[t].entity)'
      BY <2>p, <3>1, <3>2 DEF NoEntry, NoRecord, Kept
    <3>4. NoWrapper(th[t].wrapper)'
      <4>1. CLAIMED # r.wrapper
        BY <1>x, <1>w
      <4> QED
        BY <1>a, <1>w, <3>1, <4>1 DEF NoWrapper, Kept
    <3>5. wtok[o] = 0
      BY <1>a, <2>1 DEF Custody, ReusableIsClear
    <3>6. (wtok[th[t].slot] = 0)'
      BY <2>p, <3>1, <3>5 DEF Kept
    <3>7. (th[t].token > RESERVED_MAX /\ th[t].token <= next_token)'
      BY <1>k, <2>p, <3>1 DEF Kept
    <3>8. InDuty(th[t])'
      BY <3>1, <3>3, <3>4, <3>6, <3>7 DEF InDuty
    <3> QED
      BY <1>j, <3>1, <3>8 DEF InLabels
  <2>2. CASE ~Free(wkey[o])
    <3>1. q = Retry(r, "in_probe", Idle) /\ wkey' = wkey
      BY <1>3, <1>g, <2>2 DEF InClaim
    <3>2. q = Idle \/ (q.pc = "in_probe" /\ Same(q, r))
      <4>1. "in_probe" \in Labels /\ r \in Locals
        BY <1>a DEF Labels
      <4> QED
        BY <3>1, <4>1, RetryShape
    <3> QED
      BY <1>b, <1>z, <2>p, <3>1, <3>2 DEF Same, Kept
  <2> QED
    BY <2>1, <2>2
<1>4. CASE InFill(t)
  <2>1. /\ r.pc = "in_fill" /\ q.pc = "in_stamp" /\ Kept(q, r)
        /\ ent' = [ent EXCEPT ![o] = r.entity]
        /\ dat' = [dat EXCEPT ![o] = <<r.wrapper, r.entity, r.token>>]
        /\ wkey' = wkey /\ wtok' = wtok /\ ekey' = ekey
        /\ next_token' = next_token
    BY <1>a, <1>4, HolderStep DEF InFill, At, entities
  <2>2. NoEntry(r.entity) /\ wtok[o] = 0
    BY <1>w, <2>1 DEF InDuty, IndexLabels, StampLabels
  <2>3. /\ NoEntry(th[t].entity)' /\ (wtok[th[t].slot] = 0)'
        /\ (ent[th[t].slot] = th[t].entity)'
        /\ (dat[th[t].slot] = <<th[t].wrapper, th[t].entity, th[t].token>>)'
    BY <1>a, <2>1, <2>2 DEF NoEntry, Kept
  <2>4. q.pc \in InLabels \ {"in_token"}
    BY <2>1 DEF InLabels
  <2>5. InDuty(th[t])'
    BY <1>s, <2>1, <2>3, <2>4 DEF InDuty, Kept
  <2> QED
    BY <1>j, <2>4, <2>5
<1>5. CASE InStamp(t)
  <2>1. /\ r.pc = "in_stamp" /\ q.pc = "ix_probe" /\ Kept(q, r)
        /\ wtok' = [wtok EXCEPT ![o] = r.token]
        /\ wkey' = wkey /\ ent' = ent /\ dat' = dat /\ ekey' = ekey
        /\ next_token' = next_token
    BY <1>a, <1>5, HolderStep DEF InStamp, At, entities
  <2>2. /\ NoEntry(r.entity) /\ ent[o] = r.entity
        /\ dat[o] = <<r.wrapper, r.entity, r.token>>
    BY <1>w, <2>1 DEF InDuty, IndexLabels, StampLabels
  <2>3. /\ NoEntry(th[t].entity)' /\ (wtok[th[t].slot] = th[t].token)'
        /\ (ent[th[t].slot] = th[t].entity)'
        /\ (dat[th[t].slot] = <<th[t].wrapper, th[t].entity, th[t].token>>)'
    BY <1>a, <2>1, <2>2 DEF NoEntry, Kept
  <2>4. q.pc \in InLabels \ {"in_token"}
    BY <2>1 DEF InLabels
  <2>5. InDuty(th[t])'
    BY <1>s, <2>1, <2>3, <2>4 DEF InDuty, Kept
  <2> QED
    BY <1>j, <2>4, <2>5
  \* From the probe for an entry to its claim, and the way back.
<1>c. ASSUME r.pc \in {"ix_probe", "ix_claim"}, q.pc \in {"ix_probe", "ix_claim", "in_undo"},
             q.wrapper = r.wrapper, q.entity = r.entity, q.token = r.token, q.slot = o,
             UNCHANGED <<records, entities, next_token>>
      PROVE  Duty(t)'
  <2>t. /\ wkey' = wkey /\ ent' = ent /\ dat' = dat /\ wtok' = wtok
        /\ ekey' = ekey /\ etok' = etok /\ next_token' = next_token
    BY <1>c DEF records, entities
  <2>1. q.pc \in InLabels \ {"in_token"} /\ r.pc # "in_token"
    BY <1>c DEF InLabels
  <2>2. /\ NoEntry(r.entity) /\ ent[o] = r.entity
        /\ dat[o] = <<r.wrapper, r.entity, r.token>> /\ wtok[o] = r.token
    BY <1>c, <1>w DEF InDuty, IndexLabels
  <2>3. /\ NoEntry(th[t].entity)' /\ (wtok[th[t].slot] = th[t].token)'
        /\ (ent[th[t].slot] = th[t].entity)'
        /\ (dat[th[t].slot] = <<th[t].wrapper, th[t].entity, th[t].token>>)'
    BY <1>c, <2>t, <2>2 DEF NoEntry
  <2>4. /\ NoWrapper(th[t].wrapper)'
        /\ (th[t].token > RESERVED_MAX /\ th[t].token <= next_token)'
    BY <1>c, <1>s, <2>t, <2>1
  <2>5. q.pc = "in_undo" => Dropped(th[t].token)'
    BY <1>c, <1>d, <2>t
  <2>6. q.pc \notin {"in_token", "in_probe", "in_claim", "in_fill", "in_stamp", "ix_publish",
                     "in_count", "in_publish"}
    BY <1>c
  <2>7. InDuty(th[t])'
    BY <2>3, <2>4, <2>5, <2>6 DEF InDuty
  <2> QED
    BY <1>j, <2>1, <2>7
<1>6. CASE IxProbe(t)
  <2>1. r.pc = "ix_probe" /\ UNCHANGED <<records, entities, next_token>>
    BY <1>6 DEF IxProbe, At
  <2>2. /\ q.pc \in {"ix_probe", "ix_claim", "in_undo"}
        /\ q.wrapper = r.wrapper /\ q.entity = r.entity /\ q.token = r.token /\ q.slot = o
    BY <1>a, <1>6, ProbeShape DEF Same, Kept
  <2> QED
    BY <1>c, <2>1, <2>2
<1>7. CASE IxClaim(t)
  <2>p. r.pc = "ix_claim" /\ UNCHANGED <<records, erec, etok, next_token>>
    BY <1>7 DEF IxClaim, At
  <2>1. CASE Free(ekey[z])
    <3>1. ekey' = [ekey EXCEPT ![z] = CLAIMED] /\ q.pc = "ix_fill" /\ Kept(q, r)
      BY <1>a, <1>7, <2>1, HolderStep DEF IxClaim
    <3>t. /\ wkey' = wkey /\ ent' = ent /\ dat' = dat /\ wtok' = wtok
          /\ next_token' = next_token
      BY <2>p DEF records
    <3>2. /\ NoEntry(r.entity) /\ ent[o] = r.entity
          /\ dat[o] = <<r.wrapper, r.entity, r.token>> /\ wtok[o] = r.token
      BY <1>w, <2>p DEF InDuty, IndexLabels
    <3>3. NoEntry(th[t].entity)'
      <4>1. CLAIMED # r.entity
        BY <1>x, <1>w
      <4> QED
        BY <1>a, <3>1, <3>2, <4>1 DEF NoEntry, Kept
    <3>4. /\ (wtok[th[t].slot] = th[t].token)'
          /\ (ent[th[t].slot] = th[t].entity)'
          /\ (dat[th[t].slot] = <<th[t].wrapper, th[t].entity, th[t].token>>)'
      BY <3>1, <3>2, <3>t DEF Kept
    <3>5. q.pc \in InLabels \ {"in_token"}
      BY <3>1 DEF InLabels
    <3>6. InDuty(th[t])'
      BY <1>s, <2>p, <3>1, <3>3, <3>4, <3>5, <3>t DEF InDuty, Kept
    <3> QED
      BY <1>j, <3>5, <3>6
  <2>2. CASE ~Free(ekey[z])
    <3>1. q.pc \in {"ix_probe", "in_undo"} /\ Kept(q, r) /\ ekey' = ekey
      BY <1>a, <1>7, <2>2, HolderStep DEF IxClaim
    <3> QED
      BY <1>c, <2>p, <3>1 DEF Kept, entities
  <2> QED
    BY <2>1, <2>2
<1>8. CASE IxFill(t)
  <2>1. /\ r.pc = "ix_fill" /\ q.pc = "ix_publish" /\ Kept(q, r)
        /\ erec' = [erec EXCEPT ![z] = o + 1] /\ etok' = [etok EXCEPT ![z] = r.token]
        /\ wkey' = wkey /\ ent' = ent /\ dat' = dat /\ wtok' = wtok /\ ekey' = ekey
        /\ next_token' = next_token
    BY <1>a, <1>8, HolderStep DEF IxFill, At, records
  <2>2. /\ NoEntry(r.entity) /\ ent[o] = r.entity
        /\ dat[o] = <<r.wrapper, r.entity, r.token>> /\ wtok[o] = r.token
    BY <1>w, <2>1 DEF InDuty, IndexLabels
  <2>3. /\ NoEntry(th[t].entity)' /\ (wtok[th[t].slot] = th[t].token)'
        /\ (ent[th[t].slot] = th[t].entity)'
        /\ (dat[th[t].slot] = <<th[t].wrapper, th[t].entity, th[t].token>>)'
    BY <2>1, <2>2 DEF NoEntry, Kept
  <2>4. /\ (erec[th[t].entry] = th[t].slot + 1)'
        /\ (etok[th[t].entry] = th[t].token)'
    BY <1>a, <2>1 DEF Kept
  <2>5. q.pc \in InLabels \ {"in_token"}
    BY <2>1 DEF InLabels
  <2>6. InDuty(th[t])'
    BY <1>s, <2>1, <2>3, <2>4, <2>5 DEF InDuty, Kept
  <2> QED
    BY <1>j, <2>5, <2>6
<1>9. CASE IxPublish(t)
  <2>1. /\ r.pc = "ix_publish" /\ q.pc = "in_count" /\ Kept(q, r)
        /\ ekey' = [ekey EXCEPT ![z] = r.entity]
        /\ wkey' = wkey /\ ent' = ent /\ dat' = dat /\ wtok' = wtok
        /\ erec' = erec /\ etok' = etok /\ next_token' = next_token
    BY <1>a, <1>9, HolderStep DEF IxPublish, At, records
  <2>2. /\ ent[o] = r.entity /\ erec[z] = o + 1 /\ etok[z] = r.token
        /\ dat[o] = <<r.wrapper, r.entity, r.token>> /\ wtok[o] = r.token
    BY <1>w, <2>1 DEF InDuty
  <2>3. /\ EntryFor(th[t].entry, th[t].slot)' /\ (wtok[th[t].slot] = th[t].token)'
        /\ (ent[th[t].slot] = th[t].entity)'
        /\ (dat[th[t].slot] = <<th[t].wrapper, th[t].entity, th[t].token>>)'
    BY <1>a, <2>1, <2>2 DEF EntryFor, Kept
  <2>5. q.pc \in InLabels \ {"in_token"} /\ q.pc \notin IndexLabels \cup {"in_token", "ix_publish"}
    BY <2>1 DEF InLabels, IndexLabels, StampLabels
  <2>6. InDuty(th[t])'
    BY <1>s, <2>1, <2>3, <2>5 DEF InDuty, Kept
  <2> QED
    BY <1>j, <2>5, <2>6
<1>10. CASE InCount(t)
  <2>1. /\ r.pc = "in_count" /\ q.pc = "in_publish" /\ Kept(q, r)
        /\ wkey' = wkey /\ ent' = ent /\ dat' = dat /\ wtok' = wtok
        /\ ekey' = ekey /\ erec' = erec /\ etok' = etok /\ next_token' = next_token
    BY <1>a, <1>10, HolderStep DEF InCount, At, records, entities
  <2>2. /\ EntryFor(z, o) /\ ent[o] = r.entity
        /\ dat[o] = <<r.wrapper, r.entity, r.token>> /\ wtok[o] = r.token
    BY <1>w, <2>1 DEF InDuty
  <2>3. /\ EntryFor(th[t].entry, th[t].slot)' /\ (wtok[th[t].slot] = th[t].token)'
        /\ (ent[th[t].slot] = th[t].entity)'
        /\ (dat[th[t].slot] = <<th[t].wrapper, th[t].entity, th[t].token>>)'
    BY <2>1, <2>2 DEF EntryFor, Kept
  <2>5. q.pc \in InLabels \ {"in_token"} /\ q.pc \notin IndexLabels \cup {"in_token", "ix_publish"}
    BY <2>1 DEF InLabels, IndexLabels, StampLabels
  <2>6. InDuty(th[t])'
    BY <1>s, <2>1, <2>3, <2>5 DEF InDuty, Kept
  <2> QED
    BY <1>j, <2>5, <2>6
<1>11. CASE InPublish(t)
  BY <1>a, <1>z, <1>11, HolderStep
<1>12. CASE InUndo(t)
  <2>1. CASE \/ ClearPayload(t, "in_undo", "in_undo_token")
             \/ ClearToken(t, "in_undo_token", "in_bury")
    <3>1. /\ r.pc \in {"in_undo", "in_undo_token"} /\ q.pc \in {"in_undo_token", "in_bury"}
          /\ Kept(q, r) /\ wkey' = wkey /\ next_token' = next_token
      BY <1>a, <2>1, HolderStep DEF ClearPayload, ClearToken, At
    <3>2. /\ q.pc \in InLabels \ {"in_token"} /\ r.pc # "in_token"
          /\ q.pc \notin IndexLabels \cup {"in_token", "ix_publish"}
      BY <3>1 DEF InLabels, IndexLabels, StampLabels
    <3>3. InDuty(th[t])'
      BY <1>s, <3>1, <3>2 DEF InDuty, Kept
    <3> QED
      BY <1>j, <3>2, <3>3
  <2>2. CASE Bury(t, "in_bury")
    BY <1>a, <1>z, <2>2, HolderStep
  <2> QED
    BY <1>12, <2>1, <2>2 DEF InUndo
<1> QED
  BY <1>1, <1>2, <1>3, <1>4, <1>5, <1>6, <1>7, <1>8, <1>9, <1>10, <1>11, <1>12 DEF Insert

LEMMA DutyReclaim ==
  ASSUME Paths, Solo, Books, TokensPast, NEW t \in Threads, Duty(t), Reclaim(t)
  PROVE  Duty(t)'
<1> DEFINE r == th[t]
           q == th'[t]
           o == r.slot
           z == r.entry
<1>a. /\ Typed /\ r \in Locals /\ Sane(r) /\ o \in Slots /\ z \in Slots /\ r.token \in Nat
      /\ r.probe \in Nat
      /\ wkey \in [Slots -> WrapperKeys] /\ ekey \in [Slots -> EntityKeys]
      /\ ent \in [Slots -> {0} \cup Entities] /\ dat \in [Slots -> Data]
      /\ wtok \in [Slots -> Tokens] /\ erec \in [Slots -> 0 .. Capacity]
      /\ etok \in [Slots -> Tokens] /\ next_token \in Nat
      /\ Custody
  BY NumbersFact DEF Paths, Custody, Typed, TypeOK, Locals, Tokens
<1>p. r.pc \in RmLabels
  BY DEF Reclaim, RmClaim, RmCheck, RxProbe, RxClaim, RxCheck, RxBury, RmFinish, RmCount,
         ClearPayload, ClearToken, Bury, At, RmLabels, RxLabels
<1>w. r.wrapper \in Wrappers /\ Mutating(t) /\ RmDuty(r)
  BY <1>a, <1>p, MutatingFacts DEF Sane, Duty, WrapperOps
<1>i. (th[t].pc \in {"idle", "hit"} \/ th[t].op \in {"none", "find_entity"} => Duty(t))'
  BY DutyIs, PTL
<1>j. (th[t].pc \in RmLabels /\ RmDuty(th[t]) => Duty(t))'
  BY DutyIs, PTL
<1>z. q.pc = "idle" => Duty(t)'
  BY <1>i
<1>1. CASE RmClaim(t)
  <2>1. CASE wkey[o] = r.wrapper
    <3>1. /\ wkey' = [wkey EXCEPT ![o] = RECLAIMING] /\ q.pc = "rm_check" /\ Kept(q, r)
          /\ ent' = ent /\ dat' = dat /\ wtok' = wtok
          /\ ekey' = ekey /\ erec' = erec /\ etok' = etok
      BY <1>a, <1>1, <2>1, HolderStep DEF RmClaim, entities
    <3>2. NoWrapper(th[t].wrapper)'
      <4>1. RECLAIMING # r.wrapper
        BY <1>w, BusyFacts
      <4>2. \A s \in Slots : s # o => wkey[s] # r.wrapper
        BY <1>a, <1>w, <2>1 DEF Books, WrappersOnce, Pub
      <4> QED
        BY <1>a, <3>1, <4>1, <4>2 DEF NoWrapper, Kept
    <3>3. Whole(th[t].slot, th[t].wrapper)'
      <4>1. Whole(o, r.wrapper)
        BY <1>a, <1>w, <2>1 DEF Books, RecordsWhole, Pub
      <4> QED
        BY <3>1, <4>1 DEF Whole, EntryFor, Kept
    <3>4. RmDuty(th[t])'
      BY <3>1, <3>2, <3>3 DEF RmDuty, RxLabels
    <3> QED
      BY <1>j, <3>1, <3>4 DEF RmLabels
  <2>2. CASE wkey[o] # r.wrapper
    BY <1>a, <1>1, <1>z, <2>2, HolderStep
  <2> QED
    BY <2>1, <2>2
<1>2. CASE RmCheck(t)
  <2>p. r.pc = "rm_check" /\ Whole(o, r.wrapper)
    BY <1>2, <1>w DEF RmCheck, At, RmDuty
  <2>1. CASE StillOwned(r)
    <3>1. /\ Goto(t, [Start(r, "rx_probe") EXCEPT !.entity = ent[o]])
          /\ ent' = ent /\ wtok' = wtok
          /\ ekey' = ekey /\ erec' = erec /\ etok' = etok
      BY <1>2, <2>1 DEF RmCheck, entities
    <3>2. /\ Start(r, "rx_probe") \in Locals
          /\ Start(r, "rx_probe").pc = "rx_probe" /\ Same(Start(r, "rx_probe"), r)
          /\ Start(r, "rx_probe").probe = 0
      <4>1. "rx_probe" \in Labels /\ r \in Locals
        BY <1>a DEF Labels, SlotLabels
      <4> QED
        BY <4>1, StartShape
    <3> DEFINE v == [Start(r, "rx_probe") EXCEPT !.entity = ent[o]]
    <3>3. v.pc = "rx_probe" /\ v.entity = ent[o] /\ v.slot = o /\ v.token = r.token /\ v.probe = 0
      BY <3>2 DEF Locals, Same, Kept
    <3>4. q = v
      BY <1>a, <3>1 DEF Goto, Typed, TypeOK
    <3>5. q.pc = "rx_probe" /\ q.entity = ent[o] /\ q.slot = o /\ q.token = r.token /\ q.probe = 0
      BY <3>3, <3>4
    <3>6. wtok[o] = r.token /\ r.token # 0
      BY <2>1, <2>p DEF StillOwned, Whole, RESERVED_MAX, RECLAIMING
    <3>7. \E x \in Slots : EntryFor(x, th[t].slot)'
      BY <2>p, <3>1, <3>5 DEF Whole, EntryFor
    <3>8. 0 < Probes
      BY SizeAssumption
    <3>9. RmDuty(th[t])'
      BY <3>1, <3>5, <3>6, <3>7, <3>8 DEF RmDuty
    <3> QED
      BY <1>j, <3>5, <3>9 DEF RmLabels, RxLabels
  <2>2. CASE ~StillOwned(r)
    BY <1>a, <1>2, <1>z, <2>2, HolderStep
  <2> QED
    BY <2>1, <2>2
<1>3. CASE RxProbe(t)
  <2>p. /\ r.pc = "rx_probe" /\ ent' = ent /\ wtok' = wtok
        /\ ekey' = ekey /\ erec' = erec /\ etok' = etok
    BY <1>3 DEF RxProbe, At, records, entities
  <2>d. /\ wtok[o] = r.token /\ ent[o] = r.entity /\ r.token # 0
        /\ \E x \in Slots : EntryFor(x, o)
    BY <1>w, <2>p DEF RmDuty, RxLabels
  <2>1. CASE /\ q.pc = "rx_claim" /\ q.token = r.token
             /\ q.slot = o /\ q.entity = r.entity
             /\ EntryFor(q.entry, o)
    <3>1. EntryFor(th[t].entry, th[t].slot)'
      BY <2>p, <2>1 DEF EntryFor
    <3>2. RmDuty(th[t])'
      BY <2>p, <2>d, <2>1, <3>1 DEF RmDuty
    <3> QED
      BY <1>j, <2>1, <3>2 DEF RmLabels, RxLabels
  <2>2. CASE /\ q.pc = "rx_probe" /\ Kept(q, r)
             /\ q.probe = r.probe + 1 /\ q.probe < Probes
             /\ \A i \in 0 .. r.probe : ekey[SlotOf(r.entity, i)] # r.entity
    <3>1. \E x \in Slots : EntryFor(x, th[t].slot)'
      BY <2>p, <2>d, <2>2 DEF EntryFor, Kept
    <3>2. q.probe - 1 = r.probe
      BY <1>a, <2>2
    <3>3. \A i \in 0 .. q.probe - 1 : ekey'[SlotOf(q.entity, i)] # q.entity
      BY <2>p, <2>2, <3>2 DEF Kept
    <3>4. RmDuty(th[t])'
      BY <2>p, <2>d, <2>2, <3>1, <3>3 DEF RmDuty, Kept, SlotOf
    <3> QED
      BY <1>j, <2>2, <3>4 DEF RmLabels, RxLabels
  <2> QED
    BY <1>3, <1>w, <2>1, <2>2, RxFound
<1>4. CASE RxClaim(t)
  <2>p. /\ r.pc = "rx_claim" /\ EntryFor(z, o) /\ ent[o] = r.entity
        /\ wtok[o] = r.token /\ r.token # 0
    BY <1>4, <1>w DEF RxClaim, At, RmDuty, RxLabels
  <2>1. /\ q.pc = "rx_check" /\ Kept(q, r)
        /\ ent' = ent /\ wtok' = wtok /\ erec' = erec /\ etok' = etok
    BY <1>a, <1>4, <2>p, HolderStep DEF RxClaim, EntryFor, records
  <2>2. RmDuty(th[t])'
    BY <2>p, <2>1 DEF RmDuty, EntryFor, Kept
  <2> QED
    BY <1>j, <2>1, <2>2 DEF RmLabels, RxLabels
<1>5. CASE RxCheck(t)
  <2>p. /\ r.pc = "rx_check" /\ erec[z] = o + 1 /\ etok[z] = r.token
        /\ wtok[o] = r.token /\ r.token # 0
    BY <1>5, <1>w DEF RxCheck, At, RmDuty, RxLabels
  <2>1. /\ q.pc = "rx_bury" /\ Kept(q, r)
        /\ etok' = [etok EXCEPT ![z] = 0] /\ wtok' = wtok
    BY <1>a, <1>5, <2>p, HolderStep DEF RxCheck, records
  <2>2. Past(r.token, IndexLabels)
    BY <1>a, <2>p DEF TokensPast
  <2>3. Past(r.token, IndexLabels) => \A k : k = r.token => Past(k, IndexLabels)'
    <3>1. \A k \in Nat : Past(k, IndexLabels) => Past(k, IndexLabels)'
      BY <1>a, <1>5, PastStep DEF Step, Reclaim
    <3> QED
      BY <1>a, <3>1
  <2>4. \A x \in Slots : etok'[x] # r.token
    BY <1>a, <2>p, <2>1 DEF TokensPast
  <2>5. Dropped(th[t].token)'
    BY <2>1, <2>2, <2>3, <2>4 DEF Dropped, Past, Kept
  <2>6. RmDuty(th[t])'
    BY <2>p, <2>1, <2>5 DEF RmDuty, Kept
  <2> QED
    BY <1>j, <2>1, <2>6 DEF RmLabels, RxLabels
<1>6. CASE RxBury(t)
  <2>p. /\ r.pc = "rx_bury" /\ wtok[o] = r.token /\ Dropped(r.token)
        /\ wtok' = wtok /\ etok' = etok
    BY <1>6, <1>w DEF RxBury, At, RmDuty, RxLabels, records
  <2>1. q.pc = "rm_clear" /\ Kept(q, r)
    BY <1>a, <1>6, HolderStep
  <2>2. Past(r.token, IndexLabels) => \A k : k = r.token => Past(k, IndexLabels)'
    <3>1. \A k \in Nat : Past(k, IndexLabels) => Past(k, IndexLabels)'
      BY <1>a, <1>6, PastStep DEF Step, Reclaim
    <3> QED
      BY <1>a, <3>1
  <2>3. Dropped(th[t].token)'
    BY <2>p, <2>1, <2>2 DEF Dropped, Past, Kept
  <2>4. RmDuty(th[t])'
    BY <2>p, <2>1, <2>3 DEF RmDuty, RxLabels, Kept
  <2> QED
    BY <1>j, <2>1, <2>4 DEF RmLabels
<1>7. CASE RmFinish(t)
  <2>1. q.pc \in {"rm_clear_token", "rm_count", "rm_bury", "idle"}
    BY <1>a, <1>7, HolderStep DEF RmFinish
  <2>2. CASE q.pc = "idle"
    BY <1>z, <2>2
  <2>3. CASE q.pc \in {"rm_clear_token", "rm_count", "rm_bury"}
    <3>1. RmDuty(th[t])'
      BY <2>3 DEF RmDuty, RxLabels
    <3> QED
      BY <1>j, <2>3, <3>1 DEF RmLabels
  <2> QED
    BY <2>1, <2>2, <2>3
<1> QED
  BY <1>1, <1>2, <1>3, <1>4, <1>5, <1>6, <1>7 DEF Reclaim

LEMMA DutyStep ==
  ASSUME Paths, Solo, Books, TokensPast, serialized, NEW t \in Threads, Call(t) \/ Step(t),
         \A u \in Threads : Duty(u)
  PROVE  \A u \in Threads : Duty(u)'
<1>a. Typed
  BY DEF Paths, Custody
<1>1. Duty(t)'
  <2>1. CASE Return(t)
    <3>1. (th[t].pc \in {"idle", "hit"} \/ th[t].op \in {"none", "find_entity"} => Duty(t))'
      BY DutyIs, PTL
    <3>2. th'[t] = Idle
      BY <1>a, <2>1 DEF Return, Goto, Typed, TypeOK
    <3> QED
      BY <3>1, <3>2, IdleShape
  <2> QED
    BY <1>a, <2>1, DutyCall, DutyFindWrapper, DutyFindEntity, DutyInsert, DutyReclaim DEF Step
<1>2. ASSUME NEW u \in Threads, u # t
      PROVE  Duty(u)'
  BY <1>a, <1>2, DutyOthers
<1> QED
  BY <1>1, <1>2

-----------------------------------------------------------------------------
(***************************************************************************)
(* Part 3: the lookup by entity, which takes no lock.                      *)
(***************************************************************************)
ReadLabels == {"fe_copy", "fe_copy_rest", "fe_recheck_record", "fe_recheck_key",
               "fe_recheck_entry", "fe_decide", "hit"}

\* Where the reader has nothing to rely on.
LEMMA ReadingIs ==
  ASSUME NEW t \in Threads
  PROVE  th[t].op # "find_entity" \/ th[t].pc \notin ReadLabels => Reading(t)
BY DEF Reading, ReadLabels

\* A disturbed reader starts again or gives up.
LEMMA ReadAgain ==
  ASSUME NEW r \in Locals
  PROVE  /\ EntityAbsent(r).pc \notin ReadLabels
         /\ Retry(r, "fe_probe", EntityAbsent(r)).pc \notin ReadLabels
<1>1. "fe_probe" \in Labels
  BY DEF Labels
<1>2. \A l \in {"idle", "in_token", "miss", "fe_probe"} : l \notin ReadLabels
  BY DEF ReadLabels
<1>3. EntityAbsent(r).pc \notin ReadLabels
  BY <1>2, EntityAbsentShape, IdleShape
<1> QED
  BY <1>1, <1>2, <1>3, RetryShape

\* The reader's own step: each comparison adds what the next one needs.
LEMMA ReadingOwn ==
  ASSUME Typed, Books, TokensPast, NEW t \in Threads, Call(t) \/ Step(t), Reading(t)
  PROVE  Reading(t)'
<1> DEFINE r == th[t]
           q == th'[t]
           o == r.slot
           z == r.entry
<1>a. /\ r \in Locals /\ Sane(r) /\ o \in Slots /\ z \in Slots
      /\ r.snap_key \in WrapperKeys /\ r.record_key \in WrapperKeys
      /\ wkey \in [Slots -> WrapperKeys] /\ wtok \in [Slots -> Tokens]
      /\ etok \in [Slots -> Tokens]
  BY DEF Typed, TypeOK, Locals
<1>b. ASSUME NEW v, Goto(t, v)
      PROVE  q = v
  BY <1>b DEF Goto, Typed, TypeOK
<1>i. (th[t].op # "find_entity" \/ th[t].pc \notin ReadLabels => Reading(t))'
  BY ReadingIs, PTL
<1>r. ASSUME Goto(t, Retry(r, "fe_probe", EntityAbsent(r)))
      PROVE  Reading(t)'
  BY <1>a, <1>b, <1>i, <1>r, ReadAgain
<1>1. CASE Call(t)
  <2>1. q.op # "find_entity" \/ q.pc = "fe_probe"
    BY <1>1, CallShape
  <2> QED
    BY <1>i, <2>1 DEF ReadLabels
<1>2. CASE Step(t) /\ r.op # "find_entity"
  BY <1>2, <1>i, OpKept
<1>3. CASE Step(t) /\ r.op = "find_entity"
  <2>1. Return(t) \/ FindEntity(t)
    <3>1. r.pc \notin SlotLabels \cup FwLabels \cup InLabels \cup RmLabels
      BY <1>3, MutatingFacts DEF Mutating
    <3>2. ~FindWrapper(t)
      BY <3>1 DEF FindWrapper, FwProbe, FwToken, FwCopy, FwCopyRest, FwRecheck, FwDecide, At,
                  FwLabels
    <3>3. ~InToken(t) /\ ~InProbe(t)
      BY <3>1 DEF InToken, InProbe, At, InLabels
    <3>4. ~Working(t)
      BY <1>3, WorkingFacts DEF Mutating
    <3> QED
      BY <1>3, <3>2, <3>3, <3>4 DEF Working, Step
  <2>2. CASE Return(t)
    <3>1. q = Idle
      BY <1>b, <2>2 DEF Return
    <3> QED
      BY <1>i, <3>1, IdleShape
  <2>3. CASE FeProbe(t)
    <3>1. Onward(r, EntityAbsent(r)).pc \notin ReadLabels
      <4>1. r.pc \notin ReadLabels
        BY <2>3 DEF FeProbe, At, ReadLabels
      <4> QED
        BY <1>a, <4>1, ReadAgain, OnwardShape
    <3> DEFINE x == SlotOf(r.entity, r.probe)
    <3>2. [r EXCEPT !.pc = "fe_index", !.entry = x].pc \notin ReadLabels
      BY <1>a DEF Locals, ReadLabels
    <3>3. q.pc \notin ReadLabels
      BY <1>a, <1>b, <2>3, <3>1, <3>2, ReadAgain DEF FeProbe
    <3> QED
      BY <1>i, <3>3
  <2>4. CASE FeIndex(t)
    <3>1. [r EXCEPT !.pc = "fe_token", !.slot = erec[z] - 1].pc \notin ReadLabels
      BY <1>a DEF Locals, ReadLabels
    <3>2. q.pc \notin ReadLabels
      BY <1>a, <1>b, <2>4, <3>1, ReadAgain DEF FeIndex
    <3> QED
      BY <1>i, <3>2
  <2>5. CASE FeToken(t) \/ FeRecordKey(t)
    <3>1. /\ [r EXCEPT !.pc = "fe_record_key", !.token_before = etok[z]].pc \notin ReadLabels
          /\ [r EXCEPT !.pc = "fe_record_token", !.record_key = wkey[o]].pc \notin ReadLabels
      BY <1>a DEF Locals, ReadLabels
    <3>2. q.pc \notin ReadLabels
      BY <1>b, <2>5, <3>1 DEF FeToken, FeRecordKey
    <3> QED
      BY <1>i, <3>2
  <2>6. CASE FeRecordToken(t)
    <3>1. /\ [r EXCEPT !.pc = "fe_copy", !.record_token = wtok[o]].pc = "fe_copy"
          /\ [r EXCEPT !.pc = "fe_copy", !.record_token = wtok[o]].record_token = wtok[o]
      BY <1>a DEF Locals
    <3>2. q.pc = "fe_copy" /\ q.record_token = wtok[o]
      BY <1>b, <2>6, <3>1 DEF FeRecordToken
    <3>3. wtok[o] # 0 => \A k : k = wtok[o] => Past(k, StampLabels)'
      <4>1. wtok[o] # 0 => Past(wtok[o], StampLabels)
        BY <1>a DEF TokensPast
      <4>2. \A k \in Nat : Past(k, StampLabels) => Past(k, StampLabels)'
        BY PastStep
      <4>3. wtok[o] \in Nat
        <5>1. wtok[o] \in Tokens
          BY <1>a
        <5> QED
          BY <5>1, NumbersFact DEF Tokens
      <4> QED
        BY <4>1, <4>2, <4>3
    <3>4. q.record_token # 0 => Past(th[t].record_token, StampLabels)'
      BY <3>2, <3>3 DEF Past
    <3> QED
      BY <3>2, <3>4 DEF Reading
  <2>7. CASE FeCopy(t)
    <3>p. /\ r.pc = "fe_copy" /\ dat' = dat /\ wtok' = wtok
      BY <2>7 DEF FeCopy, At, records
    <3> DEFINE v == [r EXCEPT !.pc = "fe_copy_rest", !.snap_key = wkey[o], !.snap_entity = ent[o]]
    <3>1. /\ v.pc = "fe_copy_rest" /\ v.snap_key = wkey[o] /\ v.snap_entity = ent[o]
          /\ v.record_token = r.record_token /\ v.slot = o
      BY <1>a DEF Locals
    <3>2. q = v
      BY <1>b, <2>7 DEF FeCopy
    <3>3. /\ q.pc = "fe_copy_rest" /\ q.snap_key = wkey[o] /\ q.snap_entity = ent[o]
          /\ q.record_token = r.record_token /\ q.slot = o
      BY <3>1, <3>2
    <3>4. q.record_token # 0 => Past(th[t].record_token, StampLabels)'
      <4>1. r.record_token # 0 => Past(r.record_token, StampLabels)
        BY <1>3, <3>p DEF Reading
      <4>2. \A k \in Nat : Past(k, StampLabels) => Past(k, StampLabels)'
        BY PastStep
      <4>3. r.record_token \in Nat
        BY <1>a, NumbersFact DEF Tokens, Locals
      <4>4. r.record_token # 0 => \A k : k = r.record_token => Past(k, StampLabels)'
        BY <4>1, <4>2, <4>3
      <4> QED
        BY <3>3, <4>4 DEF Past
    <3>5. q.snap_key \in Wrappers /\ wtok'[q.slot] = q.record_token =>
            dat'[q.slot] = <<q.snap_key, q.snap_entity, q.record_token>>
      <4>1. Pub(o) => dat[o] = <<wkey[o], ent[o], wtok[o]>>
        BY <1>a DEF Books, RecordsWhole, Whole
      <4> QED
        BY <3>p, <3>3, <4>1 DEF Pub
    <3> QED
      BY <3>3, <3>4, <3>5 DEF Reading
  <2>8. CASE FeCopyRest(t)
    <3>p. /\ r.pc = "fe_copy_rest" /\ etok' = etok
      BY <2>8 DEF FeCopyRest, At, entities
    <3> DEFINE v == [r EXCEPT !.pc = "fe_recheck_record", !.snap_data = dat[o],
                              !.snap_token = wtok[o]]
    <3>1. /\ v.pc = "fe_recheck_record" /\ v.snap_key = r.snap_key
          /\ v.snap_entity = r.snap_entity /\ v.record_token = r.record_token
          /\ v.snap_data = dat[o] /\ v.snap_token = wtok[o]
      BY <1>a DEF Locals
    <3>2. q = v
      BY <1>b, <2>8 DEF FeCopyRest
    <3>3. /\ q.pc = "fe_recheck_record" /\ q.snap_key = r.snap_key
          /\ q.snap_entity = r.snap_entity /\ q.record_token = r.record_token
          /\ q.snap_data = dat[o] /\ q.snap_token = wtok[o]
      BY <3>1, <3>2
    <3>4. q.snap_key \in Wrappers /\ q.snap_token # 0 /\ q.snap_token = q.record_token =>
            \/ q.snap_data = <<q.snap_key, q.snap_entity, q.snap_token>>
            \/ Dropped(r.record_token)
      BY <1>3, <3>p, <3>3 DEF Reading
    <3>5. Dropped(r.record_token) /\ r.record_token # 0 =>
            \A k : k = r.record_token => Dropped(k)'
      <4>1. \A k \in Nat : k # 0 /\ Dropped(k) => Dropped(k)'
        BY DroppedStep
      <4>2. r.record_token \in Nat
        BY <1>a, NumbersFact DEF Tokens, Locals
      <4> QED
        BY <4>1, <4>2
    <3>6. q.snap_key \in Wrappers /\ q.snap_token # 0 /\ q.snap_token = q.record_token =>
            \/ q.snap_data = <<q.snap_key, q.snap_entity, q.snap_token>>
            \/ Dropped(th[t].snap_token)'
      BY <3>3, <3>4, <3>5 DEF Dropped, Past
    <3> QED
      BY <3>3, <3>6 DEF Reading
  <2>9. CASE /\ \/ FeRecheckRecord(t) \/ FeRecheckKey(t) \/ FeRecheckEntry(t)
             /\ ~Goto(t, Retry(r, "fe_probe", EntityAbsent(r)))
    <3>p. /\ \/ r.pc = "fe_recheck_record" /\ Goto(t, Finish(r, "fe_recheck_key"))
             \/ r.pc = "fe_recheck_key" /\ Goto(t, Finish(r, "fe_recheck_entry"))
             \/ r.pc = "fe_recheck_entry" /\ Goto(t, Finish(r, "fe_decide"))
          /\ r.pc = "fe_recheck_entry" => etok[z] = r.token_before
      BY <2>9 DEF FeRecheckRecord, FeRecheckKey, FeRecheckEntry, At
    <3>1. /\ r.snap_key \in Wrappers /\ r.snap_token # 0 /\ r.snap_token = r.record_token
          /\ r.token_before = r.snap_token /\ r.snap_entity = r.entity
      <4>1. CASE r.pc = "fe_recheck_record"
        <5>1. /\ r.record_token = r.token_before /\ r.record_token = r.snap_token
              /\ r.token_before > RESERVED_MAX /\ r.record_key > RESERVED_MAX
              /\ r.snap_key = r.record_key /\ r.snap_entity = r.entity
          BY <2>9, <4>1 DEF FeRecheckRecord, FeRecheckKey, FeRecheckEntry, At
        <5>2. r.snap_key \in Wrappers
          BY <1>a, <5>1 DEF WrapperKeys, RESERVED_MAX, RECLAIMING
        <5> QED
          BY <5>1, <5>2 DEF RESERVED_MAX, RECLAIMING
      <4>2. CASE r.pc \in {"fe_recheck_key", "fe_recheck_entry"}
        BY <1>3, <4>2 DEF Reading
      <4> QED
        BY <3>p, <4>1, <4>2
    <3>2. \/ r.snap_data = <<r.snap_key, r.snap_entity, r.snap_token>>
          \/ Dropped(r.snap_token)
      BY <1>3, <3>p, <3>1 DEF Reading
    <3>3. Dropped(r.snap_token) => \A k : k = r.snap_token => Dropped(k)'
      <4>1. \A k \in Nat : k # 0 /\ Dropped(k) => Dropped(k)'
        BY DroppedStep
      <4>2. r.snap_token \in Nat
        BY <1>a, NumbersFact DEF Tokens, Locals
      <4> QED
        BY <3>1, <4>1, <4>2
    <3>4. /\ \/ r.pc = "fe_recheck_record" /\ q.pc = "fe_recheck_key"
             \/ r.pc = "fe_recheck_key" /\ q.pc = "fe_recheck_entry"
             \/ r.pc = "fe_recheck_entry" /\ q.pc = "fe_decide"
          /\ q.entity = r.entity /\ q.token_before = r.token_before
          /\ q.record_token = r.record_token /\ q.snap_key = r.snap_key
          /\ q.snap_entity = r.snap_entity /\ q.snap_token = r.snap_token
          /\ q.snap_data = r.snap_data
      <4>1. {"fe_recheck_key", "fe_recheck_entry", "fe_decide"} \subseteq Labels
        BY DEF Labels
      <4> QED
        BY <1>a, <1>b, <3>p, <4>1, FinishShape DEF Same, Kept
    <3>5. \/ q.snap_data = <<q.snap_key, q.snap_entity, q.snap_token>>
          \/ Dropped(th[t].snap_token)'
      BY <3>2, <3>3, <3>4 DEF Dropped, Past
    <3>6. q.pc = "fe_decide" => q.snap_data = <<q.snap_key, q.entity, q.snap_token>>
      BY <1>a, <3>p, <3>1, <3>2, <3>4 DEF Dropped
    <3> QED
      BY <3>1, <3>4, <3>5, <3>6 DEF Reading
  <2>10. CASE FeDecide(t) /\ ~Goto(t, Retry(r, "fe_probe", EntityAbsent(r)))
    <3>1. r.pc = "fe_decide" /\ Goto(t, Finish(r, "hit"))
      BY <1>3, <2>10 DEF FeDecide, At, Result
    <3>2. /\ q.pc = "hit" /\ q.entity = r.entity /\ q.snap_key = r.snap_key
          /\ q.snap_token = r.snap_token /\ q.snap_data = r.snap_data
      <4>1. "hit" \in Labels
        BY DEF Labels
      <4> QED
        BY <1>a, <1>b, <3>1, <4>1, FinishShape DEF Same, Kept
    <3>3. r.snap_data = <<r.snap_key, r.entity, r.snap_token>>
      BY <1>3, <3>1 DEF Reading
    <3> QED
      BY <3>2, <3>3 DEF Reading
  <2> QED
    BY <1>r, <2>1, <2>2, <2>3, <2>4, <2>5, <2>6, <2>7, <2>8, <2>9, <2>10 DEF FindEntity
<1> QED
  BY <1>1, <1>2, <1>3

\* Everybody else's step: a record that carries the token the reader saw is
\* never filled again, and once cleared its token is in no index entry.
LEMMA ReadingOthers ==
  ASSUME NEW t \in Threads, NEW u \in Threads, u # t,
         Typed, Call(t) \/ Step(t), Duty(t), Reading(u)
  PROVE  Reading(u)'
<1> DEFINE r == th[u]
           o == th[u].slot
           k == r.record_token
<1>1. th'[u] = r
  BY OthersKept
<1>a. /\ r \in Locals /\ o \in Slots /\ k \in Nat /\ r.snap_token \in Nat
      /\ th[t] \in Locals /\ th[t].slot \in Slots
      /\ wtok \in [Slots -> Tokens] /\ dat \in [Slots -> Data]
  BY NumbersFact DEF Typed, TypeOK, Locals, Tokens
<1>2. /\ Past(k, StampLabels) => Past(th[u].record_token, StampLabels)'
      /\ k # 0 /\ Dropped(k) => Dropped(th[u].record_token)'
  <2>1. Past(k, StampLabels) => \A n : n = k => Past(n, StampLabels)'
    <3>1. \A n \in Nat : Past(n, StampLabels) => Past(n, StampLabels)'
      BY PastStep
    <3> QED
      BY <1>a, <3>1
  <2>2. k # 0 /\ Dropped(k) => \A n : n = k => Dropped(n)'
    <3>1. \A n \in Nat : n # 0 /\ Dropped(n) => Dropped(n)'
      BY DroppedStep
    <3> QED
      BY <1>a, <3>1
  <2> QED
    BY <1>1, <2>1, <2>2 DEF Past, Dropped
<1>3. r.snap_token # 0 /\ Dropped(r.snap_token) => Dropped(th[u].snap_token)'
  <2>1. r.snap_token # 0 /\ Dropped(r.snap_token) => \A n : n = r.snap_token => Dropped(n)'
    <3>1. \A n \in Nat : n # 0 /\ Dropped(n) => Dropped(n)'
      BY DroppedStep
    <3> QED
      BY <1>a, <3>1
  <2> QED
    BY <1>1, <2>1 DEF Past, Dropped
<1>4. /\ r.op = "find_entity" /\ r.pc = "fe_copy_rest" /\ r.snap_key \in Wrappers /\ k # 0
      /\ wtok'[o] = k
      => \/ dat'[o] = <<r.snap_key, r.snap_entity, k>>
         \/ dat'[o] = NoData /\ Dropped(k)
  <2> SUFFICES ASSUME r.op = "find_entity", r.pc = "fe_copy_rest", r.snap_key \in Wrappers,
                      k # 0, wtok'[o] = k
               PROVE  \/ dat'[o] = <<r.snap_key, r.snap_entity, k>>
                      \/ dat'[o] = NoData /\ Dropped(k)
    OBVIOUS
  <2>1. Past(k, StampLabels)
    BY DEF Reading
  <2>2. wtok[o] = k
    <3>1. CASE InStamp(t) /\ wtok' = [wtok EXCEPT ![th[t].slot] = th[t].token]
      <4>1. th[t].token # k
        BY <2>1, <3>1 DEF InStamp, At, Past, StampLabels
      <4> QED
        BY <1>a, <3>1, <4>1
    <3>2. CASE wtok' = wtok \/ wtok' = [wtok EXCEPT ![th[t].slot] = 0]
      BY <1>a, <3>2
    <3> QED
      BY <3>1, <3>2, ContentStep
  <2>3. \/ dat[o] = <<r.snap_key, r.snap_entity, k>>
        \/ dat[o] = NoData /\ Dropped(k)
    BY <2>2 DEF Reading
  <2>4. CASE InFill(t)
    <3>1. Mutating(t) /\ th[t].pc = "in_fill"
      BY <2>4, MutatingFacts DEF InFill, At, InLabels
    <3>2. wtok[th[t].slot] = 0
      BY <3>1 DEF Duty, InDuty
    <3>3. th[t].slot # o
      BY <2>2, <3>2
    <3> QED
      BY <1>a, <2>3, <2>4, <3>3 DEF InFill
  <2>5. CASE /\ th[t].pc \in {"in_undo", "rm_clear"}
             /\ dat' = [dat EXCEPT ![th[t].slot] = NoData]
    <3>1. Mutating(t)
      BY <2>5, MutatingFacts DEF InLabels, RmLabels
    <3>2. wtok[th[t].slot] = th[t].token /\ Dropped(th[t].token)
      BY <2>5, <3>1 DEF Duty, InDuty, RmDuty, RxLabels
    <3> QED
      BY <1>a, <2>2, <2>3, <2>5, <3>2
  <2>6. CASE dat' = dat
    BY <2>3, <2>6
  <2> QED
    BY <2>4, <2>5, <2>6, ContentStep
<1>5. r.op = "find_entity" =>
      /\ r.pc \in {"fe_copy", "fe_copy_rest"} /\ k # 0 => Past(th[u].record_token, StampLabels)'
      /\ r.pc = "fe_copy_rest" /\ r.snap_key \in Wrappers /\ k # 0 /\ wtok'[o] = k =>
           \/ dat'[o] = <<r.snap_key, r.snap_entity, k>>
           \/ dat'[o] = NoData /\ Dropped(th[u].record_token)'
  BY <1>2, <1>4 DEF Reading
<1>6. r.op = "find_entity" /\ r.pc \in {"fe_recheck_record", "fe_recheck_key", "fe_recheck_entry"}
      /\ r.snap_key \in Wrappers /\ r.snap_token # 0 /\ r.snap_token = k =>
        \/ r.snap_data = <<r.snap_key, r.snap_entity, r.snap_token>>
        \/ Dropped(th[u].snap_token)'
  BY <1>3 DEF Reading
<1> QED
  BY <1>1, <1>5, <1>6 DEF Reading

LEMMA ReadingStep ==
  ASSUME Typed, Books, TokensPast, NEW t \in Threads, Call(t) \/ Step(t),
         \A u \in Threads : Duty(u), \A u \in Threads : Reading(u)
  PROVE  \A u \in Threads : Reading(u)'
<1>1. Reading(t)'
  BY ReadingOwn
<1>2. ASSUME NEW u \in Threads, u # t
      PROVE  Reading(u)'
  BY <1>2, ReadingOthers
<1> QED
  BY <1>1, <1>2

-----------------------------------------------------------------------------
(***************************************************************************)
(* The whole: the ledger is kept, and what it says of lookups and of the   *)
(* tables at rest.                                                         *)
(***************************************************************************)
LEMMA InitLedger == Init => Ledger
<1> SUFFICES ASSUME Init
             PROVE  Ledger
  OBVIOUS
<1>1. /\ \A t \in Threads : th[t].pc = "idle" /\ th[t].op = "none"
      /\ \A s \in Slots : wkey[s] = EMPTY /\ ent[s] = 0 /\ wtok[s] = 0
      /\ \A x \in Slots : ekey[x] = EMPTY /\ etok[x] = 0
      /\ next_token = RESERVED_MAX /\ active_count = 0
  BY IdleShape DEF Init
<1>2. \A t \in Threads : ~Mutating(t)
  BY <1>1 DEF Mutating
<1>3. EMPTY \notin Wrappers \cup Entities /\ ~Busy(EMPTY)
  BY BusyFacts DEF Free, Busy, EMPTY, CLAIMED, RECLAIMING
<1>4. Published = {}
  BY <1>1, <1>3 DEF Published, Pub
<1>5. CountRight
  <2>1. "idle" \notin CountedLabels
    BY DEF CountedLabels
  <2> QED
    BY <1>1, <1>4, <2>1, FS_EmptySet DEF CountRight
<1>6. Books
  BY <1>1, <1>3, <1>5 DEF Books, WrappersOnce, EntitiesOnce, EntriesOnce, RecordsWhole,
                         EntriesPoint, BusyHeld, Pub, Listed
<1>7. TokensPast
  BY <1>1 DEF TokensPast, RESERVED_MAX, RECLAIMING
<1>8. \A t \in Threads : Duty(t) /\ Reading(t)
  BY <1>1, <1>2 DEF Duty, Reading
<1> QED
  BY <1>2, <1>6, <1>7, <1>8 DEF Ledger, Solo

LEMMA StillLedger ==
  ASSUME Ledger, UNCHANGED vars
  PROVE  Ledger'
<1> USE DEF vars
<1>1. Solo => Solo'
  BY DEF Solo, Mutating
<1>2. Books => Books'
  BY DEF Books, WrappersOnce, EntitiesOnce, EntriesOnce, RecordsWhole, Whole, EntriesPoint,
         BusyHeld, CountRight, Published, EntryFor, Pub, Listed, HoldsSlot, HoldsEntry
<1>3. TokensPast => TokensPast'
  BY DEF TokensPast, Past
<1>4. ASSUME NEW t \in Threads
      PROVE  (Duty(t) => Duty(t)') /\ (Reading(t) => Reading(t)')
  <2>1. FwDuty(th[t]) => FwDuty(th[t])'
    BY DEF FwDuty, NoWrapper, SlotOf
  <2>2. FeDuty(th[t]) => FeDuty(th[t])'
    BY DEF FeDuty, NoWrapper, SlotOf, EntryFor, Pub
  <2>3. InDuty(th[t]) => InDuty(th[t])'
    BY DEF InDuty, NoWrapper, NoEntry, NoRecord, EntryFor, Dropped, Past
  <2>4. RmDuty(th[t]) => RmDuty(th[t])'
    BY DEF RmDuty, NoWrapper, Whole, SlotOf, EntryFor, Dropped, Past
  <2>5. Reading(t) => Reading(t)'
    BY DEF Reading, Dropped, Past
  <2> QED
    BY <2>1, <2>2, <2>3, <2>4, <2>5 DEF Duty, Mutating
<1> QED
  BY <1>1, <1>2, <1>3, <1>4 DEF Ledger

LEMMA NextLedger == Paths /\ Ledger /\ [Next]_vars => Ledger'
<1> SUFFICES ASSUME Paths, Ledger, [Next]_vars
             PROVE  Ledger'
  OBVIOUS
<1>1. CASE UNCHANGED vars
  BY <1>1, StillLedger
<1>2. CASE Next /\ serialized
  <2>1. PICK t \in Threads : Call(t) \/ Step(t)
    BY <1>2 DEF Next
  <2>2. /\ Custody /\ Typed /\ Solo /\ Books /\ TokensPast
        /\ \A u \in Threads : Duty(u) /\ Reading(u)
    BY <1>2 DEF Ledger, Paths, Custody
  <2>3. Custody'
    BY NextCustody DEF Paths
  <2>4. Solo'
    BY <1>2, <2>1, <2>2, SoloStep
  <2>5. Books'
    BY <2>1, <2>2, <2>3, BooksStep
  <2>6. TokensPast'
    BY <2>1, <2>2, TokensStep
  <2>7. \A u \in Threads : Duty(u)'
    BY <1>2, <2>1, <2>2, DutyStep
  <2>8. \A u \in Threads : Reading(u)'
    BY <2>1, <2>2, ReadingStep
  <2> QED
    BY <2>4, <2>5, <2>6, <2>7, <2>8 DEF Ledger
<1>3. CASE Next /\ ~serialized
  BY <1>3 DEF Next, Ledger
<1> QED
  BY <1>1, <1>2, <1>3

LEMMA AlwaysLedger == Spec => []Ledger
BY InitLedger, NextLedger, AlwaysPaths, PTL DEF Spec

\* While the mutators take turns under ownership_lock, a lookup by entity that
\* takes no lock returns one insertion's record, whole, and the lookup by
\* wrapper under the lock never says "not owned" of a published one.
THEOREM LookupsAreSound == Spec => []LookupsSound
<1>1. Ledger => LookupsSound
  <2> SUFFICES ASSUME Ledger, serialized, NEW t \in Threads
               PROVE  /\ th[t].pc = "hit" /\ th[t].op = "find_entity" =>
                           th[t].snap_data = <<th[t].snap_key, th[t].entity, th[t].snap_token>>
                      /\ th[t].pc = "miss" /\ th[t].op = "find_wrapper" => NoWrapper(th[t].wrapper)
    BY DEF LookupsSound, NoWrapper
  <2>1. Reading(t) /\ Duty(t)
    BY DEF Ledger
  <2> QED
    BY <2>1 DEF Reading, Duty, FwDuty, Mutating
<1> QED
  BY <1>1, AlwaysLedger, PTL

\* Between critical sections a wrapper and an entity have at most one record
\* each, records and index entries describe each other, and active_count
\* counts the records.
THEOREM OwnersAgreeAtRest == Spec => []OwnersAgree
<1>1. Paths /\ Ledger => OwnersAgree
  <2> SUFFICES ASSUME Paths, Ledger, serialized, AtRest
               PROVE  OwnersAgree
    BY DEF OwnersAgree
  <2>1. Books /\ Typed
    BY DEF Ledger, Paths, Custody
  <2>2. \A t \in Threads : th[t].pc \notin SlotLabels
    BY <2>1, MutatingFacts DEF AtRest
  <2>3. \A t \in Threads : th[t].pc \notin InHandLabels /\ th[t].pc \notin CountedLabels
    BY <2>2 DEF InHandLabels, CountedLabels, SlotLabels
  <2>4. \A s, r \in Slots : s # r /\ wkey[s] \in Wrappers => wkey[s] # wkey[r] /\ ent[s] # ent[r]
    <3>1. \A s \in Slots : wkey[s] \in Wrappers => ent[s] # 0
      <4>1. \A s \in Slots : wkey[s] \in Wrappers => ent[s] \in Entities
        BY <2>1 DEF Books, RecordsWhole, Whole, Pub
      <4>2. 0 \notin Entities
        BY NumbersFact
      <4> QED
        BY <4>1, <4>2
    <3> QED
      BY <2>1, <3>1 DEF Books, WrappersOnce, EntitiesOnce, Pub
  <2>5. \A s \in Slots : wkey[s] \in Wrappers =>
          /\ dat[s] = <<wkey[s], ent[s], wtok[s]>>
          /\ \E x \in Slots : ekey[x] = ent[s] /\ erec[x] = s + 1 /\ etok[x] = wtok[s]
    BY <2>1 DEF Books, RecordsWhole, Whole, Pub, EntryFor
  <2>6. ASSUME NEW x \in Slots, ekey[x] \in Entities
        PROVE  /\ erec[x] # 0
               /\ wkey[erec[x] - 1] \in Wrappers
               /\ ent[erec[x] - 1] = ekey[x]
               /\ wtok[erec[x] - 1] = etok[x]
    <3>1. PICK s \in Slots : EntryFor(x, s) /\ Pub(s)
      BY <2>1, <2>3, <2>6 DEF Books, EntriesPoint, Listed
    <3>2. s \in Nat /\ erec[x] = s + 1
      BY <3>1, NumbersFact DEF EntryFor
    <3>3. erec[x] # 0 /\ erec[x] - 1 = s
      BY <3>2
    <3> QED
      BY <3>1, <3>3 DEF EntryFor, Pub
  <2>7. active_count = Cardinality({s \in Slots : wkey[s] \in Wrappers})
    BY <2>1, <2>3 DEF Books, CountRight, Published, Pub
  <2> QED
    BY <2>4, <2>5, <2>6, <2>7 DEF OwnersAgree
<1> QED
  BY <1>1, AlwaysPaths, AlwaysLedger, PTL
=============================================================================
