--------------------------- MODULE OwnershipTable ---------------------------
(***************************************************************************)
(* The ownership table of universal_pipeline.c: which generated entity the *)
(* mod owns through which wrapper, and what it must restore.  Two open     *)
(* addressing hash tables without a lock of their own:                     *)
(*                                                                         *)
(*   records   slot -> wrapper_key, entity_key, token and the payload      *)
(*             (owners, original and scaled distance, flags),              *)
(*   entities  slot -> entity_key, record_index_plus_one and token.        *)
(*                                                                         *)
(* One action is one access to shared memory, so that threads interleave   *)
(* where the machine interleaves them.  Steps on a slot that only its      *)
(* claimant can write are merged when they touch the same fields.          *)
(*                                                                         *)
(* The keys 0..3 are reserved as in universal_pipeline.h.  The payload of  *)
(* a record is abstracted to the arguments of the insertion that wrote it, *)
(* so a mixed-up payload is visible.  Diagnostic counters other than       *)
(* active_count are left out.                                              *)
(***************************************************************************)
EXTENDS Integers, FiniteSets

CONSTANTS
  Threads,     \* threads that call into the table
  Wrappers,    \* wrapper addresses, all above RESERVED_MAX
  Entities,    \* entity addresses, all above RESERVED_MAX
  Capacity,    \* GU_OWNERSHIP_CAPACITY
  Probes,      \* GU_OWNERSHIP_PROBES: the probe window
  Retries,     \* GU_OWNERSHIP_RETRIES: restarts of a disturbed probe
  MaxToken,    \* the last token: 0xFFFFFFFF in the code
  BareTokens,  \* bound: the last one issued by the bare table
  Hash,        \* gu_hash_pointer(key) & GU_OWNERSHIP_MASK
  BareOperations,  \* what threads perform on the bare table
  LockedOperations \* what they perform where mutators run under
                   \* ownership_lock, as in universal_behavior.c: it inserts
                   \* only what it has looked up (a commit)

EMPTY        == 0
TOMBSTONE    == 1
CLAIMED      == 2
RECLAIMING   == 3
RESERVED_MAX == RECLAIMING

Keys  == Wrappers \cup Entities
Slots == 0 .. Capacity - 1

ASSUME KeyAssumption ==
  /\ Wrappers \subseteq Nat
  /\ Entities \subseteq Nat
  /\ \A k \in Keys : k > RESERVED_MAX
ASSUME SizeAssumption ==
  /\ Capacity \in Nat \ {0}
  /\ Probes \in 1 .. Capacity
  /\ Retries \in Nat \ {0}
  /\ MaxToken \in Nat /\ BareTokens \in Nat
  /\ MaxToken >= RESERVED_MAX
ASSUME HashAssumption == Hash \in [Keys -> Slots]
OperationNames ==
  {"insert", "commit", "remove", "take", "find_wrapper", "find_entity"}
ASSUME OperationAssumption ==
  /\ BareOperations \subseteq OperationNames
  /\ LockedOperations \subseteq OperationNames \ {"insert"}

VARIABLES
  wkey, ent, dat, wtok,   \* table->records: wrapper_key, entity_key, payload, token
  ekey, erec, etok,       \* table->entities: entity_key, record_index_plus_one, token
  next_token,             \* table->next_token
  active_count,           \* table->active_count
  th,                     \* per thread: where it is and its locals
  serialized              \* whether mutators hold ownership_lock

records  == <<wkey, ent, dat, wtok>>
entities == <<ekey, erec, etok>>
vars     == <<wkey, ent, dat, wtok, ekey, erec, etok,
              next_token, active_count, th, serialized>>

NoData == <<0, 0, 0>>

Idle == [pc |-> "idle", op |-> "none", wrapper |-> 0, entity |-> 0, token |-> 0,
         attempt |-> 0, probe |-> 0, slot |-> 0, entry |-> 0,
         token_before |-> 0, record_key |-> 0, record_token |-> 0,
         snap_key |-> 0, snap_entity |-> 0, snap_token |-> 0, snap_data |-> NoData]

(***************************************************************************)
(* Probe positions.  A disturbed probe starts again, at most Retries times *)
(* in all; an undisturbed one moves on until the window ends.              *)
(***************************************************************************)
SlotOf(key, probe) == (Hash[key] + probe) % Capacity

\* What a lookup read goes out of scope with the iteration that read it.
Forget(r) ==
  [r EXCEPT !.token_before = 0, !.record_key = 0, !.record_token = 0,
            !.snap_key = 0, !.snap_entity = 0, !.snap_token = 0, !.snap_data = NoData]

Start(r, label) == [Forget(r) EXCEPT !.pc = label, !.attempt = 0, !.probe = 0]

Retry(r, label, exhausted) ==
  IF r.attempt + 1 < Retries
  THEN [Forget(r) EXCEPT !.pc = label, !.attempt = @ + 1, !.probe = 0]
  ELSE exhausted

Onward(r, exhausted) ==
  IF r.probe + 1 < Probes THEN [r EXCEPT !.probe = @ + 1] ELSE exhausted

Finish(r, label) == [r EXCEPT !.pc = label]

\* A lookup shows its result before it returns; a mutator returns at once.
Result(r, label) ==
  IF r.op \in {"find_wrapper", "find_entity"} THEN Finish(r, label) ELSE Idle

Goto(t, r) == th' = [th EXCEPT ![t] = r]
At(t, label) == th[t].pc = label

Busy(key) == key \in {CLAIMED, RECLAIMING}
Free(key) == key \in {EMPTY, TOMBSTONE}

Init ==
  /\ wkey = [s \in Slots |-> EMPTY]
  /\ ent  = [s \in Slots |-> 0]
  /\ dat  = [s \in Slots |-> NoData]
  /\ wtok = [s \in Slots |-> 0]
  /\ ekey = [s \in Slots |-> EMPTY]
  /\ erec = [s \in Slots |-> 0]
  /\ etok = [s \in Slots |-> 0]
  /\ next_token = RESERVED_MAX
  /\ active_count = 0
  /\ th = [t \in Threads |-> Idle]
  /\ serialized \in BOOLEAN

-----------------------------------------------------------------------------
(***************************************************************************)
(* Calls.  Under ownership_lock a commit looks both keys up before it      *)
(* inserts; the lookup of gu_extras.c (find_entity) takes no lock.         *)
(* A removal passes what an earlier insertion returned, stale or not.      *)
(***************************************************************************)
Mutating(t) == th[t].op \notin {"none", "find_entity"}

Admitted(t, op) ==
  /\ op \in IF serialized THEN LockedOperations ELSE BareOperations
  /\ th[t] = Idle
  /\ serialized /\ op # "find_entity" => \A u \in Threads \ {t} : ~Mutating(u)

Enter(t, op, w, e, k, label) ==
  /\ Admitted(t, op)
  /\ Goto(t, [Idle EXCEPT !.pc = label, !.op = op,
                          !.wrapper = w, !.entity = e, !.token = k])
  /\ UNCHANGED <<records, entities, next_token, active_count>>

CallInsert(t) ==
  \E w \in Wrappers, e \in Entities : Enter(t, "insert", w, e, 0, "in_token")
CallCommit(t) ==
  \E w \in Wrappers, e \in Entities : Enter(t, "commit", w, e, 0, "fw_probe")
CallRemove(t) ==
  \E s \in Slots : /\ wkey[s] \in Wrappers
                   /\ Enter(t, "remove", wkey[s], ent[s], wtok[s], "fw_probe")
CallTake(t) ==
  \E w \in Wrappers : Enter(t, "take", w, 0, 0, "fw_probe")
CallFindWrapper(t) ==
  \E w \in Wrappers : Enter(t, "find_wrapper", w, 0, 0, "fw_probe")
CallFindEntity(t) ==
  \E e \in Entities : Enter(t, "find_entity", 0, e, 0, "fe_probe")

Return(t) ==
  /\ th[t].pc \in {"hit", "miss"}
  /\ Goto(t, Idle)
  /\ UNCHANGED <<records, entities, next_token, active_count>>

-----------------------------------------------------------------------------
(***************************************************************************)
(* gu_ownership_find_wrapper: key, token, copy of the record, token, key.  *)
(* The copy runs through the record's fields in memory order.              *)
(***************************************************************************)
WrapperAbsent(r) ==
  IF r.op = "commit" THEN Start(r, "fe_probe") ELSE Result(Forget(r), "miss")

WrapperFound(r) ==
  CASE r.op = "take"   -> [Start(r, "rm_claim") EXCEPT !.token = r.snap_token]
    [] r.op = "remove" -> IF r.snap_entity = r.entity /\ r.snap_token = r.token
                          THEN Start(r, "rm_claim") ELSE Result(Forget(r), "miss")
    [] OTHER           -> Result(r, "hit")

FwProbe(t) ==
  /\ At(t, "fw_probe")
  /\ LET r == th[t]
         s == SlotOf(r.wrapper, r.probe)
     IN  Goto(t, IF wkey[s] = r.wrapper THEN [r EXCEPT !.pc = "fw_token", !.slot = s]
                 ELSE IF Busy(wkey[s]) THEN Retry(r, "fw_probe", WrapperAbsent(r))
                 ELSE IF wkey[s] = EMPTY THEN WrapperAbsent(r)
                 ELSE Onward(r, WrapperAbsent(r)))
  /\ UNCHANGED <<records, entities, next_token, active_count>>

FwToken(t) ==
  /\ At(t, "fw_token")
  /\ Goto(t, [th[t] EXCEPT !.pc = "fw_copy", !.token_before = wtok[th[t].slot]])
  /\ UNCHANGED <<records, entities, next_token, active_count>>

FwCopy(t) ==
  /\ At(t, "fw_copy")
  /\ Goto(t, [th[t] EXCEPT !.pc = "fw_copy_rest", !.snap_entity = ent[th[t].slot]])
  /\ UNCHANGED <<records, entities, next_token, active_count>>

FwCopyRest(t) ==
  /\ At(t, "fw_copy_rest")
  /\ Goto(t, [th[t] EXCEPT !.pc = "fw_recheck", !.snap_data = dat[th[t].slot],
                           !.snap_token = wtok[th[t].slot]])
  /\ UNCHANGED <<records, entities, next_token, active_count>>

FwRecheck(t) ==
  /\ At(t, "fw_recheck")
  /\ LET r == th[t]
     IN  Goto(t, IF /\ wtok[r.slot] = r.token_before
                    /\ r.token_before = r.snap_token
                    /\ r.token_before > RESERVED_MAX
                    /\ r.snap_entity > RESERVED_MAX
                 THEN Finish(r, "fw_decide")
                 ELSE Retry(r, "fw_probe", WrapperAbsent(r)))
  /\ UNCHANGED <<records, entities, next_token, active_count>>

FwDecide(t) ==
  /\ At(t, "fw_decide")
  /\ LET r == th[t]
     IN  Goto(t, IF wkey[r.slot] = r.wrapper THEN WrapperFound(r)
                 ELSE Retry(r, "fw_probe", WrapperAbsent(r)))
  /\ UNCHANGED <<records, entities, next_token, active_count>>

-----------------------------------------------------------------------------
(***************************************************************************)
(* gu_ownership_find_entity: index entry, record, record, index entry.     *)
(***************************************************************************)
EntityAbsent(r) ==
  IF r.op = "commit" THEN Start(r, "in_token") ELSE Result(Forget(r), "miss")

FeProbe(t) ==
  /\ At(t, "fe_probe")
  /\ LET r == th[t]
         x == SlotOf(r.entity, r.probe)
     IN  Goto(t, IF ekey[x] = r.entity THEN [r EXCEPT !.pc = "fe_index", !.entry = x]
                 ELSE IF Busy(ekey[x]) THEN Retry(r, "fe_probe", EntityAbsent(r))
                 ELSE IF ekey[x] = EMPTY THEN EntityAbsent(r)
                 ELSE Onward(r, EntityAbsent(r)))
  /\ UNCHANGED <<records, entities, next_token, active_count>>

FeIndex(t) ==
  /\ At(t, "fe_index")
  /\ LET r == th[t]
         n == erec[r.entry]
     IN  Goto(t, IF n = 0 THEN Retry(r, "fe_probe", EntityAbsent(r))
                 ELSE [r EXCEPT !.pc = "fe_token", !.slot = n - 1])
  /\ UNCHANGED <<records, entities, next_token, active_count>>

FeToken(t) ==
  /\ At(t, "fe_token")
  /\ Goto(t, [th[t] EXCEPT !.pc = "fe_record_key", !.token_before = etok[th[t].entry]])
  /\ UNCHANGED <<records, entities, next_token, active_count>>

FeRecordKey(t) ==
  /\ At(t, "fe_record_key")
  /\ Goto(t, [th[t] EXCEPT !.pc = "fe_record_token", !.record_key = wkey[th[t].slot]])
  /\ UNCHANGED <<records, entities, next_token, active_count>>

FeRecordToken(t) ==
  /\ At(t, "fe_record_token")
  /\ Goto(t, [th[t] EXCEPT !.pc = "fe_copy", !.record_token = wtok[th[t].slot]])
  /\ UNCHANGED <<records, entities, next_token, active_count>>

FeCopy(t) ==
  /\ At(t, "fe_copy")
  /\ Goto(t, [th[t] EXCEPT !.pc = "fe_copy_rest", !.snap_key = wkey[th[t].slot],
                           !.snap_entity = ent[th[t].slot]])
  /\ UNCHANGED <<records, entities, next_token, active_count>>

FeCopyRest(t) ==
  /\ At(t, "fe_copy_rest")
  /\ Goto(t, [th[t] EXCEPT !.pc = "fe_recheck_record", !.snap_data = dat[th[t].slot],
                           !.snap_token = wtok[th[t].slot]])
  /\ UNCHANGED <<records, entities, next_token, active_count>>

FeRecheckRecord(t) ==
  /\ At(t, "fe_recheck_record")
  /\ LET r == th[t]
     IN  Goto(t, IF /\ wtok[r.slot] = r.record_token
                    /\ r.record_token = r.token_before
                    /\ r.record_token = r.snap_token
                    /\ r.token_before > RESERVED_MAX
                    /\ r.record_key > RESERVED_MAX
                    /\ r.snap_key = r.record_key
                    /\ r.snap_entity = r.entity
                 THEN Finish(r, "fe_recheck_key")
                 ELSE Retry(r, "fe_probe", EntityAbsent(r)))
  /\ UNCHANGED <<records, entities, next_token, active_count>>

FeRecheckKey(t) ==
  /\ At(t, "fe_recheck_key")
  /\ LET r == th[t]
     IN  Goto(t, IF wkey[r.slot] = r.record_key THEN Finish(r, "fe_recheck_entry")
                 ELSE Retry(r, "fe_probe", EntityAbsent(r)))
  /\ UNCHANGED <<records, entities, next_token, active_count>>

\* Mutant: the index entry's token is not compared after the copy.
FeRecheckEntryTrusting(t) ==
  /\ At(t, "fe_recheck_entry")
  /\ Goto(t, Finish(th[t], "fe_decide"))
  /\ UNCHANGED <<records, entities, next_token, active_count>>

FeRecheckEntry(t) ==
  /\ At(t, "fe_recheck_entry")
  /\ LET r == th[t]
     IN  Goto(t, IF etok[r.entry] = r.token_before THEN Finish(r, "fe_decide")
                 ELSE Retry(r, "fe_probe", EntityAbsent(r)))
  /\ UNCHANGED <<records, entities, next_token, active_count>>

FeDecide(t) ==
  /\ At(t, "fe_decide")
  /\ LET r == th[t]
     IN  Goto(t, IF ekey[r.entry] = r.entity THEN Result(r, "hit")
                 ELSE Retry(r, "fe_probe", EntityAbsent(r)))
  /\ UNCHANGED <<records, entities, next_token, active_count>>

-----------------------------------------------------------------------------
(***************************************************************************)
(* gu_ownership_insert and the entity index it fills.                      *)
(***************************************************************************)
\* Mutant: exhaustion is not detected.
InTokenUnbounded(t) ==
  /\ At(t, "in_token")
  /\ next_token' = next_token + 1
  /\ Goto(t, [Start(th[t], "in_probe") EXCEPT !.token = next_token + 1])
  /\ UNCHANGED <<records, entities, active_count>>

\* gu_allocate_ownership_token; it also fails when its CAS loses every retry.
InToken(t) ==
  /\ At(t, "in_token")
  /\ \/ /\ next_token < MaxToken
        /\ serialized \/ next_token < BareTokens
        /\ next_token' = next_token + 1
        /\ Goto(t, [Start(th[t], "in_probe") EXCEPT !.token = next_token + 1])
     \/ /\ Goto(t, Idle)
        /\ UNCHANGED next_token
  /\ UNCHANGED <<records, entities, active_count>>

InProbe(t) ==
  /\ At(t, "in_probe")
  /\ LET r == th[t]
         s == SlotOf(r.wrapper, r.probe)
     IN  Goto(t, IF wkey[s] = r.wrapper THEN Idle
                 ELSE IF Busy(wkey[s]) THEN Retry(r, "in_probe", Idle)
                 ELSE IF Free(wkey[s]) THEN [r EXCEPT !.pc = "in_claim", !.slot = s]
                 ELSE Onward(r, Idle))
  /\ UNCHANGED <<records, entities, next_token, active_count>>

\* Mutant: the claim is a plain store, not a CAS.
InClaimBlind(t) ==
  /\ At(t, "in_claim")
  /\ wkey' = [wkey EXCEPT ![th[t].slot] = CLAIMED]
  /\ Goto(t, Finish(th[t], "in_fill"))
  /\ UNCHANGED <<ent, dat, wtok, entities, next_token, active_count>>

InClaim(t) ==
  /\ At(t, "in_claim")
  /\ LET r == th[t]
     IN  IF Free(wkey[r.slot])
         THEN /\ wkey' = [wkey EXCEPT ![r.slot] = CLAIMED]
              /\ Goto(t, Finish(r, "in_fill"))
         ELSE /\ Goto(t, Retry(r, "in_probe", Idle))
              /\ UNCHANGED wkey
  /\ UNCHANGED <<ent, dat, wtok, entities, next_token, active_count>>

InFill(t) ==
  /\ At(t, "in_fill")
  /\ LET r == th[t]
     IN  /\ ent' = [ent EXCEPT ![r.slot] = r.entity]
         /\ dat' = [dat EXCEPT ![r.slot] = <<r.wrapper, r.entity, r.token>>]
         /\ Goto(t, Finish(r, "in_stamp"))
  /\ UNCHANGED <<wkey, wtok, entities, next_token, active_count>>

InStamp(t) ==
  /\ At(t, "in_stamp")
  /\ wtok' = [wtok EXCEPT ![th[t].slot] = th[t].token]
  /\ Goto(t, Start(th[t], "ix_probe"))
  /\ UNCHANGED <<wkey, ent, dat, entities, next_token, active_count>>

\* gu_publish_entity_index
IxProbe(t) ==
  /\ At(t, "ix_probe")
  /\ LET r == th[t]
         x == SlotOf(r.entity, r.probe)
         failed == Finish(r, "in_undo")
     IN  Goto(t, IF ekey[x] = r.entity THEN failed
                 ELSE IF Busy(ekey[x]) THEN Retry(r, "ix_probe", failed)
                 ELSE IF Free(ekey[x]) THEN [r EXCEPT !.pc = "ix_claim", !.entry = x]
                 ELSE Onward(r, failed))
  /\ UNCHANGED <<records, entities, next_token, active_count>>

IxClaim(t) ==
  /\ At(t, "ix_claim")
  /\ LET r == th[t]
     IN  IF Free(ekey[r.entry])
         THEN /\ ekey' = [ekey EXCEPT ![r.entry] = CLAIMED]
              /\ Goto(t, Finish(r, "ix_fill"))
         ELSE /\ Goto(t, Retry(r, "ix_probe", Finish(r, "in_undo")))
              /\ UNCHANGED ekey
  /\ UNCHANGED <<records, erec, etok, next_token, active_count>>

IxFill(t) ==
  /\ At(t, "ix_fill")
  /\ erec' = [erec EXCEPT ![th[t].entry] = th[t].slot + 1]
  /\ etok' = [etok EXCEPT ![th[t].entry] = th[t].token]
  /\ Goto(t, Finish(th[t], "ix_publish"))
  /\ UNCHANGED <<records, ekey, next_token, active_count>>

IxPublish(t) ==
  /\ At(t, "ix_publish")
  /\ ekey' = [ekey EXCEPT ![th[t].entry] = th[t].entity]
  /\ Goto(t, Finish(th[t], "in_count"))
  /\ UNCHANGED <<records, erec, etok, next_token, active_count>>

InCount(t) ==
  /\ At(t, "in_count")
  /\ active_count' = active_count + 1
  /\ Goto(t, Finish(th[t], "in_publish"))
  /\ UNCHANGED <<records, entities, next_token>>

InPublish(t) ==
  /\ At(t, "in_publish")
  /\ wkey' = [wkey EXCEPT ![th[t].slot] = th[t].wrapper]
  /\ Goto(t, Idle)
  /\ UNCHANGED <<ent, dat, wtok, entities, next_token, active_count>>

\* gu_clear_owned_record: the payload, then the token.
ClearPayload(t, before, after) ==
  /\ At(t, before)
  /\ ent' = [ent EXCEPT ![th[t].slot] = 0]
  /\ dat' = [dat EXCEPT ![th[t].slot] = NoData]
  /\ Goto(t, Finish(th[t], after))
  /\ UNCHANGED <<wkey, wtok, entities, next_token, active_count>>

\* Mutant: the token outlives the record.
ClearTokenKept(t, before, after) ==
  /\ At(t, before)
  /\ Goto(t, Finish(th[t], after))
  /\ UNCHANGED <<records, entities, next_token, active_count>>

ClearToken(t, before, after) ==
  /\ At(t, before)
  /\ wtok' = [wtok EXCEPT ![th[t].slot] = 0]
  /\ Goto(t, Finish(th[t], after))
  /\ UNCHANGED <<wkey, ent, dat, entities, next_token, active_count>>

\* Mutant: a removed slot becomes EMPTY, as if it had never been used.
BuryEmpty(t, before) ==
  /\ At(t, before)
  /\ wkey' = [wkey EXCEPT ![th[t].slot] = EMPTY]
  /\ Goto(t, Idle)
  /\ UNCHANGED <<ent, dat, wtok, entities, next_token, active_count>>

Bury(t, before) ==
  /\ At(t, before)
  /\ wkey' = [wkey EXCEPT ![th[t].slot] = TOMBSTONE]
  /\ Goto(t, Idle)
  /\ UNCHANGED <<ent, dat, wtok, entities, next_token, active_count>>

InUndo(t) ==
  \/ ClearPayload(t, "in_undo", "in_undo_token")
  \/ ClearToken(t, "in_undo_token", "in_bury")
  \/ Bury(t, "in_bury")

-----------------------------------------------------------------------------
(***************************************************************************)
(* gu_ownership_remove and gu_ownership_take_wrapper after their lookup.   *)
(* The claim is a CAS from the wrapper; under it the token is compared     *)
(* again, then the index entry goes, then the record, then the key.        *)
(***************************************************************************)
\* Mutant: the removal checks the key but leaves it published.
RmClaimOpen(t) ==
  /\ At(t, "rm_claim")
  /\ Goto(t, IF wkey[th[t].slot] = th[t].wrapper THEN Finish(th[t], "rm_check") ELSE Idle)
  /\ UNCHANGED <<records, entities, next_token, active_count>>

RmClaim(t) ==
  /\ At(t, "rm_claim")
  /\ LET r == th[t]
     IN  IF wkey[r.slot] = r.wrapper
         THEN /\ wkey' = [wkey EXCEPT ![r.slot] = RECLAIMING]
              /\ Goto(t, Finish(r, "rm_check"))
         ELSE /\ Goto(t, Idle)
              /\ UNCHANGED wkey
  /\ UNCHANGED <<ent, dat, wtok, entities, next_token, active_count>>

StillOwned(r) ==
  /\ wtok[r.slot] = r.token
  /\ IF r.op = "take" THEN ent[r.slot] > RESERVED_MAX ELSE ent[r.slot] = r.entity

RmCheck(t) ==
  /\ At(t, "rm_check")
  /\ LET r == th[t]
     IN  IF StillOwned(r)
         THEN /\ Goto(t, [Start(r, "rx_probe") EXCEPT !.entity = ent[r.slot]])
              /\ UNCHANGED wkey
         ELSE /\ wkey' = [wkey EXCEPT ![r.slot] = r.wrapper]
              /\ Goto(t, Idle)
  /\ UNCHANGED <<ent, dat, wtok, entities, next_token, active_count>>

\* gu_reclaim_entity_index: a single pass, no retry.  Its failure is only
\* counted; the record is cleared all the same.
RxProbe(t) ==
  /\ At(t, "rx_probe")
  /\ LET r == th[t]
         x == SlotOf(r.entity, r.probe)
         failed == Finish(r, "rm_clear")
     IN  Goto(t, IF ekey[x] = r.entity THEN [r EXCEPT !.pc = "rx_claim", !.entry = x]
                 ELSE IF ekey[x] = EMPTY THEN failed
                 ELSE Onward(r, failed))
  /\ UNCHANGED <<records, entities, next_token, active_count>>

RxClaim(t) ==
  /\ At(t, "rx_claim")
  /\ LET r == th[t]
     IN  IF ekey[r.entry] = r.entity
         THEN /\ ekey' = [ekey EXCEPT ![r.entry] = RECLAIMING]
              /\ Goto(t, Finish(r, "rx_check"))
         ELSE /\ Goto(t, Finish(r, "rm_clear"))
              /\ UNCHANGED ekey
  /\ UNCHANGED <<records, erec, etok, next_token, active_count>>

\* Mutant: the entry's record number is compared without its offset of one.
RxCheckOffByOne(t) ==
  /\ At(t, "rx_check")
  /\ LET r == th[t]
     IN  IF etok[r.entry] = r.token /\ erec[r.entry] = r.slot
         THEN /\ erec' = [erec EXCEPT ![r.entry] = 0]
              /\ etok' = [etok EXCEPT ![r.entry] = 0]
              /\ Goto(t, Finish(r, "rx_bury"))
              /\ UNCHANGED ekey
         ELSE /\ ekey' = [ekey EXCEPT ![r.entry] = r.entity]
              /\ Goto(t, Finish(r, "rm_clear"))
              /\ UNCHANGED <<erec, etok>>
  /\ UNCHANGED <<records, next_token, active_count>>

RxCheck(t) ==
  /\ At(t, "rx_check")
  /\ LET r == th[t]
     IN  IF etok[r.entry] = r.token /\ erec[r.entry] = r.slot + 1
         THEN /\ erec' = [erec EXCEPT ![r.entry] = 0]
              /\ etok' = [etok EXCEPT ![r.entry] = 0]
              /\ Goto(t, Finish(r, "rx_bury"))
              /\ UNCHANGED ekey
         ELSE /\ ekey' = [ekey EXCEPT ![r.entry] = r.entity]
              /\ Goto(t, Finish(r, "rm_clear"))
              /\ UNCHANGED <<erec, etok>>
  /\ UNCHANGED <<records, next_token, active_count>>

RxBury(t) ==
  /\ At(t, "rx_bury")
  /\ ekey' = [ekey EXCEPT ![th[t].entry] = TOMBSTONE]
  /\ Goto(t, Finish(th[t], "rm_clear"))
  /\ UNCHANGED <<records, erec, etok, next_token, active_count>>

\* gu_ownership_decrement_active: never below zero.
RmCount(t) ==
  /\ At(t, "rm_count")
  /\ active_count' = IF active_count > 0 THEN active_count - 1 ELSE 0
  /\ Goto(t, Finish(th[t], "rm_bury"))
  /\ UNCHANGED <<records, entities, next_token>>

RmFinish(t) ==
  \/ ClearPayload(t, "rm_clear", "rm_clear_token")
  \/ ClearToken(t, "rm_clear_token", "rm_count")
  \/ RmCount(t)
  \/ Bury(t, "rm_bury")

-----------------------------------------------------------------------------
Call(t) ==
  \/ CallInsert(t) \/ CallCommit(t) \/ CallRemove(t)
  \/ CallTake(t) \/ CallFindWrapper(t) \/ CallFindEntity(t)

FindWrapper(t) ==
  \/ FwProbe(t) \/ FwToken(t) \/ FwCopy(t) \/ FwCopyRest(t)
  \/ FwRecheck(t) \/ FwDecide(t)

FindEntity(t) ==
  \/ FeProbe(t) \/ FeIndex(t) \/ FeToken(t) \/ FeRecordKey(t)
  \/ FeRecordToken(t) \/ FeCopy(t) \/ FeCopyRest(t)
  \/ FeRecheckRecord(t) \/ FeRecheckKey(t) \/ FeRecheckEntry(t) \/ FeDecide(t)

Insert(t) ==
  \/ InToken(t) \/ InProbe(t) \/ InClaim(t) \/ InFill(t) \/ InStamp(t)
  \/ IxProbe(t) \/ IxClaim(t) \/ IxFill(t) \/ IxPublish(t)
  \/ InCount(t) \/ InPublish(t) \/ InUndo(t)

Reclaim(t) ==
  \/ RmClaim(t) \/ RmCheck(t)
  \/ RxProbe(t) \/ RxClaim(t) \/ RxCheck(t) \/ RxBury(t) \/ RmFinish(t)

Step(t) == FindWrapper(t) \/ FindEntity(t) \/ Insert(t) \/ Reclaim(t) \/ Return(t)

Next ==
  /\ \E t \in Threads : Call(t) \/ Step(t)
  /\ UNCHANGED serialized

Spec == Init /\ [][Next]_vars
-----------------------------------------------------------------------------
(***************************************************************************)
(* Properties.                                                             *)
(***************************************************************************)
SlotLabels ==
  {"in_fill", "in_stamp", "ix_probe", "ix_claim", "ix_fill", "ix_publish",
   "in_count", "in_publish", "in_undo", "in_undo_token", "in_bury",
   "rm_check", "rx_probe", "rx_claim", "rx_check", "rx_bury",
   "rm_clear", "rm_clear_token", "rm_count", "rm_bury"}
EntryLabels == {"ix_fill", "ix_publish", "rx_check", "rx_bury"}
Labels ==
  SlotLabels \cup {"idle", "fw_probe", "fw_token", "fw_copy", "fw_copy_rest",
   "fw_recheck", "fw_decide", "fe_probe", "fe_index", "fe_token",
   "fe_record_key", "fe_record_token", "fe_copy", "fe_copy_rest",
   "fe_recheck_record", "fe_recheck_key", "fe_recheck_entry", "fe_decide",
   "in_token", "in_probe", "in_claim", "rm_claim", "hit", "miss"}

WrapperKeys == 0 .. RESERVED_MAX \cup Wrappers
EntityKeys  == 0 .. RESERVED_MAX \cup Entities
Tokens      == 0 .. MaxToken
Data        == ({0} \cup Wrappers) \X ({0} \cup Entities) \X Tokens

Locals ==
  [pc : Labels, op : OperationNames \cup {"none"},
   wrapper : {0} \cup Wrappers, entity : {0} \cup Entities, token : Tokens,
   attempt : Nat, probe : Nat, slot : Slots, entry : Slots,
   token_before : Tokens, record_key : WrapperKeys, record_token : Tokens,
   snap_key : WrapperKeys, snap_entity : {0} \cup Entities,
   snap_token : Tokens, snap_data : Data]

\* Every variable has its type: keys are reserved values or addresses of the
\* right kind, tokens never pass the last one.
TypeOK ==
  /\ wkey \in [Slots -> WrapperKeys]
  /\ ent  \in [Slots -> {0} \cup Entities]
  /\ dat  \in [Slots -> Data]
  /\ wtok \in [Slots -> Tokens]
  /\ ekey \in [Slots -> EntityKeys]
  /\ erec \in [Slots -> 0 .. Capacity]
  /\ etok \in [Slots -> Tokens]
  /\ next_token \in Tokens
  /\ active_count \in Nat
  /\ th \in [Threads -> Locals]

HoldsSlot(t)  == th[t].pc \in SlotLabels
HoldsEntry(t) == th[t].pc \in EntryLabels

\* A slot that is being filled or cleared belongs to exactly one thread, in
\* both tables, and everybody else sees it as CLAIMED or RECLAIMING: the CAS
\* in gu_claim_key, gu_ownership_remove, gu_ownership_take_wrapper and
\* gu_reclaim_entity_index is what excludes the others.
SlotExclusive ==
  /\ \A t \in Threads : HoldsSlot(t) => Busy(wkey[th[t].slot])
  /\ \A t \in Threads : HoldsEntry(t) => Busy(ekey[th[t].entry])
  /\ \A t, u \in Threads : t # u =>
       /\ HoldsSlot(t) /\ HoldsSlot(u) => th[t].slot # th[u].slot
       /\ HoldsEntry(t) /\ HoldsEntry(u) => th[t].entry # th[u].entry

\* "Reusable is published last; never expose a tombstone over live data": a
\* slot another thread may claim carries no payload, no token and no index.
ReusableIsClear ==
  /\ \A s \in Slots : Free(wkey[s]) => ent[s] = 0 /\ dat[s] = NoData /\ wtok[s] = 0
  /\ \A x \in Slots : Free(ekey[x]) => erec[x] = 0 /\ etok[x] = 0

Reaches(key, s, keys) ==
  \E p \in 0 .. Probes - 1 :
    /\ SlotOf(key, p) = s
    /\ \A q \in 0 .. p - 1 : keys[SlotOf(key, q)] # EMPTY

\* A published key is on its own probe path: no EMPTY slot lies between the
\* key's hash and its slot, however many removals happened in between, so a
\* lookup that stops at EMPTY never misses it.
PublishedReachable ==
  /\ \A s \in Slots : wkey[s] \in Wrappers => Reaches(wkey[s], s, wkey)
  /\ \A x \in Slots : ekey[x] \in Entities => Reaches(ekey[x], x, ekey)

\* The lookup by entity takes no lock (gu_extras.c calls it from the engine's
\* queue), yet while the mutators take turns under ownership_lock what it
\* returns is one insertion's record, never a mixture of two and never a half
\* cleared one.  The lookup by wrapper compares less: it is right under
\* ownership_lock, where "not owned" is never said of a live record, however
\* bounded the probe window and the retries.
LookupsSound ==
  serialized => \A t \in Threads :
    /\ th[t].pc = "hit" /\ th[t].op = "find_entity" =>
         th[t].snap_data = <<th[t].snap_key, th[t].entity, th[t].snap_token>>
    /\ th[t].pc = "miss" /\ th[t].op = "find_wrapper" =>
         \A s \in Slots : wkey[s] # th[t].wrapper

AtRest == \A t \in Threads : ~Mutating(t)

\* "A live key is never replaced": under ownership_lock, between critical
\* sections a wrapper and an entity each have at most one record, records and
\* index entries describe each other, token for token, and active_count counts
\* the records.
OwnersAgree ==
  serialized /\ AtRest =>
    /\ \A s, r \in Slots : s # r /\ wkey[s] \in Wrappers =>
         wkey[s] # wkey[r] /\ ent[s] # ent[r]
    /\ \A s \in Slots : wkey[s] \in Wrappers =>
         /\ dat[s] = <<wkey[s], ent[s], wtok[s]>>
         /\ \E x \in Slots : ekey[x] = ent[s] /\ erec[x] = s + 1 /\ etok[x] = wtok[s]
    /\ \A x \in Slots : ekey[x] \in Entities =>
         /\ erec[x] # 0
         /\ wkey[erec[x] - 1] \in Wrappers
         /\ ent[erec[x] - 1] = ekey[x]
         /\ wtok[erec[x] - 1] = etok[x]
    /\ active_count = Cardinality({s \in Slots : wkey[s] \in Wrappers})

\* Published records change only by being claimed for removal: while its key
\* is published, nobody touches a record's payload or token.
PublishedFrozen ==
  [][\A s \in Slots : wkey[s] \in Wrappers /\ wkey'[s] = wkey[s] =>
       ent'[s] = ent[s] /\ dat'[s] = dat[s] /\ wtok'[s] = wtok[s]]_vars
=============================================================================
