---------------------------- MODULE RecordPools ----------------------------
(***************************************************************************)
(* The two record pools that the installation enlarges.                    *)
(*                                                                         *)
(* Providers: a table of records in the library's storage, linked through  *)
(* 16-bit indices into a free list whose head is in the engine's manager;  *)
(* whenever the engine has rebuilt its manager, a hook takes the list out  *)
(* of use, looks whether any record still belongs to somebody, and         *)
(* publishes a list of all of them, or none.  A manager it does not know   *)
(* it leaves alone.                                                        *)
(*                                                                         *)
(* Generator records: the engine's own list first; when it is empty, the   *)
(* hook issues records of a second array, each once; the engine frees them *)
(* to its own list.                                                        *)
(*                                                                         *)
(* External: the engine pops and pushes its lists whole, and frees no      *)
(* provider while it rebuilds the manager; it may take one wherever a head *)
(* is visible.                                                             *)
(***************************************************************************)
EXTENDS Integers, FiniteSets

CONSTANTS
  PopThreads,        \* threads that may ask for a generator record
  provider_capacity, \* g_provider_capacity
  vanilla_capacity,  \* VANILLA_PROVIDER_CAPACITY
  builtin_count,     \* generator records of the engine
  extra_count,       \* g_generator_extra_record_count
  MaxRebuilds        \* bound: how often the manager is rebuilt

ASSUME PoolAssumption ==
  /\ vanilla_capacity \in Nat \ {0}
  /\ provider_capacity \in Nat /\ provider_capacity > vanilla_capacity
  /\ builtin_count \in Nat /\ extra_count \in Nat /\ MaxRebuilds \in Nat

Providers == 1 .. provider_capacity
Extra == 1 .. extra_count
Builtin == {0 - i : i \in 1 .. builtin_count}

VARIABLES
  link,      \* per provider: next and previous, 0 is the end
  head,      \* the manager's free head
  active,    \* the manager's active head
  owned,     \* providers with an owner, a bitmap or flags
  rebuild,   \* where the hook is, or how it ended
  in_use,    \* of heads_before_quarantine: whether providers were active
  rebuilds,  \* how often the engine rebuilt
  failed,    \* no rebuild yet, or the last one raised g_provider_rebuild_failures
  free,      \* the engine's own list of generator records
  issued,    \* g_generator_extra_issued
  exhausted, \* g_generator_extra_exhaustion_observed
  astray,    \* whether a call came with another manager than the generator's
  pop,       \* per thread: where it is in the hook, and what it holds there
  holders    \* per record: how often it is held by somebody

provider_table == <<link, head, active, owned, rebuild, in_use, rebuilds, failed>>
generator_pool == <<free, issued, exhausted, astray, pop, holders>>
pools == <<provider_table, generator_pool>>

\* 1, 2, ..., n and no more
Chain(n) ==
  [i \in Providers |-> [next |-> IF i < n THEN i + 1 ELSE 0,
                        previous |-> IF i \in 2 .. n THEN i - 1 ELSE 0]]

InitPools ==
  /\ link = Chain(provider_capacity)
  /\ head = 0 /\ active = 0 /\ owned = {}
  /\ rebuild = "over" /\ in_use = FALSE /\ rebuilds = 0 /\ failed = TRUE
  /\ free = Builtin /\ issued = 0 /\ exhausted = FALSE /\ astray = FALSE
  /\ pop = [t \in PopThreads |-> [at |-> "out", seen |-> 0]]
  /\ holders = [r \in Builtin \cup Extra |-> 0]

-----------------------------------------------------------------------------
(***************************************************************************)
(* Providers.                                                              *)
(***************************************************************************)
Idle == rebuild \in {"over", "unknown"}

\* The engine's rebuild: links of its own, which with a patched capacity may
\* cover all records or not, and whatever it did not clean up.  The store of
\* its free head is patched to store 0; another mod may have put the 1 back.
EngineRebuilds ==
  /\ Idle /\ rebuilds < MaxRebuilds
  /\ rebuilds' = rebuilds + 1 /\ rebuild' = "enter"
  /\ \E n \in {vanilla_capacity, provider_capacity} : link' = Chain(n)
  /\ owned' \in {owned, {}}
  /\ active' \in {0, active}
  /\ head' \in {0, 1}
  /\ UNCHANGED <<in_use, failed, generator_pool>>

-----------------------------------------------------------------------------
(***************************************************************************)
(* provider_post_rebuild_hook                                              *)
(***************************************************************************)
HookGoes(from, to) == rebuild = from /\ rebuild' = to

\* A manager that is not the known one, or cannot be read, keeps its heads:
\* the hook only counts the failure.
UnknownManager ==
  /\ HookGoes("enter", "unknown") /\ failed' = TRUE
  /\ UNCHANGED <<link, head, active, owned, in_use, rebuilds, generator_pool>>

ReadHeads ==
  /\ HookGoes("enter", "exchange") /\ in_use' = (active # 0)
  /\ UNCHANGED <<link, head, active, owned, rebuilds, failed, generator_pool>>

\* Mutant of Quarantine: the list stays in use while the hook looks.
QuarantineOpen(h, a) == head' = h /\ active' = a

\* Both heads are exchanged for 0.
Quarantine(h, a) == head' = 0 /\ active' = 0

TakeOutOfUse ==
  /\ HookGoes("exchange", "scan") /\ Quarantine(head, active)
  /\ UNCHANGED <<link, owned, in_use, rebuilds, failed, generator_pool>>

\* No record has an owner, a bitmap or flags.  They may not be readable.
LookAtRecords ==
  /\ \/ HookGoes("scan", "publish") /\ ~in_use /\ owned = {}
     \/ HookGoes("scan", "withdraw")
  /\ UNCHANGED <<link, head, active, owned, in_use, rebuilds, failed, generator_pool>>

\* All links are written, then the head is published.
Publish ==
  /\ HookGoes("publish", "verify_heads")
  /\ link' = Chain(provider_capacity)
  /\ head' = 1 /\ active' = 0
  /\ UNCHANGED <<owned, in_use, rebuilds, failed, generator_pool>>

\* Heads and links are read back; somebody may have taken a record by then.
VerifyHeads ==
  /\ IF head = 1 /\ active = 0 THEN HookGoes("verify_heads", "verify_links")
                               ELSE HookGoes("verify_heads", "withdraw")
  /\ UNCHANGED <<link, head, active, owned, in_use, rebuilds, failed, generator_pool>>

VerifyLinks ==
  /\ IF link = Chain(provider_capacity)
       THEN HookGoes("verify_links", "over") /\ failed' = FALSE
       ELSE HookGoes("verify_links", "withdraw") /\ UNCHANGED failed
  /\ UNCHANGED <<link, head, active, owned, in_use, rebuilds, generator_pool>>

\* No list rather than a doubtful one.
Withdraw ==
  /\ HookGoes("withdraw", "over")
  /\ head' = 0 /\ active' = 0 /\ failed' = TRUE
  /\ UNCHANGED <<link, owned, in_use, rebuilds, generator_pool>>

-----------------------------------------------------------------------------
\* The engine takes the first free provider and links it to the active ones.
TakeProvider ==
  /\ head # 0
  /\ owned' = owned \cup {head} /\ head' = link[head].next /\ active' = head
  /\ link' = [link EXCEPT ![head] = [next |-> active, previous |-> 0]]
  /\ UNCHANGED <<rebuild, in_use, rebuilds, failed, generator_pool>>

\* It gives a provider back, and finds the next active one if there is any.
GiveProvider ==
  /\ Idle
  /\ \E r \in owned :
       /\ owned' = owned \ {r}
       /\ head' = r /\ link' = [link EXCEPT ![r] = [next |-> head, previous |-> 0]]
       /\ active' = IF owned = {r} THEN 0 ELSE CHOOSE s \in owned \ {r} : TRUE
  /\ UNCHANGED <<rebuild, in_use, rebuilds, failed, generator_pool>>

-----------------------------------------------------------------------------
(***************************************************************************)
(* Generator records: generator_pop_hook_c.                                *)
(***************************************************************************)
Hold(t, r) ==
  /\ holders' = [holders EXCEPT ![r] = @ + 1]
  /\ pop' = [pop EXCEPT ![t] = [at |-> "out", seen |-> 0]]

\* For another manager there is no record, and the flag of exhaustion is set
\* as if there were none left.
CallAstray(t) ==
  /\ pop[t].at = "out"
  /\ exhausted' = TRUE /\ astray' = TRUE
  /\ UNCHANGED <<free, issued, pop, holders, provider_table>>

\* The engine's own list first.
CallPop(t) ==
  /\ pop[t].at = "out"
  /\ IF free # {}
       THEN \E r \in free :
              /\ free' = free \ {r} /\ Hold(t, r)
       ELSE /\ pop' = [pop EXCEPT ![t].at = "read"]
            /\ UNCHANGED <<free, holders>>
  /\ UNCHANGED <<issued, exhausted, astray, provider_table>>

ReadIssued(t) ==
  /\ pop[t].at = "read"
  /\ IF issued < extra_count
       THEN pop' = [pop EXCEPT ![t] = [at |-> "swap", seen |-> issued]] /\ UNCHANGED exhausted
       ELSE pop' = [pop EXCEPT ![t].at = "out"] /\ exhausted' = TRUE
  /\ UNCHANGED <<free, issued, astray, holders, provider_table>>

SwapIssued(t) ==
  /\ pop[t].at = "swap"
  /\ IF issued = pop[t].seen
       THEN issued' = issued + 1 /\ pop' = [pop EXCEPT ![t].at = "clear"]
       ELSE issued' = issued /\ pop' = [pop EXCEPT ![t] = [at |-> "read", seen |-> 0]]
  /\ UNCHANGED <<free, exhausted, astray, holders, provider_table>>

\* The record of that index is cleared and handed out.
ClearAndReturn(t) ==
  /\ pop[t].at = "clear"
  /\ Hold(t, pop[t].seen + 1)
  /\ UNCHANGED <<free, issued, exhausted, astray, provider_table>>

\* The engine frees a record to its own list, whoever it came from.
PushRecord ==
  /\ \E r \in Builtin \cup Extra :
       /\ holders[r] > 0 /\ holders' = [holders EXCEPT ![r] = @ - 1]
       /\ free' = free \cup {r}
  /\ UNCHANGED <<issued, exhausted, astray, pop, provider_table>>

NextProviders ==
  \/ EngineRebuilds \/ UnknownManager \/ ReadHeads \/ TakeOutOfUse \/ LookAtRecords
  \/ Publish \/ VerifyHeads \/ VerifyLinks \/ Withdraw
  \/ TakeProvider \/ GiveProvider

NextGenerator ==
  \/ \E t \in PopThreads :
       CallAstray(t) \/ CallPop(t) \/ ReadIssued(t) \/ SwapIssued(t) \/ ClearAndReturn(t)
  \/ PushRecord

-----------------------------------------------------------------------------
(***************************************************************************)
(* Properties.                                                             *)
(***************************************************************************)
Walk[k \in 0 .. provider_capacity] ==
  IF k = 0 THEN head
  ELSE IF Walk[k - 1] = 0 THEN 0 ELSE link[Walk[k - 1]].next

FreeProviders == {Walk[k] : k \in 0 .. provider_capacity} \ {0}

\* Where the list is the hook's: not from the engine's rebuild to the exchange
\* of the heads, nor after a rebuild of a manager the hook does not know.
Ours == rebuild \notin {"enter", "exchange", "unknown"}

\* A list of the hook's ends, and holds no provider that belongs to somebody,
\* whenever they are taken; if the rebuild was verified, none is lost; and a
\* rebuild the hook could not help is counted as failed.
ProvidersSound ==
  /\ Ours => Walk[provider_capacity] = 0 /\ FreeProviders \cap owned = {}
  /\ rebuild = "over" /\ ~failed => FreeProviders \cup owned = Providers
  /\ rebuild = "unknown" => failed

Returning == {pop[t].seen + 1 : t \in {u \in PopThreads : pop[u].at = "clear"}}

\* A generator record is held at most once, and not while it is free; every
\* extra one that was issued is somewhere; exhaustion is reported only where
\* all were issued, or a call came with another manager.
GeneratorSound ==
  /\ \A r \in Builtin \cup Extra : holders[r] <= 1 /\ (holders[r] = 1 => r \notin free)
  /\ issued <= extra_count /\ (exhausted => issued = extra_count \/ astray)
  /\ {r \in Extra : r \in free \/ holders[r] > 0} \cup Returning = 1 .. issued

\* Both lists stay sound while hooks, engine and other threads take and give:
\* nothing is handed out twice and nothing is lost without a report.
PoolsInv == ProvidersSound /\ GeneratorSound
=============================================================================
