----------------------------- MODULE ExtrasQueue -----------------------------
(***************************************************************************)
(* The queue hooks of gu_extras.c.  The game's generator queues requests   *)
(* for props and makes all of them in its next update.  ConeBack takes     *)
(* those behind the camera out of the queue and parks them until the cone  *)
(* reaches them; the spawn limit holds back all but the nearest and puts   *)
(* them in front of the next update's queue.  Both run on the generator's  *)
(* own thread: before the queue is made and after.                         *)
(*                                                                         *)
(* A frame of the camera is the set of requests its cone reaches; whatever *)
(* set comes next is possible.  Distances stay as they are.  The record of *)
(* a request is its number: requests are queued in the order 1, 2, ...     *)
(***************************************************************************)
EXTENDS Integers, FiniteSets, FiniteSetsExt, Sequences, SequencesExt, Functions

CONSTANTS
  MaxRequests,  \* bound: how many requests the game queues
  Provider,     \* request -> what it grows on
  Distance,     \* request -> distance from the camera
  ConeOn, SpawnOn,
  Capacity,     \* of the game's queue
  ParkCap,      \* X_PARK_CAP
  ScanMax,      \* X_SCAN_MAX
  CandMax,      \* X_CAND_MAX
  Release,      \* g_release, 0 = unlimited
  Budget,       \* g_spawn_budget
  SpawnMax,     \* X_SPAWN_MAX
  Near,         \* g_spawn_near2
  Faults        \* whether a hook may meet a memory fault

Requests == 1 .. MaxRequests
AllProviders == Range(Provider)

ASSUME ExtrasAssumption ==
  /\ MaxRequests \in Nat /\ DOMAIN Provider = Requests
  /\ Distance \in [Requests -> Nat] /\ IsInjective(Distance)
  /\ {Capacity, ParkCap, ScanMax, CandMax, Budget, SpawnMax} \subseteq Nat \ {0}
  /\ {Release, Near} \subseteq Nat
  /\ {ConeOn, SpawnOn, Faults} \subseteq BOOLEAN

VARIABLES
  queue,       \* the generator's queue
  removals,    \* providers the generator has removed since its last update
  stage,       \* of the generator: between two updates, or within one
  park, cursor,              \* g_park, g_cursor
  hold, carried,             \* g_hold, g_carried
  cone_off, spawn_off,       \* g_cone_disabled, g_spawn_disabled
  \* what has become of the requests
  asked, made,   \* how many were queued, which were made
  twice,         \* made again
  stale,         \* waited when their provider was removed
  excused,       \* stale, or waited when the generator was reset or a hook failed
  cone           \* which waiting ones the last frame reached

mod == <<park, cursor, hold, carried, cone_off, spawn_off>>
fate == <<made, twice, stale, excused>>
queue_vars == <<queue, removals, stage, mod, asked, fate, cone>>

ConeActive == ConeOn /\ ~cone_off
SpawnActive == SpawnOn /\ ~spawn_off
Waiting == Range(queue) \cup Range(park) \cup Range(hold)

QueueInit ==
  /\ queue = <<>> /\ removals = {} /\ stage = "between"
  /\ park = <<>> /\ cursor = 0 /\ hold = <<>> /\ carried = 0
  /\ cone_off = FALSE /\ spawn_off = FALSE
  /\ asked = 0 /\ made = {} /\ twice = {} /\ stale = {} /\ excused = {}
  /\ cone = {}

\* The members of S in the order of their keys, no two of which are equal.
SortedBy(S, key) ==
  [k \in 1 .. Cardinality(S) |->
     CHOOSE x \in S : Cardinality({y \in S : key[y] <= key[x]}) = k]

\* The entries at the positions in I, in order.
Pick(s, I) ==
  LET ordered == SortedBy(I, [i \in I |-> i])
  IN  [k \in 1 .. Cardinality(I) |-> s[ordered[k]]]

KthLast(S, k) == CHOOSE j \in S : Cardinality({i \in S : i >= j}) = k

\* park_remove_at: the last entry fills the hole.
RemovedAt(s, i) == [j \in 1 .. Len(s) - 1 |-> s[IF j = i THEN Len(s) ELSE j]]

\* The same for every index in `gone`, the lowest first; an entry that fills a
\* hole is looked at like the others: the k-th hole gets the k-th last entry
\* of those that stay.
Refilled(s, gone) ==
  LET left == Len(s) - Cardinality(gone)
      fillers == (left + 1 .. Len(s)) \ gone
      rank(i) == Cardinality({h \in gone : h <= i})
  IN  [i \in 1 .. left |-> IF i \in gone THEN s[KthLast(fillers, rank(i))] ELSE s[i]]

-----------------------------------------------------------------------------
(* cone_step                                                               *)

\* No camera to be trusted: everything that waits goes back, last first.
GiveBack(q, p) ==
  LET n == Min({Len(p), Capacity - Len(q)})
  IN  [queue |-> q \o [k \in 1 .. n |-> p[Len(p) + 1 - k]],
       park |-> SubSeq(p, 1, Len(p) - n), cursor |-> cursor]

\* New entries outside the cone wait, while there is room to wait.
Parks(q, p, reached) ==
  LET outside(i) == {j \in 1 .. i : q[j] \notin reached}
  IN  {i \in DOMAIN q : q[i] \notin reached
                        /\ Cardinality(outside(i)) <= ParkCap - Len(p)}

\* Mutant of Advanced: the scan starts over at the front.
NotAdvanced(start, scanned, n) == 0

\* Where the next scan begins.
Advanced(start, scanned, n) == (start + scanned) % n

\* How many come back: the budget does not count after a cut.
Taken(cands, burst, room) ==
  Min({cands, room} \cup (IF ~burst /\ Release # 0 THEN {Release} ELSE {}))

\* What came back leaves the park, the highest index first: removed[k] is the
\* park after its k highest indices.
Unparked(p, released) ==
  LET n == Len(p)
      removed[k \in 0 .. n] ==
        IF k = 0 THEN p
        ELSE IF n - k + 1 \in released THEN RemovedAt(removed[k - 1], n - k + 1)
        ELSE removed[k - 1]
  IN  removed[n]

\* Waiting entries the cone now reaches come back, nearest first, as far as
\* the scan, the budget and the queue allow.
ComeBack(q, p, reached, burst) ==
  LET n == Len(p)
      start == cursor % n
      order == [k \in 1 .. Min({n, ScanMax}) |-> ((start + k - 1) % n) + 1]
      found(k) == {order[j] : j \in {i \in 1 .. k : p[order[i]] \in reached}}
      scanned == Min({Len(order)}
                     \cup {k \in 1 .. Len(order) : Cardinality(found(k)) = CandMax})
      nearest == SortedBy(found(scanned), [i \in found(scanned) |-> Distance[p[i]]])
      back == SubSeq(nearest, 1,
                     Taken(Len(nearest), burst, Capacity - Len(q)))
      rest == Unparked(p, Range(back))
      next == Advanced(start, scanned, n)
  IN  [queue |-> q \o [k \in DOMAIN back |-> p[back[k]]], park |-> rest,
       cursor |-> IF back = <<>> THEN next
                  ELSE IF rest = <<>> THEN 0 ELSE next % Len(rest)]

ConeStep(q, p, reached, ok, burst) ==
  LET parks == Parks(q, p, reached)
      inside == Pick(q, DOMAIN q \ parks)
      waiting == p \o Pick(q, parks)
  IN  IF ~ConeActive THEN [queue |-> q, park |-> p, cursor |-> cursor]
      ELSE IF ~ok THEN GiveBack(q, p)
      ELSE IF waiting = <<>> THEN [queue |-> inside, park |-> <<>>, cursor |-> cursor]
      ELSE ComeBack(inside, waiting, reached, burst)

-----------------------------------------------------------------------------
(* spawn_step                                                              *)

Limited(q, ok) == SpawnActive /\ ok /\ Len(q) > Budget /\ Len(q) <= SpawnMax

ByDistance(S) == SortedBy(S, Distance)

\* Held are those beyond the budget that are not near.  Both halves are copied
\* nearest first.
SpawnStep(q, ok) ==
  LET nearer(r) == {s \in Range(q) : Distance[s] < Distance[r]}
      held == {r \in Range(q) : Cardinality(nearer(r)) >= Budget /\ Distance[r] >= Near}
  IN  IF Limited(q, ok)
        THEN [queue |-> ByDistance(Range(q) \ held), hold |-> ByDistance(held)]
        ELSE [queue |-> q, hold |-> <<>>]

-----------------------------------------------------------------------------
(* gu_x_before_queue                                                       *)

\* park_drop_removed
WaitingStill ==
  LET gone == {i \in DOMAIN park : Provider[park[i]] \in removals}
  IN  IF ConeActive THEN Refilled(park, gone) ELSE park

\* Mutant of CarriedStill: entries put back in front are not looked at.
CarriedStillAll == DOMAIN queue

\* carried_drop_removed: the positions that stay.
CarriedStill ==
  {i \in DOMAIN queue : i > carried \/ Provider[queue[i]] \notin removals}

\* One frame: `reached` is what the cone reaches, `ok` whether the camera can
\* be trusted, `burst` whether the camera has just cut.
BeforeQueue(reached, ok, burst) ==
  LET step == ConeStep(Pick(queue, CarriedStill), WaitingStill, reached, ok, burst)
      spawn == SpawnStep(step.queue, ok)
  IN  /\ stage = "between" /\ stage' = "make"
      /\ park' = step.park /\ cursor' = step.cursor
      /\ queue' = spawn.queue /\ hold' = spawn.hold
      /\ carried' = 0
      /\ cone' = (IF ok /\ ConeActive THEN reached ELSE Waiting)
                  \cap (Range(queue') \cup Range(park') \cup Range(hold'))
      /\ UNCHANGED <<removals, cone_off, spawn_off, asked, fate>>

\* The buffer of `old`, its first entries overwritten.
Overlaid(new, old) == [i \in DOMAIN old |-> IF i <= Len(new) THEN new[i] ELSE old[i]]

\* A memory fault in the hook: both features go off and forget what waits.  The
\* count of the queue is written last, so the game sees the old count, over
\* entries moved as far as the hook had come.
BeforeFault(reached, ok, burst) ==
  LET kept == Pick(queue, CarriedStill)
      step == ConeStep(kept, WaitingStill, reached, ok, burst)
      stay == DOMAIN kept \ Parks(kept, WaitingStill, reached)
      dropping == {Overlaid(Pick(queue, CarriedStill \cap 1 .. i), queue) : i \in DOMAIN queue}
      parking == {Overlaid(Pick(kept, stay \cap 1 .. i), Overlaid(kept, queue)) : i \in DOMAIN kept}
  IN  /\ Faults /\ stage = "between" /\ (ConeActive \/ SpawnActive)
      /\ queue' \in {queue, Overlaid(step.queue, Overlaid(kept, queue))} \cup dropping
                    \cup (IF ConeActive /\ ok THEN parking ELSE {})
      /\ cone_off' = ConeOn /\ spawn_off' = SpawnOn
      /\ park' = <<>> /\ cursor' = 0 /\ hold' = <<>> /\ carried' = 0
      /\ excused' = excused \cup Waiting
      /\ cone' = Waiting \cap Range(queue')
      /\ stage' = "make"
      /\ UNCHANGED <<removals, asked, made, twice, stale>>

-----------------------------------------------------------------------------
(* The generator.                                                          *)

\* It makes everything in its queue and empties it.
Make ==
  /\ stage = "make" /\ stage' = "after"
  /\ made' = made \cup Range(queue)
  /\ twice' = twice \cup {r \in Range(queue) :
                           r \in made \/ Cardinality({i \in DOMAIN queue : queue[i] = r}) > 1}
  /\ queue' = <<>>
  /\ UNCHANGED <<removals, mod, asked, stale, excused, cone>>

\* gu_x_after_queue: what was held goes to the front of the queue.  The hook
\* sits where the generator has served its removals.
AfterQueue ==
  LET n == Min({Len(hold), Capacity})
  IN  /\ stage = "after" /\ stage' = "between"
      /\ queue' = IF SpawnActive THEN queue \o SubSeq(hold, 1, n) ELSE queue
      /\ carried' = IF SpawnActive THEN n ELSE carried
      /\ hold' = <<>>
      /\ removals' = {}
      /\ UNCHANGED <<park, cursor, cone_off, spawn_off, asked, fate, cone>>

\* A memory fault in it: what was held is forgotten.
AfterFault ==
  /\ Faults /\ stage = "after" /\ stage' = "between" /\ SpawnActive /\ hold # <<>>
  /\ spawn_off' = TRUE /\ hold' = <<>> /\ carried' = 0
  /\ excused' = excused \cup Range(hold)
  /\ removals' = {}
  /\ UNCHANGED <<queue, park, cursor, cone_off, asked, made, twice, stale, cone>>

\* Between updates it queues requests,
Ask ==
  /\ stage = "between" /\ asked < MaxRequests /\ Len(queue) < Capacity
  /\ asked' = asked + 1
  /\ queue' = Append(queue, asked + 1)
  /\ UNCHANGED <<removals, stage, mod, fate, cone>>

\* removes a provider, whose new requests come after, if it returns,
RemoveProvider(p) ==
  LET waits == {r \in Range(park) \cup Range(SubSeq(queue, 1, carried)) : Provider[r] = p}
  IN  /\ stage = "between" /\ p \notin removals
      /\ \A i \in carried + 1 .. Len(queue) : Provider[queue[i]] # p
      /\ removals' = removals \cup {p}
      /\ stale' = stale \cup waits /\ excused' = excused \cup waits
      /\ UNCHANGED <<queue, stage, mod, asked, made, twice, cone>>

\* and is reset, with gu_x_on_reset: nothing waits any more.
Reset ==
  /\ stage = "between" /\ Waiting # {}
  /\ queue' = <<>> /\ removals' = {}
  /\ park' = <<>> /\ cursor' = 0 /\ hold' = <<>> /\ carried' = 0
  /\ excused' = excused \cup Waiting
  /\ cone' = {}
  /\ UNCHANGED <<stage, cone_off, spawn_off, asked, made, twice, stale>>

-----------------------------------------------------------------------------
BeforeStep == \E reached \in SUBSET Waiting, ok, burst \in BOOLEAN :
            BeforeQueue(reached, ok, burst)
Fault == \/ \E reached \in SUBSET Waiting, ok, burst \in BOOLEAN :
              BeforeFault(reached, ok, burst)
         \/ AfterFault
Update == BeforeStep \/ Make \/ AfterQueue

QueueNext == Update \/ Fault \/ Ask \/ (\E p \in AllProviders : RemoveProvider(p)) \/ Reset

\* The generator updates for as long as the game runs.
QueueSpec == QueueInit /\ [][QueueNext]_queue_vars /\ WF_queue_vars(Update)

-----------------------------------------------------------------------------
(* Properties.                                                             *)

\* A fault before the queue switches everything off.
Failed == (ConeOn => cone_off) /\ (SpawnOn => spawn_off)

\* How often a request is somewhere.
Count(s, r) == Cardinality({i \in DOMAIN s : s[i] = r})
Places(r) == Count(queue, r) + Count(park, r) + Count(hold, r)
             + (IF r \in twice THEN 2 ELSE IF r \in made THEN 1 ELSE 0)

\* Types, limits of the arrays, and nothing waits for a feature that is off.
TypeOK ==
  /\ queue \in Seq(Requests) /\ Len(queue) <= Capacity
  /\ park \in Seq(Requests) /\ Len(park) <= ParkCap
  /\ hold \in Seq(Requests) /\ Len(hold) <= SpawnMax
  /\ removals \subseteq AllProviders /\ stage \in {"between", "make", "after"}
  /\ cursor \in 0 .. ParkCap /\ carried \in 0 .. Len(queue)
  /\ cone_off \in BOOLEAN /\ spawn_off \in BOOLEAN
  /\ asked \in 0 .. MaxRequests /\ made \subseteq Requests /\ twice \subseteq made
  /\ stale \subseteq excused /\ excused \subseteq Requests
  /\ ~ConeActive => park = <<>>
  /\ ~SpawnActive => hold = <<>> /\ carried = 0
  /\ hold # <<>> => stage # "between"

\* "Every position is accounted for exactly once" (test_gu_extras.c 780): a
\* request is in the queue, parked, held or made, and only there; it is given up
\* only when its provider goes, the generator is reset or a hook fails.
AccountedOnce ==
  \A r \in 1 .. asked :
    /\ r \notin excused => Places(r) = 1
    /\ Places(r) > 1 => Failed

\* No prop is made for a provider that was removed while the prop waited, in
\* whichever of the waiting places.
RemovedNeverMade == made \cap stale # {} => Failed

\* Nothing waits without its feature; nothing is lost or doubled, unless a hook
\* failed or its provider went; and nothing is made for one that went.
ExtrasInv == TypeOK /\ AccountedOnce /\ RemovedNeverMade

\* Nothing waits for ever in the cone: behind a scan that sees a part of the
\* park only, a budget, a full queue or nearer props.
WaitersReturn == \A r \in Requests : []<>~(r \in Waiting /\ r \in cone)

\* "The game still gets the whole queue" after a fault in the hook before it.
WholeQueueOnFault ==
  [][Fault /\ stage = "between" => Range(queue) \ stale \subseteq Range(queue')]_queue_vars
=============================================================================
