-------------------------- MODULE PatchTransaction --------------------------
(***************************************************************************)
(* The patch transaction of universal_hooks.c: a list of sites in the      *)
(* engine's code, each with the bytes expected there and the branch into   *)
(* the mod that replaces them.  Writing or restoring a site calls the      *)
(* system three times (make the page writable, flush the instruction       *)
(* cache, protect the page again); every call may fail.  Other mods may    *)
(* hook the same sites: they save what they find and put it back later.    *)
(*                                                                         *)
(* One site is written, or restored, in one step; what happens between two *)
(* sites is left to everybody else.  protection_known is left out: it is   *)
(* set before a mark can be.                                               *)
(***************************************************************************)
EXTENDS Integers, FiniteSets

CONSTANTS
  SiteCount,     \* how many sites are patched
  Same,          \* sites whose replacement equals their original
  MaxInstalls    \* bound: how often stubs are prepared

ASSUME TransactionAssumption ==
  /\ SiteCount \in Nat \ {0} /\ MaxInstalls \in Nat
  /\ Same \subseteq 1 .. SiteCount

Sites == 1 .. SiteCount
Original == 0      \* the engine's own bytes
Foreign == -1      \* another mod's branch
Nothing == -2      \* nothing saved
\* 1, 2, ...: a branch into the stubs of that preparation

VARIABLES
  gen,         \* which preparation the stubs belong to
  bytes,       \* what is at each site
  saved,       \* what another mod will put back there
  protected,   \* the site's page has its own protection
  mark,        \* patch->installed: 0 restored, 1 live, 2 incomplete
  count,       \* transaction->count
  committed    \* transaction->committed

patches == <<mark, count, committed>>
image == <<bytes, protected>>
transaction == <<image, patches>>

\* patch->replacement
Replacement(s) == IF s \in Same THEN Original ELSE gen

InitTransaction ==
  /\ gen = 0
  /\ bytes = [s \in Sites |-> Original]
  /\ saved = [s \in Sites |-> Nothing]
  /\ protected = [s \in Sites |-> TRUE]
  /\ mark = [s \in Sites |-> 0]
  /\ count = 0 /\ committed = FALSE

\* gu_patch_transaction_initialize, and the stubs of a new preparation.
NewTransaction ==
  /\ gen' = gen + 1
  /\ mark' = [s \in Sites |-> 0]
  /\ count' = 0 /\ committed' = FALSE
  /\ UNCHANGED <<image, saved>>

\* gu_patch_transaction_add: the site is refused unless it is as expected.
CanAdd(s) == bytes[s] = Original
Add ==
  /\ count < SiteCount /\ CanAdd(count + 1)
  /\ count' = count + 1
  /\ UNCHANGED <<gen, image, saved, mark, committed>>

\* What one attempt leaves at a site.
Outcome(b, p, m, ok) == [bytes |-> b, protected |-> p, mark |-> m, ok |-> ok]
Failed(s, m) == Outcome(bytes[s], protected[s], m, FALSE)

\* Mutant of Undone: a page that could not be closed is forgotten.
UndoneUnclosed(s, open) ==
  {Outcome(Original, closed \/ ~open, IF flushed THEN 0 ELSE 2, flushed) :
     flushed \in BOOLEAN, closed \in BOOLEAN}

\* The original bytes are back; the cache may not have been flushed, the page
\* may not have been closed again.
Undone(s, open) ==
  {Outcome(Original, closed \/ ~open,
           IF flushed /\ closed THEN 0 ELSE IF s \in Same THEN 1 ELSE 2,
           flushed /\ closed) :
     flushed \in BOOLEAN, closed \in BOOLEAN}

\* gu_write_patch: if anything fails after the bytes were written they are
\* taken back, each part of that on its own.
WriteOutcomes(s) ==
  IF bytes[s] # Original THEN {Failed(s, mark[s])}
  ELSE {Failed(s, mark[s]), Outcome(Replacement(s), TRUE, 1, TRUE)}
       \cup {[o EXCEPT !.ok = FALSE] : o \in Undone(s, TRUE)}

\* Mutant of RestoreOutcomes: a site that shows another mod's branch counts as
\* restored.
RestoreOutcomesTrusting(s) ==
  IF bytes[s] = Replacement(s) /\ s \notin Same
    THEN {Failed(s, 2)} \cup Undone(s, TRUE)
    ELSE {Outcome(bytes[s], TRUE, 0, TRUE)}

\* gu_restore_patch
RestoreOutcomes(s) ==
  IF bytes[s] = Original THEN Undone(s, ~protected[s])
  ELSE {Failed(s, 2)}
       \cup (IF bytes[s] = Replacement(s) THEN Undone(s, TRUE) ELSE {})

Apply(s, o) ==
  /\ bytes' = [bytes EXCEPT ![s] = o.bytes]
  /\ protected' = [protected EXCEPT ![s] = o.protected]
  /\ mark' = [mark EXCEPT ![s] = o.mark]

\* A restored site that shows the replacement again is live.
Reappeared(s) == mark[s] = 0 /\ s \notin Same /\ bytes[s] = Replacement(s)

\* Mutant of HasUnrestored: an incomplete restoration counts as restored.
HasUnrestoredLive == \E s \in 1 .. count : mark[s] = 1 \/ Reappeared(s)

\* gu_patch_transaction_has_unrestored
HasUnrestored == \E s \in 1 .. count : mark[s] # 0 \/ Reappeared(s)

Unaltered == \A s \in 1 .. count : bytes[s] = Original
=============================================================================
