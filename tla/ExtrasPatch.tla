---------------------------- MODULE ExtrasPatch ----------------------------
(***************************************************************************)
(* The byte patches of gu_extras.c, installed one feature after the other  *)
(* while the world is stopped: each feature finds its sites, or is         *)
(* refused, and writes them in a transaction of its own (tx_add,           *)
(* tx_commit, tx_restore), which skips a site whose page it cannot open    *)
(* again.  Afterwards the engine allocates and frees its matrix pool, and  *)
(* runs into the reflection hook.                                          *)
(***************************************************************************)
EXTENDS Naturals, FiniteSets

CONSTANT Asked    \* the sets of features a configuration may ask for

\* k_site_name, as far as the features write there
SitesOf ==
  [matrix      |-> {"limit.a", "limit.b", "pool.size", "pool.alloc", "pool.free"},
   reflections |-> {"list.a", "list.b"},
   queue       |-> {"before", "reset", "destructor", "after"},
   drawable    |-> {"refs", "init.new"},
   cache       |-> {"start", "scan.a", "scan.b"}]

Features == DOMAIN SitesOf
Sites == UNION {SitesOf[f] : f \in Features}
Limit == {"limit.a", "limit.b"}
Pool  == {"pool.size", "pool.alloc", "pool.free"}
Cone  == {"before", "reset", "destructor"}

ASSUME AskedAssumption == Asked \subseteq SUBSET Features

VARIABLES
  xtodo,    \* requested features not yet looked at
  xstatus,  \* the feature's status: OFF, ON, NOT_NEEDED, ERR
  xmods,    \* sites another mod has changed: their pattern is not found
  xnew,     \* sites that show this library's bytes
  xactive,  \* features whose hooks act: g_refl_phases, g_cone_on, g_spawn_on
  xbuffer,  \* g_render_cache_buffer: none, live, freed
  xpool,    \* the matrix pool's memory: none, engine, ours, corrupt
  xskipped  \* features of which tx_restore skipped a site

extras == <<xtodo, xstatus, xmods, xnew, xactive, xbuffer, xpool, xskipped>>

InitExtras ==
  /\ xtodo \in Asked
  /\ xstatus = [f \in Features |-> "OFF"]
  /\ xmods \in {{}} \cup {{s} : s \in Sites}
  /\ xnew = {} /\ xactive = {} /\ xskipped = {}
  /\ xbuffer = "none" /\ xpool \in {"none", "engine"}

\* resolve: the feature has a pointer to the site
Found(s) == s \notin xmods

Status(f, s) == xstatus' = [xstatus EXCEPT ![f] = s]

\* Refused before anything is written: a site is missing, a page of the arena
\* or a buffer is not to be had, a thread is inside a site.
Refuse(f) == Status(f, "ERR") /\ UNCHANGED <<xnew, xskipped>>

\* tx_commit: the page of some site cannot be opened, or a site does not read
\* back; tx_restore passes over what it cannot open.
Revert(f, sites) ==
  \E kept \in SUBSET sites :
    /\ Status(f, "ERR") /\ xnew' = xnew \cup kept
    /\ xskipped' = IF kept = {} THEN xskipped ELSE xskipped \cup {f}

Apply(f, sites) == Status(f, "ON") /\ xnew' = xnew \cup sites /\ UNCHANGED xskipped

Commit(f, sites) == Refuse(f) \/ Revert(f, sites) \/ Apply(f, sites)

\* install_core: in this order, each requested feature
Order == <<"matrix", "reflections", "queue", "drawable", "cache">>
Turn(f) ==
  /\ f \in xtodo /\ xtodo' = xtodo \ {f}
  /\ \A i, j \in DOMAIN Order : Order[j] = f /\ i < j => Order[i] \notin xtodo
  /\ UNCHANGED <<xmods, xpool>>

\* The limit is given up when its two sites are not the game's own; the three
\* sites of the pool belong together.
InstallMatrix ==
  /\ Turn("matrix")
  /\ \E want_limit, want_pool \in BOOLEAN :
       LET limit == want_limit /\ \A s \in Limit : Found(s)
           sites == (IF limit THEN Limit ELSE {}) \cup (IF want_pool THEN Pool ELSE {})
       IN IF ~want_limit /\ ~want_pool
            THEN Status("matrix", "OFF") /\ UNCHANGED <<xnew, xskipped>>
          ELSE IF sites = {} \/ ~(\A s \in sites : Found(s)) THEN Refuse("matrix")
          ELSE Commit("matrix", sites)
  /\ UNCHANGED <<xactive, xbuffer>>

\* A hook is switched on before the commit and off when it fails, so that a
\* hook that stays behind passes everything on.
Switch(f) == xactive' = IF xstatus'[f] = "ON" THEN xactive \cup {f} ELSE xactive

InstallReflections ==
  /\ Turn("reflections")
  /\ IF \A s \in SitesOf["reflections"] : Found(s)
       THEN Commit("reflections", SitesOf["reflections"]) ELSE Refuse("reflections")
  /\ Switch("reflections")
  /\ UNCHANGED xbuffer

\* ConeBack hooks three sites, the spawn limit one more.
InstallQueueHooks ==
  /\ Turn("queue")
  /\ \E sites \in {Cone, SitesOf["queue"]} :
       IF \A s \in sites : Found(s) THEN Commit("queue", sites) ELSE Refuse("queue")
  /\ Switch("queue")
  /\ UNCHANGED xbuffer

\* The size of the array, and where it comes from if it is to be the
\* library's own memory.
InstallDrawable ==
  /\ Turn("drawable")
  /\ \/ \E sites \in {{"refs"}, SitesOf["drawable"]} :
          IF \A s \in SitesOf["drawable"] : Found(s)
            THEN Commit("drawable", sites) ELSE Refuse("drawable")
     \/ /\ \A s \in SitesOf["drawable"] : Found(s)
        /\ Status("drawable", "NOT_NEEDED") /\ UNCHANGED <<xnew, xskipped>>
  /\ UNCHANGED <<xactive, xbuffer>>

\* Mutant of BufferAfter: the buffer is freed whatever became of the feature.
BufferAfterAlways(status) == "freed"

BufferAfter(status) == IF status = "ON" THEN "live" ELSE "freed"

InstallRenderCache ==
  /\ Turn("cache")
  /\ \/ /\ \A s \in SitesOf["cache"] : Found(s)
        /\ Commit("cache", SitesOf["cache"]) /\ xbuffer' = BufferAfter(xstatus'["cache"])
     \/ Refuse("cache") /\ UNCHANGED xbuffer
     \/ /\ \A s \in SitesOf["cache"] : Found(s)
        /\ Status("cache", "NOT_NEEDED") /\ UNCHANGED <<xnew, xskipped, xbuffer>>
  /\ UNCHANGED xactive

-----------------------------------------------------------------------------
(***************************************************************************)
(* Later, in the engine's threads.                                         *)
(***************************************************************************)
Later == xtodo = {}
InEngine ==
  Later /\ UNCHANGED <<xtodo, xstatus, xmods, xnew, xbuffer, xskipped>>

\* gu_x_matrix_alloc falls back to the engine's own operator new.
AllocatePool ==
  /\ InEngine /\ xpool = "none"
  /\ \/ xpool' = "ours" /\ "pool.alloc" \in xnew
     \/ xpool' = "engine"
  /\ UNCHANGED xactive

\* gu_x_matrix_free knows what it gave out; the engine's operator delete does
\* not, and must not get it.
FreePool ==
  /\ InEngine /\ xpool \in {"engine", "ours"}
  /\ xpool' = IF xpool = "ours" /\ "pool.free" \notin xnew THEN "corrupt" ELSE "none"
  /\ UNCHANGED xactive

\* gu_x_drop_reflections: a memory fault switches the filter off for good.
ReflectionsFault ==
  /\ InEngine /\ "reflections" \in xactive /\ "list.a" \in xnew
  /\ xactive' = xactive \ {"reflections"} /\ UNCHANGED xpool

NextExtras ==
  \/ InstallMatrix \/ InstallReflections \/ InstallQueueHooks
  \/ InstallDrawable \/ InstallRenderCache
  \/ AllocatePool \/ FreePool \/ ReflectionsFault

-----------------------------------------------------------------------------
(***************************************************************************)
(* Properties.                                                             *)
(***************************************************************************)
NewSites(f) == xnew \cap SitesOf[f]

\* The sites that are written together: one of the unions of these, or none.
Groups(f) ==
  CASE f = "matrix"   -> {Limit, Pool, Limit \cup Pool}
    [] f = "queue"    -> {Cone, SitesOf[f]}
    [] f = "drawable" -> {{"refs"}, SitesOf[f]}
    [] OTHER          -> {SitesOf[f]}

\* A feature is in as a whole or not at all, no site leads to a buffer that was
\* freed, and the engine's heap never gets back memory that is not its own;
\* except where a restoration was skipped.  Even then a hook that stayed
\* behind does not act, and another mod's bytes are never written over.
ExtrasWhole ==
  /\ \A f \in Features \ xskipped :
       IF xstatus[f] = "ON" THEN NewSites(f) \in Groups(f) ELSE NewSites(f) = {}
  /\ "cache" \notin xskipped /\ NewSites("cache") # {} => xbuffer = "live"
  /\ xpool = "corrupt" => "matrix" \in xskipped
  /\ \A f \in xactive : xstatus[f] = "ON"
  /\ xnew \cap xmods = {}
=============================================================================
