------------------------------ MODULE Watchdog ------------------------------
(***************************************************************************)
(* After a successful installation: the diagnostics are set up, the log is *)
(* written and the background threads are let go; the hang watchdog probes *)
(* the game's window; threads that fault run into the vectored logger and  *)
(* into the crash handler.  Watchdog and crash handler write a dump each,  *)
(* with a smaller one to fall back on, and the process may end meanwhile.  *)
(*                                                                         *)
(* g_hang_watchdog_stop is set when the process detaches, which is when it *)
(* ends: the thread does not run any more.                                 *)
(***************************************************************************)
EXTENDS Integers, Sequences

CONSTANTS
  Faulting,         \* engine threads that may fault
  threshold_probes  \* from g_hang_timeout_seconds, at least 1

ASSUME WatchdogAssumption == threshold_probes \in Nat \ {0}

Kinds == {"hang", "crash"}
Dumps == Kinds \X {"full", "fallback"}

VARIABLES
  setup,    \* what startup_worker_main does next
  writer,   \* g_mini_dump_write_dump was found
  handlers, \* those that are installed: "filter", "logger"
  claimed,  \* g_hang_dump_started, g_crash_dump_started, g_targeted_exception_logged
  files,    \* per dump: absent, part, failed, whole
  reports,  \* per kind: the results handed to append_*_diagnostics
  watching, \* where the watchdog thread is
  probes,   \* failed_probes; beyond the threshold it makes no difference
  faulting, \* per thread: where it is in the crash handler
  window,   \* the game's window: none, answers, hung
  missed,   \* probes without an answer since the last with one
  ended     \* the process

installed == <<setup, writer, handlers>>
dumping   == <<claimed, files, reports>>
probing   == <<watching, probes, missed>>
engine    == <<faulting, window, ended>>
diagnostics == <<installed, dumping, probing, engine>>

InitWatchdog ==
  /\ setup = "minidump" /\ writer = FALSE /\ handlers = {} /\ claimed = {}
  /\ files = [d \in Dumps |-> "absent"] /\ reports = [k \in Kinds |-> <<>>]
  /\ watching = "none" /\ probes = 0 /\ missed = 0
  /\ faulting = [t \in Faulting |-> "out"]
  /\ window = "none" /\ ended = FALSE

\* Mutant of MayClaim: the flag is written, not exchanged.
MayClaimAgain(k) == TRUE

\* InterlockedCompareExchange(&..., 1, 0) == 0
MayClaim(k) == k \notin claimed

UpTo(n) == IF n < threshold_probes THEN n + 1 ELSE n

-----------------------------------------------------------------------------
(***************************************************************************)
(* startup_worker_main, after STATUS_PATCH_APPLIED                         *)
(***************************************************************************)
Setup(now, next) == ~ended /\ setup = now /\ setup' = next

InitializeMinidump ==
  /\ Setup("minidump", "handlers") /\ writer' \in BOOLEAN
  /\ UNCHANGED <<dumping, probing, engine, handlers>>

InstallHandlers ==
  /\ Setup("handlers", "watchdog") /\ handlers' \in SUBSET {"filter", "logger"}
  /\ UNCHANGED <<dumping, probing, engine, writer>>

\* It may be switched off, and the thread may not be created.
StartHangWatchdog ==
  /\ Setup("watchdog", "log") /\ watching' \in {"none", "waiting"}
  /\ UNCHANGED <<dumping, engine, writer, handlers, probes, missed>>

WriteLog ==
  /\ Setup("log", "publish")
  /\ UNCHANGED <<dumping, probing, engine, writer, handlers>>

\* Mutant of PublishReady: only where a dump can be written.
PublishIfWriter == writer /\ Setup("publish", "done")

\* g_background_threads_ready
PublishReady == Setup("publish", "done")

LetGo ==
  /\ PublishReady
  /\ UNCHANGED <<dumping, probing, engine, writer, handlers>>

SetupStep ==
  InitializeMinidump \/ InstallHandlers \/ StartHangWatchdog \/ WriteLog \/ LetGo

-----------------------------------------------------------------------------
(***************************************************************************)
(* A dump of either kind: created anew, written, flushed and closed; if    *)
(* writing fails, the fallback; then, as a step of its own, the report.    *)
(***************************************************************************)
Becomes(d, content) == files' = [files EXCEPT ![d] = content] /\ UNCHANGED reports
Report(k, result) == reports' = [reports EXCEPT ![k] = Append(@, result)] /\ UNCHANGED files

DumpStep(k, now, next) ==
  \/ /\ now = "open" /\ writer /\ files[<<k, "full">>] = "absent"
     /\ next = "write" /\ Becomes(<<k, "full">>, "part")
  \/ /\ now = "open" /\ next = "failed" /\ UNCHANGED <<files, reports>>
  \/ /\ now = "write"
     /\ \/ next = "written" /\ Becomes(<<k, "full">>, "whole")
        \/ next = "reopen" /\ Becomes(<<k, "full">>, "failed")
  \/ /\ now = "reopen" /\ files[<<k, "fallback">>] = "absent"
     /\ next = "rewrite" /\ Becomes(<<k, "fallback">>, "part")
  \/ /\ now = "reopen" /\ next = "failed" /\ UNCHANGED <<files, reports>>
  \/ /\ now = "rewrite"
     /\ \/ next = "written" /\ Becomes(<<k, "fallback">>, "whole")
        \/ next = "failed" /\ Becomes(<<k, "fallback">>, "failed")
  \/ /\ now \in {"written", "failed"} /\ next = "over" /\ Report(k, now)

DumpPlaces == {"write", "written", "reopen", "rewrite", "failed", "over"}

-----------------------------------------------------------------------------
(***************************************************************************)
(* hang_watchdog_thread_main                                               *)
(***************************************************************************)
\* wait_for_background_threads_ready, and the grace period
PassWait ==
  /\ ~ended /\ watching = "waiting" /\ setup = "done" /\ watching' = "probe"
  /\ UNCHANGED <<installed, dumping, engine, probes, missed>>

\* game_window_is_responsive: 1 for an answer, 0 for a timeout, -1 when there
\* is no visible window to ask.
Responsive == CASE window = "none" -> -1 [] window = "hung" -> 0 [] OTHER -> 1

\* Without a window there is neither an answer nor a miss.
Counted == CASE Responsive = 1 -> 0 [] Responsive = 0 -> UpTo(probes) [] OTHER -> probes

Probe ==
  /\ ~ended /\ watching = "probe"
  /\ missed' = CASE window = "answers" -> 0
                 [] window = "hung"    -> UpTo(missed)
                 [] OTHER              -> missed
  /\ probes' = Counted
  /\ IF Counted >= threshold_probes /\ MayClaim("hang")
       THEN claimed' = claimed \cup {"hang"} /\ watching' = "open"
       ELSE UNCHANGED <<claimed, watching>>
  /\ UNCHANGED <<installed, engine, files, reports>>

\* write_hang_dump
DumpHang ==
  /\ ~ended /\ \E next \in DumpPlaces :
       DumpStep("hang", watching, next) /\ watching' = next
  /\ UNCHANGED <<installed, engine, claimed, probes, missed>>

\* The box, if there is one, was closed.
ResumeProbes ==
  /\ ~ended /\ watching = "over" /\ watching' = "probe" /\ probes' = 0
  /\ UNCHANGED <<installed, dumping, engine, missed>>

WatchdogStep == PassWait \/ Probe \/ DumpHang

-----------------------------------------------------------------------------
(***************************************************************************)
(* Threads that fault.                                                     *)
(***************************************************************************)
\* targeted_provider_exception_logger: a relevant exception, the first time
FirstChance ==
  /\ ~ended /\ "logger" \in handlers /\ MayClaim("logger")
  /\ claimed' = claimed \cup {"logger"}
  /\ UNCHANGED <<installed, probing, engine, files, reports>>

\* crash_exception_handler: one thread dumps, the others and those with
\* another kind of exception pass it on.
EnterCrashHandler(t) ==
  /\ ~ended /\ "filter" \in handlers /\ faulting[t] = "out"
  /\ \/ /\ MayClaim("crash")
        /\ claimed' = claimed \cup {"crash"} /\ faulting' = [faulting EXCEPT ![t] = "open"]
     \/ faulting' = [faulting EXCEPT ![t] = "over"] /\ UNCHANGED claimed
  /\ UNCHANGED <<installed, probing, files, reports, window, ended>>

DumpCrash(t) ==
  /\ ~ended /\ \E next \in DumpPlaces :
       DumpStep("crash", faulting[t], next) /\ faulting' = [faulting EXCEPT ![t] = next]
  /\ UNCHANGED <<installed, probing, claimed, window, ended>>

\* The filters before this one, or the system, end the process, whatever the
\* other threads are at; or the game handles the exception and goes on.
AfterChain(t) ==
  /\ ~ended /\ faulting[t] = "over"
  /\ \/ ended' = TRUE /\ UNCHANGED faulting
     \/ faulting' = [faulting EXCEPT ![t] = "out"] /\ UNCHANGED ended
  /\ UNCHANGED <<installed, dumping, probing, window>>

WindowChanges ==
  /\ ~ended /\ window' \in {"none", "answers", "hung"} \ {window}
  /\ UNCHANGED <<installed, dumping, probing, faulting, ended>>

NextWatchdog ==
  \/ SetupStep \/ WatchdogStep \/ ResumeProbes \/ FirstChance \/ WindowChanges
  \/ \E t \in Faulting : EnterCrashHandler(t) \/ DumpCrash(t) \/ AfterChain(t)

-----------------------------------------------------------------------------
(***************************************************************************)
(* Properties.                                                             *)
(***************************************************************************)
\* Whoever dumps for k is there, or was when the process ended.
IsAt(k, place) ==
  IF k = "hang" THEN watching = place ELSE \E t \in Faulting : faulting[t] = place

Writing(d) == IsAt(d[1], IF d[2] = "full" THEN "write" ELSE "rewrite")

WholeDump(k) == \E d \in Dumps : d[1] = k /\ files[d] = "whole"

\* One report of each kind, and it is true: none speaks of a dump that is not
\* whole, and a whole dump lacks its report only until it is made, or where
\* the process ended first; one dump of each kind, half written only while
\* somebody is at it or where the process ended; a hang is only seen after that
\* many probes without an answer in between; and nothing is probed before the
\* log is complete.
WatchdogInv ==
  /\ \A k \in Kinds :
       /\ Len(reports[k]) <= 1
       /\ reports[k] = <<"written">> => WholeDump(k)
       /\ WholeDump(k) => reports[k] = <<"written">> \/ IsAt(k, "written")
  /\ \A d \in Dumps : files[d] = "part" => Writing(d)
  /\ watching = "open" => missed >= threshold_probes
  /\ watching \notin {"none", "waiting"} => setup = "done"

\* A window that hangs for good while the watchdog is there gets its report.
HangIsReported ==
  <>[](window = "hung" /\ watching # "none" /\ ~ended) => <>(reports["hang"] # <<>>)
=============================================================================
