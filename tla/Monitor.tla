------------------------------- MODULE Monitor ------------------------------
(***************************************************************************)
(* The monitor process and its worker (monitor.c, worker.c).  The monitor  *)
(* forks a worker, waits for its end and forks the next.  The two share a  *)
(* pipe: a byte 'R' in it asks the worker to reload the configuration, its *)
(* end (no process holds the write end any more) asks it to stop.          *)
(*                                                                         *)
(* Signal handlers only set flags.  They may run between any two steps of  *)
(* the monitor; the flags are looked at when a signal has interrupted      *)
(* waitpid, and at the head of the loop.                                   *)
(***************************************************************************)
EXTENDS Naturals

CONSTANTS
  MaxEdits,      \* bound on the edits of the configuration file
  MaxReloads,    \* bound on the SIGUSR1 sent to the monitor
  MaxDeaths,     \* bound on the deaths of workers, but for those asked for
                 \* and those for a configuration that is not accepted
  Broken         \* the versions of the file that are not accepted

ASSUME MonitorAssumption ==
  MaxEdits \in Nat /\ MaxReloads \in Nat /\ MaxDeaths \in Nat /\ Broken \subseteq Nat

VARIABLES
  at,            \* where the monitor is
  worker,        \* "none", "child" (just forked), "load", "serve", "zombie"
  exitFlag,      \* g_exit_flag
  reloadFlag,    \* g_reload_flag
  writers,       \* the processes that hold the write end of the pipe
  bytes,         \* the 'R's in the pipe
  conf,          \* version of the configuration file
  loaded,        \* version the worker has read; 0 before it has
  reloads,       \* SIGUSR1 sent
  written,       \* history: the 'R's written to the pipes of all workers
  deaths         \* deaths of workers

pipeVars == <<writers, bytes, written>>
flags    == <<exitFlag, reloadFlag>>
operator == <<conf, reloads>>
vars     == <<at, worker, flags, pipeVars, operator, loaded, deaths>>

Places  == {"loop", "pipe", "fork", "enter", "wait", "closing", "writing", "sleep", "ended"}
Workers == {"none", "child", "load", "serve", "zombie"}

Init ==
  /\ at = "loop" /\ worker = "none"
  /\ exitFlag = FALSE /\ reloadFlag = FALSE
  /\ writers = {} /\ bytes = 0 /\ written = 0
  /\ conf = 1 /\ loaded = 0 /\ reloads = 0 /\ deaths = 0
-----------------------------------------------------------------------------
(* while( ! g_exit_flag ); the end of a process closes its descriptors.    *)
Loop ==
  /\ at = "loop"
  /\ IF exitFlag
     THEN at' = "ended" /\ writers' = writers \ {"monitor"}
     ELSE at' = "pipe" /\ UNCHANGED writers
  /\ UNCHANGED <<worker, flags, bytes, written, operator, loaded, deaths>>

MakePipe ==
  /\ at = "pipe"
  /\ at' = "fork"
  /\ writers' = {"monitor"} /\ bytes' = 0
  /\ UNCHANGED <<worker, flags, written, operator, loaded, deaths>>

Fork ==
  /\ at = "fork"
  /\ at' = "enter"
  /\ worker' = "child" /\ loaded' = 0
  /\ writers' = writers \cup {"worker"}
  /\ UNCHANGED <<flags, bytes, written, operator, deaths>>

(* pipe or fork fails: the monitor gives up.                               *)
GiveUp ==
  /\ at \in {"pipe", "fork"}
  /\ at' = "ended"
  /\ writers' = writers \ {"monitor"}
  /\ UNCHANGED <<worker, flags, bytes, written, operator, loaded, deaths>>

EnterWait ==
  /\ at = "enter"
  /\ at' = "wait"
  /\ UNCHANGED <<worker, flags, pipeVars, operator, loaded, deaths>>

(* Mutant: continue where the code breaks. *)
ReapAndWait ==
  /\ at = "wait" /\ worker = "zombie"
  /\ at' = "enter" /\ worker' = "none"
  /\ UNCHANGED <<flags, pipeVars, operator, loaded, deaths>>

(* waitpid returns the dead worker.                                        *)
Reap ==
  /\ at = "wait" /\ worker = "zombie"
  /\ at' = "sleep"
  /\ worker' = "none"
  /\ writers' = IF exitFlag THEN writers ELSE writers \ {"monitor"}
  /\ UNCHANGED <<flags, bytes, written, operator, loaded, deaths>>

(* Mutants: the pipe is closed on any signal, or on none; a signal is taken*)
(* for the end of the worker; the closed pipe is written to.               *)
CloseOnSignal ==
  /\ at = "closing" /\ at' = "writing"
  /\ writers' = writers \ {"monitor"}
  /\ UNCHANGED <<worker, flags, bytes, written, operator, loaded, deaths>>

CloseNever ==
  /\ at = "closing" /\ at' = "writing"
  /\ UNCHANGED <<worker, flags, pipeVars, operator, loaded, deaths>>

CloseAndBreak ==
  /\ at = "closing" /\ at' = "sleep"
  /\ writers' = writers \ {"monitor"}
  /\ UNCHANGED <<worker, flags, bytes, written, operator, loaded, deaths>>

WriteAnyway ==
  /\ at = "writing" /\ at' = "enter"
  /\ IF reloadFlag
     THEN bytes' = bytes + 1 /\ written' = written + 1
     ELSE UNCHANGED <<bytes, written>>
  /\ UNCHANGED <<worker, flags, writers, operator, loaded, deaths>>

(* waitpid has returned EINTR: two flags, tested one after the other.      *)
CloseOnExit ==
  /\ at = "closing"
  /\ at' = "writing"
  /\ writers' = IF exitFlag THEN writers \ {"monitor"} ELSE writers
  /\ UNCHANGED <<worker, flags, bytes, written, operator, loaded, deaths>>

WriteOnReload ==
  /\ at = "writing"
  /\ at' = "enter"
  /\ IF reloadFlag /\ "monitor" \in writers
     THEN bytes' = bytes + 1 /\ written' = written + 1
     ELSE UNCHANGED <<bytes, written>>
  /\ UNCHANGED <<worker, flags, writers, operator, loaded, deaths>>

Sleep ==
  /\ at = "sleep"
  /\ at' = "loop"
  /\ UNCHANGED <<worker, flags, pipeVars, operator, loaded, deaths>>
-----------------------------------------------------------------------------
(* SignalProcess, and the return of EINTR when it finds the monitor blocked*)
(* in waitpid; with a dead worker at hand waitpid returns it instead.      *)
Interrupt == at' = IF at = "wait" /\ worker # "zombie" THEN "closing" ELSE at

Terminate ==
  /\ at # "ended"
  /\ exitFlag' = TRUE
  /\ Interrupt
  /\ UNCHANGED <<worker, reloadFlag, pipeVars, operator, loaded, deaths>>

RequestReload ==
  /\ at # "ended" /\ reloads < MaxReloads
  /\ reloads' = reloads + 1
  /\ reloadFlag' = TRUE
  /\ Interrupt
  /\ UNCHANGED <<worker, exitFlag, pipeVars, conf, loaded, deaths>>

EditConf ==
  /\ conf <= MaxEdits
  /\ conf' = conf + 1
  /\ UNCHANGED <<at, worker, flags, pipeVars, reloads, loaded, deaths>>

KillMonitor ==
  /\ at # "ended"
  /\ at' = "ended"
  /\ writers' = writers \ {"monitor"}
  /\ UNCHANGED <<worker, flags, bytes, written, operator, loaded, deaths>>
-----------------------------------------------------------------------------
(* Mutants: the inherited write end stays open; the pipe is read when it   *)
(* is empty; the byte is read and nothing reloaded.                        *)
KeepWriteEnd ==
  /\ worker = "child" /\ worker' = "load"
  /\ UNCHANGED <<at, flags, pipeVars, operator, loaded, deaths>>

ReadAnyway ==
  /\ worker = "serve"
  /\ bytes' = bytes - 1 /\ loaded' = conf
  /\ UNCHANGED <<at, worker, flags, writers, written, operator, deaths>>

ReadOnly ==
  /\ worker = "serve" /\ bytes > 0
  /\ bytes' = bytes - 1
  /\ UNCHANGED <<at, worker, flags, writers, written, operator, loaded, deaths>>

(* The worker.                                                             *)
CloseWriteEnd ==
  /\ worker = "child"
  /\ worker' = "load"
  /\ writers' = writers \ {"worker"}
  /\ UNCHANGED <<at, flags, bytes, written, operator, loaded, deaths>>

LoadConfig ==
  /\ worker = "load" /\ conf \notin Broken
  /\ worker' = "serve"
  /\ loaded' = conf
  /\ UNCHANGED <<at, flags, pipeVars, operator, deaths>>

(* LoadConfig fails: the worker returns 1, and is started again.           *)
RejectConfig ==
  /\ worker = "load" /\ conf \in Broken
  /\ worker' = "zombie"
  /\ UNCHANGED <<at, flags, pipeVars, operator, loaded, deaths>>

(* The alive pipe is readable: one byte, or its end.  A reload that fails  *)
(* is logged, and the worker goes on with the configuration it has.        *)
ReadReload ==
  /\ worker = "serve" /\ bytes > 0
  /\ bytes' = bytes - 1
  /\ loaded' = IF conf \in Broken THEN loaded ELSE conf
  /\ UNCHANGED <<at, worker, flags, writers, written, operator, deaths>>

ReadEnd ==
  /\ worker = "serve" /\ bytes = 0 /\ writers = {}
  /\ worker' = "zombie"
  /\ UNCHANGED <<at, flags, pipeVars, operator, loaded, deaths>>

(* Any other end: a database is away, a handler returns a fatal error, a   *)
(* crash, kill -9, a SIGUSR1 of its own (the handler is inherited and      *)
(* epoll_wait returns EINTR).                                              *)
Die ==
  /\ worker \in {"child", "load", "serve"} /\ deaths < MaxDeaths
  /\ deaths' = deaths + 1
  /\ worker' = "zombie"
  /\ writers' = writers \ {"worker"}
  /\ UNCHANGED <<at, flags, bytes, written, operator, loaded>>
-----------------------------------------------------------------------------
MonitorStep ==
  \/ Loop \/ MakePipe \/ Fork \/ EnterWait \/ Reap
  \/ CloseOnExit \/ WriteOnReload \/ Sleep

WorkerStep ==
  CloseWriteEnd \/ LoadConfig \/ RejectConfig \/ ReadReload \/ ReadEnd

Environment == GiveUp \/ Terminate \/ RequestReload \/ EditConf \/ KillMonitor \/ Die

Next == MonitorStep \/ WorkerStep \/ Environment

Spec == Init /\ [][Next]_vars

(* Both processes are scheduled; nothing is asked of the operator.         *)
FairSpec == Spec /\ WF_vars(MonitorStep) /\ WF_vars(WorkerStep)
-----------------------------------------------------------------------------
TypeOK ==
  /\ at \in Places /\ worker \in Workers
  /\ exitFlag \in BOOLEAN /\ reloadFlag \in BOOLEAN
  /\ writers \subseteq {"monitor", "worker"}
  /\ bytes \in Nat /\ written \in Nat
  /\ conf \in 1..MaxEdits + 1 /\ loaded \in 0..MaxEdits + 1
  /\ reloads \in 0..MaxReloads /\ deaths \in 0..MaxDeaths

(* A worker that is alive sees the end of its pipe only when a stop was    *)
(* asked for or the monitor is gone: over any number of restarts no other  *)
(* path of the monitor closes the write end under it (monitor.c:86-87,     *)
(* 98-99).                                                                 *)
PipeHeld ==
  worker \in {"child", "load", "serve"} /\ writers = {} => exitFlag \/ at = "ended"

(* The monitor never forks beside a worker that is alive: at every place   *)
(* from which it may reach fork, and when it ends of itself, it has reaped *)
(* the one before, although it only tests flags (monitor.c:44-103).        *)
NoSecondWorker == at \in {"sleep", "loop", "pipe", "fork"} => worker = "none"

(* g_reload_flag is never cleared, yet no worker is asked to reload twice  *)
(* for one request: later interrupts of waitpid are those of a stop, which *)
(* closes the pipe first (monitor.c:86-89).                                *)
NoStaleReload == written <= reloads

(* The monitor, however it ends (kill -9 included), takes its worker with  *)
(* it: the worker is the only other holder of the write end and closes its *)
(* copy, so that the pipe ends with the monitor (monitor.c:70, worker.c:   *)
(* 420-423).                                                               *)
NoOrphan == at = "ended" ~> worker \in {"none", "zombie"}

(* A stop request that interrupts waitpid stops the service, whatever      *)
(* workers die meanwhile (monitor.c:86-87).                                *)
StopHeard == (at = "closing" /\ exitFlag) ~> at = "ended"

(* A reload request that interrupts waitpid reaches a worker: it reads the *)
(* configuration as it was then, or a later one, by ReloadConfig or, if it *)
(* dies first, when its successor starts (monitor.c:88-89, worker.c:402-   *)
(* 419), unless the file has become one that is not accepted: nothing asks *)
(* again when it is repaired (worker.c:410-414).                           *)
ReloadHeard ==
  \A v \in 1..MaxEdits + 1 :
    (at = "closing" /\ reloadFlag /\ conf >= v)
      ~> \/ worker = "serve" /\ loaded >= v
         \/ conf \in Broken \/ exitFlag \/ at = "ended"

(* The service as Supervision sees it.                                     *)
Service ==
  IF worker = "serve" THEN "up"
  ELSE IF at = "ended" /\ worker \in {"none", "zombie"} THEN "stopped"
  ELSE "down"

Supervised == INSTANCE Supervision WITH service <- Service, broken <- conf \in Broken

(* A worker that ended, for whatever cause, is replaced (monitor.c:80,     *)
(* "watch the end of the child and restart it"), until the service has     *)
(* stopped for good; one that does not accept the file is started over and *)
(* over, and serves once the file has been repaired.                       *)
Supervises == Supervised!FairSpec

(* A stop request stops the service (monitor.c:87; shbin/mysqlda.sh:63-70  *)
(* sends one SIGTERM and waits for the monitor to be gone).  It does not   *)
(* hold: StopHeard says what does.                                         *)
StopStops == exitFlag ~> at = "ended"
=============================================================================
