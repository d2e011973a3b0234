------------------------------- MODULE Instance -------------------------------
(***************************************************************************)
(* One llama-server instance (src/pkg/instance): its status machine, the   *)
(* process it supervises and the request proxy's shutdown flag, for a set  *)
(* of Instance objects, and the operating-system processes they launch.    *)
(*                                                                         *)
(* Every exported method holds the object's mutex from its first to its    *)
(* last line.  Start and the two methods that end in process.stop take     *)
(* several steps, between which the process, the health endpoint and other *)
(* objects move: "holder" says which of them holds the mutex of an object, *)
(* "stage" where process.stop is.  process.go's own mutex is only taken    *)
(* under it and is left out.                                               *)
(*                                                                         *)
(* The manager composes these actions (Manager.tla).  InstSpec lets        *)
(* any caller call any method at any time instead.                         *)
(***************************************************************************)
EXTENDS Status, FiniteSets

CONSTANTS
  Objs,             \* Instance objects: results of New
  Launches,         \* operating-system processes, one per cmd.Start()
  Options,          \* values of Instance.Opts
  Ports,            \* TCP ports; an object made with port 0 is given NoPort
  None,             \* nil cmd, PID 0
  NoPort,
  Binaryless        \* objects whose cfg has an empty llamaCpp.binaryPath

ASSUME NoneAssumption ==
  None \notin Launches /\ None \notin Objs /\ NoPort \notin Ports
ASSUME BinaryAssumption == Binaryless \subseteq Objs

VARIABLES
  born,          \* objects New has returned
  status,        \* RawStatus and status.status, which change together
  pid,           \* PID: the launch, or None for 0
  cmd,           \* process.cmd: the last launch, or None for nil
  shuttingDown,  \* proxy.shuttingDown
  port,          \* Port
  hasResolver,   \* modelResolver is not nil
  opts,          \* Opts
  holder,        \* which method holds mu
  stage,         \* where process.stop is
  pstate,        \* a process: not launched, up, answering /health, or gone
  powner,        \* the object that launched it
  pport,         \* the port it was told to listen on
  popts          \* the options its command line was built from

objVars  == <<status, pid, cmd, shuttingDown, port, hasResolver, opts>>
lockVars == <<holder, stage>>
procVars == <<pstate, powner, pport, popts>>
instVars == <<born, objVars, lockVars, procVars>>

-----------------------------------------------------------------------------

(* No mutex.                                                               *)
Mutant_Unlocked(o) == o \in born

Unlocked(o) == o \in born /\ holder[o] = "none"

(* A process that has exited but has not been waited for counts as up: a   *)
(* signal to its group still succeeds.  "gone" is exited and reaped, when  *)
(* p.wait has closed done.                                                 *)
Live(p) == pstate[p] \in {"up", "listening"}

LiveOf(o) == {p \in Launches : Live(p) /\ powner[p] = o}

(* pollHealth asks host:port, so whoever listens there answers.            *)
Healthy(o) ==
  /\ port[o] # NoPort
  /\ \E p \in Launches : pstate[p] = "listening" /\ pport[p] = port[o]

-----------------------------------------------------------------------------
(* New with valid options.                                                 *)

New(o, pt, resolver, op) ==
  /\ o \notin born
  /\ born' = born \cup {o}
  /\ status' = [status EXCEPT ![o] = Stopped]
  /\ port' = [port EXCEPT ![o] = pt]
  /\ hasResolver' = [hasResolver EXCEPT ![o] = resolver]
  /\ opts' = [opts EXCEPT ![o] = op]
  /\ UNCHANGED <<pid, cmd, shuttingDown, lockVars, procVars>>

-----------------------------------------------------------------------------
(* Start.                                                                  *)

StartRefused(o) ==
  /\ Unlocked(o)
  /\ ~CanSet(status[o], Restarting)
  /\ UNCHANGED instVars

StartBegin(o) ==
  /\ Unlocked(o)
  /\ CanSet(status[o], Restarting)
  /\ status' = [status EXCEPT ![o] = Restarting]
  /\ holder' = [holder EXCEPT ![o] = "start"]
  /\ UNCHANGED <<born, pid, cmd, shuttingDown, port, hasResolver, opts,
                 stage, procVars>>

(* An error return that does not unlock.                                   *)
Mutant_StartFails(o) ==
  /\ holder[o] = "start"
  /\ status' = [status EXCEPT ![o] = Failed]
  /\ UNCHANGED <<born, pid, cmd, shuttingDown, port, hasResolver, opts,
                 lockVars, procVars>>

(* No resolver, an alias it does not know, unusable parameters, or         *)
(* exec.Cmd.Start failing.                                                 *)
StartFails(o) ==
  /\ holder[o] = "start"
  /\ status' = [status EXCEPT ![o] = Failed]
  /\ holder' = [holder EXCEPT ![o] = "none"]
  /\ UNCHANGED <<born, pid, cmd, shuttingDown, port, hasResolver, opts,
                 stage, procVars>>

(* "llama-server binary path not configured": the one error return that    *)
(* leaves the status as it is.                                             *)
StartNoBinary(o) ==
  /\ holder[o] = "start" /\ hasResolver[o] /\ o \in Binaryless
  /\ holder' = [holder EXCEPT ![o] = "none"]
  /\ UNCHANGED <<born, objVars, stage, procVars>>

(* The PID is not recorded.                                                *)
Mutant_StartLaunches(o, p) ==
  /\ holder[o] = "start" /\ hasResolver[o] /\ o \notin Binaryless
  /\ pstate[p] = "none"
  /\ pstate' = [pstate EXCEPT ![p] = "up"]
  /\ powner' = [powner EXCEPT ![p] = o]
  /\ pport' = [pport EXCEPT ![p] = port[o]]
  /\ popts' = [popts EXCEPT ![p] = opts[o]]
  /\ cmd' = [cmd EXCEPT ![o] = p]
  /\ holder' = [holder EXCEPT ![o] = "none"]
  /\ UNCHANGED <<born, status, pid, shuttingDown, port, hasResolver, opts, stage>>

StartLaunches(o, p) ==
  /\ holder[o] = "start" /\ hasResolver[o] /\ o \notin Binaryless
  /\ pstate[p] = "none"
  /\ pstate' = [pstate EXCEPT ![p] = "up"]
  /\ powner' = [powner EXCEPT ![p] = o]
  /\ pport' = [pport EXCEPT ![p] = port[o]]
  /\ popts' = [popts EXCEPT ![p] = opts[o]]
  /\ cmd' = [cmd EXCEPT ![o] = p]
  /\ pid' = [pid EXCEPT ![o] = p]
  /\ holder' = [holder EXCEPT ![o] = "none"]
  /\ UNCHANGED <<born, status, shuttingDown, port, hasResolver, opts, stage>>

-----------------------------------------------------------------------------
(* Stop and MarkFailed up to the call of process.stop.                     *)

StopNil(o) == Unlocked(o) /\ status[o] = Stopped /\ UNCHANGED instVars

StopRefused(o) ==
  /\ Unlocked(o)
  /\ status[o] # Stopped /\ ~CanSet(status[o], ShuttingDown)
  /\ UNCHANGED instVars

StopBegin(o) ==
  /\ Unlocked(o)
  /\ CanSet(status[o], ShuttingDown)
  /\ status' = [status EXCEPT ![o] = ShuttingDown]
  /\ shuttingDown' = [shuttingDown EXCEPT ![o] = TRUE]
  /\ holder' = [holder EXCEPT ![o] = "stop"]
  /\ stage' = [stage EXCEPT ![o] = "kill"]
  /\ UNCHANGED <<born, pid, cmd, port, hasResolver, opts, procVars>>

MarkFailedBegin(o) ==
  /\ Unlocked(o)
  /\ holder' = [holder EXCEPT ![o] = "fail"]
  /\ stage' = [stage EXCEPT ![o] = "kill"]
  /\ UNCHANGED <<born, objVars, procVars>>

-----------------------------------------------------------------------------
(* process.stop: SIGTERM, wait, SIGTERM, wait without limit.               *)

(* What its caller does with the result: Stop returns an error and leaves  *)
(* the status at shutting_down; MarkFailed ignores it.                     *)
StopReturns(o, ok) ==
  LET rests == ok \/ holder[o] = "fail"
      rest  == IF holder[o] = "fail" THEN Failed ELSE Stopped
  IN /\ pid' = [pid EXCEPT ![o] = IF rests THEN None ELSE @]
     /\ status' = [status EXCEPT ![o] = IF rests THEN rest ELSE @]
     /\ holder' = [holder EXCEPT ![o] = "none"]
     /\ stage' = [stage EXCEPT ![o] = "none"]
     /\ UNCHANGED <<born, cmd, shuttingDown, port, hasResolver, opts, procVars>>

StageGoes(o, to) ==
  /\ stage' = [stage EXCEPT ![o] = to]
  /\ UNCHANGED <<born, objVars, holder, procVars>>

KillNoProcess(o) == stage[o] = "kill" /\ cmd[o] = None /\ StopReturns(o, TRUE)

KillSent(o) ==
  /\ stage[o] = "kill" /\ cmd[o] # None /\ Live(cmd[o])
  /\ StageGoes(o, "wait")

(* The group does not exist: Process.Kill on a reaped process returns      *)
(* os.ErrProcessDone, and stop returns it.                                 *)
KillReaped(o) ==
  /\ stage[o] = "kill" /\ cmd[o] # None /\ ~Live(cmd[o])
  /\ StopReturns(o, FALSE)

(* No wait after the second signal.                                        *)
Mutant_DoneClosedOnce(o) ==
  /\ stage[o] = "wait" /\ ~Live(cmd[o])
  /\ StopReturns(o, TRUE)

(* A result taken before done is closed.                                   *)
Mutant_DoneClosed(o) ==
  /\ stage[o] \in {"wait", "block"}
  /\ StopReturns(o, TRUE)

DoneClosed(o) ==
  /\ stage[o] \in {"wait", "block"} /\ ~Live(cmd[o])
  /\ StopReturns(o, TRUE)

(* A stop that gives up when the grace period ends.                        *)
Mutant_GraceEnds(o) == stage[o] = "wait" /\ StopReturns(o, FALSE)

(* The grace period ends; done may be closed by now too.                   *)
GraceEnds(o) == stage[o] = "wait" /\ StageGoes(o, "rekill")

RekillSent(o) == stage[o] = "rekill" /\ Live(cmd[o]) /\ StageGoes(o, "block")

(* The group vanished between the timer and the second SIGTERM.            *)
RekillReaped(o) ==
  stage[o] = "rekill" /\ ~Live(cmd[o]) /\ StopReturns(o, FALSE)

StopGoesOn(o)    == KillSent(o) \/ GraceEnds(o) \/ RekillSent(o)
StopSucceeds(o)  == KillNoProcess(o) \/ DoneClosed(o)
StopErrs(o)      == KillReaped(o) \/ RekillReaped(o)

ProcessStop(o) == StopGoesOn(o) \/ StopSucceeds(o) \/ StopErrs(o)

-----------------------------------------------------------------------------
(* The setters of the manager: they bypass the status machine.             *)

Forced(o, s, p) ==
  /\ Unlocked(o)
  /\ status' = [status EXCEPT ![o] = s]
  /\ pid' = [pid EXCEPT ![o] = p]
  /\ UNCHANGED <<born, cmd, shuttingDown, port, hasResolver, opts, lockVars, procVars>>

(* Its argument is the object's own port in every call.                    *)
MarkRunning(o) == Forced(o, Running, pid[o])

(* The PID of a process started meanwhile is kept.                         *)
Mutant_MarkStopped(o) == Forced(o, Stopped, pid[o])

MarkStopped(o) == Forced(o, Stopped, None)

(* UpdateInstance's unlocked assignment to Opts.                           *)
SetOpts(o, op) ==
  /\ o \in born
  /\ opts' = [opts EXCEPT ![o] = op]
  /\ UNCHANGED <<born, status, pid, cmd, shuttingDown, port, hasResolver,
                 lockVars, procVars>>

-----------------------------------------------------------------------------
(* The processes.                                                          *)

(* Binding a port somebody listens on fails.                               *)
Listens(p) ==
  /\ pstate[p] = "up"
  /\ \A q \in Launches : pstate[q] = "listening" => pport[q] # pport[p]
  /\ pstate' = [pstate EXCEPT ![p] = "listening"]
  /\ UNCHANGED <<born, objVars, lockVars, powner, pport, popts>>

(* Exits, by itself or signalled, and is waited for.                       *)
Exits(p) ==
  /\ Live(p)
  /\ pstate' = [pstate EXCEPT ![p] = "gone"]
  /\ UNCHANGED <<born, objVars, lockVars, powner, pport, popts>>

-----------------------------------------------------------------------------
(* InstSpec: the component under every sequence of calls, from any number  *)
(* of callers.  One obligation is the caller's: MarkStopped, which stops   *)
(* nothing, is only called on an object without a live process.            *)

InstInit ==
  /\ born = {}
  /\ status = [o \in Objs |-> Stopped]
  /\ pid = [o \in Objs |-> None] /\ cmd = [o \in Objs |-> None]
  /\ shuttingDown = [o \in Objs |-> FALSE]
  /\ port = [o \in Objs |-> NoPort]
  /\ hasResolver = [o \in Objs |-> FALSE]
  /\ opts = [o \in Objs |-> None]
  /\ holder = [o \in Objs |-> "none"] /\ stage = [o \in Objs |-> "none"]
  /\ pstate = [p \in Launches |-> "none"] /\ powner = [p \in Launches |-> None]
  /\ pport = [p \in Launches |-> NoPort]
  /\ popts = [p \in Launches |-> None]

StartStep(o) ==
  StartFails(o) \/ StartNoBinary(o) \/ \E p \in Launches : StartLaunches(o, p)

Call(o) ==
  \/ \E pt \in Ports \cup {NoPort}, r \in BOOLEAN, op \in Options :
       New(o, pt, r, op)
  \/ StartRefused(o) \/ StartBegin(o)
  \/ StopNil(o) \/ StopRefused(o) \/ StopBegin(o)
  \/ MarkRunning(o)
  \/ MarkFailedBegin(o)
  \/ LiveOf(o) = {} /\ MarkStopped(o)
  \/ \E op \in Options : SetOpts(o, op)

InstNext ==
  \/ \E o \in Objs : Call(o) \/ StartStep(o) \/ ProcessStop(o)
  \/ \E p \in Launches : Listens(p) \/ Exits(p)

InstSpec == InstInit /\ [][InstNext]_instVars

(* A process that has been sent SIGTERM and is waited for.                 *)
Signalled(p) ==
  \E o \in Objs : cmd[o] = p /\ stage[o] \in {"wait", "rekill", "block"}

(* A goroutine that can run is scheduled, and llama-server exits on        *)
(* SIGTERM.  Calls are nobody's duty.                                      *)
InstFairness ==
  /\ \A o \in Objs : WF_instVars(StartStep(o)) /\ WF_instVars(ProcessStop(o))
  /\ \A p \in Launches : WF_instVars(Signalled(p) /\ Exits(p))

FairInstSpec == InstSpec /\ InstFairness

-----------------------------------------------------------------------------
(* Properties.                                                             *)

(* Which method can hold the mutex in which status and stage.              *)
LockOK ==
  \A o \in Objs :
    /\ holder[o] = "start" => status[o] = Restarting
    /\ holder[o] = "stop" => status[o] = ShuttingDown
    /\ stage[o] # "none" <=> holder[o] \in {"stop", "fail"}
    /\ stage[o] \in {"wait", "rekill", "block"} => cmd[o] # None
    /\ o \notin born => holder[o] = "none" /\ cmd[o] = None /\ status[o] = Stopped

(* Types, and the mutex: an error path that kept it would leave the object *)
(* in a status no method can hold it in.                                   *)
InstTypeOK ==
  /\ born \in SUBSET Objs
  /\ status \in [Objs -> Statuses]
  /\ pid \in [Objs -> Launches \cup {None}]
  /\ cmd \in [Objs -> Launches \cup {None}]
  /\ shuttingDown \in [Objs -> BOOLEAN]
  /\ port \in [Objs -> Ports \cup {NoPort}]
  /\ hasResolver \in [Objs -> BOOLEAN]
  /\ opts \in [Objs -> Options \cup {None}]
  /\ holder \in [Objs -> {"none", "start", "stop", "fail"}]
  /\ stage \in [Objs -> {"none", "kill", "wait", "rekill", "block"}]
  /\ pstate \in [Launches -> {"none", "up", "listening", "gone"}]
  /\ powner \in [Launches -> Objs \cup {None}]
  /\ pport \in [Launches -> Ports \cup {NoPort}]
  /\ popts \in [Launches -> Options \cup {None}]
  /\ LockOK

(* start overwrites cmd, so a process it replaces can never be stopped     *)
(* again: whatever is called in whatever order, the one process of an      *)
(* object that may be alive is the one its cmd names.                      *)
SingleProcess == \A o \in born : LiveOf(o) \subseteq {cmd[o]}

(* An instance shown as stopped or failed has no process and no PID, also  *)
(* when process.stop failed, timed out or raced with the process's exit.   *)
RestIsQuiet ==
  \A o \in born :
    status[o] \in {Stopped, Failed} => LiveOf(o) = {} /\ pid[o] = None

(* A Stop that returns an error leaves the instance in shutting_down: at   *)
(* least it leaves no process behind.                                      *)
WedgedIsQuiet ==
  \A o \in born :
    status[o] = ShuttingDown /\ holder[o] # "stop" => LiveOf(o) = {}

(* Only a missing binary path leaves Start with status restarting and no   *)
(* process; otherwise a restarting instance has launched the one PID names.*)
RestartingHasLaunched ==
  \A o \in born \ Binaryless :
    status[o] = Restarting /\ holder[o] # "start" =>
      pid[o] # None /\ pid[o] = cmd[o]

(* The promise of Supervision.tla.                                         *)
Contract ==
  INSTANCE Supervision WITH
    engaged <- {o \in born : status[o] \notin {Stopped, Failed}},
    launched <- {p \in Launches : pstate[p] # "none"},
    live <- [o \in Objs |-> LiveOf(o)]

KeepsContract == Contract!SupSpec

(* Every method that takes the mutex gives it back, although two of them   *)
(* wait for a process without a limit while they hold it.                  *)
MethodsReturn == \A o \in Objs : holder[o] # "none" ~> holder[o] = "none"

===============================================================================
