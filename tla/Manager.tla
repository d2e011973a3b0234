-------------------------------- MODULE Manager --------------------------------
(***************************************************************************)
(* The instance manager (src/pkg/manager) with its registry, its port      *)
(* allocator, the instances table (src/pkg/database/instances.go) and the  *)
(* life of the server process around it (src/cmd/server/main.go).          *)
(*                                                                         *)
(* Request handlers, health waiters, the auto-restart goroutines of a boot *)
(* and the stop goroutines of a shutdown are threads: an operation is cut  *)
(* into one action for each stretch of code between two points where it    *)
(* can be overtaken (a lock taken, a goroutine started, a database call).  *)
(* The objects and their processes are those of Instance.tla.              *)
(***************************************************************************)
EXTENDS Status, Naturals, FiniteSets

CONSTANTS
  Names, Clients, Launches,
  Options,          \* valid options
  AutoRestart,      \* those with autoRestart: true
  Binaryless,       \* objects whose boot had no binaryPath configured
  MaxMade,          \* bound: rounds of making objects (creates and boots)
  MaxBoots,         \* bound: server processes after the first
  DbFaults,         \* may a database statement fail for no reason of its own?
  None, NoPort, NoOwner,
  MinPort, WrapLo, LastPort, TopPort

Objs == Names \X (1 .. MaxMade)

Autos     == {"auto"} \X Names      \* goroutines of loadInstances
Stoppers  == {"shutdown"} \X Names  \* goroutines of Shutdown
Waiters   == Launches               \* goroutines of waitForInstanceHealthy
Threads   == Clients \cup Waiters \cup Autos \cup Stoppers

ASSUME ManagerAssumption ==
  /\ AutoRestart \subseteq Options /\ DbFaults \in BOOLEAN
  /\ MaxMade \in Nat /\ MaxBoots \in Nat

(* None is no object, launch, options, operation or row.                   *)
ASSUME NullAssumption ==
  None \notin Objs \cup Launches \cup Options
              \cup {"create", "start", "stop", "restart", "delete", "update",
                    "shutdown", "wait"}
              \cup [status : Statuses, opts : Options]

(* A thread is of one kind.                                                *)
ASSUME ThreadAssumption ==
  /\ Clients \cap (Launches \cup Autos \cup Stoppers) = {}
  /\ Launches \cap (Autos \cup Stoppers) = {}

(* As in PortAllocator.tla.                                                *)
ASSUME PortAssumption ==
  /\ NoOwner \notin Names /\ NoPort \notin 1 .. TopPort
  /\ MinPort \in 1 .. TopPort /\ WrapLo \in 1 .. TopPort
  /\ LastPort \in Nat /\ TopPort \in Nat
  /\ WrapLo <= LastPort /\ LastPort < TopPort

VARIABLES
  born, status, pid, cmd, shuttingDown, port, hasResolver, opts,
  holder, stage, pstate, powner, pport, popts,
  allocated, next,
  registry,  \* name -> object, or None
  rows,      \* name -> [status, opts] of its row, or None
  pc, op, obj,  \* per thread: where it is, in which operation, on which object
  snap,      \* per thread: what Save has read and not yet written
  server,    \* "up", "draining" requests, "stopping" instances, "down"
  boots,     \* boots after the first
  made       \* rounds of making objects: an object is <<name, round>>

P == INSTANCE PortAllocator
I == INSTANCE Instance WITH Ports <- P!Port

lockVars   == <<holder, stage>>
procVars   == <<pstate, powner, pport, popts>>
instVars   == <<born, status, pid, cmd, shuttingDown, port, hasResolver, opts,
                lockVars, procVars>>
portVars   == <<allocated, next>>
threadVars == <<pc, op, obj, snap>>
worldVars  == <<server, boots, made>>
vars == <<instVars, portVars, registry, rows, threadVars, worldVars>>

-----------------------------------------------------------------------------

Name(o) == o[1]

Goto(t, l) == pc' = [pc EXCEPT ![t] = l] /\ UNCHANGED <<op, obj, snap>>

Runs(t, l, how, o) ==
  /\ pc' = [pc EXCEPT ![t] = l]
  /\ op' = [op EXCEPT ![t] = how]
  /\ obj' = [obj EXCEPT ![t] = o]
  /\ UNCHANGED snap

Ends(t) ==
  /\ pc' = [pc EXCEPT ![t] = "idle"]
  /\ op' = [op EXCEPT ![t] = None]
  /\ obj' = [obj EXCEPT ![t] = None]
  /\ snap' = [snap EXCEPT ![t] = None]

(* CreateInstance holds m.mu from its first to its last line.              *)
MuFree == \A t \in Threads : op[t] # "create"

(* Without m.mu.                                                           *)
Mutant_MayCall(c) == server = "up" /\ pc[c] = "idle"

MayCall(c) == server = "up" /\ pc[c] = "idle" /\ MuFree

(* Every object is saved under the id that New was given: 0, by            *)
(* CreateInstance, and by loadInstances the id of its row, which is 0.     *)
IdTaken(n) == \E m \in Names \ {n} : rows[m] # None

-----------------------------------------------------------------------------
(* CreateInstance.  A taken name, or no port, ends it without effect.      *)

Create(c, n, x) ==
  /\ MayCall(c) /\ registry[n] = None
  /\ made < MaxMade
  /\ LET o == <<n, made + 1>>
     IN /\ \E p \in P!Port : P!Allocate(n, p) /\ I!New(o, p, TRUE, x)
        /\ registry' = [registry EXCEPT ![n] = o]
        /\ made' = made + 1
        /\ Runs(c, "save", "create", o)
  /\ UNCHANGED <<rows, server, boots>>

(* New refuses the options after the port has been taken.                  *)
CreateInvalid(c, n) ==
  /\ MayCall(c) /\ registry[n] = None
  /\ \E p \in P!Port : P!Allocate(n, p)
  /\ UNCHANGED <<instVars, registry, rows, threadVars, worldVars>>

(* The other operations look the name up under m.mu and leave it.          *)
Request(c, n, how) ==
  /\ MayCall(c) /\ registry[n] # None
  /\ Runs(c, IF how = "restart" THEN "stop" ELSE "check", how, registry[n])
  /\ UNCHANGED <<instVars, portVars, registry, rows, worldVars>>

(* "instance not found", or "already exists": nothing changes.             *)
Refused(c) == MayCall(c) /\ UNCHANGED vars

(* The goroutine of an auto-restart calls StartInstance by name.           *)
AutoLookup(t) ==
  /\ pc[t] = "lookup" /\ MuFree
  /\ IF registry[t[2]] = None THEN Ends(t) ELSE Runs(t, "check", "start", registry[t[2]])
  /\ UNCHANGED <<instVars, portVars, registry, rows, worldVars>>

-----------------------------------------------------------------------------
(* The status an operation reads before it acts, and what it does then.    *)

(* Deleting an instance that does not run gives its port back.             *)
Mutant_AfterCheck(how, s) ==
  CASE how = "start"    -> IF s = Running THEN "idle" ELSE "start"
    [] how = "stop"     -> IF s = Stopped THEN "idle" ELSE "stop"
    [] how = "delete"   -> IF s = Running THEN "stop" ELSE "free"
    [] how = "update"   -> IF s = Running THEN "idle" ELSE "update"
    [] how = "shutdown" -> IF s = Running THEN "stop" ELSE "idle"

AfterCheck(how, s) ==
  CASE how = "start"    -> IF s = Running THEN "idle" ELSE "start"
    [] how = "stop"     -> IF s = Stopped THEN "idle" ELSE "stop"
    [] how = "delete"   -> IF s = Running THEN "stop" ELSE "unregister"
    [] how = "update"   -> IF s = Running THEN "idle" ELSE "update"
    [] how = "shutdown" -> IF s = Running THEN "stop" ELSE "idle"

Check(t) ==
  /\ pc[t] = "check" /\ I!Unlocked(obj[t])
  /\ LET l == AfterCheck(op[t], status[obj[t]])
     IN IF l = "idle" THEN Ends(t) ELSE Goto(t, l)
  /\ UNCHANGED <<instVars, portVars, registry, rows, worldVars>>

(* An instance that is starting is watched once more.                      *)
Mutant_StartCall(t) ==
  /\ pc[t] = "start"
  /\ \/ I!StartRefused(obj[t]) /\ Goto(t, "save")
     \/ I!StartBegin(obj[t]) /\ Goto(t, "starting")
  /\ UNCHANGED <<portVars, registry, rows, worldVars>>

StartCall(t) ==
  /\ pc[t] = "start"
  /\ \/ I!StartRefused(obj[t]) /\ Ends(t)
     \/ I!StartBegin(obj[t]) /\ Goto(t, "starting")
  /\ UNCHANGED <<portVars, registry, rows, worldVars>>

StartReturn(t) ==
  /\ pc[t] = "starting"
  /\ \/ (I!StartFails(obj[t]) \/ I!StartNoBinary(obj[t])) /\ Ends(t)
     \/ (\E p \in Launches : I!StartLaunches(obj[t], p)) /\ Goto(t, "save")
  /\ UNCHANGED <<portVars, registry, rows, worldVars>>

AfterStop(how) ==
  CASE how \in {"stop", "delete"} -> "free"
    [] how = "restart"            -> "start"
    [] how = "shutdown"           -> "idle"

Stopping(t) == IF AfterStop(op[t]) = "idle" THEN Ends(t) ELSE Goto(t, AfterStop(op[t]))

StopCall(t) ==
  /\ pc[t] = "stop"
  /\ \/ I!StopNil(obj[t]) /\ Stopping(t)
     \/ I!StopRefused(obj[t]) /\ Ends(t)
     \/ I!StopBegin(obj[t]) /\ Goto(t, "stopping")
  /\ UNCHANGED <<portVars, registry, rows, worldVars>>

StopReturn(t) ==
  /\ pc[t] = "stopping"
  /\ \/ I!StopGoesOn(obj[t]) /\ UNCHANGED threadVars
     \/ I!StopSucceeds(obj[t]) /\ Stopping(t)
     \/ I!StopErrs(obj[t]) /\ Ends(t)
  /\ UNCHANGED <<portVars, registry, rows, worldVars>>

(* The object keeps the port it no longer holds.                           *)
FreePort(t) ==
  /\ pc[t] = "free"
  /\ P!Free(port[obj[t]])
  /\ Goto(t, IF op[t] = "stop" THEN "markStopped" ELSE "unregister")
  /\ UNCHANGED <<instVars, registry, rows, worldVars>>

(* registry.markStopped looks the name up again.                           *)
MarkStopped(t) ==
  /\ pc[t] = "markStopped"
  /\ LET o == registry[Name(obj[t])]
     IN IF o = None THEN UNCHANGED instVars ELSE I!MarkStopped(o)
  /\ Goto(t, "save")
  /\ UNCHANGED <<portVars, registry, rows, worldVars>>

Unregister(t) ==
  /\ pc[t] = "unregister"
  /\ registry' = [registry EXCEPT ![Name(obj[t])] = None]
  /\ Goto(t, "deleteRow")
  /\ UNCHANGED <<instVars, portVars, rows, worldVars>>

DeleteRow(t) ==
  /\ pc[t] = "deleteRow"
  /\ \/ rows' = [rows EXCEPT ![Name(obj[t])] = None]
     \/ DbFaults /\ UNCHANGED rows
  /\ Ends(t)
  /\ UNCHANGED <<instVars, portVars, registry, worldVars>>

(* With invalid options it ends here.                                      *)
Update(t) ==
  /\ pc[t] = "update"
  /\ \/ UNCHANGED instVars /\ Ends(t)
     \/ (\E x \in Options : I!SetOpts(obj[t], x)) /\ Goto(t, "save")
  /\ UNCHANGED <<portVars, registry, rows, worldVars>>

-----------------------------------------------------------------------------
(* InstanceStore.Save: it reads the object, then executes the upsert.  The *)
(* options are read just before the mutex is taken for the status.         *)

SaveRead(t) ==
  /\ pc[t] = "save" /\ I!Unlocked(obj[t])
  /\ snap' = [snap EXCEPT ![t] = [status |-> status[obj[t]], opts |-> opts[obj[t]]]]
  /\ pc' = [pc EXCEPT ![t] = "exec"]
  /\ UNCHANGED <<op, obj, instVars, portVars, registry, rows, worldVars>>

(* A restart without a waiter.                                             *)
Mutant_EndsWatched(t) ==
  IF op[t] = "start"
  THEN \E w \in Waiters :
         /\ pc[w] = "idle" /\ powner[w] = obj[t]
         /\ pc' = [pc EXCEPT ![t] = "idle", ![w] = "poll"]
         /\ op' = [op EXCEPT ![t] = None, ![w] = "wait"]
         /\ obj' = [obj EXCEPT ![t] = None, ![w] = obj[t]]
         /\ snap' = [snap EXCEPT ![t] = None]
  ELSE Ends(t)

(* StartInstance and RestartInstance start the health waiter last.         *)
EndsWatched(t) ==
  IF op[t] \in {"start", "restart"}
  THEN \E w \in Waiters :
         /\ pc[w] = "idle" /\ powner[w] = obj[t]
         /\ pc' = [pc EXCEPT ![t] = "idle", ![w] = "poll"]
         /\ op' = [op EXCEPT ![t] = None, ![w] = "wait"]
         /\ obj' = [obj EXCEPT ![t] = None, ![w] = obj[t]]
         /\ snap' = [snap EXCEPT ![t] = None]
  ELSE Ends(t)

SaveExec(t) ==
  /\ pc[t] = "exec"
  /\ ~IdTaken(Name(obj[t]))
  /\ rows' = [rows EXCEPT ![Name(obj[t])] = snap[t]]
  /\ EndsWatched(t)
  /\ UNCHANGED <<instVars, portVars, registry, worldVars>>

(* CreateInstance takes its work back; the others just return the error.   *)
SaveFails(t) ==
  /\ pc[t] = "exec"
  /\ DbFaults \/ IdTaken(Name(obj[t]))
  /\ IF op[t] = "create"
     THEN /\ registry' = [registry EXCEPT ![Name(obj[t])] = None]
          /\ P!Free(port[obj[t]])
     ELSE UNCHANGED <<registry, portVars>>
  /\ Ends(t)
  /\ UNCHANGED <<instVars, rows, worldVars>>

-----------------------------------------------------------------------------
(* waitForInstanceHealthy.                                                 *)

Poll(w) ==
  /\ pc[w] = "poll"
  /\ \/ I!Healthy(obj[w]) /\ Goto(w, "markRunning")
     \/ Goto(w, "markFailed")
  /\ UNCHANGED <<instVars, portVars, registry, rows, worldVars>>

MarkRunning(w) ==
  /\ pc[w] = "markRunning"
  /\ I!MarkRunning(obj[w])
  /\ Goto(w, "save")
  /\ UNCHANGED <<portVars, registry, rows, worldVars>>

MarkFailed(w) ==
  /\ pc[w] = "markFailed"
  /\ I!MarkFailedBegin(obj[w])
  /\ Goto(w, "failing")
  /\ UNCHANGED <<portVars, registry, rows, worldVars>>

(* An instance that has failed gives its port back.                        *)
Mutant_MarkFailedReturn(w) ==
  /\ pc[w] = "failing"
  /\ \/ I!StopGoesOn(obj[w]) /\ UNCHANGED <<threadVars, portVars>>
     \/ /\ I!StopSucceeds(obj[w]) \/ I!StopErrs(obj[w])
        /\ P!Free(port[obj[w]])
        /\ Goto(w, "save")
  /\ UNCHANGED <<registry, rows, worldVars>>

MarkFailedReturn(w) ==
  /\ pc[w] = "failing"
  /\ \/ I!StopGoesOn(obj[w]) /\ UNCHANGED threadVars
     \/ (I!StopSucceeds(obj[w]) \/ I!StopErrs(obj[w])) /\ Goto(w, "save")
  /\ UNCHANGED <<portVars, registry, rows, worldVars>>

-----------------------------------------------------------------------------
(* The server process.  llama-server processes run in groups of their own  *)
(* and survive it.                                                         *)

EachObj(v)    == [o \in Objs |-> v]
EachThread(v) == [t \in Threads |-> v]

ServerGone ==
  /\ born' = {}
  /\ status' = EachObj(Stopped)
  /\ pid' = EachObj(None) /\ cmd' = EachObj(None)
  /\ shuttingDown' = EachObj(FALSE)
  /\ port' = EachObj(NoPort)
  /\ hasResolver' = EachObj(FALSE) /\ opts' = EachObj(None)
  /\ holder' = EachObj("none") /\ stage' = EachObj("none")
  /\ allocated' = [p \in P!Port |-> NoOwner] /\ next' = MinPort
  /\ registry' = [n \in Names |-> None]
  /\ pc' = EachThread("idle")
  /\ op' = EachThread(None) /\ obj' = EachThread(None) /\ snap' = EachThread(None)
  /\ server' = "down"
  /\ UNCHANGED <<procVars, rows, boots, made>>

(* Bounds: one more server process, and an object for each of its rows.    *)
MayBootAgain == boots < MaxBoots /\ made < MaxMade

(* A crash; also log.Fatalf when the requests outlast srv.Shutdown's 30s.  *)
Crash == server # "down" /\ MayBootAgain /\ ServerGone

(* SIGTERM: srv.Shutdown takes no new request and waits for the old ones.  *)
Drain ==
  /\ server = "up" /\ MayBootAgain
  /\ server' = "draining"
  /\ UNCHANGED <<instVars, portVars, registry, rows, threadVars, boots, made>>

(* Shutdown: a goroutine for each registered object that is running.       *)
ShutdownBegin ==
  LET stops(t) == t \in Stoppers /\ registry[t[2]] # None
  IN /\ server = "draining"
     /\ \A c \in Clients : pc[c] = "idle"
     /\ server' = "stopping"
     /\ pc' = [t \in Threads |-> IF stops(t) THEN "check" ELSE pc[t]]
     /\ op' = [t \in Threads |-> IF stops(t) THEN "shutdown" ELSE op[t]]
     /\ obj' = [t \in Threads |-> IF stops(t) THEN registry[t[2]] ELSE obj[t]]
     /\ UNCHANGED <<snap, instVars, portVars, registry, rows, boots, made>>

ShutdownEnd ==
  /\ server = "stopping"
  /\ \A t \in Stoppers : pc[t] = "idle"
  /\ ServerGone

(* manager.New: loadInstances makes an object without port or resolver for *)
(* each row, stopped whatever the row says, and starts a goroutine for one *)
(* that was running with autoRestart.  Without the rows it goes on without.*)
(* loadInstances passes a resolver.                                        *)
Mutant_LoadedResolver == TRUE

LoadedResolver == FALSE

Boot ==
  \E loaded \in {{n \in Names : rows[n] # None}} \cup (IF DbFaults THEN {{}} ELSE {}) :
  LET new == {<<n, made + 1>> : n \in loaded}
      auto == {n \in loaded : rows[n].status = Running /\ rows[n].opts \in AutoRestart}
  IN /\ server = "down"
     /\ server' = "up" /\ boots' = boots + 1
     /\ made' = made + 1
     /\ born' = new
     /\ hasResolver' = [o \in Objs |-> o \in new /\ LoadedResolver]
     /\ opts' = [o \in Objs |-> IF o \in new THEN rows[Name(o)].opts ELSE None]
     /\ registry' = [n \in Names |-> IF n \in loaded THEN <<n, made + 1>> ELSE None]
     /\ pc' = [t \in Threads |->
                 IF t \in Autos /\ t[2] \in auto THEN "lookup" ELSE pc[t]]
     /\ UNCHANGED <<status, pid, cmd, shuttingDown, port, lockVars, procVars,
                    portVars, rows, op, obj, snap>>

-----------------------------------------------------------------------------

Init ==
  /\ I!InstInit /\ P!PortInit
  /\ registry = [n \in Names |-> None]
  /\ pc = EachThread("idle")
  /\ op = EachThread(None) /\ obj = EachThread(None) /\ snap = EachThread(None)
  /\ rows = [n \in Names |-> None]
  /\ server = "up" /\ boots = 0
  /\ made = 0

Requests == {"start", "stop", "restart", "delete", "update"}

Call(c) ==
  \/ Refused(c)
  \/ \E n \in Names :
    \/ \E x \in Options : Create(c, n, x)
    \/ CreateInvalid(c, n)
    \/ \E how \in Requests : Request(c, n, how)

Step(t) ==
  \/ Check(t)
  \/ StartCall(t) \/ StartReturn(t)
  \/ StopCall(t) \/ StopReturn(t)
  \/ FreePort(t) \/ MarkStopped(t)
  \/ Unregister(t) \/ DeleteRow(t)
  \/ Update(t)
  \/ SaveRead(t) \/ SaveExec(t) \/ SaveFails(t)

Wait(w) == Poll(w) \/ MarkRunning(w) \/ MarkFailed(w) \/ MarkFailedReturn(w)

Process(p) ==
  /\ I!Listens(p) \/ I!Exits(p)
  /\ UNCHANGED <<portVars, registry, rows, threadVars, worldVars>>

World == Crash \/ Drain \/ ShutdownBegin \/ ShutdownEnd \/ Boot

Next ==
  \/ \E c \in Clients : Call(c)
  \/ \E t \in Threads : Step(t)
  \/ \E t \in Autos : AutoLookup(t)
  \/ \E w \in Waiters : Wait(w)
  \/ \E p \in Launches : Process(p)
  \/ World

Spec == Init /\ [][Next]_vars

-----------------------------------------------------------------------------
(* Types, and the mutexes: a thread inside a method holds its object.      *)
TypeOK ==
  /\ I!InstTypeOK
  /\ P!PortTypeOK
  /\ registry \in [Names -> Objs \cup {None}]
  /\ rows \in [Names -> [status : Statuses, opts : Options] \cup {None}]
  /\ pc \in [Threads -> {"idle", "lookup", "check", "start", "starting", "stop",
                         "stopping", "free", "markStopped", "unregister",
                         "deleteRow", "update", "save", "exec", "poll",
                         "markRunning", "markFailed", "failing"}]
  /\ op \in [Threads -> {None, "create", "start", "stop", "restart", "delete",
                         "update", "shutdown", "wait"}]
  /\ obj \in [Threads -> Objs \cup {None}]
  /\ snap \in [Threads -> [status : Statuses, opts : Options] \cup {None}]
  /\ server \in {"up", "draining", "stopping", "down"}
  /\ boots \in 0 .. MaxBoots /\ made \in 0 .. MaxMade

(* Whatever path sets it, a status changes along the status machine's      *)
(* table: the setters MarkRunning, MarkStopped and MarkFailed do not check.*)
StatusFollowsTable ==
  [][\A o \in born \cap born' :
       status'[o] = status[o] \/ CanSet(status[o], status'[o])]_vars

(* The obligation Instance.tla leaves to the caller of MarkStopped.  Two   *)
(* requests for one name do not meet it: a start may come between the end  *)
(* of Stop and the mark.                                                   *)
MarksOnlyQuiet ==
  \A t \in Threads :
    pc[t] = "markStopped" /\ registry[Name(obj[t])] # None =>
      I!LiveOf(registry[Name(obj[t])]) = {}

(* Instance.tla's SingleProcess with the manager as the caller: of requests *)
(* that take turns, no order with the waiters and the shutdown loses a     *)
(* llama-server that cannot be stopped any more.                           *)
SingleProcess == I!SingleProcess

Watchers(o) ==
  {t \in Threads : /\ obj[t] = o
                   /\ \/ pc[t] \in {"poll", "markRunning", "markFailed", "failing"}
                      \/ op[t] \in {"start", "restart"} /\ pc[t] \in {"save", "exec"}}

(* An instance that is starting has exactly one goroutine that will end it.*)
RestartingIsWatched ==
  \A o \in born :
    status[o] = Restarting /\ holder[o] # "start" => Cardinality(Watchers(o)) = 1

(* A registered instance that was never stopped holds its port.            *)
PortHeld ==
  \A n \in Names :
    LET o == registry[n]
    IN o # None =>
         shuttingDown[o] \/ port[o] = NoPort \/ allocated[port[o]] = n

(* The health the waiter of a registered instance sees is that of its own  *)
(* process, also when an earlier instance was deleted while it started and *)
(* its process lives on under no name: DeleteInstance does not free its    *)
(* port.  Except for an instance that had been stopped before, and was     *)
(* then started again on a port the allocator had taken back.              *)
HealthIsOwn ==
  boots = 0 =>
    \A w \in Waiters, p \in Launches :
      /\ pc[w] = "poll" /\ registry[Name(obj[w])] = obj[w]
      /\ pstate[p] = "listening" /\ pport[p] = port[obj[w]]
      => powner[p] = obj[w] \/ shuttingDown[powner[p]]

(* No llama-server is launched without --port, where it would listen on     *)
(* its own default port: an object without a port has no resolver either.  *)
LaunchesHavePorts == \A p \in Launches : pstate[p] # "none" => pport[p] # NoPort

(* What CreateInstance takes back when the row cannot be saved was used by *)
(* nobody else: without m.mu another request could have started it.        *)
UnsavedUntouched ==
  \A t, u \in Threads : op[t] = "create" /\ obj[u] = obj[t] => u = t

(* The object's mutex has one holder, and it is in a method of the object. *)
LockHasOneThread ==
  \A o \in born :
    Cardinality({t \in Threads :
      obj[t] = o /\ pc[t] \in {"starting", "stopping", "failing"}})
    = IF holder[o] = "none" THEN 0 ELSE 1

(* An instance shown as stopped or failed shows no PID, whoever raced to   *)
(* set the status.                                                         *)
NoPidAtRest == \A o \in born : status[o] \in {Stopped, Failed} => pid[o] = None

(* However requests and waiters overlap, an instance goes on showing the   *)
(* PID of its llama-server until that has gone.  The one exception is      *)
(* markStopped, when a start has come between it and its Stop.             *)
OnlyMarksHide ==
  [][\A o \in born \cap born' :
       pid[o] # None /\ pid'[o] # pid[o] =>
         ~I!Live(pid[o]) \/ \E t \in Threads : MarkStopped(t)]_vars

-----------------------------------------------------------------------------
(* Liveness.                                                               *)

(* A goroutine that can run is scheduled; llama-server exits on SIGTERM.   *)
(* No request, crash or shutdown has to come.                              *)
Fairness ==
  /\ \A t \in Threads : WF_vars(Step(t))
  /\ \A t \in Autos : WF_vars(AutoLookup(t))
  /\ \A w \in Waiters : WF_vars(Wait(w))
  /\ \A p \in Launches : WF_vars(I!Signalled(p) /\ Process(p))
  /\ WF_vars(ShutdownBegin) /\ WF_vars(ShutdownEnd)

FairSpec == Spec /\ Fairness

(* Every request is answered: its handler gets each mutex it waits for and *)
(* process.stop returns, although it waits without a limit.                *)
CallsReturn == \A c \in Clients : pc[c] # "idle" ~> pc[c] = "idle"

(* A started instance does not stay in restarting: while the database      *)
(* works, StartInstance and RestartInstance leave a waiter that ends it.   *)
StartsResolve ==
  \A o \in Objs : status[o] = Restarting ~> status[o] # Restarting

(* SIGTERM ends the server: the requests drain and every Stop returns.     *)
ShutdownEnds == server \in {"draining", "stopping"} ~> server = "down"

-----------------------------------------------------------------------------
(* What the repository says and the code does not do.                      *)

(* README.md:9, "(one or more instances)": an instance can be created next *)
(* to another one.  operations.go:28 gives each of them the id 0, and id   *)
(* is the primary key.                                                     *)
CreateCanSave ==
  \A t \in Threads : op[t] = "create" /\ pc[t] = "exec" => ~IdTaken(Name(obj[t]))

(* manager.go:71, "A new port will be allocated when the instance is       *)
(* started."  Start allocates none.                                        *)
StartedHavePorts == \A o \in born : holder[o] = "start" => port[o] # NoPort

(* phase-2 plan.md:157, "reject new requests when status is                *)
(* `shutting_down`": a running instance accepts them.  Stop sets the       *)
(* proxy's flag and a later start does not clear it.                       *)
RunningServes == \A o \in born : status[o] = Running => ~shuttingDown[o]

(* process_test.go:39, "stop() must be safe to call after the process has  *)
(* exited."  It returns an error then, and Stop leaves the instance in     *)
(* shutting_down, from which no operation leads out.                       *)
StopSafeAfterExit ==
  \A o \in born : status[o] = ShuttingDown => holder[o] = "stop"
===============================================================================
