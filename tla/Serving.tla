-------------------------------- MODULE Serving --------------------------------
(***************************************************************************)
(* Serving inference: a request to /v1, once past the key check (Keys.tla),   *)
(* through the proxy handler (handlers_openai.go) and the instance's       *)
(* reverse proxy (proxy.go) to the llama-server that answers, while        *)
(* management requests start, stop, restart, delete and recreate the       *)
(* instance; and the command line's `instances start --wait`, which polls  *)
(* it meanwhile (src/internal/cmd/instances.go).                           *)
(*                                                                         *)
(* The instances are those of Instance.tla.  The manager, whose own steps  *)
(* are Manager.tla, appears as what it does to an instance's mutex, its    *)
(* port and its name: one management request at a time, and at most one    *)
(* instance, as a second one's row cannot be saved.                        *)
(***************************************************************************)
EXTENDS Instance

CONSTANT Requests  \* inference requests under way at a time

VARIABLES
  registered,  \* the object in the registry, or None
  doing,       \* the management request at work on it
  freed,       \* objects whose port the allocator has taken back
  request,     \* inference requests
  wait         \* what `start --wait` knows

mgrVars     == <<registered, doing, freed>>
servingVars == <<instVars, mgrVars, request, wait>>

NoRequest == [at |-> "idle", to |-> None, by |-> None]

NotWaiting == [launch |-> None, says |-> "nothing"]

-----------------------------------------------------------------------------
(* The manager.                                                            *)

MayManage(o) == registered = o /\ doing = "none"

(* The allocator gives a port nobody holds.                                *)
Creates(o, pt) ==
  /\ registered = None /\ doing = "none"
  /\ \A q \in born \ freed : port[q] # pt
  /\ \E x \in Options : New(o, pt, TRUE, x)
  /\ registered' = o
  /\ UNCHANGED <<doing, freed, request, wait>>

Starts(o) ==
  /\ registered = o /\ doing \in {"none", "again"}
  /\ StartBegin(o)
  /\ doing' = "start"
  /\ UNCHANGED <<registered, freed, request, wait>>

(* The command line begins to poll, or whoever asked did not use it.       *)
Accepted(p) ==
  \/ UNCHANGED wait
  \/ wait.says # "wait" /\ wait' = [launch |-> p, says |-> "wait"]

StartAnswered(o) ==
  /\ registered = o /\ doing = "start"
  /\ \/ (StartFails(o) \/ StartNoBinary(o)) /\ UNCHANGED wait
     \/ \E p \in Launches : StartLaunches(o, p) /\ Accepted(p)
  /\ doing' = "none"
  /\ UNCHANGED <<registered, freed, request>>

(* StartInstance finds the instance running.                               *)
StartsRunning(o) ==
  /\ MayManage(o) /\ Unlocked(o) /\ status[o] = Running
  /\ Accepted(cmd[o])
  /\ UNCHANGED <<instVars, mgrVars, request>>

Stops(o, how) ==
  /\ MayManage(o) /\ StopBegin(o)
  /\ doing' = how
  /\ UNCHANGED <<registered, freed, request, wait>>

(* A restart keeps the port and starts again; the others give it back.     *)
Stopping(o) ==
  /\ registered = o /\ holder[o] = "stop"
  /\ \/ StopGoesOn(o) /\ UNCHANGED mgrVars
     \/ StopErrs(o) /\ doing' = "none" /\ UNCHANGED <<registered, freed>>
     \/ /\ StopSucceeds(o)
        /\ doing' = IF doing = "restart" THEN "again" ELSE "none"
        /\ freed' = IF doing = "restart" THEN freed ELSE freed \cup {o}
        /\ registered' = IF doing = "delete" THEN None ELSE registered
  /\ UNCHANGED <<request, wait>>

(* The port of an instance that is not running is given back too.          *)
Mutant_Deletes(o) ==
  /\ MayManage(o) /\ Unlocked(o) /\ status[o] # Running
  /\ registered' = None
  /\ freed' = freed \cup {o}
  /\ UNCHANGED <<instVars, doing, request, wait>>

(* Deleting an instance that is not running neither stops it nor gives its *)
(* port back.                                                              *)
Deletes(o) ==
  /\ MayManage(o) /\ Unlocked(o) /\ status[o] # Running
  /\ registered' = None
  /\ UNCHANGED <<instVars, doing, freed, request, wait>>

(* A start that times out is declared failed and left alone.               *)
Mutant_Waited(o) ==
  /\ Unlocked(o) /\ status[o] = Restarting /\ pid[o] # None
  /\ \/ Healthy(o) /\ MarkRunning(o)
     \/ Forced(o, Failed, None)
  /\ UNCHANGED <<mgrVars, request, wait>>

(* waitForInstanceHealthy, also of an object deleted meanwhile.            *)
Waited(o) ==
  /\ Unlocked(o) /\ status[o] = Restarting /\ pid[o] # None
  /\ \/ Healthy(o) /\ MarkRunning(o)
     \/ MarkFailedBegin(o)
  /\ UNCHANGED <<mgrVars, request, wait>>

MarkingFailed(o) ==
  /\ holder[o] = "fail" /\ ProcessStop(o)
  /\ UNCHANGED <<mgrVars, request, wait>>

Manages(o) ==
  \/ \E pt \in Ports : Creates(o, pt)
  \/ Starts(o) \/ StartAnswered(o) \/ StartsRunning(o)
  \/ \E how \in {"stop", "restart", "delete"} : Stops(o, how)
  \/ Stopping(o) \/ Deletes(o)
  \/ Waited(o) \/ MarkingFailed(o)

-----------------------------------------------------------------------------
(* An inference request.                                                   *)

Sets(r, new) ==
  /\ request' = [request EXCEPT ![r] = new]
  /\ UNCHANGED <<instVars, mgrVars, wait>>

Goes(r, to) == Sets(r, [request[r] EXCEPT !.at = to])

(* With an answer, which may be an error, or without.                      *)
Ends(r) == Sets(r, NoRequest)

Arrives(r) ==
  request[r].at = "idle" /\ Goes(r, "lookup")

(* A bad body, an unknown name, or the object of the name.                 *)
LooksUp(r) ==
  /\ request[r].at = "lookup"
  /\ \/ Ends(r)
     \/ /\ registered # None
        /\ Sets(r, [request[r] EXCEPT !.at = "shutting", !.to = registered])

(* Status twice, each time under the object's mutex.                       *)
ReadsStatus(r) ==
  LET s == status[request[r].to] IN
  /\ request[r].at \in {"shutting", "running"} /\ Unlocked(request[r].to)
  /\ CASE request[r].at = "shutting" /\ s # ShuttingDown -> Goes(r, "running")
       [] request[r].at = "running" /\ s = Running       -> Goes(r, "proxy")
       [] OTHER                                          -> Ends(r)

(* The proxy's own flag, without the mutex.                                *)
Enters(r) ==
  /\ request[r].at = "proxy"
  /\ IF shuttingDown[request[r].to] THEN Ends(r) ELSE Goes(r, "connect")

(* Whoever listens on the port, or "connection refused".                   *)
Connects(r) ==
  LET there == {p \in Launches : pstate[p] = "listening" /\ pport[p] = port[request[r].to]}
  IN /\ request[r].at = "connect"
     /\ IF there = {} THEN Ends(r)
        ELSE \E p \in there : Sets(r, [request[r] EXCEPT !.at = "answer", !.by = p])

Replies(r) ==
  request[r].at = "answer" /\ pstate[request[r].by] = "listening" /\ Ends(r)

(* The process has exited: the connection is reset.                        *)
Cut(r) ==
  request[r].at = "answer" /\ pstate[request[r].by] # "listening" /\ Ends(r)

(* The client goes; the proxy's context ends.                              *)
HangsUp(r) == request[r].at \in {"connect", "answer"} /\ Ends(r)

Handled(r) ==
  LooksUp(r) \/ Enters(r) \/ Connects(r) \/ Replies(r) \/ Cut(r)

-----------------------------------------------------------------------------
(* waitForInstanceRunning: GET /api/v1/instances/{name} until the status   *)
(* says how the start has ended, or the deadline.                          *)

WaitPolls(o) ==
  /\ wait.says = "wait"
  /\ registered = o /\ Unlocked(o)
  /\ CASE status[o] \in {Stopped, Failed} -> wait' = [wait EXCEPT !.says = "over"]
       [] status[o] = Running             -> wait' = NotWaiting
       [] OTHER                           -> UNCHANGED wait
  /\ UNCHANGED <<instVars, mgrVars, request>>

(* The deadline, "not found", or a request that fails.                     *)
WaitFails ==
  /\ wait.says = "wait"
  /\ wait' = NotWaiting
  /\ UNCHANGED <<instVars, mgrVars, request>>

-----------------------------------------------------------------------------

ServingInit ==
  /\ InstInit
  /\ registered = None /\ doing = "none" /\ freed = {}
  /\ request = [r \in Requests |-> NoRequest]
  /\ wait = NotWaiting

Process(p) ==
  /\ Listens(p) \/ Exits(p)
  /\ UNCHANGED <<mgrVars, request, wait>>

ServingNext ==
  \/ \E o \in Objs : Manages(o) \/ WaitPolls(o)
  \/ \E p \in Launches : Process(p)
  \/ \E r \in Requests :
       Arrives(r) \/ Handled(r) \/ ReadsStatus(r) \/ HangsUp(r)
  \/ WaitFails

ServingSpec == ServingInit /\ [][ServingNext]_servingVars

(* Handlers are scheduled, a mutex is not given to others for ever, and an *)
(* exit is noticed.  Nothing is assumed of the client that sends the body  *)
(* nor of the llama-server that is to answer.                              *)
ServingFairness ==
  /\ InstFairness
  /\ \A r \in Requests :
       /\ WF_servingVars(Enters(r) \/ Connects(r) \/ Cut(r))
       /\ SF_servingVars(ReadsStatus(r))

FairServingSpec == ServingSpec /\ ServingFairness

-----------------------------------------------------------------------------
(* Types; a request knows its object, and its process, from where on it    *)
(* uses them.                                                              *)
ServingTypeOK ==
  /\ InstTypeOK
  /\ registered \in born \cup {None}
  /\ doing \in {"none", "start", "stop", "restart", "delete", "again"}
  /\ freed \subseteq born
  /\ request \in [Requests ->
       [at : {"idle", "lookup", "shutting", "running", "proxy", "connect", "answer"},
        to : Objs \cup {None}, by : Launches \cup {None}]]
  /\ wait \in [launch : Launches \cup {None},
               says : {"nothing", "wait", "over"}]
  /\ \A r \in Requests :
       /\ request[r].at \in {"shutting", "running", "proxy", "connect", "answer"}
            <=> request[r].to # None
       /\ request[r].at = "answer" <=> request[r].by # None

(* The one way in which the code lets another instance answer a request    *)
(* than the one it names is a port that a stop has given back: of the one  *)
(* it names, after the proxy's flag was read, or of the one that answers,  *)
(* which was started on it again.  A restart is no such stop, and an       *)
(* instance deleted while its process lives on keeps others off its port.  *)
OnlyFreedPortsStray ==
  \A r \in Requests :
    LET to == request[r].to  from == powner[request[r].by] IN
    request[r].at = "answer" /\ from # to =>
      \E o \in {from, to} : o \in freed /\ shuttingDown[o]

(* `start --wait` reports a start as failed or stopped only when the       *)
(* process of that start has gone, whoever stopped or restarted the        *)
(* instance meanwhile; unless the name has come to mean another instance.  *)
WaitToldRight ==
  wait.says = "over" /\ powner[wait.launch] = registered => ~Live(wait.launch)

(* What can hold up a request that has found its instance for ever is the  *)
(* llama-server that has accepted it, as the proxy has no timeout: reading *)
(* the status waits for the mutex of a Stop, which waits for a process,    *)
(* and still goes on, and the exit of the process ends the request.        *)
RequestEndsOrAwaitsAnswer ==
  \A r \in Requests :
    request[r].at \notin {"idle", "lookup"} ~>
      \/ request[r].at = "idle"
      \/ [](request[r].at = "answer" /\ pstate[request[r].by] = "listening")
===============================================================================
