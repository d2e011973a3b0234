----------------------------- MODULE ServingProofs -----------------------------
(***************************************************************************)
(* Proofs about Serving.tla, for any number of instances, processes, ports *)
(* and requests.  What the manager, the requests and the command line do   *)
(* to the instances is what Instance.tla allows any caller, so that all    *)
(* that InstanceProofs shows holds here too; on top of it, two instances   *)
(* share a port only when that of one of them has been given back.         *)
(***************************************************************************)
EXTENDS Serving, InstanceProofs

(* What the steps of an instance keep, whoever calls: a process listens    *)
(* where its instance told it to, and a Stop has set the proxy's flag.     *)
Launched ==
  /\ \A p \in Launches :
       pstate[p] # "none" => powner[p] \in born /\ pport[p] = port[powner[p]]
  /\ \A o \in Objs : cmd[o] # None => pstate[cmd[o]] # "none"
  /\ \A o \in Objs : pid[o] # None => cmd[o] # None
  /\ \A o \in Objs : holder[o] = "stop" => shuttingDown[o]

(* Two instances have one port only after the port of one was given back,  *)
(* and only a Stop has it given back.                                      *)
PortsApart ==
  /\ \A o \in freed : shuttingDown[o]
  /\ \A o, q \in born : o # q /\ port[o] = port[q] => o \in freed \/ q \in freed

(* A request is for an instance that exists, and is answered on its port.  *)
RequestsFit ==
  \A r \in Requests :
    /\ request[r].to # None => request[r].to \in born
    /\ request[r].at = "answer" =>
         pstate[request[r].by] # "none" /\ pport[request[r].by] = port[request[r].to]

(* The command line waits for a process that was launched.                 *)
WaitFits ==
  /\ \A o \in Objs : status[o] = Running => cmd[o] # None
  /\ wait.says # "nothing" => wait.launch # None
  /\ wait.launch # None => pstate[wait.launch] # "none"

ServInv ==
  IInv /\ ServingTypeOK /\ Launched /\ PortsApart /\ RequestsFit /\ WaitFits
  /\ WaitToldRight

-----------------------------------------------------------------------------

(* What a step of an instance never takes back.                            *)
Lasting ==
  /\ \A q \in born : q \in born' /\ port'[q] = port[q]
  /\ \A o \in Objs : shuttingDown[o] => shuttingDown'[o]
  /\ \A o \in Objs : cmd[o] # None => cmd'[o] # None
  /\ \A p \in Launches :
       pstate[p] # "none" => /\ pstate'[p] # "none"
                             /\ pport'[p] = pport[p] /\ powner'[p] = powner[p]
                             /\ ~Live(p) => ~Live(p)'

LEMMA InstKeeps ==
  ASSUME IInv, Launched, [InstNext]_instVars
  PROVE  Launched' /\ Lasting
<1> USE NoneAssumption DEF IInv, InstTypeOK, LockOK, Launched, Lasting, Live
<1>1. ASSUME NEW o \in Objs, NEW pt \in Ports \cup {NoPort}, NEW r \in BOOLEAN,
             NEW op \in Options, New(o, pt, r, op)
      PROVE  Launched' /\ Lasting
  BY <1>1 DEF New, lockVars, procVars
<1>2. ASSUME NEW o \in Objs,
             StartBegin(o) \/ StopBegin(o) \/ MarkFailedBegin(o) \/ MarkRunning(o)
             \/ MarkStopped(o) \/ \E op \in Options : SetOpts(o, op)
      PROVE  Launched' /\ Lasting
  BY <1>2 DEF StartBegin, StopBegin, MarkFailedBegin, MarkRunning, MarkStopped, Forced,
              SetOpts, objVars, lockVars, procVars
<1>3. ASSUME NEW o \in Objs, StartFails(o) \/ StartNoBinary(o)
      PROVE  Launched' /\ Lasting
  BY <1>3 DEF StartFails, StartNoBinary, objVars, procVars
<1>4. ASSUME NEW o \in Objs, NEW p \in Launches, StartLaunches(o, p)
      PROVE  Launched' /\ Lasting
  BY <1>4 DEF StartLaunches
<1>5. ASSUME NEW o \in Objs, ProcessStop(o)
      PROVE  Launched' /\ Lasting
  BY <1>5 DEF ProcessStop, StopGoesOn, StopSucceeds, StopErrs, KillNoProcess, KillSent,
              KillReaped, DoneClosed, GraceEnds, RekillSent, RekillReaped, StageGoes,
              StopReturns, objVars, procVars
<1>6. ASSUME NEW p \in Launches, Listens(p) \/ Exits(p)
      PROVE  Launched' /\ Lasting
  BY <1>6 DEF Listens, Exits, objVars, lockVars
<1>7. CASE UNCHANGED instVars
  BY <1>7 DEF instVars, objVars, lockVars, procVars
<1> QED
  BY <1>1, <1>2, <1>3, <1>4, <1>5, <1>6, <1>7
  DEF InstNext, Call, StartStep, StartRefused, StopNil, StopRefused

(* Every step of serving is a step of an instance that InstSpec allows, or *)
(* none.                                                                   *)
LEMMA Uses == ServingNext => [InstNext]_instVars
<1>1. ASSUME NEW o \in Objs, Manages(o)
      PROVE  [InstNext]_instVars
  <2>1. ASSUME NEW pt \in Ports, Creates(o, pt)
        PROVE  Call(o)
    BY <2>1 DEF Creates, Call
  <2>2. Starts(o) => Call(o)
    BY DEF Starts, Call
  <2>3. StartAnswered(o) => StartStep(o)
    BY DEF StartAnswered, StartStep
  <2>4. StartsRunning(o) \/ Deletes(o) => UNCHANGED instVars
    BY DEF StartsRunning, Deletes
  <2>5. ASSUME NEW how, Stops(o, how)
        PROVE  Call(o)
    BY <2>5 DEF Stops, Call
  <2>6. Stopping(o) \/ MarkingFailed(o) => ProcessStop(o)
    BY DEF Stopping, MarkingFailed, ProcessStop
  <2>7. Waited(o) => Call(o)
    BY DEF Waited, Call
  <2> QED
    BY <1>1, <2>1, <2>2, <2>3, <2>4, <2>5, <2>6, <2>7 DEF Manages, InstNext
<1>2. ASSUME NEW p \in Launches, Process(p)
      PROVE  [InstNext]_instVars
  BY <1>2 DEF Process, InstNext
<1>3. ASSUME NEW o \in Objs, WaitPolls(o)
      PROVE  UNCHANGED instVars
  BY <1>3 DEF WaitPolls
<1>4. ASSUME NEW r \in Requests, Arrives(r) \/ Handled(r) \/ ReadsStatus(r) \/ HangsUp(r)
      PROVE  UNCHANGED instVars
  BY <1>4 DEF Arrives, Handled, ReadsStatus, HangsUp, LooksUp, Enters, Connects, Replies,
              Cut, Goes, Ends, Sets
<1>5. WaitFails => UNCHANGED instVars
  BY DEF WaitFails
<1> QED
  BY <1>1, <1>2, <1>3, <1>4, <1>5 DEF ServingNext

(* A request's own step changes nothing else, and it fits what it is about.*)
LEMMA RequestKeeps ==
  ASSUME ServInv, NEW r \in Requests,
         Arrives(r) \/ Handled(r) \/ ReadsStatus(r) \/ HangsUp(r)
  PROVE  ServInv'
<1> DEFINE new == request'[r]
<1>1. /\ UNCHANGED <<instVars, mgrVars, wait>>
      /\ request' = [request EXCEPT ![r] = new]
  BY DEF Arrives, Handled, ReadsStatus, HangsUp, LooksUp, Enters, Connects, Replies, Cut,
         Goes, Ends, Sets, ServInv, ServingTypeOK
<1>2. /\ new \in [at : {"idle", "lookup", "shutting", "running", "proxy", "connect", "answer"},
                  to : Objs \cup {None}, by : Launches \cup {None}]
      /\ new.at \in {"shutting", "running", "proxy", "connect", "answer"} <=> new.to # None
      /\ new.at = "answer" <=> new.by # None
      /\ new.to # None => new.to \in born
      /\ new.at = "answer" => pstate[new.by] # "none" /\ pport[new.by] = port[new.to]
  <2> USE NoneAssumption DEF ServInv, ServingTypeOK, Goes, Ends, Sets, NoRequest
  <2>0. /\ request[r] \in
              [at : {"idle", "lookup", "shutting", "running", "proxy", "connect", "answer"},
               to : Objs \cup {None}, by : Launches \cup {None}]
        /\ request[r].to # None => request[r].to \in born
        /\ request[r].at \in {"shutting", "running", "proxy", "connect", "answer"}
             <=> request[r].to # None
        /\ request[r].at = "answer" <=> request[r].by # None
    BY DEF RequestsFit
  <2>1. CASE Arrives(r)
    BY <2>1 DEF Arrives
  <2>2. CASE LooksUp(r)
    <3>1. CASE new = NoRequest
      BY <3>1
    <3>2. CASE /\ registered # None /\ request[r].at = "lookup"
               /\ new = [request[r] EXCEPT !.at = "shutting", !.to = registered]
      <4>1. registered \in born /\ registered \in Objs
        BY <3>2 DEF IInv, InstTypeOK
      <4> HIDE DEF ServInv, ServingTypeOK, new
      <4> QED
        BY <2>0, <3>2, <4>1
    <3> QED
      BY <2>2, <3>1, <3>2 DEF LooksUp
  <2>3. CASE ReadsStatus(r)
    BY <2>3 DEF ReadsStatus, RequestsFit
  <2>4. CASE Enters(r)
    BY <2>4 DEF Enters, RequestsFit
  <2>5. CASE Connects(r)
    <3>1. CASE new = NoRequest
      BY <3>1
    <3>2. ASSUME NEW p \in Launches, pstate[p] = "listening",
                 pport[p] = port[request[r].to], request[r].at = "connect",
                 new = [request[r] EXCEPT !.at = "answer", !.by = p]
          PROVE  /\ new.at = "answer" /\ new.by = p /\ new.to = request[r].to
                 /\ new.to \in born /\ new.to \in Objs
      BY <2>0, <3>2 DEF IInv, InstTypeOK
    <3>3. \/ new = NoRequest
          \/ \E p \in Launches :
               /\ pstate[p] = "listening" /\ pport[p] = port[request[r].to]
               /\ request[r].at = "connect"
               /\ new = [request[r] EXCEPT !.at = "answer", !.by = p]
      BY <2>5 DEF Connects
    <3> HIDE DEF ServInv, ServingTypeOK, new
    <3>4. ASSUME NEW p \in Launches, pstate[p] = "listening",
                 pport[p] = port[request[r].to], request[r].at = "connect",
                 new = [request[r] EXCEPT !.at = "answer", !.by = p]
          PROVE  new.by # None /\ pstate[new.by] # "none"
                 /\ pport[new.by] = port[new.to] /\ new.to # None
                 /\ new \in
                      [at : {"idle", "lookup", "shutting", "running", "proxy", "connect",
                             "answer"},
                       to : Objs \cup {None}, by : Launches \cup {None}]
      BY <2>0, <3>2, <3>4
    <3> QED
      BY <3>1, <3>2, <3>3, <3>4
  <2>6. CASE Replies(r) \/ Cut(r) \/ HangsUp(r)
    BY <2>6 DEF Replies, Cut, HangsUp
  <2> QED
    BY <2>1, <2>2, <2>3, <2>4, <2>5, <2>6 DEF Handled
<1> HIDE DEF new
<1>3. \A q \in Requests : request'[q] = IF q = r THEN new ELSE request[q]
  BY <1>1 DEF ServInv, ServingTypeOK
<1>4. IInv' /\ Launched'
  BY <1>1, Stutters, InstKeeps DEF ServInv
<1>5. ServingTypeOK'
  <2>1. request' \in [Requests ->
          [at : {"idle", "lookup", "shutting", "running", "proxy", "connect", "answer"},
           to : Objs \cup {None}, by : Launches \cup {None}]]
    BY <1>1, <1>2 DEF ServInv, ServingTypeOK
  <2>2. \A q \in Requests :
          /\ request'[q].at \in {"shutting", "running", "proxy", "connect", "answer"}
               <=> request'[q].to # None
          /\ request'[q].at = "answer" <=> request'[q].by # None
    BY <1>2, <1>3 DEF ServInv, ServingTypeOK
  <2> QED
    BY <1>1, <1>4, <2>1, <2>2 DEF ServInv, ServingTypeOK, IInv, mgrVars, instVars
<1>6. RequestsFit'
  BY <1>1, <1>2, <1>3 DEF ServInv, RequestsFit, instVars, objVars, procVars
<1>7. PortsApart' /\ WaitFits' /\ WaitToldRight'
  BY <1>1 DEF ServInv, PortsApart, WaitFits, WaitToldRight, Live, instVars, objVars,
              procVars, mgrVars
<1> QED
  BY <1>4, <1>5, <1>6, <1>7 DEF ServInv

(* What the steps of the manager and the processes leave alone holds on.   *)
LEMMA RequestsLast ==
  ASSUME ServInv, Lasting, UNCHANGED request
  PROVE  RequestsFit'
BY NoneAssumption DEF ServInv, ServingTypeOK, RequestsFit, Lasting, IInv, InstTypeOK

LEMMA PollKeeps ==
  ASSUME ServInv, (\E o \in Objs : WaitPolls(o)) \/ WaitFails
  PROVE  ServInv'
<1>1. UNCHANGED <<instVars, mgrVars, request>>
  BY DEF WaitPolls, WaitFails
<1>2. IInv' /\ Launched' /\ Lasting
  BY <1>1, Stutters, InstKeeps DEF ServInv
<1>3. wait' \in [launch : Launches \cup {None}, says : {"nothing", "wait", "over"}]
      /\ WaitFits'
  BY <1>1 DEF ServInv, ServingTypeOK, WaitFits, WaitPolls, WaitFails, NotWaiting,
              instVars, objVars, procVars
<1>4. WaitToldRight'
  <2>1. ASSUME NEW o \in Objs, WaitPolls(o), wait'.says = "over",
               powner'[wait'.launch] = registered'
        PROVE  ~Live(wait.launch)'
    <3>1. /\ registered = o /\ o \in born /\ status[o] \in {Stopped, Failed}
          /\ wait.launch \in Launches /\ wait'.launch = wait.launch
      BY <2>1 DEF WaitPolls, Unlocked, ServInv, ServingTypeOK, WaitFits, NotWaiting
    <3>2. LiveOf(o) = {}
      BY <3>1 DEF ServInv, IInv, RestIsQuiet
    <3> QED
      BY <1>1, <2>1, <3>1, <3>2 DEF LiveOf, Live, instVars, procVars, mgrVars
  <2> QED
    BY <2>1 DEF WaitFails, NotWaiting, WaitToldRight
<1>5. ServingTypeOK'
  BY <1>1, <1>2, <1>3 DEF ServInv, ServingTypeOK, IInv, mgrVars, instVars
<1>6. PortsApart'
  BY <1>1 DEF ServInv, PortsApart, instVars, objVars, mgrVars
<1> QED
  BY <1>1, <1>2, <1>3, <1>4, <1>5, <1>6, RequestsLast DEF ServInv

(* What a step of the manager does to its own state and to a waiting       *)
(* command line, and when it may make an instance running.                 *)
Leaves(o) ==
  /\ \/ registered' \in {registered, None}
     \/ registered' = o /\ o \notin born
  /\ registered' \in born' \cup {None}
  /\ doing' \in {"none", "start", "stop", "restart", "delete", "again"}
  /\ \/ freed' = freed
     \/ freed' = freed \cup {o} /\ shuttingDown[o] /\ o \in born
  /\ \/ wait' = wait
     \/ \E p \in Launches : wait' = [launch |-> p, says |-> "wait"] /\ pstate'[p] # "none"
  /\ \A q \in Objs : status'[q] = Running => status[q] = Running \/ pid[q] # None
  /\ UNCHANGED request

LEMMA ManagerLeaves ==
  ASSUME ServInv, NEW o \in Objs, Manages(o)
  PROVE  Leaves(o)
<1>0. /\ registered \in born \cup {None}
      /\ doing \in {"none", "start", "stop", "restart", "delete", "again"}
      /\ status \in [Objs -> Statuses] /\ pstate \in [Launches -> {"none", "up", "listening", "gone"}]
      /\ holder[o] = "stop" => shuttingDown[o] /\ o \in born
      /\ status[o] = Running => cmd[o] \in Launches /\ pstate[cmd[o]] # "none"
  BY DEF ServInv, ServingTypeOK, IInv, InstTypeOK, LockOK, Launched, WaitFits
<1> USE DEF Leaves, instVars, objVars, lockVars, procVars, mgrVars, Running, Restarting,
            Stopped, Failed, ShuttingDown
<1>1. ASSUME NEW pt \in Ports, Creates(o, pt)
      PROVE  Leaves(o)
  BY <1>0, <1>1 DEF Creates, New
<1>2. CASE Starts(o)
  BY <1>0, <1>2 DEF Starts, StartBegin
<1>3. CASE StartAnswered(o)
  <2>1. CASE (StartFails(o) \/ StartNoBinary(o)) /\ UNCHANGED wait
    BY <1>0, <1>3, <2>1 DEF StartAnswered, StartFails, StartNoBinary
  <2>2. ASSUME NEW p \in Launches, StartLaunches(o, p), Accepted(p)
        PROVE  Leaves(o)
    BY <1>0, <1>3, <2>2 DEF StartAnswered, StartLaunches, Accepted
  <2> QED
    BY <1>3, <2>1, <2>2 DEF StartAnswered
<1>4. CASE StartsRunning(o)
  BY <1>0, <1>4 DEF StartsRunning, Accepted
<1>5. ASSUME NEW how \in {"stop", "restart", "delete"}, Stops(o, how)
      PROVE  Leaves(o)
  BY <1>0, <1>5 DEF Stops, StopBegin
<1>6. CASE Stopping(o) \/ MarkingFailed(o)
  <2>1. \A q \in Objs : status'[q] = Running => status[q] = Running
    BY <1>0, <1>6 DEF Stopping, MarkingFailed, ProcessStop, StopGoesOn, StopSucceeds,
       StopErrs, KillNoProcess, KillSent, KillReaped, DoneClosed, GraceEnds, RekillSent,
       RekillReaped, StageGoes, StopReturns
  <2>2. born' = born
    BY <1>6 DEF Stopping, MarkingFailed, ProcessStop, StopGoesOn, StopSucceeds, StopErrs,
       KillNoProcess, KillSent, KillReaped, DoneClosed, GraceEnds, RekillSent,
       RekillReaped, StageGoes, StopReturns
  <2>3. /\ UNCHANGED <<request, wait>>
        /\ UNCHANGED mgrVars \/ Stopping(o)
    BY <1>6 DEF Stopping, MarkingFailed
  <2> QED
    BY <1>0, <2>1, <2>2, <2>3 DEF Stopping
<1>7. CASE Deletes(o)
  BY <1>0, <1>7 DEF Deletes
<1>8. CASE Waited(o)
  BY <1>0, <1>8 DEF Waited, MarkRunning, Forced, MarkFailedBegin
<1> QED
  BY <1>1, <1>2, <1>3, <1>4, <1>5, <1>6, <1>7, <1>8, Zenon DEF Manages

LEMMA ManagerKeeps ==
  ASSUME ServInv, NEW o \in Objs, Manages(o)
  PROVE  ServInv'
<1>1. [InstNext]_instVars /\ Leaves(o)
  BY Uses, ManagerLeaves DEF ServingNext
<1>2. IInv' /\ Launched' /\ Lasting
  BY <1>1, StepIInv, InstKeeps DEF ServInv
<1>3. RequestsFit'
  BY <1>1, <1>2, RequestsLast DEF Leaves
<1>4. /\ born \subseteq born' /\ born \subseteq Objs /\ InstTypeOK'
      /\ ServingTypeOK /\ Launched /\ WaitToldRight /\ None \notin Objs /\ None \notin Launches
      /\ shuttingDown \in [Objs -> BOOLEAN]
  BY <1>2, NoneAssumption DEF ServInv, Lasting, IInv, InstTypeOK
<1>5. ServingTypeOK'
  <2>1. wait' \in [launch : Launches \cup {None}, says : {"nothing", "wait", "over"}]
    BY <1>1, <1>4 DEF Leaves, ServingTypeOK
  <2> QED
    BY <1>1, <1>4, <2>1 DEF Leaves, ServingTypeOK
<1>6. PortsApart'
  <2>0. /\ \A q \in freed : q \in Objs /\ shuttingDown[q]
        /\ \A q, r \in born : q # r /\ port[q] = port[r]
                              => q \in freed' \/ r \in freed'
        /\ \A q \in born : q \in Objs /\ port'[q] = port[q]
        /\ \A q \in Objs : shuttingDown[q] => shuttingDown'[q]
    <3>1. PortsApart /\ freed \subseteq born
      BY <1>4 DEF ServInv, ServingTypeOK
    <3>2. (\A q \in born : port'[q] = port[q])
          /\ \A q \in Objs : shuttingDown[q] => shuttingDown'[q]
      BY <1>2 DEF Lasting
    <3>3. freed \subseteq freed'
      BY <1>1 DEF Leaves
    <3> QED
      BY <1>4, <3>1, <3>2, <3>3 DEF PortsApart
  <2>1. \A q \in freed' : shuttingDown'[q]
    BY <1>1, <2>0 DEF Leaves
  <2>2. CASE born' = born
    BY <2>0, <2>1, <2>2 DEF PortsApart
  <2>3. ASSUME NEW pt \in Ports, Creates(o, pt)
        PROVE  PortsApart'
    <3>1. /\ o \notin born /\ born' = born \cup {o} /\ port'[o] = pt
          /\ \A q \in born \ freed' : port[q] # pt
      BY <2>3 DEF Creates, New, ServInv, IInv, InstTypeOK
    <3>2. \A q \in born : port'[q] = port[q] /\ (port'[q] = pt => q \in freed')
      BY <2>0, <3>1
    <3>3. \A p, q \in born : p # q /\ port'[p] = port'[q]
                             => p \in freed' \/ q \in freed'
      BY <2>0
    <3> QED
      BY <2>1, <3>1, <3>2, <3>3 DEF PortsApart
  <2>4. ASSUME \A pt \in Ports : ~Creates(o, pt)
        PROVE  born' = born
    BY <2>4 DEF Manages, Starts, StartBegin, StartAnswered, StartFails, StartNoBinary,
       StartLaunches, StartsRunning, Stops, StopBegin, Stopping, MarkingFailed,
       ProcessStop, StopGoesOn, StopSucceeds, StopErrs, KillNoProcess, KillSent,
       KillReaped, DoneClosed, GraceEnds, RekillSent, RekillReaped, StageGoes,
       StopReturns, Deletes, Waited, MarkRunning, Forced, MarkFailedBegin, instVars
  <2> QED
    BY <2>2, <2>3, <2>4
<1>7. WaitFits'
  <2>1. \A q \in Objs : status'[q] = Running => cmd'[q] # None
    <3>1. \A q \in Objs : status[q] = Running \/ pid[q] # None => cmd[q] # None
      BY DEF ServInv, WaitFits, Launched
    <3>2. \A q \in Objs : cmd[q] # None => cmd'[q] # None
      BY <1>2 DEF Lasting
    <3>3. \A q \in Objs : status'[q] = Running => status[q] = Running \/ pid[q] # None
      BY <1>1 DEF Leaves
    <3> QED
      BY <3>1, <3>2, <3>3
  <2>2. CASE wait' = wait
    BY <1>2, <1>4, <2>1, <2>2 DEF ServInv, WaitFits, Lasting, ServingTypeOK
  <2>3. ASSUME NEW p \in Launches, wait' = [launch |-> p, says |-> "wait"],
               pstate'[p] # "none"
        PROVE  WaitFits'
    BY <1>4, <2>1, <2>3 DEF WaitFits
  <2> QED
    BY <1>1, <2>2, <2>3 DEF Leaves
<1>8. WaitToldRight'
  <2>1. CASE wait' # wait
    BY <1>1, <2>1 DEF Leaves, WaitToldRight
  <2>2. ASSUME wait' = wait, wait.says = "over", powner'[wait.launch] = registered'
        PROVE  ~Live(wait.launch)'
    <3>1. wait.launch \in Launches /\ pstate[wait.launch] # "none"
      BY <2>2 DEF ServInv, WaitFits, ServingTypeOK
    <3>2. powner'[wait.launch] = powner[wait.launch] /\ powner[wait.launch] \in born
      BY <1>2, <3>1 DEF Lasting, ServInv, Launched
    <3>3. registered' = registered
      BY <1>1, <1>4, <2>2, <3>2 DEF Leaves
    <3> QED
      BY <1>2, <1>4, <2>2, <3>1, <3>2, <3>3 DEF Lasting, WaitToldRight
  <2> QED
    BY <2>1, <2>2 DEF WaitToldRight, Live
<1> QED
  BY <1>2, <1>3, <1>5, <1>6, <1>7, <1>8 DEF ServInv

LEMMA ProcessesKeep ==
  ASSUME ServInv, NEW p \in Launches, Process(p)
  PROVE  ServInv'
<1>1. /\ UNCHANGED <<mgrVars, request, wait, born, objVars, powner, pport>>
      /\ [InstNext]_instVars
  BY DEF Process, Listens, Exits, InstNext
<1>2. IInv' /\ Launched' /\ Lasting
  BY <1>1, StepIInv, InstKeeps DEF ServInv
<1>3. RequestsFit'
  BY <1>1, <1>2, RequestsLast
<1>4. ServingTypeOK' /\ PortsApart'
  BY <1>1, <1>2 DEF ServInv, ServingTypeOK, PortsApart, IInv, mgrVars, objVars
<1>5. WaitFits'
  BY <1>1, <1>2 DEF ServInv, WaitFits, ServingTypeOK, Lasting, objVars
<1>6. WaitToldRight'
  <2> SUFFICES ASSUME wait.says = "over", powner[wait.launch] = registered
               PROVE  ~Live(wait.launch)'
    BY <1>1 DEF WaitToldRight, mgrVars, Live
  <2>1. wait.launch \in Launches /\ pstate[wait.launch] # "none" /\ ~Live(wait.launch)
    BY DEF ServInv, WaitFits, ServingTypeOK, WaitToldRight
  <2> QED
    BY <1>1, <1>2, <2>1 DEF Lasting
<1> QED
  BY <1>2, <1>3, <1>4, <1>5, <1>6 DEF ServInv

LEMMA ServInductive == ServingSpec => []ServInv
<1>1. ServingInit => ServInv
  <2> SUFFICES ASSUME ServingInit PROVE ServInv
    OBVIOUS
  <2>1. InstInit /\ IInv
    BY InitIInv DEF ServingInit
  <2>2. Launched
    BY <2>1 DEF Launched, InstInit
  <2>3. WaitFits
    BY <2>1 DEF ServingInit, NotWaiting, WaitFits, InstInit, Stopped, Running
  <2>4. ServingTypeOK
    BY <2>1 DEF ServingInit, ServingTypeOK, NoRequest, NotWaiting, IInv
  <2>5. PortsApart /\ RequestsFit /\ WaitToldRight
    BY <2>1 DEF ServingInit, NoRequest, NotWaiting, PortsApart, RequestsFit, WaitToldRight,
                InstInit
  <2> QED
    BY <2>1, <2>2, <2>3, <2>4, <2>5 DEF ServInv
<1>2. ServInv /\ [ServingNext]_servingVars => ServInv'
  <2> SUFFICES ASSUME ServInv, [ServingNext]_servingVars PROVE ServInv'
    OBVIOUS
  <2>1. CASE UNCHANGED servingVars
    <3>1. UNCHANGED <<instVars, mgrVars, request, wait>>
      BY <2>1 DEF servingVars
    <3>2. IInv' /\ Launched' /\ Lasting
      BY <3>1, Stutters, InstKeeps DEF ServInv
    <3>3. ServingTypeOK' /\ RequestsFit'
      BY <3>1, <3>2, RequestsLast DEF ServInv, ServingTypeOK, IInv, mgrVars, instVars
    <3>4. PortsApart' /\ WaitFits' /\ WaitToldRight'
      BY <3>1 DEF ServInv, PortsApart, WaitFits, WaitToldRight, Live, instVars, objVars,
                  procVars, mgrVars
    <3> QED
      BY <3>2, <3>3, <3>4 DEF ServInv
  <2> QED
    BY <2>1, RequestKeeps, PollKeeps, ManagerKeeps, ProcessesKeep DEF ServingNext
<1> QED
  BY <1>1, <1>2, PTL DEF ServingSpec

(* Types, and that a request knows its object, and its process, from where *)
(* on it uses them.                                                        *)
THEOREM ServingTypeCorrect == ServingSpec => []ServingTypeOK
<1>1. ServInv => ServingTypeOK
  BY DEF ServInv
<1> QED
  BY ServInductive, <1>1, PTL

(* Serving keeps the rules of Instance.tla: every behaviour of it is one   *)
(* of an instance, so that InstanceProofs holds for it.                    *)
THEOREM ServingUsesInstances == ServingSpec => InstSpec
<1>1. ServingInit => InstInit
  BY DEF ServingInit
<1>2. [ServingNext]_servingVars => [InstNext]_instVars
  BY Uses DEF servingVars
<1> QED
  BY <1>1, <1>2, PTL DEF ServingSpec, InstSpec

(* A request is answered by the instance it names, unless a stop has given *)
(* back the port of one of the two: the process listens where its instance *)
(* told it to, and two instances have one port only then.                  *)
THEOREM AnswersComeFromTheNamed == ServingSpec => []OnlyFreedPortsStray
<1>1. ServInv => OnlyFreedPortsStray
  <2> SUFFICES ASSUME ServInv, NEW r \in Requests, request[r].at = "answer",
                      powner[request[r].by] # request[r].to
               PROVE  \E o \in {powner[request[r].by], request[r].to} :
                        o \in freed /\ shuttingDown[o]
    BY DEF OnlyFreedPortsStray
  <2>1. request[r].to \in born /\ request[r].by \in Launches
    BY DEF ServInv, ServingTypeOK, RequestsFit
  <2>2. powner[request[r].by] \in born
        /\ port[powner[request[r].by]] = port[request[r].to]
    BY <2>1 DEF ServInv, RequestsFit, Launched
  <2> QED
    BY <2>1, <2>2 DEF ServInv, PortsApart
<1> QED
  BY ServInductive, <1>1, PTL

(* `start --wait` is told of a failure or a stop only when the process it  *)
(* waits for has gone: at rest an instance has none.                       *)
THEOREM WaitIsToldRight == ServingSpec => []WaitToldRight
<1>1. ServInv => WaitToldRight
  BY DEF ServInv
<1> QED
  BY ServInductive, <1>1, PTL

===============================================================================
