---------------------------- MODULE InstanceProofs ----------------------------
(***************************************************************************)
(* Proofs about an instance under every sequence of calls, for any number  *)
(* of objects, processes, ports and options.  The invariants of            *)
(* Instance.tla are not inductive one by one: that an object at rest has   *)
(* no process needs that Start holds the mutex with none alive, that a     *)
(* returning process.stop leaves none needs that cmd names the only one    *)
(* there can be.  IInv is their conjunction with the facts they lack.      *)
(***************************************************************************)
EXTENDS Instance, TLAPS

(* A live process belongs to an object that exists.                        *)
OwnersBorn == \A p \in Launches : Live(p) => powner[p] \in born

(* Start runs, and an object begins, with nothing alive and no PID.        *)
FreshIsQuiet ==
  \A o \in Objs :
    holder[o] = "start" \/ o \notin born => LiveOf(o) = {} /\ pid[o] = None

IInv ==
  /\ InstTypeOK
  /\ SingleProcess
  /\ RestIsQuiet
  /\ WedgedIsQuiet
  /\ RestartingHasLaunched
  /\ OwnersBorn
  /\ FreshIsQuiet

-----------------------------------------------------------------------------

(* A process that is not the one cmd names is not alive: when cmd's is     *)
(* gone, or there is none, nothing of the object is.                       *)
LEMMA CmdGone ==
  ASSUME IInv, NEW o \in born,
         cmd[o] = None \/ (cmd[o] \in Launches /\ ~Live(cmd[o]))
  PROVE  LiveOf(o) = {}
BY NoneAssumption DEF IInv, SingleProcess, LiveOf

(* The set of an object's live processes depends on the process table.     *)
LEMMA SameLive ==
  ASSUME UNCHANGED <<pstate, powner>>
  PROVE  /\ \A o \in Objs : LiveOf(o)' = LiveOf(o)
         /\ \A p \in Launches : Live(p)' = Live(p)
BY DEF LiveOf, Live

(* Before New has been called nothing exists and nothing runs.             *)
LEMMA InitIInv == InstInit => IInv
BY NoneAssumption
DEF InstInit, IInv, InstTypeOK, LockOK, SingleProcess, RestIsQuiet, WedgedIsQuiet,
    RestartingHasLaunched, OwnersBorn, FreshIsQuiet, LiveOf, Live, Statuses, Stopped,
    Restarting, ShuttingDown

(* A refused call changes nothing.                                         *)
LEMMA Stutters ==
  ASSUME IInv, UNCHANGED instVars
  PROVE  IInv'
BY DEF instVars, objVars, lockVars, procVars, IInv, InstTypeOK, LockOK, SingleProcess,
       RestIsQuiet, WedgedIsQuiet, RestartingHasLaunched, OwnersBorn, FreshIsQuiet,
       LiveOf, Live

(* A new object is stopped and has launched nothing.                       *)
LEMMA NewKeeps ==
  ASSUME IInv, NEW o \in Objs, NEW pt \in Ports \cup {NoPort}, NEW r \in BOOLEAN,
         NEW op \in Options, New(o, pt, r, op)
  PROVE  IInv'
<1>1. UNCHANGED <<pstate, powner>>
  BY DEF New, procVars
<1>2. InstTypeOK'
  BY DEF New, IInv, InstTypeOK, LockOK, lockVars, procVars, Statuses, Stopped
<1>3. QED
  BY <1>1, <1>2, SameLive
  DEF New, IInv, InstTypeOK, LockOK, SingleProcess, RestIsQuiet, WedgedIsQuiet,
      RestartingHasLaunched, OwnersBorn, FreshIsQuiet, lockVars, Stopped, Restarting,
      ShuttingDown, Failed

(* Start takes the mutex of an object at rest, which has no process.       *)
LEMMA StartBeginKeeps ==
  ASSUME IInv, NEW o \in Objs, StartBegin(o)
  PROVE  IInv'
<1>1. UNCHANGED <<pstate, powner>>
  BY DEF StartBegin, procVars
<1>2. status[o] \in {Stopped, Failed}
  BY DEF StartBegin, CanSet, statusTransitions, Statuses, IInv, InstTypeOK, Stopped,
         Failed, Restarting, Running, ShuttingDown
<1>3. InstTypeOK'
  BY DEF StartBegin, Unlocked, IInv, InstTypeOK, LockOK, procVars, Statuses, Restarting
<1>4. QED
  BY <1>1, <1>2, <1>3, SameLive
  DEF StartBegin, Unlocked, IInv, InstTypeOK, LockOK, SingleProcess, RestIsQuiet,
      WedgedIsQuiet, RestartingHasLaunched, OwnersBorn, FreshIsQuiet, Stopped,
      Restarting, ShuttingDown, Failed

(* An error of Start before the launch leaves a quiet, failed object.      *)
LEMMA StartFailsKeeps ==
  ASSUME IInv, NEW o \in Objs, StartFails(o)
  PROVE  IInv'
<1>1. UNCHANGED <<pstate, powner>>
  BY DEF StartFails, procVars
<1>2. InstTypeOK'
  BY DEF StartFails, IInv, InstTypeOK, LockOK, procVars, Statuses, Failed
<1>3. QED
  BY <1>1, <1>2, SameLive
  DEF StartFails, IInv, InstTypeOK, LockOK, SingleProcess, RestIsQuiet, WedgedIsQuiet,
      RestartingHasLaunched, OwnersBorn, FreshIsQuiet, Stopped, Restarting,
      ShuttingDown, Failed

(* The error without a binary path leaves a quiet, restarting object.      *)
LEMMA StartNoBinaryKeeps ==
  ASSUME IInv, NEW o \in Objs, StartNoBinary(o)
  PROVE  IInv'
<1>1. UNCHANGED <<pstate, powner>>
  BY DEF StartNoBinary, procVars
<1>2. InstTypeOK'
  BY DEF StartNoBinary, IInv, InstTypeOK, LockOK, objVars, procVars
<1>3. QED
  BY <1>1, <1>2, SameLive
  DEF StartNoBinary, IInv, InstTypeOK, LockOK, objVars, SingleProcess, RestIsQuiet,
      WedgedIsQuiet, RestartingHasLaunched, OwnersBorn, FreshIsQuiet, Restarting,
      ShuttingDown

(* The launch overwrites cmd while no earlier process is alive.            *)
LEMMA StartLaunchesKeeps ==
  ASSUME IInv, NEW o \in Objs, NEW p \in Launches, StartLaunches(o, p)
  PROVE  IInv'
<1>1. InstTypeOK'
  BY NoneAssumption
  DEF StartLaunches, IInv, InstTypeOK, LockOK
<1>2. o \in born /\ LiveOf(o) = {} /\ status[o] = Restarting
  BY DEF StartLaunches, IInv, InstTypeOK, LockOK, FreshIsQuiet
<1>3. /\ LiveOf(o)' = {p}
      /\ \A u \in Objs \ {o} : LiveOf(u)' = LiveOf(u)
      /\ \A q \in Launches \ {p} : Live(q)' = Live(q) /\ powner'[q] = powner[q]
      /\ powner'[p] = o
  BY <1>2 DEF StartLaunches, LiveOf, Live, IInv, InstTypeOK
<1>4. QED
  BY <1>1, <1>2, <1>3, NoneAssumption
  DEF StartLaunches, IInv, InstTypeOK, LockOK, SingleProcess, RestIsQuiet,
      WedgedIsQuiet, RestartingHasLaunched, OwnersBorn, FreshIsQuiet, Stopped,
      Restarting, ShuttingDown, Failed

(* Stop takes the mutex; no process changes.                               *)
LEMMA StopBeginKeeps ==
  ASSUME IInv, NEW o \in Objs, StopBegin(o)
  PROVE  IInv'
<1>1. UNCHANGED <<pstate, powner>>
  BY DEF StopBegin, procVars
<1>2. InstTypeOK'
  BY DEF StopBegin, Unlocked, IInv, InstTypeOK, LockOK, procVars, Statuses, ShuttingDown
<1>3. QED
  BY <1>1, <1>2, SameLive
  DEF StopBegin, Unlocked, IInv, InstTypeOK, LockOK, SingleProcess, RestIsQuiet,
      WedgedIsQuiet, RestartingHasLaunched, OwnersBorn, FreshIsQuiet, Stopped,
      Restarting, ShuttingDown, Failed

(* MarkFailed takes the mutex; nothing else changes.                       *)
LEMMA MarkFailedBeginKeeps ==
  ASSUME IInv, NEW o \in Objs, MarkFailedBegin(o)
  PROVE  IInv'
<1>1. UNCHANGED <<pstate, powner>>
  BY DEF MarkFailedBegin, procVars
<1>2. InstTypeOK'
  BY DEF MarkFailedBegin, Unlocked, IInv, InstTypeOK, LockOK, objVars, procVars
<1>3. QED
  BY <1>1, <1>2, SameLive
  DEF MarkFailedBegin, Unlocked, objVars, IInv, InstTypeOK, LockOK, SingleProcess,
      RestIsQuiet, WedgedIsQuiet, RestartingHasLaunched, OwnersBorn, FreshIsQuiet,
      Stopped, Restarting, ShuttingDown, Failed

-----------------------------------------------------------------------------
(* process.stop.                                                           *)

(* process.stop moves on to another wait, which needs a process.           *)
LEMMA StageGoesKeeps ==
  ASSUME IInv, NEW o \in Objs, NEW to \in {"wait", "rekill", "block"},
         stage[o] # "none", cmd[o] # None, StageGoes(o, to)
  PROVE  IInv'
<1>1. UNCHANGED <<pstate, powner>>
  BY DEF StageGoes, procVars
<1>2. InstTypeOK'
  BY DEF StageGoes, IInv, InstTypeOK, LockOK, objVars, procVars
<1>3. QED
  BY <1>1, <1>2, SameLive
  DEF StageGoes, objVars, IInv, InstTypeOK, LockOK, SingleProcess, RestIsQuiet,
      WedgedIsQuiet, RestartingHasLaunched, OwnersBorn, FreshIsQuiet

(* Either result may be returned, by either method, once nothing is alive. *)
LEMMA StopReturnsKeeps ==
  ASSUME IInv, NEW o \in Objs, NEW ok \in BOOLEAN, stage[o] # "none",
         LiveOf(o) = {}, StopReturns(o, ok)
  PROVE  IInv'
<1>1. UNCHANGED <<pstate, powner>>
  BY DEF StopReturns, procVars
<1>2. holder[o] \in {"stop", "fail"} /\ o \in born
  BY DEF IInv, InstTypeOK, LockOK
<1>3. /\ status' = [status EXCEPT ![o] = status'[o]]
      /\ pid' = [pid EXCEPT ![o] = pid'[o]]
      /\ \/ status'[o] \in {Failed, Stopped} /\ pid'[o] = None
         \/ status'[o] = status[o] /\ pid'[o] = pid[o] /\ holder[o] = "stop"
  BY <1>2 DEF StopReturns, IInv, InstTypeOK
<1>4. InstTypeOK'
  BY <1>2, <1>3
  DEF StopReturns, IInv, InstTypeOK, LockOK, procVars, Statuses, Failed, Stopped
<1>5. QED
  BY <1>1, <1>2, <1>3, <1>4, SameLive
  DEF StopReturns, IInv, InstTypeOK, LockOK, SingleProcess, RestIsQuiet,
      WedgedIsQuiet, RestartingHasLaunched, OwnersBorn, FreshIsQuiet, Stopped,
      Restarting, ShuttingDown, Failed

(* Every step of process.stop; it returns only when cmd names nothing alive. *)
LEMMA ProcessStopKeeps ==
  ASSUME IInv, NEW o \in Objs, ProcessStop(o)
  PROVE  IInv'
<1>1. o \in born /\ stage[o] # "none"
  BY DEF ProcessStop, StopGoesOn, StopSucceeds, StopErrs, KillNoProcess, KillSent,
         KillReaped, DoneClosed, GraceEnds, RekillSent, RekillReaped, IInv,
         InstTypeOK, LockOK
<1>2. cmd[o] \in Launches \cup {None}
  BY DEF IInv, InstTypeOK
<1>3. CASE StopGoesOn(o)
  <2>1. cmd[o] # None
    BY <1>3 DEF StopGoesOn, KillSent, GraceEnds, RekillSent, IInv, InstTypeOK, LockOK
  <2> QED
    BY <1>1, <1>3, <2>1, StageGoesKeeps DEF StopGoesOn, KillSent, GraceEnds, RekillSent
<1>4. CASE StopSucceeds(o) \/ StopErrs(o)
  <2>1. cmd[o] = None \/ (cmd[o] \in Launches /\ ~Live(cmd[o]))
    BY <1>2, <1>4
    DEF StopSucceeds, StopErrs, KillNoProcess, KillReaped, DoneClosed, RekillReaped
  <2>2. LiveOf(o) = {}
    BY <1>1, <2>1, CmdGone
  <2>3. StopReturns(o, TRUE) \/ StopReturns(o, FALSE)
    BY <1>4 DEF StopSucceeds, StopErrs, KillNoProcess, KillReaped, DoneClosed, RekillReaped
  <2> QED
    BY <1>1, <2>2, <2>3, StopReturnsKeeps
<1> QED
  BY <1>3, <1>4 DEF ProcessStop

-----------------------------------------------------------------------------
(* The setters, the options and the processes.                             *)

(* The object is engaged afterwards, so it may keep its process and PID.   *)
LEMMA MarkRunningKeeps ==
  ASSUME IInv, NEW o \in Objs, MarkRunning(o)
  PROVE  IInv'
<1>1. UNCHANGED <<pstate, powner>> /\ pid' = pid
  BY DEF MarkRunning, Forced, procVars, IInv, InstTypeOK
<1>2. InstTypeOK'
  BY <1>1 DEF MarkRunning, Forced, Unlocked, IInv, InstTypeOK, LockOK, lockVars,
              procVars, Statuses, Running
<1>3. QED
  BY <1>1, <1>2, SameLive
  DEF MarkRunning, Forced, Unlocked, lockVars, IInv, InstTypeOK, LockOK, SingleProcess,
      RestIsQuiet, WedgedIsQuiet, RestartingHasLaunched, OwnersBorn, FreshIsQuiet,
      Stopped, Restarting, ShuttingDown, Failed, Running

(* The object comes to rest quiet: the caller's obligation.                *)
LEMMA MarkStoppedKeeps ==
  ASSUME IInv, NEW o \in Objs, LiveOf(o) = {}, MarkStopped(o)
  PROVE  IInv'
<1>1. UNCHANGED <<pstate, powner>>
  BY DEF MarkStopped, Forced, procVars
<1>2. InstTypeOK'
  BY DEF MarkStopped, Forced, Unlocked, IInv, InstTypeOK, LockOK, lockVars, procVars,
         Statuses, Stopped
<1>3. QED
  BY <1>1, <1>2, SameLive
  DEF MarkStopped, Forced, Unlocked, lockVars, IInv, InstTypeOK, LockOK, SingleProcess,
      RestIsQuiet, WedgedIsQuiet, RestartingHasLaunched, OwnersBorn, FreshIsQuiet,
      Stopped, Restarting, ShuttingDown, Failed

(* Options take no part in the invariant.                                  *)
LEMMA SetOptsKeeps ==
  ASSUME IInv, NEW o \in Objs, NEW op \in Options, SetOpts(o, op)
  PROVE  IInv'
<1>1. UNCHANGED <<pstate, powner>>
  BY DEF SetOpts, procVars
<1>2. InstTypeOK'
  BY DEF SetOpts, IInv, InstTypeOK, LockOK, lockVars, procVars
<1>3. QED
  BY <1>1, <1>2, SameLive
  DEF SetOpts, lockVars, IInv, InstTypeOK, LockOK, SingleProcess, RestIsQuiet,
      WedgedIsQuiet, RestartingHasLaunched, OwnersBorn, FreshIsQuiet

(* A process that listens stays alive; one that exits leaves fewer alive.  *)
LEMMA ProcessKeeps ==
  ASSUME IInv, NEW p \in Launches, Listens(p) \/ Exits(p)
  PROVE  IInv'
<1>1. InstTypeOK'
  BY DEF Listens, Exits, IInv, InstTypeOK, LockOK, objVars, lockVars
<1>2. /\ powner' = powner
      /\ \A q \in Launches : Live(q)' => Live(q)
      /\ \A o \in Objs : LiveOf(o)' \subseteq LiveOf(o)
  BY DEF Listens, Exits, IInv, InstTypeOK, LiveOf, Live
<1>3. UNCHANGED <<born, objVars, lockVars>>
  BY DEF Listens, Exits
<1>4. QED
  BY <1>1, <1>2, <1>3
  DEF objVars, lockVars, IInv, InstTypeOK, LockOK, SingleProcess, RestIsQuiet,
      WedgedIsQuiet, RestartingHasLaunched, OwnersBorn, FreshIsQuiet

-----------------------------------------------------------------------------

(* One step of the component: one case per action.                         *)
LEMMA StepIInv == IInv /\ [InstNext]_instVars => IInv'
<1> SUFFICES ASSUME IInv, [InstNext]_instVars PROVE IInv'
  OBVIOUS
<1>1. ASSUME NEW o \in Objs, Call(o) PROVE IInv'
  <2>1. CASE \E pt \in Ports \cup {NoPort}, r \in BOOLEAN, op \in Options :
               New(o, pt, r, op)
    BY <2>1, NewKeeps
  <2>2. CASE StartRefused(o) \/ StopNil(o) \/ StopRefused(o)
    BY <2>2, Stutters DEF StartRefused, StopNil, StopRefused
  <2>3. CASE StartBegin(o) \/ StopBegin(o) \/ MarkRunning(o) \/ MarkFailedBegin(o)
    BY <2>3, StartBeginKeeps, StopBeginKeeps, MarkRunningKeeps, MarkFailedBeginKeeps
  <2>4. CASE LiveOf(o) = {} /\ MarkStopped(o)
    BY <2>4, MarkStoppedKeeps
  <2>5. CASE \E op \in Options : SetOpts(o, op)
    BY <2>5, SetOptsKeeps
  <2> QED
    BY <1>1, <2>1, <2>2, <2>3, <2>4, <2>5 DEF Call
<1>2. ASSUME NEW o \in Objs, StartStep(o) PROVE IInv'
  BY <1>2, StartFailsKeeps, StartNoBinaryKeeps, StartLaunchesKeeps DEF StartStep
<1>3. ASSUME NEW o \in Objs, ProcessStop(o) PROVE IInv'
  BY <1>3, ProcessStopKeeps
<1>4. ASSUME NEW p \in Launches, Listens(p) \/ Exits(p) PROVE IInv'
  BY <1>4, ProcessKeeps
<1>5. CASE UNCHANGED instVars
  BY <1>5, Stutters
<1> QED
  BY <1>1, <1>2, <1>3, <1>4, <1>5 DEF InstNext

(* The inductive invariant holds in every behaviour.                       *)
THEOREM InstInvariant == InstSpec => []IInv
BY InitIInv, StepIInv, PTL DEF InstSpec

(* Types, and which method can hold the mutex in which status.             *)
THEOREM InstTypeCorrect == InstSpec => []InstTypeOK
<1>1. IInv => InstTypeOK
  BY DEF IInv
<1>2. QED
  BY <1>1, InstInvariant, PTL

(* An object never has two llama-server processes, whatever is called, in  *)
(* whatever order, as long as MarkStopped is not used to skip a Stop.      *)
THEOREM OneProcessEach == InstSpec => []SingleProcess
<1>1. IInv => SingleProcess
  BY DEF IInv
<1>2. QED
  BY <1>1, InstInvariant, PTL

(* Stopped and failed instances have no process and no PID.                *)
THEOREM QuietWhenAtRest == InstSpec => []RestIsQuiet
<1>1. IInv => RestIsQuiet
  BY DEF IInv
<1>2. QED
  BY <1>1, InstInvariant, PTL

(* A Stop that returned an error left the instance in shutting_down, but   *)
(* no process: it errs only when the process has gone.                     *)
THEOREM QuietWhenWedged == InstSpec => []WedgedIsQuiet
<1>1. IInv => WedgedIsQuiet
  BY DEF IInv
<1>2. QED
  BY <1>1, InstInvariant, PTL

(* A restarting instance whose Start has returned has launched a process,  *)
(* unless the binary path is not configured.                               *)
THEOREM RestartingLaunched == InstSpec => []RestartingHasLaunched
<1>1. IInv => RestartingHasLaunched
  BY DEF IInv
<1>2. QED
  BY <1>1, InstInvariant, PTL
-----------------------------------------------------------------------------
(* The refinement: every step is a step of Supervision.tla or a stutter.   *)

Engaged == {o \in born : status[o] \notin {Stopped, Failed}}

(* A step that leaves the process table alone and touches one object can   *)
(* only engage it, or bring it to rest, where it is quiet.                 *)
LEMMA TouchesOne ==
  ASSUME IInv', NEW o \in Objs, UNCHANGED <<pstate, powner>>,
         born' = born \/ born' = born \cup {o},
         \A u \in Objs \ {o} : status'[u] = status[u]
  PROVE  [Contract!SupNext]_(Contract!supVars)
<1>1. \A u \in Objs : LiveOf(u)' = LiveOf(u)
  BY SameLive
<1>2. born \subseteq Objs /\ born' \subseteq Objs
  BY DEF IInv, InstTypeOK
<1>3. /\ [u \in Objs |-> LiveOf(u)]' = [u \in Objs |-> LiveOf(u)]
      /\ {p \in Launches : pstate[p] # "none"}' = {p \in Launches : pstate[p] # "none"}
  BY <1>1
<1>4. CASE Engaged' = Engaged
  BY <1>3, <1>4 DEF Engaged, Contract!supVars
<1>5. CASE Engaged' = Engaged \cup {o}
  BY <1>3, <1>5 DEF Engaged, Contract!SupNext, Contract!Engage
<1>6. CASE o \in Engaged /\ Engaged' = Engaged \ {o}
  <2>1. LiveOf(o)' = {}
    BY <1>6 DEF Engaged, IInv, RestIsQuiet
  <2>2. Contract!Rest(o)
    BY <1>1, <1>3, <1>6, <2>1 DEF Engaged, Contract!Rest
  <2> QED
    BY <2>2 DEF Contract!SupNext
<1>7. \/ Engaged' = Engaged
      \/ Engaged' = Engaged \cup {o}
      \/ o \in Engaged /\ Engaged' = Engaged \ {o}
  BY <1>2 DEF Engaged
<1> QED
  BY <1>4, <1>5, <1>6, <1>7

(* StartLaunches is Launch: Start holds the mutex with none alive.         *)
LEMMA LaunchIsLaunch ==
  ASSUME IInv, NEW o \in Objs, NEW p \in Launches, StartLaunches(o, p)
  PROVE  [Contract!SupNext]_(Contract!supVars)
<1>1. o \in Engaged /\ LiveOf(o) = {}
  BY DEF StartLaunches, Engaged, IInv, InstTypeOK, LockOK, FreshIsQuiet, Restarting,
         Stopped, Failed
<1>2. Engaged' = Engaged
  BY DEF StartLaunches, Engaged
<1>3. {q \in Launches : pstate[q] # "none"}'
      = {q \in Launches : pstate[q] # "none"} \cup {p}
  BY DEF StartLaunches, IInv, InstTypeOK
<1>4. LiveOf(o)' = {p} /\ \A u \in Objs \ {o} : LiveOf(u)' = LiveOf(u)
  BY <1>1 DEF StartLaunches, LiveOf, Live, IInv, InstTypeOK
<1>5. [u \in Objs |-> LiveOf(u)]' = [[u \in Objs |-> LiveOf(u)] EXCEPT ![o] = {p}]
  BY <1>4
<1>6. p \notin {q \in Launches : pstate[q] # "none"}
  BY DEF StartLaunches
<1>7. Contract!Launch(o, p)
  BY <1>1, <1>2, <1>3, <1>5, <1>6 DEF Engaged, Contract!Launch
<1> QED
  BY <1>7 DEF Contract!SupNext

(* A process that exits dies for its owner, and for nobody else.           *)
LEMMA ExitIsDie ==
  ASSUME IInv, NEW p \in Launches, Exits(p)
  PROVE  [Contract!SupNext]_(Contract!supVars)
<1>1. PICK o \in Objs : powner[p] = o /\ p \in LiveOf(o)
  BY DEF Exits, IInv, InstTypeOK, OwnersBorn, LiveOf
<1>2. Engaged' = Engaged
  BY DEF Exits, objVars, Engaged
<1>3. {q \in Launches : pstate[q] # "none"}' = {q \in Launches : pstate[q] # "none"}
  BY DEF Exits, Live, IInv, InstTypeOK
<1>4. LiveOf(o)' = LiveOf(o) \ {p} /\ \A u \in Objs \ {o} : LiveOf(u)' = LiveOf(u)
  BY <1>1 DEF Exits, LiveOf, Live, IInv, InstTypeOK
<1>5. [u \in Objs |-> LiveOf(u)]'
      = [[u \in Objs |-> LiveOf(u)] EXCEPT ![o] = @ \ {p}]
  BY <1>4
<1>6. Contract!Die(o, p)
  BY <1>1, <1>2, <1>3, <1>5 DEF Engaged, Contract!Die
<1> QED
  BY <1>1, <1>6 DEF Contract!SupNext

(* Listening is invisible to the contract.                                 *)
LEMMA ListensIsNothing ==
  ASSUME IInv, NEW p \in Launches, Listens(p)
  PROVE  [Contract!SupNext]_(Contract!supVars)
<1>1. Engaged' = Engaged
  BY DEF Listens, objVars, Engaged
<1>2. {q \in Launches : pstate[q] # "none"}' = {q \in Launches : pstate[q] # "none"}
  BY DEF Listens, IInv, InstTypeOK
<1>3. \A u \in Objs : LiveOf(u)' = LiveOf(u)
  BY DEF Listens, LiveOf, Live, IInv, InstTypeOK
<1> QED
  BY <1>1, <1>2, <1>3 DEF Engaged, Contract!supVars

(* All other steps touch one object and leave the process table alone.     *)
LEMMA OtherSteps ==
  ASSUME IInv, IInv', NEW o \in Objs,
         Call(o) \/ StartFails(o) \/ StartNoBinary(o) \/ ProcessStop(o)
  PROVE  [Contract!SupNext]_(Contract!supVars)
<1>1. /\ UNCHANGED <<pstate, powner>>
      /\ born' = born \/ born' = born \cup {o}
      /\ \A u \in Objs \ {o} : status'[u] = status[u]
  <2>1. CASE Call(o)
    BY <2>1
    DEF Call, New, StartRefused, StartBegin, StopNil, StopRefused, StopBegin,
        MarkRunning, MarkFailedBegin, MarkStopped, Forced, SetOpts, instVars, objVars,
        procVars, IInv, InstTypeOK
  <2>2. CASE StartFails(o) \/ StartNoBinary(o)
    BY <2>2 DEF StartFails, StartNoBinary, objVars, procVars, IInv, InstTypeOK
  <2>3. CASE ProcessStop(o)
    BY <2>3
    DEF ProcessStop, StopGoesOn, StopSucceeds, StopErrs, KillNoProcess, KillSent,
        KillReaped, DoneClosed, GraceEnds, RekillSent, RekillReaped, StageGoes,
        StopReturns, objVars, procVars, IInv, InstTypeOK
  <2> QED
    BY <2>1, <2>2, <2>3
<1> QED
  BY <1>1, TouchesOne

(* An instance keeps the promise of Supervision.tla to its callers.        *)
THEOREM PromiseKept == InstSpec => KeepsContract
<1>1. InstInit => Contract!SupInit
  BY DEF InstInit, Contract!SupInit, LiveOf, Live
<1>2. IInv /\ IInv' /\ [InstNext]_instVars => [Contract!SupNext]_(Contract!supVars)
  <2> SUFFICES ASSUME IInv, IInv', [InstNext]_instVars
               PROVE  [Contract!SupNext]_(Contract!supVars)
    OBVIOUS
  <2>1. CASE UNCHANGED instVars
    BY <2>1 DEF instVars, objVars, procVars, LiveOf, Live, Contract!supVars
  <2> QED
    BY <2>1, OtherSteps, LaunchIsLaunch, ExitIsDie, ListensIsNothing
    DEF InstNext, StartStep
<1>3. QED
  BY <1>1, <1>2, InstInvariant, PTL DEF InstSpec, KeepsContract, Contract!SupSpec
===============================================================================
