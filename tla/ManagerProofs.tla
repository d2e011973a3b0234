----------------------------- MODULE ManagerProofs -----------------------------
(***************************************************************************)
(* Proofs about the manager, for any number of clients, names, launches,   *)
(* rounds and boots, with database faults and crashes.                     *)
(*                                                                         *)
(* MInv, Base: whatever requests overlap.  MInv is about the objects       *)
(* (ObjInv), about which thread can be where in which operation on which   *)
(* object (AtOp, Backed, Phases), and about the two kinds of mutex (Locks, *)
(* UnsavedUntouched); Base adds who does what (Kinds, Resolved) and whose  *)
(* the processes are (Rounds, Bare, Equipped).                             *)
(*                                                                         *)
(* Calm: no process is lost while registry.markStopped marks no object     *)
(* with a process (MarksOnlyQuiet).  Attending: statuses follow the table  *)
(* and starts have one watcher while it marks only what is stopped         *)
(* (MarksStopped).  Sole: both hold while no other request for its name    *)
(* overlaps with a request to stop (StopsAlone).                           *)
(***************************************************************************)
EXTENDS Manager, FiniteSetTheorems, TLAPS

(* No PID at rest, nor while Start holds the mutex.                        *)
PidRests ==
  \A o \in Objs :
    status[o] \in {Stopped, Failed} \/ holder[o] = "start" => pid[o] = None

(* Start gets past the resolver only with a port.                          *)
PortsKnown ==
  /\ \A o \in Objs : hasResolver[o] => port[o] # NoPort
  /\ LaunchesHavePorts

OptsKnown == \A o \in born : opts[o] \in Options

ObjInv == I!InstTypeOK /\ PidRests /\ PortsKnown /\ OptsKnown

Labels == {"idle", "lookup", "check", "start", "starting", "stop", "stopping", "free",
           "markStopped", "unregister", "deleteRow", "update", "save", "exec", "poll",
           "markRunning", "markFailed", "failing"}

Operations == {"create", "start", "stop", "restart", "delete", "update", "shutdown",
               "wait"}

(* Which operations come to a point of the code.                           *)
Fits(l, how) ==
  /\ l = "check" => how \in {"start", "stop", "delete", "update", "shutdown"}
  /\ l \in {"start", "starting"} => how \in {"start", "restart"}
  /\ l \in {"stop", "stopping"} => how \in {"stop", "delete", "restart", "shutdown"}
  /\ l = "free" => how \in {"stop", "delete"}
  /\ how = "create" => l \in {"save", "exec"}

(* Where a thread can be in which operation, and what it knows there.      *)
AtOp ==
  \A t \in Threads :
    /\ Fits(pc[t], op[t])
    /\ pc[t] \in {"idle", "lookup"} => op[t] = None /\ obj[t] = None
    /\ pc[t] \notin {"idle", "lookup"} => obj[t] # None
    /\ pc[t] = "lookup" => t \in Autos
    /\ op[t] = "create" => t \in Clients
    /\ pc[t] = "exec" => snap[t] # None

(* Objects are in use, or registered, only once New has returned them, and *)
(* New does not return one twice.                                          *)
Backed ==
  /\ \A t \in Threads : obj[t] # None => obj[t] \in born
  /\ \A n \in Names : registry[n] # None => registry[n] \in born
  /\ \A o \in born : o[2] <= made

(* What is at rest in which phase of the server process.                   *)
Phases ==
  /\ server # "up" => made < MaxMade /\ boots < MaxBoots
  /\ server \in {"up", "draining"} => \A t \in Stoppers : pc[t] = "idle"
  /\ server = "down" => born = {} /\ \A t \in Threads : pc[t] = "idle"

(* The method of an object that a thread is in.                            *)
Method(t) ==
  CASE pc[t] = "starting" -> "start"
    [] pc[t] = "stopping" -> "stop"
    [] pc[t] = "failing"  -> "fail"
    [] OTHER              -> "none"

(* An object's mutex is held exactly by the thread inside one of its       *)
(* methods.                                                                *)
Locks ==
  /\ \A t \in Threads : Method(t) # "none" => holder[obj[t]] = Method(t)
  /\ \A t, u \in Threads :
       Method(t) # "none" /\ Method(u) # "none" /\ obj[t] = obj[u] => t = u
  /\ \A o \in born :
       holder[o] # "none" => \E t \in Threads : obj[t] = o /\ Method(t) # "none"

Rows == [status : Statuses, opts : Options]

(* The threads by themselves; and the tables of the manager.               *)
Threaded ==
  /\ pc \in [Threads -> Labels]
  /\ op \in [Threads -> Operations \cup {None}]
  /\ obj \in [Threads -> Objs \cup {None}]
  /\ snap \in [Threads -> Rows \cup {None}]
  /\ AtOp
  /\ UnsavedUntouched

Tables ==
  /\ P!PortTypeOK
  /\ registry \in [Names -> Objs \cup {None}]
  /\ rows \in [Names -> Rows \cup {None}]
  /\ server \in {"up", "draining", "stopping", "down"}
  /\ boots \in 0 .. MaxBoots /\ made \in 0 .. MaxMade

MInv == ObjInv /\ Threaded /\ Tables /\ Backed /\ Phases /\ Locks

-----------------------------------------------------------------------------
(* The methods of an object, and its processes: what they keep.            *)

(* Instance.tla's statuses are those of Status.tla.                        *)
LEMMA SameStatuses ==
  /\ I!Stopped = Stopped /\ I!Running = Running /\ I!Failed = Failed
  /\ I!Restarting = Restarting /\ I!ShuttingDown = ShuttingDown
  /\ I!Statuses = Statuses
  /\ \A s, r : I!CanSet(s, r) <=> CanSet(s, r)
BY DEF I!Stopped, I!Running, I!Failed, I!Restarting, I!ShuttingDown, I!Statuses,
       I!CanSet, I!statusTransitions, Stopped, Running, Failed, Restarting,
       ShuttingDown, Statuses, CanSet, statusTransitions

(* Nothing the invariant speaks of has changed.                            *)
LEMMA ObjStutters ==
  ASSUME ObjInv, UNCHANGED instVars
  PROVE  ObjInv'
BY DEF instVars, lockVars, procVars, ObjInv, PidRests, PortsKnown, LaunchesHavePorts,
       OptsKnown, I!InstTypeOK, I!LockOK

(* Manager's tuple of an object's variables is Instance's.                 *)
LEMMA SameVars == instVars' = instVars <=> I!instVars' = I!instVars
BY DEF instVars, lockVars, procVars, I!instVars, I!objVars, I!lockVars, I!procVars

(* A new object is stopped and has no PID; with a resolver it has a port.  *)
LEMMA NewKeeps ==
  ASSUME ObjInv, NEW o \in Objs, NEW pt \in P!Port, NEW x \in Options,
         I!New(o, pt, TRUE, x)
  PROVE  ObjInv'
<1>1. pt # NoPort
  BY PortAssumption DEF P!Port
<1>2. I!InstTypeOK'
  BY SameStatuses DEF I!New, ObjInv, I!InstTypeOK, I!LockOK, I!lockVars, I!procVars, Statuses, Stopped
<1>3. PidRests' /\ OptsKnown'
  BY SameStatuses DEF I!New, I!lockVars, ObjInv, PidRests, OptsKnown, I!InstTypeOK, I!LockOK, Stopped
<1>4. PortsKnown'
  BY <1>1 DEF I!New, I!procVars, ObjInv, PortsKnown, LaunchesHavePorts, I!InstTypeOK
<1>5. QED
  BY <1>2, <1>3, <1>4 DEF ObjInv

(* Start begins at rest, where there is no PID.                            *)
LEMMA StartBeginKeeps ==
  ASSUME ObjInv, NEW o \in Objs, I!StartBegin(o)
  PROVE  ObjInv'
<1>1. status[o] \in {Stopped, Failed}
  BY SameStatuses DEF I!StartBegin, CanSet, statusTransitions, Statuses, ObjInv, I!InstTypeOK,
         Stopped, Failed, Restarting, Running, ShuttingDown
<1>2. I!InstTypeOK'
  BY SameStatuses DEF I!StartBegin, I!Unlocked, ObjInv, I!InstTypeOK, I!LockOK, I!procVars, Statuses,
         Restarting
<1>3. PidRests'
  BY <1>1, SameStatuses DEF I!StartBegin, ObjInv, PidRests, I!InstTypeOK, Stopped, Failed, Restarting
<1>4. PortsKnown' /\ OptsKnown'
  BY DEF I!StartBegin, I!procVars, ObjInv, PortsKnown, LaunchesHavePorts, OptsKnown
<1>5. QED
  BY <1>2, <1>3, <1>4 DEF ObjInv

(* Start ends without a process.                                           *)
LEMMA StartFailsKeeps ==
  ASSUME ObjInv, NEW o \in Objs, I!StartFails(o) \/ I!StartNoBinary(o)
  PROVE  ObjInv'
<1>1. I!InstTypeOK'
  BY SameStatuses DEF I!StartFails, I!StartNoBinary, ObjInv, I!InstTypeOK, I!LockOK, I!objVars,
         I!procVars, Statuses, Failed
<1>2. PidRests'
  BY SameStatuses DEF I!StartFails, I!StartNoBinary, I!objVars, ObjInv, PidRests, I!InstTypeOK,
         I!LockOK, Stopped, Failed, Restarting
<1>3. PortsKnown' /\ OptsKnown'
  BY DEF I!StartFails, I!StartNoBinary, I!objVars, I!procVars, ObjInv, PortsKnown,
         LaunchesHavePorts, OptsKnown
<1>4. QED
  BY <1>1, <1>2, <1>3 DEF ObjInv

(* The launch is told the object's port, which it has as it has a resolver. *)
LEMMA StartLaunchesKeeps ==
  ASSUME ObjInv, NEW o \in Objs, NEW p \in Launches, I!StartLaunches(o, p)
  PROVE  ObjInv'
<1>1. I!InstTypeOK'
  BY NullAssumption
  DEF I!StartLaunches, ObjInv, I!InstTypeOK, I!LockOK
<1>2. PidRests'
  BY SameStatuses DEF I!StartLaunches, ObjInv, PidRests, I!InstTypeOK, I!LockOK, Stopped, Failed,
         Restarting
<1>3. PortsKnown' /\ OptsKnown'
  BY DEF I!StartLaunches, ObjInv, PortsKnown, LaunchesHavePorts, OptsKnown, I!InstTypeOK
<1>4. QED
  BY <1>1, <1>2, <1>3 DEF ObjInv

(* Stop and MarkFailed take the mutex.                                     *)
LEMMA StopBeginKeeps ==
  ASSUME ObjInv, NEW o \in Objs, I!StopBegin(o) \/ I!MarkFailedBegin(o)
  PROVE  ObjInv'
<1>1. I!InstTypeOK'
  <2>1. CASE I!StopBegin(o)
    BY <2>1, SameStatuses
    DEF I!StopBegin, I!Unlocked, ObjInv, I!InstTypeOK, I!LockOK, I!procVars, Statuses,
        Restarting, ShuttingDown
  <2>2. CASE I!MarkFailedBegin(o)
    BY <2>2
    DEF I!MarkFailedBegin, I!Unlocked, ObjInv, I!InstTypeOK, I!LockOK, I!objVars, I!procVars
  <2> QED
    BY <2>1, <2>2
<1>2. PidRests'
  BY SameStatuses DEF I!StopBegin, I!MarkFailedBegin, I!objVars, ObjInv, PidRests, I!InstTypeOK,
         Stopped, Failed, ShuttingDown
<1>3. PortsKnown' /\ OptsKnown'
  BY DEF I!StopBegin, I!MarkFailedBegin, I!objVars, I!procVars, ObjInv, PortsKnown,
         LaunchesHavePorts, OptsKnown
<1>4. QED
  BY <1>1, <1>2, <1>3 DEF ObjInv

(* process.stop waits.                                                     *)
LEMMA StopGoesOnKeeps ==
  ASSUME ObjInv, NEW o \in Objs, I!StopGoesOn(o)
  PROVE  ObjInv'
<1>1. PICK to \in {"wait", "rekill", "block"} :
        I!StageGoes(o, to) /\ stage[o] # "none" /\ cmd[o] # None
  BY DEF I!StopGoesOn, I!KillSent, I!GraceEnds, I!RekillSent, ObjInv, I!InstTypeOK,
         I!LockOK
<1>2. I!InstTypeOK'
  BY <1>1 DEF I!StageGoes, ObjInv, I!InstTypeOK, I!LockOK, I!objVars, I!procVars
<1>3. PidRests' /\ PortsKnown' /\ OptsKnown'
  BY <1>1 DEF I!StageGoes, I!objVars, I!procVars, ObjInv, PidRests, PortsKnown,
              LaunchesHavePorts, OptsKnown
<1>4. QED
  BY <1>2, <1>3 DEF ObjInv

(* process.stop returns: the PID is cleared, unless Stop has failed and    *)
(* leaves shutting_down.                                                   *)
LEMMA StopReturnsKeeps ==
  ASSUME ObjInv, NEW o \in Objs, I!StopSucceeds(o) \/ I!StopErrs(o)
  PROVE  ObjInv'
<1>1. stage[o] # "none" /\ (I!StopReturns(o, TRUE) \/ I!StopReturns(o, FALSE))
  BY DEF I!StopSucceeds, I!StopErrs, I!KillNoProcess, I!DoneClosed, I!KillReaped,
         I!RekillReaped
<1>2. o \in born /\ holder[o] \in {"stop", "fail"}
  BY <1>1 DEF ObjInv, I!InstTypeOK, I!LockOK
<1>3. /\ status' = [status EXCEPT ![o] = status'[o]]
      /\ pid' = [pid EXCEPT ![o] = pid'[o]]
      /\ \/ status'[o] \in {Failed, Stopped} /\ pid'[o] = None
         \/ status'[o] = status[o] /\ pid'[o] = pid[o] /\ holder[o] = "stop"
  BY <1>1, <1>2, SameStatuses DEF I!StopReturns, ObjInv, I!InstTypeOK
<1>4. I!InstTypeOK'
  BY <1>1, <1>2, <1>3, SameStatuses
  DEF I!StopReturns, ObjInv, I!InstTypeOK, I!LockOK, I!procVars, Statuses, Failed, Stopped
<1>5. PidRests'
  BY <1>1, <1>2, <1>3, SameStatuses DEF I!StopReturns, ObjInv, PidRests, I!InstTypeOK, Stopped, Failed
<1>6. PortsKnown' /\ OptsKnown'
  BY <1>1 DEF I!StopReturns, I!procVars, ObjInv, PortsKnown, LaunchesHavePorts, OptsKnown
<1>7. QED
  BY <1>4, <1>5, <1>6 DEF ObjInv

(* The setters.                                                            *)
LEMMA MarksKeep ==
  ASSUME ObjInv, NEW o \in Objs, I!MarkRunning(o) \/ I!MarkStopped(o)
  PROVE  ObjInv'
<1>1. PICK s \in {Running, Stopped}, q \in {pid[o], None} :
        I!Forced(o, s, q) /\ (s = Stopped => q = None)
  BY SameStatuses DEF I!MarkRunning, I!MarkStopped, Running, Stopped
<1>2. I!InstTypeOK'
  BY <1>1, SameStatuses DEF I!Forced, I!Unlocked, ObjInv, I!InstTypeOK, I!LockOK, I!lockVars,
              I!procVars, Statuses
<1>3. PidRests'
  BY <1>1, SameStatuses DEF I!Forced, I!Unlocked, I!lockVars, ObjInv, PidRests, I!InstTypeOK, Running,
              Stopped, Failed
<1>4. PortsKnown' /\ OptsKnown'
  BY <1>1 DEF I!Forced, I!procVars, ObjInv, PortsKnown, LaunchesHavePorts, OptsKnown
<1>5. QED
  BY <1>2, <1>3, <1>4 DEF ObjInv

(* Options are replaced by options.                                        *)
LEMMA SetOptsKeeps ==
  ASSUME ObjInv, NEW o \in Objs, NEW x \in Options, I!SetOpts(o, x)
  PROVE  ObjInv'
BY DEF I!SetOpts, I!lockVars, I!procVars, ObjInv, PidRests, PortsKnown,
       LaunchesHavePorts, OptsKnown, I!InstTypeOK, I!LockOK

(* A process that listens or exits was launched before.                    *)
LEMMA ProcessKeeps ==
  ASSUME ObjInv, NEW p \in Launches, I!Listens(p) \/ I!Exits(p)
  PROVE  ObjInv'
<1>1. I!InstTypeOK' /\ pstate[p] # "none"
  BY DEF I!Listens, I!Exits, I!Live, ObjInv, I!InstTypeOK, I!LockOK, I!objVars, I!lockVars
<1>2. PidRests' /\ PortsKnown' /\ OptsKnown'
  BY <1>1 DEF I!Listens, I!Exits, I!objVars, I!lockVars, ObjInv, PidRests, PortsKnown,
              LaunchesHavePorts, OptsKnown, I!InstTypeOK
<1>3. QED
  BY <1>1, <1>2 DEF ObjInv
-----------------------------------------------------------------------------
(* Threads.                                                                *)

(* A thread goes on in its operation.                                      *)
LEMMA GotoFits ==
  ASSUME Threaded, NEW t \in Threads, NEW l \in Labels \ {"idle", "lookup", "exec"},
         pc[t] \notin {"idle", "lookup"}, Fits(l, op[t]), Goto(t, l)
  PROVE  Threaded'
<1>1. AtOp'
  BY DEF Goto, Threaded, AtOp
<1>2. UnsavedUntouched'
  BY DEF Goto, Threaded, UnsavedUntouched
<1>3. QED
  BY <1>1, <1>2 DEF Goto, Threaded

(* A thread ends its operation.                                            *)
LEMMA EndsFits ==
  ASSUME Threaded, NEW t \in Threads, Ends(t)
  PROVE  Threaded'
<1>1. AtOp'
  BY NullAssumption DEF Ends, Threaded, AtOp, Fits
<1>2. UnsavedUntouched'
  BY NullAssumption DEF Ends, Threaded, AtOp, Fits, UnsavedUntouched
<1>3. QED
  BY <1>1, <1>2 DEF Ends, Threaded, Labels

(* A thread begins an operation: a creation of an object nobody knows, or  *)
(* another one while there is no creation.                                 *)
LEMMA RunsFits ==
  ASSUME Threaded, NEW t \in Threads, NEW l \in {"check", "stop", "save"},
         NEW how \in Operations, NEW o \in Objs, Fits(l, how), MuFree, Runs(t, l, how, o),
         how = "create" => t \in Clients /\ \A u \in Threads : obj[u] # o
  PROVE  Threaded'
<1>1. AtOp'
  BY NullAssumption DEF Runs, Threaded, AtOp
<1>2. UnsavedUntouched'
  BY DEF Runs, Threaded, MuFree, UnsavedUntouched
<1>3. QED
  BY <1>1, <1>2 DEF Runs, Threaded, Labels

(* A thread ends its operation, and a waiter begins with its object.       *)
LEMMA EndsWatchedFits ==
  ASSUME Threaded, NEW t \in Threads, pc[t] = "exec", EndsWatched(t)
  PROVE  Threaded'
<1>1. CASE op[t] \notin {"start", "restart"}
  BY <1>1, EndsFits DEF EndsWatched
<1>2. CASE op[t] \in {"start", "restart"}
  <2>1. PICK w \in Waiters :
          /\ pc[w] = "idle"
          /\ pc' = [pc EXCEPT ![t] = "idle", ![w] = "poll"]
          /\ op' = [op EXCEPT ![t] = None, ![w] = "wait"]
          /\ obj' = [obj EXCEPT ![t] = None, ![w] = obj[t]]
          /\ snap' = [snap EXCEPT ![t] = None]
    BY <1>2 DEF EndsWatched
  <2>2. w \in Threads /\ w # t
    BY <2>1 DEF Threads
  <2>3. obj[t] \in Objs
    BY DEF Threaded, AtOp
  <2>4. AtOp'
    BY <2>1, <2>2, <2>3, NullAssumption DEF Threaded, AtOp, Fits
  <2>5. UnsavedUntouched'
    BY <1>2, <2>1, <2>2, <2>3, NullAssumption
    DEF Threaded, AtOp, Fits, UnsavedUntouched, Operations
  <2> QED
    BY <2>1, <2>2, <2>3, <2>4, <2>5 DEF Threaded, Labels, Operations
<1> QED
  BY <1>1, <1>2

-----------------------------------------------------------------------------
(* The mutexes of the objects.                                             *)

(* No method begins or ends.                                               *)
LEMMA LocksStay ==
  ASSUME Locks, holder' = holder,
         \A u \in Threads : Method(u)' = Method(u),
         \A u \in Threads : Method(u) # "none" => obj'[u] = obj[u],
         \A o \in born' : holder[o] # "none" => o \in born
  PROVE  Locks'
BY DEF Locks

(* A thread enters a method of its object.                                 *)
LEMMA LocksTaken ==
  ASSUME Locks, NEW t \in Threads, NEW m \in {"start", "stop", "fail"},
         holder \in [Objs -> {"none", "start", "stop", "fail"}], obj[t] \in Objs,
         holder[obj[t]] = "none", holder' = [holder EXCEPT ![obj[t]] = m],
         Method(t) = "none", Method(t)' = m,
         \A u \in Threads \ {t} : Method(u)' = Method(u),
         UNCHANGED <<obj, born>>
  PROVE  Locks'
BY DEF Locks

(* A thread leaves the method of its object.                               *)
LEMMA LocksGiven ==
  ASSUME Locks, NEW t \in Threads,
         holder \in [Objs -> {"none", "start", "stop", "fail"}], obj[t] \in Objs,
         Method(t) # "none", holder' = [holder EXCEPT ![obj[t]] = "none"],
         Method(t)' = "none",
         \A u \in Threads \ {t} : Method(u)' = Method(u) /\ obj'[u] = obj[u],
         born' = born, born \subseteq Objs
  PROVE  Locks'
BY DEF Locks
-----------------------------------------------------------------------------
(* Steps of a thread inside an operation.                                  *)

(* The objects, the thread and the mutexes have been dealt with; the rest  *)
(* changes only as the thread's step lets it.                              *)
LEMMA ThreadStep ==
  ASSUME MInv, NEW t \in Threads, pc[t] \notin {"idle", "lookup"},
         ObjInv', Threaded', Locks', born' = born, UNCHANGED worldVars,
         P!PortTypeOK', rows' \in [Names -> Rows \cup {None}],
         registry' = registry \/ \E n \in Names : registry' = [registry EXCEPT ![n] = None],
         \A u \in Threads : obj'[u] \in {obj[u], obj[t], None},
         \A u \in Threads \ {t} : pc'[u] = pc[u] \/ u \in Launches
  PROVE  MInv'
<1>1. Tables'
  BY DEF MInv, Tables, worldVars
<1>2. Backed'
  BY DEF MInv, Backed, Tables, worldVars
<1>3. Phases'
  <2>1. server # "down"
    BY DEF MInv, Phases
  <2>2. \A u \in Stoppers : u \in Threads /\ u \notin Launches
    BY ThreadAssumption DEF Threads
  <2>3. server \in {"up", "draining"} => \A u \in Stoppers : pc'[u] = "idle"
    BY <2>2 DEF MInv, Phases
  <2> QED
    BY <2>1, <2>3 DEF MInv, Phases, worldVars
<1>4. QED
  BY <1>1, <1>2, <1>3 DEF MInv

(* The common case: one thread goes on or ends, and no mutex changes hands. *)
LEMMA QuietStep ==
  ASSUME MInv, NEW t \in Threads, pc[t] \notin {"idle", "lookup"}, Method(t) = "none",
         ObjInv', UNCHANGED <<born, holder, worldVars>>,
         P!PortTypeOK', rows' \in [Names -> Rows \cup {None}],
         registry' = registry \/ \E n \in Names : registry' = [registry EXCEPT ![n] = None],
         \/ Ends(t)
         \/ \E l \in Labels \ {"idle", "lookup", "exec", "starting", "stopping", "failing"} :
              Fits(l, op[t]) /\ Goto(t, l)
  PROVE  MInv'
<1>1. Threaded'
  BY GotoFits, EndsFits DEF MInv
<1>2. /\ \A u \in Threads \ {t} : pc'[u] = pc[u] /\ obj'[u] = obj[u]
      /\ pc'[t] \in Labels \ {"starting", "stopping", "failing"}
      /\ obj'[t] \in {obj[t], None}
  BY DEF Ends, Goto, MInv, Threaded, Labels
<1>3. \A u \in Threads : Method(u)' = Method(u)
  BY <1>2 DEF Method
<1>4. Locks'
  BY <1>2, <1>3, LocksStay DEF MInv
<1>5. QED
  BY <1>1, <1>2, <1>4, ThreadStep

(* A thread in an operation has an object, which exists.                   *)
LEMMA HasObject ==
  ASSUME MInv, NEW t \in Threads, pc[t] \notin {"idle", "lookup"}
  PROVE  /\ obj[t] \in Objs /\ obj[t] \in born
         /\ Name(obj[t]) \in Names /\ port[obj[t]] \in P!Port \cup {NoPort}
<1>1. obj[t] \in Objs /\ obj[t] \in born
  BY DEF MInv, Threaded, AtOp, Backed
<1>2. QED
  BY <1>1 DEF Objs, Name, MInv, ObjInv, I!InstTypeOK

(* The tables of the manager are left alone.                               *)
LEMMA TablesStay ==
  ASSUME MInv, UNCHANGED <<portVars, rows>>
  PROVE  P!PortTypeOK' /\ rows' \in [Names -> Rows \cup {None}]
BY DEF MInv, Tables, portVars, P!PortTypeOK

(* The check before an operation's first effect keeps the invariant.        *)
LEMMA CheckKeeps ==
  ASSUME MInv, NEW t \in Threads, Check(t)
  PROVE  MInv'
<1>1. op[t] \in {"start", "stop", "delete", "update", "shutdown"}
  BY DEF Check, MInv, Threaded, AtOp, Fits
<1>2. ObjInv' /\ UNCHANGED <<born, holder>>
  BY ObjStutters DEF Check, MInv, instVars, lockVars
<1>3. DEFINE l == AfterCheck(op[t], status[obj[t]])
<1>4. /\ l = "idle" \/ l \in Labels \ {"idle", "lookup", "exec", "starting", "stopping", "failing"}
      /\ l # "idle" => Fits(l, op[t])
  BY <1>1 DEF AfterCheck, Labels, Fits
<1>5. Ends(t) \/ (l # "idle" /\ Goto(t, l))
  BY DEF Check
<1> HIDE DEF l
<1>6. QED
  BY <1>2, <1>4, <1>5, QuietStep, TablesStay DEF Check, Method

(* So does setting the options.                                             *)
LEMMA UpdateKeeps ==
  ASSUME MInv, NEW t \in Threads, Update(t)
  PROVE  MInv'
<1>1. CASE UNCHANGED instVars /\ Ends(t)
  <2>1. ObjInv' /\ UNCHANGED <<born, holder>>
    BY <1>1, ObjStutters DEF MInv, instVars, lockVars
  <2> QED
    BY <1>1, <2>1, QuietStep, TablesStay DEF Update, Method
<1>2. CASE (\E x \in Options : I!SetOpts(obj[t], x)) /\ Goto(t, "save")
  <2>1. ObjInv' /\ UNCHANGED <<born, holder>>
    BY <1>2, HasObject, SetOptsKeeps DEF Update, MInv, I!SetOpts, I!lockVars
  <2>2. Fits("save", op[t]) /\ "save" \in Labels
    BY DEF Fits, Labels
  <2> QED
    BY <1>2, <2>1, <2>2, QuietStep, TablesStay DEF Update, Method
<1> QED
  BY <1>1, <1>2 DEF Update

(* delete(a.allocated, port).                                              *)
LEMMA FreeKeeps ==
  ASSUME MInv, NEW q, P!Free(q)
  PROVE  P!PortTypeOK'
BY DEF MInv, Tables, P!Free, P!PortTypeOK

(* So does giving the port of a deleted instance back.                      *)
LEMMA FreePortKeeps ==
  ASSUME MInv, NEW t \in Threads, FreePort(t)
  PROVE  MInv'
<1>1. ObjInv' /\ UNCHANGED <<born, holder>>
  BY ObjStutters DEF FreePort, MInv, instVars, lockVars
<1>2. P!PortTypeOK'
  BY FreeKeeps DEF FreePort
<1>3. op[t] \in {"stop", "delete"}
  BY DEF FreePort, MInv, Threaded, AtOp, Fits
<1>4. PICK l \in {"markStopped", "unregister"} : Goto(t, l)
  BY DEF FreePort
<1>5. Fits(l, op[t]) /\ l \in Labels
  BY <1>3 DEF Fits, Labels
<1>6. QED
  BY <1>1, <1>2, <1>4, <1>5, QuietStep DEF FreePort, Method, MInv, Tables

(* So does the manager's own setting of stopped, past the table.            *)
LEMMA MarkStoppedKeeps ==
  ASSUME MInv, NEW t \in Threads, MarkStopped(t)
  PROVE  MInv'
<1>1. ObjInv' /\ UNCHANGED <<born, holder>>
  <2>1. CASE registry[Name(obj[t])] = None
    BY <2>1, ObjStutters DEF MarkStopped, MInv, instVars, lockVars
  <2>2. CASE registry[Name(obj[t])] # None
    <3>1. registry[Name(obj[t])] \in Objs
      BY <2>2, HasObject DEF MarkStopped, MInv, Tables
    <3> QED
      BY <2>2, <3>1, MarksKeep DEF MarkStopped, MInv, I!MarkStopped, I!Forced, I!lockVars
  <2> QED
    BY <2>1, <2>2
<1>2. Fits("save", op[t]) /\ "save" \in Labels
  BY DEF Fits, Labels
<1>3. QED
  BY <1>1, <1>2, QuietStep, TablesStay DEF MarkStopped, Method

(* So does removing the instance from the registry.                         *)
LEMMA UnregisterKeeps ==
  ASSUME MInv, NEW t \in Threads, Unregister(t)
  PROVE  MInv'
<1>1. ObjInv' /\ UNCHANGED <<born, holder>>
  BY ObjStutters DEF Unregister, MInv, instVars, lockVars
<1>2. Fits("deleteRow", op[t]) /\ "deleteRow" \in Labels
  BY DEF Unregister, MInv, Threaded, AtOp, Fits, Labels
<1>3. \E n \in Names : registry' = [registry EXCEPT ![n] = None]
  BY HasObject DEF Unregister
<1>4. QED
  BY <1>1, <1>2, <1>3, QuietStep, TablesStay DEF Unregister, Method

(* So does deleting the row, or failing to.                                 *)
LEMMA DeleteRowKeeps ==
  ASSUME MInv, NEW t \in Threads, DeleteRow(t)
  PROVE  MInv'
<1>1. ObjInv' /\ UNCHANGED <<born, holder>>
  BY ObjStutters DEF DeleteRow, MInv, instVars, lockVars
<1>2. rows' \in [Names -> Rows \cup {None}] /\ P!PortTypeOK'
  BY DEF DeleteRow, MInv, Tables, portVars, P!PortTypeOK
<1>3. QED
  BY <1>1, <1>2, QuietStep DEF DeleteRow, Method

(* So does the end of a waiter's health poll.                               *)
LEMMA PollKeeps ==
  ASSUME MInv, NEW t \in Threads, Poll(t)
  PROVE  MInv'
<1>1. ObjInv' /\ UNCHANGED <<born, holder>>
  BY ObjStutters DEF Poll, MInv, instVars, lockVars
<1>2. PICK l \in {"markRunning", "markFailed"} : Goto(t, l)
  BY DEF Poll
<1>3. Fits(l, op[t]) /\ l \in Labels
  BY DEF Poll, MInv, Threaded, AtOp, Fits, Labels
<1>4. QED
  BY <1>1, <1>2, <1>3, QuietStep, TablesStay DEF Poll, Method

(* So does a waiter's setting of running.                                   *)
LEMMA MarkRunningKeeps ==
  ASSUME MInv, NEW t \in Threads, MarkRunning(t)
  PROVE  MInv'
<1>1. ObjInv' /\ UNCHANGED <<born, holder>>
  BY HasObject, MarksKeep DEF MarkRunning, MInv, I!MarkRunning, I!Forced, I!lockVars
<1>2. Fits("save", op[t]) /\ "save" \in Labels
  BY DEF Fits, Labels
<1>3. QED
  BY <1>1, <1>2, QuietStep, TablesStay DEF MarkRunning, Method
-----------------------------------------------------------------------------
(* Steps into and out of a method that is not over at once.                *)

(* A thread enters a method of its object.                                 *)
LEMMA EntersMethod ==
  ASSUME MInv, NEW t \in Threads, pc[t] \notin {"idle", "lookup"}, Method(t) = "none",
         ObjInv', NEW l \in {"starting", "stopping", "failing"}, Fits(l, op[t]), Goto(t, l),
         holder[obj[t]] = "none", born' = born,
         holder' = [holder EXCEPT ![obj[t]] = Method(t)'],
         UNCHANGED <<portVars, registry, rows, worldVars>>
  PROVE  MInv'
<1>1. Threaded'
  BY GotoFits DEF MInv, Labels
<1>2. /\ obj' = obj
      /\ \A u \in Threads \ {t} : pc'[u] = pc[u]
      /\ pc'[t] = l
  BY DEF Goto, MInv, Threaded
<1>3. /\ Method(t)' \in {"start", "stop", "fail"}
      /\ \A u \in Threads \ {t} : Method(u)' = Method(u)
  BY <1>2 DEF Method
<1>4. Locks'
  BY <1>2, <1>3, HasObject, LocksTaken DEF MInv, ObjInv, I!InstTypeOK
<1>5. QED
  BY <1>1, <1>2, <1>4, ThreadStep, TablesStay

(* A thread leaves the method of its object, and goes on or ends.          *)
LEMMA LeavesMethod ==
  ASSUME MInv, NEW t \in Threads, pc[t] \in {"starting", "stopping", "failing"},
         ObjInv', holder' = [holder EXCEPT ![obj[t]] = "none"], born' = born,
         \/ Ends(t)
         \/ \E l \in {"save", "free", "start"} : Fits(l, op[t]) /\ Goto(t, l),
         UNCHANGED <<portVars, registry, rows, worldVars>>
  PROVE  MInv'
<1>1. Threaded'
  BY GotoFits, EndsFits DEF MInv, Labels
<1>2. /\ \A u \in Threads \ {t} : pc'[u] = pc[u] /\ obj'[u] = obj[u]
      /\ pc'[t] \in {"idle", "save", "free", "start"}
      /\ obj'[t] \in {obj[t], None}
  BY DEF Ends, Goto, MInv, Threaded
<1>3. /\ Method(t) # "none" /\ Method(t)' = "none"
      /\ \A u \in Threads \ {t} : Method(u)' = Method(u)
  BY <1>2 DEF Method
<1>4. Locks'
  BY <1>2, <1>3, HasObject, LocksGiven DEF MInv, ObjInv, I!InstTypeOK
<1>5. QED
  BY <1>1, <1>2, <1>4, ThreadStep, TablesStay

(* A thread is inside a method and stays there.                            *)
LEMMA StaysInMethod ==
  ASSUME MInv, NEW t \in Threads, pc[t] \notin {"idle", "lookup"},
         ObjInv', UNCHANGED <<born, holder, portVars, registry, rows, threadVars, worldVars>>
  PROVE  MInv'
<1>1. Threaded'
  BY DEF threadVars, MInv, Threaded, AtOp, UnsavedUntouched
<1>2. \A u \in Threads : Method(u)' = Method(u)
  BY DEF threadVars, Method
<1>3. Locks'
  BY <1>2, LocksStay DEF MInv, threadVars
<1>4. QED
  BY <1>1, <1>3, ThreadStep, TablesStay DEF threadVars

(* So does calling Start: the thread takes the mutex for itself.            *)
LEMMA StartCallKeeps ==
  ASSUME MInv, NEW t \in Threads, StartCall(t)
  PROVE  MInv'
<1>1. pc[t] = "start" /\ op[t] \in {"start", "restart"} /\ Method(t) = "none"
  BY DEF StartCall, MInv, Threaded, AtOp, Fits, Method
<1>2. CASE I!StartRefused(obj[t]) /\ Ends(t)
  <2>1. ObjInv' /\ UNCHANGED <<born, holder>>
    BY <1>2, SameVars, ObjStutters DEF I!StartRefused, MInv, instVars, lockVars
  <2> QED
    BY <1>1, <1>2, <2>1, QuietStep, TablesStay DEF StartCall
<1>3. CASE I!StartBegin(obj[t]) /\ Goto(t, "starting")
  <2>1. ObjInv'
    BY <1>1, <1>3, HasObject, StartBeginKeeps DEF MInv
  <2>2. Fits("starting", op[t])
    BY <1>1 DEF Fits
  <2>3. Method(t)' = "start"
    BY <1>3 DEF Goto, MInv, Threaded, Method
  <2> QED
    BY <1>1, <1>3, <2>1, <2>2, <2>3, EntersMethod DEF StartCall, I!StartBegin, I!Unlocked
<1> QED
  BY <1>2, <1>3 DEF StartCall

(* So does the return of Start, which may leave a waiter behind.            *)
LEMMA StartReturnKeeps ==
  ASSUME MInv, NEW t \in Threads, StartReturn(t)
  PROVE  MInv'
<1>1. pc[t] = "starting" /\ Fits("save", op[t])
  BY DEF StartReturn, Fits
<1>2. obj[t] \in Objs
  BY <1>1, HasObject
<1>3. CASE (I!StartFails(obj[t]) \/ I!StartNoBinary(obj[t])) /\ Ends(t)
  BY <1>1, <1>2, <1>3, StartFailsKeeps, LeavesMethod
  DEF StartReturn, MInv, I!StartFails, I!StartNoBinary
<1>4. CASE (\E p \in Launches : I!StartLaunches(obj[t], p)) /\ Goto(t, "save")
  BY <1>1, <1>2, <1>4, StartLaunchesKeeps, LeavesMethod DEF StartReturn, MInv, I!StartLaunches
<1> QED
  BY <1>3, <1>4 DEF StartReturn

(* What follows a Stop.                                                    *)
LEMMA StoppingGoes ==
  ASSUME MInv, NEW t \in Threads, pc[t] \in {"stop", "stopping"}, Stopping(t)
  PROVE  Ends(t) \/ \E l \in {"free", "start"} : Fits(l, op[t]) /\ Goto(t, l)
<1>1. op[t] \in {"stop", "delete", "restart", "shutdown"}
  BY DEF MInv, Threaded, AtOp, Fits
<1>2. QED
  BY <1>1 DEF Stopping, AfterStop, Fits

(* So does calling Stop, or Close for a shutdown.                           *)
LEMMA StopCallKeeps ==
  ASSUME MInv, NEW t \in Threads, StopCall(t)
  PROVE  MInv'
<1>1. pc[t] = "stop" /\ Method(t) = "none" /\ Fits("stopping", op[t])
  BY DEF StopCall, MInv, Threaded, AtOp, Fits, Method
<1>2. CASE \/ I!StopNil(obj[t]) /\ Stopping(t)
           \/ I!StopRefused(obj[t]) /\ Ends(t)
  <2>1. ObjInv' /\ UNCHANGED <<born, holder>>
    BY <1>2, SameVars, ObjStutters DEF I!StopNil, I!StopRefused, MInv, instVars, lockVars
  <2>2. \/ Ends(t)
        \/ \E l \in Labels \ {"idle", "lookup", "exec", "starting", "stopping", "failing"} :
             Fits(l, op[t]) /\ Goto(t, l)
    BY <1>1, <1>2, StoppingGoes DEF Labels
  <2> QED
    BY <1>1, <2>1, <2>2, QuietStep, TablesStay DEF StopCall
<1>3. CASE I!StopBegin(obj[t]) /\ Goto(t, "stopping")
  <2>1. ObjInv'
    BY <1>1, <1>3, HasObject, StopBeginKeeps DEF MInv
  <2>2. Method(t)' = "stop"
    BY <1>3 DEF Goto, MInv, Threaded, Method
  <2> QED
    BY <1>1, <1>3, <2>1, <2>2, EntersMethod DEF StopCall, I!StopBegin, I!Unlocked
<1> QED
  BY <1>2, <1>3 DEF StopCall

(* process.stop keeps the mutex while it waits and gives it back when it   *)
(* returns.                                                                *)
LEMMA StopHolder ==
  ASSUME NEW o \in Objs
  PROVE  /\ I!StopGoesOn(o) => UNCHANGED <<born, holder>>
         /\ I!StopSucceeds(o) \/ I!StopErrs(o) =>
              holder' = [holder EXCEPT ![o] = "none"] /\ born' = born
BY DEF I!StopGoesOn, I!KillSent, I!GraceEnds, I!RekillSent, I!StageGoes, I!StopSucceeds,
       I!StopErrs, I!KillNoProcess, I!DoneClosed, I!KillReaped, I!RekillReaped,
       I!StopReturns

(* So does each way Stop can go on or return.                               *)
LEMMA StopReturnKeeps ==
  ASSUME MInv, NEW t \in Threads, StopReturn(t)
  PROVE  MInv'
<1>1. pc[t] = "stopping"
  BY DEF StopReturn
<1>2. obj[t] \in Objs
  BY <1>1, HasObject
<1>3. CASE I!StopGoesOn(obj[t]) /\ UNCHANGED threadVars
  BY <1>1, <1>2, <1>3, StopGoesOnKeeps, StopHolder, StaysInMethod DEF StopReturn, MInv
<1>4. CASE \/ I!StopSucceeds(obj[t]) /\ Stopping(t)
           \/ I!StopErrs(obj[t]) /\ Ends(t)
  BY <1>1, <1>2, <1>4, StopReturnsKeeps, StopHolder, StoppingGoes, LeavesMethod
  DEF StopReturn, MInv
<1> QED
  BY <1>3, <1>4 DEF StopReturn

(* So does a waiter's call of MarkFailed.                                   *)
LEMMA MarkFailedKeeps ==
  ASSUME MInv, NEW t \in Threads, MarkFailed(t)
  PROVE  MInv'
<1>1. pc[t] = "markFailed" /\ Method(t) = "none" /\ Fits("failing", op[t])
  BY DEF MarkFailed, MInv, Threaded, AtOp, Fits, Method
<1>2. ObjInv'
  BY <1>1, HasObject, StopBeginKeeps DEF MarkFailed, MInv
<1>3. Method(t)' = "fail"
  BY DEF MarkFailed, Goto, MInv, Threaded, Method
<1>4. QED
  BY <1>1, <1>2, <1>3, EntersMethod DEF MarkFailed, I!MarkFailedBegin, I!Unlocked

(* So does its return.                                                      *)
LEMMA MarkFailedReturnKeeps ==
  ASSUME MInv, NEW t \in Threads, MarkFailedReturn(t)
  PROVE  MInv'
<1>1. pc[t] = "failing" /\ Fits("save", op[t])
  BY DEF MarkFailedReturn, Fits
<1>2. obj[t] \in Objs
  BY <1>1, HasObject
<1>3. CASE I!StopGoesOn(obj[t]) /\ UNCHANGED threadVars
  BY <1>1, <1>2, <1>3, StopGoesOnKeeps, StopHolder, StaysInMethod DEF MarkFailedReturn, MInv
<1>4. CASE (I!StopSucceeds(obj[t]) \/ I!StopErrs(obj[t])) /\ Goto(t, "save")
  BY <1>1, <1>2, <1>4, StopReturnsKeeps, StopHolder, LeavesMethod DEF MarkFailedReturn, MInv
<1> QED
  BY <1>3, <1>4 DEF MarkFailedReturn

-----------------------------------------------------------------------------
(* Save.                                                                   *)

(* Reading the object for a save keeps the invariant.                       *)
LEMMA SaveReadKeeps ==
  ASSUME MInv, NEW t \in Threads, SaveRead(t)
  PROVE  MInv'
<1>1. ObjInv' /\ UNCHANGED <<born, holder>>
  BY ObjStutters DEF SaveRead, MInv, instVars, lockVars
<1>2. obj[t] \in Objs /\ obj[t] \in born
  BY HasObject DEF SaveRead
<1>3. [status |-> status[obj[t]], opts |-> opts[obj[t]]] \in Rows
  BY <1>2, SameStatuses DEF MInv, ObjInv, I!InstTypeOK, OptsKnown, Rows
<1>4. Threaded'
  <2>1. snap' \in [Threads -> Rows \cup {None}] /\ pc' \in [Threads -> Labels]
    BY <1>3 DEF SaveRead, MInv, Threaded, Labels
  <2>2. AtOp'
    BY <1>3, NullAssumption DEF SaveRead, MInv, Threaded, AtOp, Fits, Rows
  <2> QED
    BY <2>1, <2>2 DEF SaveRead, MInv, Threaded, UnsavedUntouched
<1>5. \A u \in Threads : Method(u)' = Method(u) /\ (u # t => pc'[u] = pc[u])
  BY DEF SaveRead, MInv, Threaded, Method
<1>6. Locks'
  BY <1>1, <1>5, LocksStay DEF SaveRead, MInv
<1>7. QED
  BY <1>1, <1>4, <1>5, <1>6, ThreadStep, TablesStay DEF SaveRead
(* The row is written; a start hands its object to a waiter.               *)
LEMMA SaveExecKeeps ==
  ASSUME MInv, NEW t \in Threads, SaveExec(t)
  PROVE  MInv'
<1>1. ObjInv' /\ UNCHANGED <<born, holder>>
  BY ObjStutters DEF SaveExec, MInv, instVars, lockVars
<1>2. Threaded'
  BY EndsWatchedFits DEF SaveExec, MInv
<1>3. rows' \in [Names -> Rows \cup {None}] /\ P!PortTypeOK'
  BY DEF SaveExec, MInv, Tables, Threaded, AtOp, portVars, P!PortTypeOK
<1>4. /\ \A u \in Threads \ {t} : pc'[u] = pc[u] \/ (u \in Launches /\ pc[u] = "idle" /\ pc'[u] = "poll")
      /\ \A u \in Threads : obj'[u] \in {obj[u], obj[t], None}
      /\ \A u \in Threads \ {t} : pc'[u] = pc[u] => obj'[u] = obj[u]
      /\ pc'[t] = "idle"
  BY DEF SaveExec, EndsWatched, Ends, Waiters, Threads, MInv, Threaded
<1>5. \A u \in Threads : Method(u)' = Method(u) /\ (Method(u) # "none" => obj'[u] = obj[u])
  BY <1>4 DEF SaveExec, Method
<1>6. Locks'
  BY <1>1, <1>5, LocksStay DEF MInv
<1>7. QED
  BY <1>1, <1>2, <1>3, <1>4, <1>6, ThreadStep DEF SaveExec

(* So does a save that fails, which undoes a creation.                      *)
LEMMA SaveFailsKeeps ==
  ASSUME MInv, NEW t \in Threads, SaveFails(t)
  PROVE  MInv'
<1>1. ObjInv' /\ UNCHANGED <<born, holder>>
  BY ObjStutters DEF SaveFails, MInv, instVars, lockVars
<1>2. P!PortTypeOK' /\ rows' \in [Names -> Rows \cup {None}]
  BY FreeKeeps DEF SaveFails, MInv, Tables, portVars, P!PortTypeOK
<1>3. registry' = registry \/ \E n \in Names : registry' = [registry EXCEPT ![n] = None]
  BY HasObject DEF SaveFails
<1>4. QED
  BY <1>1, <1>2, <1>3, QuietStep DEF SaveFails, Method

-----------------------------------------------------------------------------
(* Requests and the auto-restarts.                                         *)

(* A port that is picked is in the range, or below the minimum.            *)
LEMMA AllocateKeeps ==
  ASSUME MInv, NEW n \in Names, NEW p \in P!Port, P!Allocate(n, p)
  PROVE  P!PortTypeOK'
<1>0. /\ next \in Nat /\ (next <= LastPort + 1 \/ next <= MinPort)
      /\ p \in Nat \ {0} /\ LastPort \in Nat /\ MinPort \in Nat /\ WrapLo \in Nat
  BY PortAssumption DEF P!Port, MInv, Tables, P!PortTypeOK
<1>1. p <= LastPort \/ p < MinPort
  <2>1. CASE P!IsLowest(p, P!FromCursor)
    BY <1>0, <2>1 DEF P!IsLowest, P!FromCursor, P!FreeIn
  <2>2. CASE P!IsLowest(p, P!BelowCursor)
    BY <1>0, <2>2 DEF P!IsLowest, P!BelowCursor, P!FreeIn
  <2> QED
    BY <2>1, <2>2 DEF P!Allocate, P!Picks
<1>2. next' \in P!Port /\ (next' <= LastPort + 1 \/ next' <= MinPort)
  BY <1>0, <1>1, PortAssumption DEF P!Allocate, P!Port
<1>3. QED
  BY <1>2 DEF P!Allocate, MInv, Tables, P!PortTypeOK

(* A new object is known to nobody and its mutex is free.                  *)
LEMMA CreateKeeps ==
  ASSUME MInv, NEW c \in Clients, NEW n \in Names, NEW x \in Options, Create(c, n, x)
  PROVE  MInv'
<1> DEFINE o == <<n, made + 1>>
<1>1. PICK p \in P!Port : P!Allocate(n, p) /\ I!New(o, p, TRUE, x)
  BY DEF Create
<1>2. made \in Nat /\ made + 1 \in 1 .. MaxMade /\ MaxMade \in Nat
  BY ManagerAssumption DEF Create, MInv, Tables
<1>3. o \in Objs /\ o[2] = made + 1 /\ o \notin born
  BY <1>2 DEF Objs, MInv, Backed
<1>4. c \in Threads /\ server = "up" /\ MuFree
  BY DEF Create, MayCall, Threads
<1>5. Runs(c, "save", "create", o) /\ registry' = [registry EXCEPT ![n] = o] /\ made' = made + 1
  BY DEF Create
<1>6. UNCHANGED <<rows, server, boots>> /\ pc[c] = "idle"
  BY DEF Create, MayCall
<1> HIDE DEF o
<1>7. ObjInv'
  BY <1>1, <1>3, NewKeeps DEF MInv
<1>8. holder' = holder /\ born' = born \cup {o}
  BY <1>1 DEF I!New, I!lockVars
<1>9. \A u \in Threads : obj[u] # o
  BY <1>3, NullAssumption DEF MInv, Backed
<1>10. Threaded'
  BY <1>3, <1>4, <1>5, <1>9, RunsFits DEF MInv, Operations, Fits
<1>11. /\ \A u \in Threads \ {c} : pc'[u] = pc[u] /\ obj'[u] = obj[u]
       /\ pc'[c] = "save" /\ obj'[c] = o
  BY <1>4, <1>5 DEF Runs, MInv, Threaded
<1>12. Tables'
  BY <1>1, <1>2, <1>3, <1>5, <1>6, AllocateKeeps DEF MInv, Tables
<1>13. Backed'
  <2>1. \A u \in Threads : obj'[u] # None => obj'[u] \in born'
    BY <1>8, <1>11 DEF MInv, Backed
  <2>2. \A m \in Names : registry'[m] # None => registry'[m] \in born'
    BY <1>5, <1>8 DEF MInv, Backed, Tables
  <2>3. \A q \in born' : q[2] <= made'
    <3>1. \A q \in born : q[2] \in Nat
      BY ManagerAssumption DEF MInv, ObjInv, I!InstTypeOK, Objs
    <3> QED
      BY <1>2, <1>3, <1>5, <1>8, <3>1 DEF MInv, Backed
  <2> QED
    BY <2>1, <2>2, <2>3 DEF Backed
<1>14. Phases'
  <2>1. c \notin Stoppers /\ \A u \in Stoppers : u \in Threads
    BY ThreadAssumption DEF Threads
  <2> QED
    BY <1>4, <1>6, <1>11, <2>1 DEF MInv, Phases
<1>15. Locks'
  <2>1. \A u \in Threads : Method(u)' = Method(u) /\ (Method(u) # "none" => obj'[u] = obj[u])
    BY <1>6, <1>11 DEF Method
  <2>2. \A q \in born' : holder[q] # "none" => q \in born
    BY <1>3, <1>8 DEF MInv, ObjInv, I!InstTypeOK, I!LockOK
  <2> QED
    BY <1>8, <2>1, <2>2, LocksStay DEF MInv
<1>16. QED
  BY <1>7, <1>10, <1>12, <1>13, <1>14, <1>15 DEF MInv

(* Nothing but the allocator, or nothing at all, has changed.              *)
LEMMA ThreadsStutter ==
  ASSUME MInv, ObjInv', P!PortTypeOK',
         UNCHANGED <<born, holder, registry, rows, threadVars, worldVars>>
  PROVE  MInv'
<1>1. Threaded' /\ Backed' /\ Phases'
  BY DEF threadVars, worldVars, MInv, Threaded, AtOp, UnsavedUntouched, Backed, Phases
<1>2. Tables'
  BY DEF worldVars, MInv, Tables
<1>3. Locks'
  BY DEF threadVars, MInv, Locks, Method
<1>4. QED
  BY <1>1, <1>2, <1>3 DEF MInv

(* A step that changes nothing keeps the invariant.                         *)
LEMMA StutterKeeps ==
  ASSUME MInv, UNCHANGED vars
  PROVE  MInv'
<1>1. ObjInv'
  BY ObjStutters DEF vars, MInv
<1>2. QED
  BY <1>1, ThreadsStutter DEF vars, instVars, lockVars, portVars, MInv, Tables, P!PortTypeOK

(* So does a creation that is refused before the manager is called.         *)
LEMMA CreateInvalidKeeps ==
  ASSUME MInv, NEW c \in Clients, NEW n \in Names, CreateInvalid(c, n)
  PROVE  MInv'
<1>1. ObjInv' /\ UNCHANGED <<born, holder>>
  BY ObjStutters DEF CreateInvalid, MInv, instVars, lockVars
<1>2. P!PortTypeOK'
  BY AllocateKeeps DEF CreateInvalid
<1>3. QED
  BY <1>1, <1>2, ThreadsStutter DEF CreateInvalid

(* A thread takes an object from the registry: nobody is creating it.      *)
LEMMA LooksUpKeeps ==
  ASSUME MInv, NEW t \in Threads, pc[t] \in {"idle", "lookup"}, MuFree,
         NEW n \in Names, registry[n] # None, NEW l \in {"check", "stop"},
         NEW how \in Operations \ {"create"}, Fits(l, how), Runs(t, l, how, registry[n]),
         server # "down", t \notin Stoppers,
         UNCHANGED <<instVars, portVars, registry, rows, worldVars>>
  PROVE  MInv'
<1>1. ObjInv' /\ UNCHANGED <<born, holder>>
  BY ObjStutters DEF MInv, instVars, lockVars
<1>2. registry[n] \in Objs /\ registry[n] \in born
  BY DEF MInv, Tables, Backed
<1>3. Threaded'
  BY <1>2, RunsFits DEF MInv
<1>4. /\ \A u \in Threads \ {t} : pc'[u] = pc[u] /\ obj'[u] = obj[u]
      /\ pc'[t] = l /\ obj'[t] = registry[n]
  BY DEF Runs, MInv, Threaded
<1>5. Tables'
  BY DEF MInv, Tables, portVars, worldVars, P!PortTypeOK
<1>6. Backed'
  BY <1>1, <1>2, <1>4 DEF MInv, Backed, worldVars
<1>7. Phases'
  BY <1>1, <1>4 DEF MInv, Phases, worldVars, Threads
<1>8. Locks'
  <2>1. \A u \in Threads : Method(u)' = Method(u) /\ (Method(u) # "none" => obj'[u] = obj[u])
    BY <1>4 DEF Method
  <2> QED
    BY <1>1, <2>1, LocksStay DEF MInv
<1>9. QED
  BY <1>1, <1>3, <1>5, <1>6, <1>7, <1>8 DEF MInv

(* So does the lookup of a request.                                         *)
LEMMA RequestKeeps ==
  ASSUME MInv, NEW c \in Clients, NEW n \in Names, NEW how \in Requests,
         Request(c, n, how)
  PROVE  MInv'
<1>1. PICK l \in {"check", "stop"} :
        Runs(c, l, how, registry[n]) /\ l = IF how = "restart" THEN "stop" ELSE "check"
  BY DEF Request
<1>2. Fits(l, how) /\ how \in Operations \ {"create"}
  BY <1>1 DEF Fits, Requests, Operations
<1>3. c \in Threads /\ c \notin Stoppers /\ server = "up" /\ MuFree /\ pc[c] = "idle"
  BY ThreadAssumption DEF Request, MayCall, Threads
<1>4. QED
  BY <1>1, <1>2, <1>3, LooksUpKeeps DEF Request

(* So does the lookup of an auto-restart.                                   *)
LEMMA AutoLookupKeeps ==
  ASSUME MInv, NEW t \in Autos, AutoLookup(t)
  PROVE  MInv'
<1>1. t \in Threads /\ t \notin Stoppers /\ t[2] \in Names
  BY DEF Threads, Autos, Stoppers
<1>2. server # "down"
  BY <1>1 DEF AutoLookup, MInv, Phases
<1>3. CASE registry[t[2]] # None
  BY <1>1, <1>2, <1>3, LooksUpKeeps DEF AutoLookup, Operations, Fits
<1>4. CASE registry[t[2]] = None
  <2>1. ObjInv' /\ UNCHANGED <<born, holder>>
    BY ObjStutters DEF AutoLookup, MInv, instVars, lockVars
  <2>2. Threaded'
    BY <1>1, <1>4, EndsFits DEF AutoLookup, MInv
  <2>3. /\ \A u \in Threads \ {t} : pc'[u] = pc[u] /\ obj'[u] = obj[u]
        /\ pc'[t] = "idle" /\ obj'[t] = None
    BY <1>1, <1>4 DEF AutoLookup, Ends, MInv, Threaded
  <2>4. Tables' /\ Backed'
    BY <2>1, <2>3 DEF AutoLookup, MInv, Tables, Backed, portVars, worldVars, P!PortTypeOK
  <2>5. Phases'
    BY <1>1, <1>2, <2>1, <2>3 DEF AutoLookup, MInv, Phases, worldVars, Threads
  <2>6. \A u \in Threads : Method(u)' = Method(u) /\ (Method(u) # "none" => obj'[u] = obj[u])
    BY <2>3 DEF AutoLookup, Method
  <2>7. Locks'
    BY <2>1, <2>6, LocksStay DEF MInv
  <2> QED
    BY <2>1, <2>2, <2>4, <2>5, <2>7 DEF MInv
<1> QED
  BY <1>3, <1>4

-----------------------------------------------------------------------------
(* Processes and the server.                                               *)

(* What a process does by itself keeps the invariant.                       *)
LEMMA ManProcessKeeps ==
  ASSUME MInv, NEW p \in Launches, Process(p)
  PROVE  MInv'
<1>1. ObjInv' /\ UNCHANGED <<born, holder>>
  BY ProcessKeeps DEF Process, MInv, I!Listens, I!Exits, I!lockVars
<1>2. QED
  BY <1>1, ThreadsStutter DEF Process, MInv, Tables, portVars, P!PortTypeOK
(* What a server process leaves behind: the rows and llama-servers.        *)
LEMMA ServerGoneKeeps ==
  ASSUME MInv, ServerGone, made < MaxMade, boots < MaxBoots
  PROVE  MInv'
<1>1. ObjInv'
  <2>1. I!InstTypeOK'
    BY SameStatuses
    DEF ServerGone, EachObj, procVars, MInv, ObjInv, I!InstTypeOK, I!LockOK, Statuses, Stopped
  <2>2. PidRests' /\ PortsKnown' /\ OptsKnown'
    BY DEF ServerGone, EachObj, procVars, MInv, ObjInv, PidRests, PortsKnown,
           LaunchesHavePorts, OptsKnown
  <2> QED
    BY <2>1, <2>2 DEF ObjInv
<1>2. \A t \in Threads :
        pc'[t] = "idle" /\ op'[t] = None /\ obj'[t] = None /\ snap'[t] = None
  BY DEF ServerGone, EachThread
<1>3. Threaded'
  <2>1. AtOp'
    BY <1>2, NullAssumption DEF AtOp, Fits
  <2>2. UnsavedUntouched'
    BY <1>2, NullAssumption DEF UnsavedUntouched
  <2> QED
    BY <2>1, <2>2 DEF ServerGone, EachThread, Threaded, Labels
<1>4. Tables'
  BY PortAssumption DEF ServerGone, MInv, Tables, P!PortTypeOK, P!Port
<1>5. Backed'
  BY <1>2 DEF ServerGone, Backed
<1>6. Phases'
  BY <1>2 DEF ServerGone, Phases
<1>7. Locks'
  BY <1>2 DEF ServerGone, Locks, Method
<1>8. QED
  BY <1>1, <1>3, <1>4, <1>5, <1>6, <1>7 DEF MInv

(* So does the end of draining.                                             *)
LEMMA DrainKeeps ==
  ASSUME MInv, Drain
  PROVE  MInv'
<1>1. ObjInv' /\ UNCHANGED <<born, holder>>
  BY ObjStutters DEF Drain, MInv, instVars, lockVars
<1>2. Threaded' /\ Backed' /\ Locks'
  BY <1>1 DEF Drain, threadVars, MInv, Threaded, AtOp, UnsavedUntouched, Backed, Locks, Method
<1>3. Tables'
  BY DEF Drain, MInv, Tables, portVars, P!PortTypeOK
<1>4. Phases'
  BY <1>1 DEF Drain, MayBootAgain, threadVars, MInv, Phases
<1>5. QED
  BY <1>1, <1>2, <1>3, <1>4 DEF MInv

(* The stop goroutines begin while no request, and so no creation, runs.   *)
LEMMA ShutdownBeginKeeps ==
  ASSUME MInv, ShutdownBegin
  PROVE  MInv'
<1> DEFINE stops(t) == t \in Stoppers /\ registry[t[2]] # None
<1>1. ObjInv' /\ UNCHANGED <<born, holder>>
  BY ObjStutters DEF ShutdownBegin, MInv, instVars, lockVars
<1>2. \A t \in Threads :
        \/ /\ stops(t) /\ pc[t] = "idle"
           /\ pc'[t] = "check" /\ op'[t] = "shutdown" /\ obj'[t] = registry[t[2]]
        \/ pc'[t] = pc[t] /\ op'[t] = op[t] /\ obj'[t] = obj[t]
  BY DEF ShutdownBegin, MInv, Phases
<1>3. \A t \in Threads : stops(t) => registry[t[2]] \in Objs /\ registry[t[2]] \in born
  BY DEF Stoppers, MInv, Tables, Backed
<1>4. \A t \in Threads : op[t] # "create"
  BY NullAssumption DEF ShutdownBegin, MInv, Threaded, AtOp
<1>5. Threaded'
  <2>1. pc' \in [Threads -> Labels] /\ op' \in [Threads -> Operations \cup {None}]
    BY DEF ShutdownBegin, MInv, Threaded, Labels, Operations
  <2>2. obj' \in [Threads -> Objs \cup {None}] /\ snap' = snap
    BY <1>3 DEF ShutdownBegin, MInv, Threaded
  <2>3. AtOp'
    BY <1>2, <1>3, <2>2, NullAssumption DEF MInv, Threaded, AtOp, Fits
  <2>4. UnsavedUntouched'
    BY <1>2, <1>4 DEF UnsavedUntouched
  <2> QED
    BY <2>1, <2>2, <2>3, <2>4 DEF MInv, Threaded
<1>6. Tables'
  BY DEF ShutdownBegin, MInv, Tables, portVars, P!PortTypeOK
<1>7. Backed'
  BY <1>1, <1>2, <1>3 DEF ShutdownBegin, MInv, Backed
<1>8. Phases'
  BY DEF ShutdownBegin, MInv, Phases
<1>9. Locks'
  BY <1>1, <1>2, LocksStay DEF MInv, Method
<1>10. QED
  BY <1>1, <1>5, <1>6, <1>7, <1>8, <1>9 DEF MInv

(* Every object of a boot is new, stopped and has neither port nor         *)
(* resolver.                                                               *)
LEMMA BootKeeps ==
  ASSUME MInv, Boot
  PROVE  MInv'
<1>1. PICK loaded \in SUBSET Names :
        /\ \A n \in loaded : rows[n] # None
        /\ born' = {<<n, made + 1>> : n \in loaded}
        /\ opts' = [o \in Objs |-> IF o \in born' THEN rows[Name(o)].opts ELSE None]
        /\ hasResolver' = [o \in Objs |-> o \in born' /\ LoadedResolver]
        /\ registry' = [n \in Names |-> IF n \in loaded THEN <<n, made + 1>> ELSE None]
        /\ \A t \in Threads : pc'[t] = pc[t] \/ (t \in Autos /\ pc'[t] = "lookup")
        /\ pc' \in [Threads -> Labels]
  <2>1. PICK loaded \in {{n \in Names : rows[n] # None}} \cup (IF DbFaults THEN {{}} ELSE {}) :
          /\ born' = {<<n, made + 1>> : n \in loaded}
          /\ opts' = [o \in Objs |-> IF o \in born' THEN rows[Name(o)].opts ELSE None]
          /\ hasResolver' = [o \in Objs |-> o \in born' /\ LoadedResolver]
          /\ registry' = [n \in Names |-> IF n \in loaded THEN <<n, made + 1>> ELSE None]
          /\ pc' = [t \in Threads |->
                      IF t \in Autos
                         /\ t[2] \in {n \in loaded : rows[n].status = Running
                                                  /\ rows[n].opts \in AutoRestart}
                      THEN "lookup" ELSE pc[t]]
    BY DEF Boot
  <2>2. loaded \in SUBSET Names /\ \A n \in loaded : rows[n] # None
    OBVIOUS
  <2>3. pc' \in [Threads -> Labels]
    BY <2>1 DEF MInv, Threaded, Labels
  <2> QED
    BY <2>1, <2>2, <2>3
<1>2. /\ server = "down" /\ server' = "up" /\ boots' = boots + 1 /\ made' = made + 1
      /\ UNCHANGED <<status, pid, cmd, shuttingDown, port, lockVars, procVars,
                     portVars, rows, op, obj, snap>>
  BY DEF Boot
<1>3. /\ born = {} /\ made + 1 \in 1 .. MaxMade /\ boots + 1 \in 1 .. MaxBoots
      /\ \A t \in Threads : pc[t] = "idle"
  BY <1>2, ManagerAssumption DEF MInv, Phases, Tables
<1>4. \A n \in Names : <<n, made + 1>> \in Objs /\ Name(<<n, made + 1>>) = n
  BY <1>3 DEF Objs, Name
<1>5. \A o \in born' : o \in Objs /\ o[2] = made + 1 /\ rows[Name(o)] \in Rows
  BY <1>1, <1>4 DEF MInv, Tables
<1>6. \A o \in Objs : status[o] = Stopped /\ holder[o] = "none" /\ pid[o] = None /\ cmd[o] = None
  BY <1>3, SameStatuses DEF MInv, ObjInv, PidRests, I!InstTypeOK, I!LockOK
<1>7. ObjInv'
  <2>1. opts' \in [Objs -> Options \cup {None}] /\ OptsKnown'
    BY <1>1, <1>5 DEF Rows, OptsKnown
  <2>2. hasResolver' = [o \in Objs |-> FALSE]
    BY <1>1 DEF LoadedResolver
  <2>3. I!InstTypeOK'
    BY <1>2, <1>3, <1>5, <1>6, <2>1, <2>2
    DEF lockVars, procVars, MInv, ObjInv, I!InstTypeOK, I!LockOK
  <2>4. PidRests' /\ PortsKnown'
    BY <1>2, <2>2 DEF lockVars, procVars, MInv, ObjInv, PidRests, PortsKnown, LaunchesHavePorts
  <2> QED
    BY <2>1, <2>3, <2>4 DEF ObjInv
<1>8. Threaded'
  <2>1. \A t \in Threads : pc'[t] \in {"idle", "lookup"} /\ op[t] = None /\ obj[t] = None
    BY <1>1, <1>3 DEF MInv, Threaded, AtOp
  <2>2. AtOp'
    BY <1>1, <1>2, <1>3, <2>1, NullAssumption DEF AtOp, Fits
  <2>3. UnsavedUntouched'
    BY <1>2 DEF MInv, Threaded, UnsavedUntouched
  <2> QED
    BY <1>1, <1>2, <2>2, <2>3 DEF MInv, Threaded
<1>9. Tables'
  BY <1>1, <1>2, <1>3, <1>4 DEF portVars, MInv, Tables, P!PortTypeOK
<1>10. Backed'
  <2>1. \A t \in Threads : obj'[t] = None
    BY <1>2, <1>3 DEF MInv, Threaded, AtOp
  <2>2. \A n \in Names : registry'[n] # None => registry'[n] \in born'
    BY <1>1
  <2>3. \A o \in born' : o[2] <= made'
    BY <1>2, <1>3, <1>5
  <2> QED
    BY <2>1, <2>2, <2>3 DEF Backed
<1>11. Phases'
  <2>1. \A t \in Stoppers : t \in Threads /\ t \notin Autos
    BY DEF Threads, Stoppers, Autos
  <2> QED
    BY <1>1, <1>2, <1>3, <2>1 DEF Phases
<1>12. Locks'
  <2>1. \A t \in Threads : Method(t)' = "none"
    BY <1>1, <1>3 DEF Method
  <2> QED
    BY <1>2, <1>5, <1>6, <2>1 DEF Locks, lockVars
<1>13. QED
  BY <1>7, <1>8, <1>9, <1>10, <1>11, <1>12 DEF MInv

-----------------------------------------------------------------------------

(* The invariant holds of a server with nothing in its database.            *)
LEMMA InitMInv == Init => MInv
<1> SUFFICES ASSUME Init PROVE MInv
  OBVIOUS
<1>1. ObjInv
  BY SameStatuses
  DEF Init, I!InstInit, ObjInv, I!InstTypeOK, I!LockOK, PidRests, PortsKnown,
      LaunchesHavePorts, OptsKnown, Statuses, Stopped
<1>2. \A t \in Threads : pc[t] = "idle" /\ op[t] = None /\ obj[t] = None /\ snap[t] = None
  BY DEF Init, EachThread
<1>3. Threaded
  <2>1. AtOp /\ UnsavedUntouched
    BY <1>2, NullAssumption DEF AtOp, Fits, UnsavedUntouched
  <2> QED
    BY <2>1 DEF Init, EachThread, Threaded, Labels
<1>4. Tables
  BY PortAssumption, ManagerAssumption DEF Init, P!PortInit, Tables, P!PortTypeOK, P!Port
<1>5. Backed /\ Locks
  BY <1>2 DEF Init, I!InstInit, Backed, Locks, Method
<1>6. Phases
  BY <1>2 DEF Init, Phases, Threads
<1>7. QED
  BY <1>1, <1>3, <1>4, <1>5, <1>6 DEF MInv

(* One step: one case per action.                                          *)
LEMMA StepMInv == MInv /\ [Next]_vars => MInv'
<1> SUFFICES ASSUME MInv, [Next]_vars PROVE MInv'
  OBVIOUS
<1>1. ASSUME NEW c \in Clients, Call(c) PROVE MInv'
  <2>1. CASE Refused(c)
    BY <2>1, StutterKeeps DEF Refused
  <2>2. CASE \E n \in Names :
               \/ \E x \in Options : Create(c, n, x)
               \/ CreateInvalid(c, n)
               \/ \E how \in Requests : Request(c, n, how)
    BY <2>2, CreateKeeps, CreateInvalidKeeps, RequestKeeps
  <2> QED
    BY <1>1, <2>1, <2>2 DEF Call
<1>2. ASSUME NEW t \in Threads, Step(t) PROVE MInv'
  BY <1>2, CheckKeeps, StartCallKeeps, StartReturnKeeps, StopCallKeeps, StopReturnKeeps,
     FreePortKeeps, MarkStoppedKeeps, UnregisterKeeps, DeleteRowKeeps, UpdateKeeps,
     SaveReadKeeps, SaveExecKeeps, SaveFailsKeeps
  DEF Step
<1>3. ASSUME NEW t \in Autos, AutoLookup(t) PROVE MInv'
  BY <1>3, AutoLookupKeeps
<1>4. ASSUME NEW w \in Waiters, Wait(w) PROVE MInv'
  <2>1. w \in Threads
    BY DEF Threads
  <2> QED
    BY <1>4, <2>1, PollKeeps, MarkRunningKeeps, MarkFailedKeeps, MarkFailedReturnKeeps
    DEF Wait
<1>5. ASSUME NEW p \in Launches, Process(p) PROVE MInv'
  BY <1>5, ManProcessKeeps
<1>6. CASE World
  <2>1. CASE Crash
    BY <2>1, ServerGoneKeeps DEF Crash, MayBootAgain
  <2>2. CASE ShutdownEnd
    BY <2>2, ServerGoneKeeps DEF ShutdownEnd, MInv, Phases
  <2> QED
    BY <1>6, <2>1, <2>2, DrainKeeps, ShutdownBeginKeeps, BootKeeps DEF World
<1>7. CASE UNCHANGED vars
  BY <1>7, StutterKeeps
<1> QED
  BY <1>1, <1>2, <1>3, <1>4, <1>5, <1>6, <1>7 DEF Next

(* The inductive invariant holds in every behaviour.                       *)
THEOREM ManagerInvariant == Spec => []MInv
BY InitMInv, StepMInv, PTL DEF Spec

(* Types, of objects, threads and tables, across crashes and boots.        *)
THEOREM ManagerTypeCorrect == Spec => []TypeOK
<1>1. MInv => TypeOK
  BY DEF MInv, ObjInv, Threaded, Tables, TypeOK, Labels, Operations, Rows
<1>2. QED
  BY <1>1, ManagerInvariant, PTL

(* No llama-server is launched without a port, also not by an instance     *)
(* that was loaded from the database: it has no resolver either.           *)
THEOREM EveryLaunchHasAPort == Spec => []LaunchesHavePorts
<1>1. MInv => LaunchesHavePorts
  BY DEF MInv, ObjInv, PortsKnown
<1>2. QED
  BY <1>1, ManagerInvariant, PTL

(* A creation that may have to be taken back has its object to itself,     *)
(* however many requests, waiters and restarts run.                        *)
THEOREM CreationsAreAlone == Spec => []UnsavedUntouched
<1>1. MInv => UnsavedUntouched
  BY DEF MInv, Threaded
<1>2. QED
  BY <1>1, ManagerInvariant, PTL

(* An instance shown at rest shows no PID, whoever raced to set its status. *)
THEOREM RestShowsNoPid == Spec => []NoPidAtRest
<1>1. MInv => NoPidAtRest
  BY DEF MInv, ObjInv, PidRests, NoPidAtRest, I!InstTypeOK
<1>2. QED
  BY <1>1, ManagerInvariant, PTL

(* The mutex of an object is held by exactly one thread, inside one of the *)
(* object's methods, or by none.                                           *)
THEOREM MutexesHaveOneHolder == Spec => []LockHasOneThread
<1>1. MInv => LockHasOneThread
  <2> SUFFICES ASSUME MInv, NEW o \in born
               PROVE  Cardinality({t \in Threads :
                        obj[t] = o /\ pc[t] \in {"starting", "stopping", "failing"}})
                      = IF holder[o] = "none" THEN 0 ELSE 1
    BY DEF LockHasOneThread
  <2> DEFINE H == {t \in Threads : obj[t] = o /\ pc[t] \in {"starting", "stopping", "failing"}}
  <2>1. \A t \in Threads : pc[t] \in {"starting", "stopping", "failing"} <=> Method(t) # "none"
    BY DEF Method
  <2>2. CASE holder[o] = "none"
    <3>1. H = {}
      BY <2>1, <2>2 DEF MInv, Locks
    <3> QED
      BY <2>2, <3>1, FS_EmptySet
  <2>3. CASE holder[o] # "none"
    <3>1. PICK t \in Threads : t \in H
      BY <2>1, <2>3 DEF MInv, Locks
    <3>2. \A u \in H : u = t
      BY <2>1, <3>1 DEF MInv, Locks
    <3>3. H = {t}
      BY <3>1, <3>2
    <3> QED
      BY <2>3, <3>3, FS_Singleton
  <2> QED
    BY <2>2, <2>3
<1>2. QED
  BY <1>1, ManagerInvariant, PTL

-----------------------------------------------------------------------------
(* The manager as the caller of PortAllocator.tla.                         *)

(* Giving back the port of an object, also of one without a port.          *)
LEMMA FreesByName ==
  ASSUME MInv, NEW t \in Threads, pc[t] \notin {"idle", "lookup"}, P!Free(port[obj[t]])
  PROVE  P!PortNext \/ UNCHANGED portVars
<1>1. port[obj[t]] \in P!Port \cup {NoPort} /\ NoPort \notin P!Port
  BY HasObject, PortAssumption DEF P!Port
<1>2. CASE port[obj[t]] \in P!Port
  BY <1>2 DEF P!PortNext
<1>3. CASE port[obj[t]] \notin P!Port
  BY <1>3 DEF P!Free, portVars, MInv, Tables, P!PortTypeOK
<1> QED
  BY <1>1, <1>2, <1>3

(* A step of the system on the ports is one of the allocator's operations, *)
(* until the server process ends.                                          *)
LEMMA NextAllocates ==
  MInv /\ [Next]_vars => P!PortNext \/ ServerGone \/ UNCHANGED portVars
<1> SUFFICES ASSUME MInv, [Next]_vars PROVE P!PortNext \/ ServerGone \/ UNCHANGED portVars
  OBVIOUS
<1>1. ASSUME NEW c \in Clients, Call(c) PROVE P!PortNext \/ UNCHANGED portVars
  BY <1>1 DEF Call, Refused, Create, CreateInvalid, Request, P!PortNext, vars
<1>2. ASSUME NEW t \in Threads, Step(t) PROVE P!PortNext \/ UNCHANGED portVars
  <2>1. CASE FreePort(t) \/ (SaveFails(t) /\ op[t] = "create")
    BY <2>1, FreesByName DEF FreePort, SaveFails
  <2>2. CASE SaveFails(t) /\ op[t] # "create"
    BY <2>2 DEF SaveFails
  <2>3. CASE ~FreePort(t) /\ ~SaveFails(t)
    BY <1>2, <2>3
    DEF Step, Check, StartCall, StartReturn, StopCall, StopReturn, MarkStopped, Unregister,
        DeleteRow, Update, SaveRead, SaveExec
  <2> QED
    BY <2>1, <2>2, <2>3
<1>3. CASE \/ \E t \in Autos : AutoLookup(t)
           \/ \E w \in Waiters : Wait(w)
           \/ \E p \in Launches : Process(p)
  BY <1>3 DEF AutoLookup, Wait, Poll, MarkRunning, MarkFailed, MarkFailedReturn, Process
<1>4. CASE World
  BY <1>4 DEF World, Crash, ShutdownEnd, Drain, ShutdownBegin, Boot
<1>5. CASE UNCHANGED vars
  BY <1>5 DEF vars
<1> QED
  BY <1>1, <1>2, <1>3, <1>4, <1>5 DEF Next

(* What is proved of the allocator under any calls holds in the manager:   *)
(* it calls Allocate and Free only, with its own names, until the end of   *)
(* the server process begins the allocator anew.                           *)
THEOREM ManagerUsesAllocator ==
  Spec => P!PortInit /\ [][P!PortNext \/ ServerGone]_portVars
<1>1. Init => P!PortInit
  BY DEF Init
<1>2. MInv /\ [Next]_vars => [P!PortNext \/ ServerGone]_portVars
  BY NextAllocates
<1>3. QED
  BY <1>1, <1>2, ManagerInvariant, PTL DEF Spec


-----------------------------------------------------------------------------
(* The manager as the caller of Instance.tla.                              *)

(* The kinds of thread are apart.                                          *)
LEMMA KindsApart ==
  /\ Clients \cap (Launches \cup Autos \cup Stoppers) = {}
  /\ Launches \cap (Autos \cup Stoppers) = {} /\ Autos \cap Stoppers = {}
  /\ Threads = Clients \cup Launches \cup Autos \cup Stoppers
BY ThreadAssumption DEF Autos, Stoppers, Threads, Waiters

(* A step of an operation is a step of one thread, unless it leaves a      *)
(* waiter behind.                                                          *)
LEMMA OthersStay ==
  ASSUME MInv, NEW t \in Threads, Step(t) \/ (t \in Waiters /\ Wait(t)), ~SaveExec(t)
  PROVE  \A u \in Threads \ {t} : pc'[u] = pc[u] /\ op'[u] = op[u] /\ obj'[u] = obj[u]
<1>1. Ends(t) => \A u \in Threads \ {t} : pc'[u] = pc[u] /\ op'[u] = op[u] /\ obj'[u] = obj[u]
  BY DEF Ends, MInv, Threaded
<1>2. \A l : Goto(t, l) =>
        \A u \in Threads \ {t} : pc'[u] = pc[u] /\ op'[u] = op[u] /\ obj'[u] = obj[u]
  BY DEF Goto, MInv, Threaded
<1>3. SaveRead(t) =>
        \A u \in Threads \ {t} : pc'[u] = pc[u] /\ op'[u] = op[u] /\ obj'[u] = obj[u]
  BY DEF SaveRead, MInv, Threaded
<1>4. Ends(t) \/ (\E l : Goto(t, l)) \/ SaveRead(t) \/ UNCHANGED threadVars
  BY DEF Step, Wait, Check, StartCall, StartReturn, StopCall, StopReturn, Stopping, FreePort,
         MarkStopped, Unregister, DeleteRow, Update, SaveFails, Poll, MarkRunning, MarkFailed,
         MarkFailedReturn
<1>5. QED
  BY <1>1, <1>2, <1>3, <1>4 DEF threadVars

Watching == {"poll", "markRunning", "markFailed", "failing"}

(* A thread that will end a start: Start itself, then its caller until it  *)
(* has saved the row, then the waiter.                                     *)
Watches(t) ==
  \/ pc[t] \in Watching
  \/ op[t] \in {"start", "restart"} /\ pc[t] \in {"save", "exec"}

Attends(t) == pc[t] = "starting" \/ Watches(t)

(* What is watched was launched, so it has a resolver.                     *)
Resolved == \A t \in Threads : Watches(t) => hasResolver[obj[t]]

(* The steps of an object, but for its making and the mark of MarkStopped. *)
ObjStep(o) ==
  \/ I!StartRefused(o) \/ I!StartBegin(o) \/ I!StartStep(o)
  \/ I!StopNil(o) \/ I!StopRefused(o) \/ I!StopBegin(o)
  \/ I!MarkFailedBegin(o) \/ I!ProcessStop(o)
  \/ hasResolver[o] /\ I!MarkRunning(o)
  \/ \E x \in Options : I!SetOpts(o, x)

(* registry.markStopped finds an object under the name, this or another.   *)
Marks(t) ==
  /\ MarkStopped(t)
  /\ pc[t] = "markStopped" /\ registry[Name(obj[t])] # None
  /\ I!MarkStopped(registry[Name(obj[t])])

(* A step of an operation is a step of its object, the mark, or none.      *)
LEMMA StepCalls ==
  ASSUME MInv, Resolved, NEW t \in Threads, Step(t) \/ (t \in Waiters /\ Wait(t))
  PROVE  /\ obj[t] \in Objs /\ made' = made
         /\ ObjStep(obj[t]) \/ Marks(t) \/ UNCHANGED instVars
<1>1. obj[t] \in Objs /\ made' = made
  BY HasObject DEF Step, Wait, Check, StartCall, StartReturn, StopCall, StopReturn, FreePort, MarkStopped,
      Unregister, DeleteRow, Update, SaveRead, SaveExec, SaveFails, Poll, MarkRunning,
      MarkFailed, MarkFailedReturn, worldVars
<1> SUFFICES ObjStep(obj[t]) \/ Marks(t) \/ UNCHANGED instVars
  BY <1>1
<1>2. CASE StartCall(t) \/ MarkFailed(t) \/ Update(t)
  BY <1>2 DEF StartCall, MarkFailed, Update, ObjStep
<1>3. CASE StartReturn(t)
  BY <1>3 DEF StartReturn, ObjStep, I!StartStep
<1>4. CASE StopCall(t)
  BY <1>4 DEF StopCall, ObjStep
<1>5. CASE StopReturn(t) \/ MarkFailedReturn(t)
  BY <1>5 DEF StopReturn, MarkFailedReturn, ObjStep, I!ProcessStop
<1>6. CASE MarkStopped(t)
  BY <1>6 DEF MarkStopped, Marks
<1>7. CASE MarkRunning(t)
  BY <1>7 DEF MarkRunning, ObjStep, Resolved, Watches, Watching
<1>8. CASE \/ Check(t) \/ FreePort(t) \/ Unregister(t) \/ DeleteRow(t) \/ SaveRead(t)
           \/ SaveExec(t) \/ SaveFails(t) \/ Poll(t)
  BY <1>8 DEF Check, FreePort, Unregister, DeleteRow, SaveRead, SaveExec, SaveFails, Poll
<1> QED
  BY <1>2, <1>3, <1>4, <1>5, <1>6, <1>7, <1>8 DEF Step, Wait

(* So is one of the system, but for the end of a server and a boot.        *)
ObjsStep ==
  \/ \E o \in Objs : ObjStep(o) /\ made' = made
  \/ \E t \in Threads : Marks(t) /\ made' = made
  \/ \E p \in Launches : (I!Listens(p) \/ I!Exits(p)) /\ made' = made
  \/ \E o \in Objs, pt \in P!Port, x \in Options :
       I!New(o, pt, TRUE, x) /\ made' = made + 1 /\ o[2] = made + 1
  \/ ServerGone \/ Boot
  \/ UNCHANGED <<instVars, made>>

(* Every step of the manager is a step of one object, its making, a mark,  *)
(* a step of a process, the end of a server, a boot, or leaves the         *)
(* objects.                                                                *)
LEMMA NextCalls == MInv /\ Resolved /\ [Next]_vars => ObjsStep
<1> SUFFICES ASSUME MInv, Resolved, [Next]_vars PROVE ObjsStep
  OBVIOUS
<1>1. ASSUME NEW c \in Clients, Call(c) PROVE ObjsStep
  <2>1. ASSUME NEW n \in Names, NEW x \in Options, Create(c, n, x) PROVE ObjsStep
    <3>1. <<n, made + 1>> \in Objs
      BY <2>1, ManagerAssumption DEF Create, MInv, Tables, Objs
    <3> QED
      BY <2>1, <3>1 DEF Create, ObjsStep
  <2> QED
    BY <1>1, <2>1 DEF Call, Refused, CreateInvalid, Request, vars, worldVars, ObjsStep
<1>2. ASSUME NEW t \in Threads, Step(t) \/ (t \in Waiters /\ Wait(t)) PROVE ObjsStep
  BY <1>2, StepCalls DEF ObjsStep
<1>3. ASSUME NEW t \in Autos, AutoLookup(t) PROVE ObjsStep
  BY <1>3 DEF AutoLookup, worldVars, ObjsStep
<1>4. ASSUME NEW p \in Launches, Process(p) PROVE ObjsStep
  BY <1>4 DEF Process, worldVars, ObjsStep
<1>5. CASE World
  BY <1>5 DEF World, Crash, ShutdownEnd, Drain, ShutdownBegin, ObjsStep
<1>6. CASE UNCHANGED vars
  BY <1>6 DEF vars, worldVars, ObjsStep
<1> QED
  BY <1>1, <1>2, <1>3, <1>4, <1>5, <1>6 DEF Next, Waiters, Threads

(* What a step of an object does to it.  No process changes unless it is   *)
(* launched.                                                               *)
Sets(o, s, h) ==
  /\ status' = [status EXCEPT ![o] = s]
  /\ holder' = [holder EXCEPT ![o] = h]
  /\ UNCHANGED <<born, hasResolver, cmd, pstate, powner>>

StartMoves(o) ==
  \/ holder[o] = "none" /\ status[o] \in {Stopped, Failed} /\ Sets(o, Restarting, "start")
  \/ holder[o] = "start" /\ Sets(o, Failed, "none")
  \/ holder[o] = "start" /\ hasResolver[o] /\ Sets(o, Restarting, "none")

StopMoves(o) ==
  \/ holder[o] = "none" /\ status[o] = Running /\ Sets(o, ShuttingDown, "stop")
  \/ holder[o] = "none" /\ Sets(o, status[o], "fail")
  \/ /\ holder[o] = "stop" /\ (cmd[o] = None \/ ~I!Live(cmd[o]))
     /\ \E s \in {Stopped, ShuttingDown} : Sets(o, s, "none")
  \/ holder[o] = "fail" /\ (cmd[o] = None \/ ~I!Live(cmd[o])) /\ Sets(o, Failed, "none")

ObjMoves(o) ==
  \/ Sets(o, status[o], holder[o])
  \/ o \in born /\ (StartMoves(o) \/ StopMoves(o))
  \/ o \in born /\ \E p \in Launches : I!StartLaunches(o, p)
  \/ o \in born /\ holder[o] = "none" /\ hasResolver[o] /\ Sets(o, Running, "none")

(* A step of an object moves it as ObjMoves says.                          *)
LEMMA ObjStepMoves ==
  ASSUME MInv, NEW o \in Objs, ObjStep(o)
  PROVE  ObjMoves(o)
<1>1. /\ status \in [Objs -> Statuses] /\ holder \in [Objs -> {"none", "start", "stop", "fail"}]
      /\ holder[o] = "start" => status[o] = Restarting
      /\ holder[o] = "stop" => status[o] = ShuttingDown
      /\ stage[o] # "none" => holder[o] \in {"stop", "fail"}
      /\ holder[o] # "none" => o \in born
  BY SameStatuses DEF MInv, ObjInv, I!InstTypeOK, I!LockOK
<1>2. CASE UNCHANGED instVars
  BY <1>1, <1>2 DEF instVars, lockVars, procVars, ObjMoves, Sets
<1>3. CASE \E x \in Options : I!SetOpts(o, x)
  BY <1>1, <1>3 DEF I!SetOpts, I!lockVars, I!procVars, ObjMoves, Sets
<1>4. CASE I!StartBegin(o)
  <2>1. o \in born /\ holder[o] = "none" /\ status[o] \in {Stopped, Failed}
    BY <1>1, <1>4, SameStatuses
    DEF I!StartBegin, I!Unlocked, CanSet, statusTransitions, Statuses, Stopped, Failed,
        Restarting, Running, ShuttingDown
  <2> QED
    BY <1>4, <2>1, SameStatuses DEF I!StartBegin, I!procVars, ObjMoves, StartMoves, Sets
<1>5. CASE I!StartStep(o)
  <2>1. CASE \E p \in Launches : I!StartLaunches(o, p)
    BY <1>1, <2>1 DEF I!StartLaunches, ObjMoves
  <2>2. CASE I!StartFails(o)
    BY <1>1, <2>2, SameStatuses DEF I!StartFails, I!procVars, ObjMoves, StartMoves, Sets
  <2>3. CASE I!StartNoBinary(o)
    BY <1>1, <2>3, SameStatuses DEF I!StartNoBinary, I!objVars, I!procVars, ObjMoves, StartMoves, Sets
  <2> QED
    BY <1>5, <2>1, <2>2, <2>3 DEF I!StartStep
<1>6. CASE I!StopBegin(o)
  <2>1. o \in born /\ holder[o] = "none" /\ status[o] = Running
    BY <1>1, <1>6, SameStatuses
    DEF I!StopBegin, I!Unlocked, CanSet, statusTransitions, Statuses, Stopped, Failed,
        Restarting, Running, ShuttingDown
  <2> QED
    BY <1>6, <2>1, SameStatuses DEF I!StopBegin, I!procVars, ObjMoves, StopMoves, Sets
<1>7. CASE I!MarkFailedBegin(o)
  BY <1>1, <1>7 DEF I!MarkFailedBegin, I!Unlocked, I!objVars, I!procVars, ObjMoves, StopMoves, Sets
<1>8. CASE I!StopGoesOn(o)
  BY <1>1, <1>8
  DEF I!StopGoesOn, I!KillSent, I!GraceEnds, I!RekillSent, I!StageGoes, I!objVars, I!procVars,
      ObjMoves, Sets
<1>9. CASE I!StopSucceeds(o) \/ I!StopErrs(o)
  <2>1. /\ holder[o] \in {"stop", "fail"} /\ o \in born
        /\ I!StopReturns(o, TRUE) \/ I!StopReturns(o, FALSE)
        /\ cmd[o] = None \/ ~I!Live(cmd[o])
    BY <1>1, <1>9
    DEF I!StopSucceeds, I!StopErrs, I!KillNoProcess, I!DoneClosed, I!KillReaped, I!RekillReaped
  <2>2. /\ holder' = [holder EXCEPT ![o] = "none"]
        /\ UNCHANGED <<born, hasResolver, cmd, pstate, powner>>
    BY <2>1 DEF I!StopReturns, I!procVars
  <2>3. CASE holder[o] = "fail"
    <3>1. status' = [status EXCEPT ![o] = Failed]
      BY <2>1, <2>3, SameStatuses DEF I!StopReturns
    <3> QED
      BY <2>1, <2>2, <2>3, <3>1 DEF ObjMoves, StopMoves, Sets
  <2>4. CASE holder[o] = "stop"
    <3>1. status' = [status EXCEPT ![o] = Stopped] \/ status' = [status EXCEPT ![o] = ShuttingDown]
      BY <1>1, <2>1, <2>4, SameStatuses DEF I!StopReturns
    <3> QED
      BY <2>1, <2>2, <2>4, <3>1 DEF ObjMoves, StopMoves, Sets
  <2> QED
    BY <2>1, <2>3, <2>4
<1>10. CASE hasResolver[o] /\ I!MarkRunning(o)
  BY <1>1, <1>10, SameStatuses
  DEF I!MarkRunning, I!Forced, I!Unlocked, I!lockVars, I!procVars, ObjMoves, Sets
<1>11. CASE I!StartRefused(o) \/ I!StopNil(o) \/ I!StopRefused(o)
  BY <1>2, <1>11, SameVars DEF I!StartRefused, I!StopNil, I!StopRefused
<1> QED
  BY <1>3, <1>4, <1>5, <1>6, <1>7, <1>8, <1>9, <1>10, <1>11 DEF ObjStep, I!ProcessStop

-----------------------------------------------------------------------------
(* Which thread performs which operation.                                  *)
KindOf(t) ==
  /\ op[t] \in {"create", "stop", "restart", "delete", "update"} => t \in Clients
  /\ op[t] = "start" => t \in Clients \cup Autos
  /\ op[t] = "shutdown" => t \in Stoppers
  /\ pc[t] = "update" => op[t] = "update"
  /\ pc[t] = "markStopped" => op[t] = "stop"
  /\ pc[t] \in {"unregister", "deleteRow"} => op[t] = "delete"
  /\ pc[t] \in Watching => op[t] = "wait"

Kinds == \A t \in Threads : KindOf(t)

(* Where a thread that goes on has arrived.                                *)
LEMMA GoesTo ==
  ASSUME MInv, NEW t \in Threads
  PROVE  /\ \A l : Goto(t, l) => pc'[t] = l /\ op' = op /\ obj' = obj
         /\ Ends(t) => pc'[t] = "idle" /\ op'[t] = None /\ obj'[t] = None
BY DEF Goto, Ends, MInv, Threaded

(* A thread in an operation keeps to its kind.  It attends to its object   *)
(* from the moment when Start has begun, and watches it once launched.     *)
LEMMA StepKinds ==
  ASSUME MInv, Kinds, NEW t \in Threads, Step(t) \/ (t \in Waiters /\ Wait(t)), ~SaveExec(t)
  PROVE  /\ KindOf(t)'
         /\ Watches(t)' =>
              /\ obj'[t] = obj[t]
              /\ Watches(t) \/ \E p \in Launches : I!StartLaunches(obj[t], p)
         /\ Attends(t)' =>
              /\ obj'[t] = obj[t]
              /\ Attends(t) \/ I!StartBegin(obj[t])
<1>1. Fits(pc[t], op[t]) /\ KindOf(t)
  BY DEF MInv, Threaded, AtOp, Kinds
<1>2. CASE Ends(t)
  BY <1>2, GoesTo, NullAssumption DEF KindOf, Watches, Attends, Watching
<1>3. CASE Check(t) \/ FreePort(t) \/ Unregister(t)
  <2>1. PICK l \in {"start", "stop", "unregister", "update", "markStopped", "deleteRow"} :
          /\ l = "update" => op[t] = "update"
          /\ l = "markStopped" => op[t] = "stop"
          /\ l \in {"unregister", "deleteRow"} => op[t] = "delete"
          /\ Goto(t, l) \/ Ends(t)
    BY <1>1, <1>3 DEF Check, FreePort, Unregister, AfterCheck, Fits, KindOf
  <2> QED
    BY <1>1, <1>2, <2>1, GoesTo DEF KindOf, Watches, Attends, Watching
<1>4. CASE StopCall(t) \/ StopReturn(t)
  <2>1. \/ UNCHANGED threadVars /\ pc[t] = "stopping"
        \/ Ends(t)
        \/ \E l \in {"stopping", "free", "start"} : Goto(t, l)
    BY <1>1, <1>4 DEF StopCall, StopReturn, Stopping, AfterStop, Fits
  <2> QED
    BY <1>1, <1>2, <2>1, GoesTo DEF KindOf, Watches, Attends, Watching, threadVars
<1>5. CASE StartCall(t)
  BY <1>1, <1>2, <1>5, GoesTo DEF StartCall, KindOf, Watches, Attends, Watching
<1>6. CASE StartReturn(t)
  BY <1>1, <1>2, <1>6, GoesTo DEF StartReturn, Fits, KindOf, Watches, Attends, Watching
<1>7. CASE MarkStopped(t) \/ Update(t) \/ MarkRunning(t)
  BY <1>1, <1>2, <1>7, GoesTo
  DEF MarkStopped, Update, MarkRunning, KindOf, Watches, Attends, Watching
<1>8. CASE SaveRead(t)
  <2>1. pc[t] = "save" /\ pc'[t] = "exec" /\ op' = op /\ obj' = obj
    BY <1>8 DEF SaveRead, MInv, Threaded
  <2> QED
    BY <1>1, <2>1 DEF KindOf, Watches, Attends, Watching
<1>9. CASE Poll(t) \/ MarkFailed(t) \/ MarkFailedReturn(t)
  BY <1>1, <1>9, GoesTo
  DEF Poll, MarkFailed, MarkFailedReturn, KindOf, Watches, Attends, Watching, threadVars
<1>10. CASE DeleteRow(t) \/ SaveFails(t)
  BY <1>2, <1>10 DEF DeleteRow, SaveFails
<1> QED
  BY <1>3, <1>4, <1>5, <1>6, <1>7, <1>8, <1>9, <1>10 DEF Step, Wait

(* The health waiter takes over from the request that has started it.      *)
LEMMA SaveExecHandsOver ==
  ASSUME MInv, NEW t \in Threads, SaveExec(t)
  PROVE  /\ pc[t] = "exec" /\ pc'[t] = "idle" /\ op'[t] = None /\ obj'[t] = None
         /\ \/ \A u \in Threads \ {t} : pc'[u] = pc[u] /\ op'[u] = op[u] /\ obj'[u] = obj[u]
            \/ \E w \in Waiters \ {t} :
                 /\ op[t] \in {"start", "restart"} /\ w \in Threads
                 /\ pc'[w] = "poll" /\ op'[w] = "wait" /\ obj'[w] = obj[t]
                 /\ \A u \in Threads \ {t, w} :
                      pc'[u] = pc[u] /\ op'[u] = op[u] /\ obj'[u] = obj[u]
<1>1. CASE Ends(t)
  BY <1>1 DEF SaveExec, Ends, MInv, Threaded
<1>2. CASE ~Ends(t)
  <2>1. PICK w \in Waiters :
          /\ op[t] \in {"start", "restart"} /\ pc[w] = "idle"
          /\ pc' = [pc EXCEPT ![t] = "idle", ![w] = "poll"]
          /\ op' = [op EXCEPT ![t] = None, ![w] = "wait"]
          /\ obj' = [obj EXCEPT ![t] = None, ![w] = obj[t]]
    BY <1>2 DEF SaveExec, EndsWatched
  <2>2. w \in Threads /\ w # t /\ pc[t] = "exec"
    BY <2>1 DEF Threads, SaveExec
  <2> QED
    BY <2>1, <2>2 DEF MInv, Threaded
<1> QED
  BY <1>1, <1>2

(* A thread that begins an operation is no waiter and attends to nothing.  *)
Begins(t) ==
  /\ pc[t] \in {"idle", "lookup"}
  /\ \A u \in Threads \ {t} : pc'[u] = pc[u] /\ op'[u] = op[u] /\ obj'[u] = obj[u]
  /\ \/ pc'[t] = pc[t] /\ op'[t] = op[t] /\ obj'[t] = obj[t]
     \/ pc'[t] \in {"idle", "save", "check", "stop"} /\ ~Attends(t)' /\ KindOf(t)'

(* A call of a client begins what has a kind.                              *)
LEMMA CallBegins ==
  ASSUME MInv, NEW c \in Clients, Call(c)
  PROVE  Begins(c)
<1>1. c \in Threads /\ pc[c] = "idle"
  BY DEF Threads, Call, Refused, Create, CreateInvalid, Request, MayCall
<1>2. CASE UNCHANGED threadVars
  BY <1>1, <1>2 DEF threadVars, Begins
<1>3. CASE \E n \in Names, x \in Options : Create(c, n, x)
  <2>1. PICK n \in Names : Runs(c, "save", "create", <<n, made + 1>>)
    BY <1>3 DEF Create
  <2> QED
    BY <1>1, <2>1 DEF Runs, Begins, KindOf, Attends, Watches, Watching, MInv, Threaded
<1>4. CASE \E n \in Names, how \in Requests : Request(c, n, how)
  <2>1. PICK l \in {"check", "stop"}, how \in Requests, n \in Names :
          Runs(c, l, how, registry[n])
    BY <1>4 DEF Request
  <2> QED
    BY <1>1, <2>1 DEF Requests, Runs, Begins, KindOf, Attends, Watches, Watching, MInv, Threaded
<1> QED
  BY <1>2, <1>3, <1>4 DEF Call, Refused, CreateInvalid, vars

(* And so does what the goroutine of an auto-restart does first.           *)
LEMMA AutoBegins ==
  ASSUME MInv, NEW t \in Autos, AutoLookup(t)
  PROVE  Begins(t)
<1>1. t \in Threads /\ pc[t] = "lookup"
  BY DEF Threads, AutoLookup
<1>2. CASE Ends(t)
  BY <1>1, <1>2, NullAssumption
  DEF Ends, Begins, KindOf, Attends, Watches, Watching, MInv, Threaded
<1>3. ASSUME NEW o, Runs(t, "check", "start", o) PROVE Begins(t)
  BY <1>1, <1>3 DEF Runs, Begins, KindOf, Attends, Watches, Watching, MInv, Threaded
<1> QED
  BY <1>2, <1>3 DEF AutoLookup

(* The end of a server, a boot and a shutdown leave or begin no watch.     *)
LEMMA WorldThreads ==
  ASSUME MInv, World
  PROVE  \A u \in Threads :
           \/ pc'[u] = pc[u] /\ op'[u] = op[u] /\ obj'[u] = obj[u]
           \/ ~Attends(u)' /\ (op'[u] = op[u] \/ op'[u] = None \/ (op'[u] = "shutdown" /\ u \in Stoppers))
                /\ pc'[u] \in {"idle", "check", "lookup"}
<1>1. CASE ServerGone
  BY <1>1, NullAssumption DEF ServerGone, EachThread, Attends, Watches, Watching
<1>2. CASE Drain
  BY <1>2 DEF Drain, threadVars
<1>3. CASE ShutdownBegin
  BY <1>3 DEF ShutdownBegin, Attends, Watches, Watching
<1>4. CASE Boot
  <2>1. \A u \in Threads : pc'[u] \in {pc[u], "lookup"}
    BY <1>4 DEF Boot
  <2> QED
    BY <1>4, <2>1 DEF Boot, Attends, Watches, Watching
<1> QED
  BY <1>1, <1>2, <1>3, <1>4 DEF World, Crash, ShutdownEnd

-----------------------------------------------------------------------------
(* What holds of the objects and their processes whatever requests overlap. *)

(* No process belongs to an object that is still to be made.               *)
Rounds ==
  \A p \in Launches : pstate[p] # "none" => powner[p] \in Objs /\ powner[p][2] <= made

(* What the boot has loaded cannot be started.                             *)
Bare ==
  \A o \in born :
    ~hasResolver[o] =>
      /\ status[o] \in {Stopped, Restarting, Failed}
      /\ status[o] = Restarting => holder[o] = "start"

Equipped ==
  \A p \in Launches : pstate[p] # "none" /\ powner[p] \in born => hasResolver[powner[p]]

Base == MInv /\ Kinds /\ Resolved /\ Rounds /\ Bare /\ Equipped

(* A step that makes no process and no object.                             *)
LEMMA ObjsStay ==
  ASSUME Base, made' = made, UNCHANGED <<born, hasResolver, powner>>,
         \A p \in Launches : pstate'[p] # "none" => pstate[p] # "none",
         \A o \in born :
           ~hasResolver[o] =>
             /\ status'[o] \in {Stopped, Restarting, Failed}
             /\ status'[o] = Restarting => holder'[o] = "start"
  PROVE  Rounds' /\ Bare' /\ Equipped'
BY DEF Base, Rounds, Bare, Equipped

(* A step of an object keeps what holds of the objects and processes.      *)
LEMMA ObjMovesBase ==
  ASSUME Base, NEW o \in Objs, ObjMoves(o), made' = made
  PROVE  Rounds' /\ Bare' /\ Equipped'
<1>1. /\ status \in [Objs -> Statuses] /\ holder \in [Objs -> {"none", "start", "stop", "fail"}]
      /\ born \subseteq Objs
      /\ \A q \in born : ~hasResolver[q] =>
           /\ status[q] \in {Stopped, Restarting, Failed}
           /\ status[q] = Restarting => holder[q] = "start"
  BY SameStatuses DEF Base, MInv, ObjInv, I!InstTypeOK, Bare
<1>2. CASE Sets(o, status[o], holder[o])
  BY <1>1, <1>2, ObjsStay DEF Sets
<1>3. CASE o \in born /\ StartMoves(o)
  BY <1>1, <1>3, ObjsStay DEF StartMoves, Sets, Stopped, Restarting, Failed
<1>4. CASE o \in born /\ StopMoves(o)
  <2>1. holder[o] = "stop" => status[o] = ShuttingDown
    BY SameStatuses DEF Base, MInv, ObjInv, I!InstTypeOK, I!LockOK
  <2> QED
    BY <1>1, <1>4, <2>1, ObjsStay
    DEF StopMoves, Sets, Stopped, Restarting, Failed, Running, ShuttingDown
<1>5. CASE hasResolver[o] /\ Sets(o, Running, "none")
  BY <1>1, <1>5, ObjsStay DEF Sets
<1>6. ASSUME NEW p \in Launches, o \in born, I!StartLaunches(o, p)
      PROVE  Rounds' /\ Bare' /\ Equipped'
  <2>1. /\ UNCHANGED <<born, status, hasResolver>> /\ hasResolver[o]
        /\ holder' = [holder EXCEPT ![o] = "none"]
        /\ pstate' = [pstate EXCEPT ![p] = "up"] /\ powner' = [powner EXCEPT ![p] = o]
    BY <1>6 DEF I!StartLaunches
  <2>2. o[2] <= made /\ DOMAIN pstate = Launches /\ DOMAIN powner = Launches
    BY <1>6 DEF Base, MInv, Backed, ObjInv, I!InstTypeOK
  <2>3. Rounds' /\ Equipped'
    BY <2>1, <2>2 DEF Base, Rounds, Equipped
  <2>4. Bare'
    BY <1>1, <2>1 DEF Bare
  <2> QED
    BY <2>3, <2>4
<1> QED
  BY <1>2, <1>3, <1>4, <1>5, <1>6 DEF ObjMoves

(* A mark sets stopped.                                                    *)
LEMMA MarksSet ==
  ASSUME MInv, NEW t \in Threads, Marks(t)
  PROVE  /\ registry[Name(obj[t])] \in Objs /\ registry[Name(obj[t])] \in born
         /\ holder[registry[Name(obj[t])]] = "none"
         /\ Sets(registry[Name(obj[t])], Stopped, "none")
<1>1. registry[Name(obj[t])] \in Objs /\ registry[Name(obj[t])] \in born
  BY HasObject DEF Marks, MInv, Tables, Backed
<1>2. QED
  BY <1>1, SameStatuses
  DEF Marks, I!MarkStopped, I!Forced, I!Unlocked, I!lockVars, I!procVars, Sets, MInv, ObjInv,
      I!InstTypeOK

(* The objects of a boot are new, and at rest.                             *)
LEMMA BootMakes ==
  ASSUME MInv, Boot
  PROVE  /\ made' = made + 1 /\ made \in Nat /\ born = {}
         /\ UNCHANGED <<status, holder, cmd, pid, procVars>>
         /\ \A o \in born' : o \in Objs /\ o[2] = made + 1 /\ status[o] = Stopped /\ holder[o] = "none"
<1>1. /\ made' = made + 1 /\ born = {} /\ UNCHANGED <<status, holder, cmd, pid, procVars>>
  BY DEF Boot, lockVars, MInv, Phases
<1>2. made + 1 \in 1 .. MaxMade /\ made \in Nat
  BY ManagerAssumption DEF Boot, MInv, Phases, Tables
<1>3. \A o \in born' : o \in Objs /\ o[2] = made + 1
  <2>1. PICK loaded \in SUBSET Names : born' = {<<n, made + 1>> : n \in loaded}
    BY DEF Boot
  <2> QED
    BY <1>2, <2>1 DEF Objs
<1>4. \A o \in Objs : status[o] = Stopped /\ holder[o] = "none"
  BY <1>1, SameStatuses DEF MInv, ObjInv, I!InstTypeOK, I!LockOK
<1>5. QED
  BY <1>1, <1>2, <1>3, <1>4

(* A step of the manager keeps what holds of the objects and processes.    *)
LEMMA NextObjs == Base /\ [Next]_vars => Rounds' /\ Bare' /\ Equipped'
<1> SUFFICES ASSUME Base, [Next]_vars PROVE Rounds' /\ Bare' /\ Equipped'
  OBVIOUS
<1>1. ASSUME NEW o \in Objs, ObjStep(o), made' = made PROVE Rounds' /\ Bare' /\ Equipped'
  BY <1>1, ObjStepMoves, ObjMovesBase DEF Base
<1>2. ASSUME NEW t \in Threads, Marks(t), made' = made PROVE Rounds' /\ Bare' /\ Equipped'
  <2>1. PICK o \in Objs : holder[o] = "none" /\ Sets(o, Stopped, "none")
    BY <1>2, MarksSet DEF Base
  <2>2. status \in [Objs -> Statuses] /\ holder \in [Objs -> {"none", "start", "stop", "fail"}]
        /\ born \subseteq Objs
    BY SameStatuses DEF Base, MInv, ObjInv, I!InstTypeOK
  <2>3. \A q \in born : (status'[q] = status[q] \/ status'[q] = Stopped) /\ holder'[q] = holder[q]
    BY <2>1, <2>2 DEF Sets
  <2> QED
    BY <1>2, <2>1, <2>3, ObjsStay DEF Sets, Base, Bare, Stopped, Restarting
<1>3. ASSUME NEW p \in Launches, I!Listens(p) \/ I!Exits(p), made' = made
      PROVE  Rounds' /\ Bare' /\ Equipped'
  <2>1. /\ UNCHANGED <<born, status, hasResolver, holder, powner>>
        /\ \A q \in Launches : pstate'[q] # "none" => pstate[q] # "none"
    BY <1>3 DEF I!Listens, I!Exits, I!Live, I!objVars, I!lockVars, Base, MInv, ObjInv, I!InstTypeOK
  <2> QED
    BY <1>3, <2>1, ObjsStay DEF Base, Bare
<1>4. ASSUME NEW o \in Objs, NEW pt, NEW x, I!New(o, pt, TRUE, x),
             made' = made + 1, o[2] = made + 1
      PROVE  Rounds' /\ Bare' /\ Equipped'
  <2>1. /\ UNCHANGED <<pstate, powner, holder>> /\ born' = born \cup {o} /\ o \notin born
        /\ born \subseteq Objs /\ hasResolver'[o]
        /\ \A q \in Objs \ {o} : status'[q] = status[q] /\ hasResolver'[q] = hasResolver[q]
    BY <1>4 DEF I!New, I!procVars, I!lockVars, Base, MInv, ObjInv, I!InstTypeOK
  <2>2. made \in Nat /\ \A q \in Objs : q[2] \in Nat
    BY ManagerAssumption DEF Base, MInv, Tables, Objs
  <2>3. Rounds'
    BY <1>4, <2>1, <2>2 DEF Base, Rounds
  <2>4. Bare'
    BY <2>1 DEF Base, Bare
  <2>5. Equipped'
    BY <2>1 DEF Base, Equipped
  <2> QED
    BY <2>3, <2>4, <2>5
<1>5. CASE ServerGone
  BY <1>5 DEF ServerGone, procVars, Base, Rounds, Bare, Equipped
<1>6. CASE Boot
  <2>1. /\ made' = made + 1 /\ made \in Nat /\ UNCHANGED <<status, holder, pstate, powner>>
        /\ \A o \in born' : o \in Objs /\ o[2] = made + 1 /\ status[o] = Stopped
    BY <1>6, BootMakes DEF Base, procVars
  <2>2. \A q \in Objs : q[2] \in Nat
    BY ManagerAssumption DEF Objs
  <2>3. Rounds' /\ Equipped'
    BY <2>1, <2>2 DEF Base, Rounds, Equipped
  <2>4. Bare'
    BY <2>1 DEF Bare, Stopped, Restarting
  <2> QED
    BY <2>3, <2>4
<1>7. CASE UNCHANGED <<instVars, made>>
  BY <1>7, ObjsStay DEF instVars, lockVars, procVars, Base, Bare
<1> QED
  BY <1>1, <1>2, <1>3, <1>4, <1>5, <1>6, <1>7, NextCalls DEF Base, ObjsStep

(* An object that has been made keeps its resolver, or loses its object.   *)
LEMMA ResolversStay ==
  MInv /\ Resolved /\ [Next]_vars =>
    ServerGone \/ Boot \/ \A o \in born : o \in Objs /\ hasResolver'[o] = hasResolver[o]
<1> SUFFICES ASSUME MInv, Resolved, [Next]_vars, ~ServerGone, ~Boot
             PROVE  \A o \in born : o \in Objs /\ hasResolver'[o] = hasResolver[o]
  OBVIOUS
<1>1. born \subseteq Objs /\ hasResolver \in [Objs -> BOOLEAN]
  BY DEF MInv, ObjInv, I!InstTypeOK
<1>2. ASSUME NEW o \in Objs, ObjStep(o) PROVE hasResolver' = hasResolver
  BY <1>2, ObjStepMoves DEF ObjMoves, StartMoves, StopMoves, Sets, I!StartLaunches
<1>3. ASSUME NEW t \in Threads, Marks(t) PROVE hasResolver' = hasResolver
  BY <1>3 DEF Marks, I!MarkStopped, I!Forced
<1>4. ASSUME NEW p \in Launches, I!Listens(p) \/ I!Exits(p) PROVE hasResolver' = hasResolver
  BY <1>4 DEF I!Listens, I!Exits, I!objVars
<1>5. ASSUME NEW o \in Objs, NEW pt, NEW x, I!New(o, pt, TRUE, x)
      PROVE  \A q \in born : hasResolver'[q] = hasResolver[q]
  BY <1>1, <1>5 DEF I!New
<1> QED
  BY <1>1, <1>2, <1>3, <1>4, <1>5, NextCalls DEF ObjsStep, instVars

(* Threads keep to their kinds, and what they watch has a resolver.        *)
LEMMA NextKinds == MInv /\ Kinds /\ Resolved /\ [Next]_vars => Kinds' /\ Resolved'
<1> SUFFICES ASSUME MInv, Kinds, Resolved, [Next]_vars PROVE Kinds' /\ Resolved'
  OBVIOUS
<1>1. ASSUME NEW u \in Threads, pc'[u] = pc[u], op'[u] = op[u], obj'[u] = obj[u]
      PROVE  KindOf(u)' /\ Watches(u)' = Watches(u)
  BY <1>1 DEF Kinds, KindOf, Watches
<1>2. \A u \in Threads : Watches(u) => obj[u] \in born /\ pc[u] \notin {"idle", "lookup"}
  BY DEF MInv, Threaded, AtOp, Backed, Watches, Watching
<1>3. ASSUME \A o \in born : hasResolver'[o] = hasResolver[o], NEW t \in Threads,
             \A u \in Threads \ {t} : pc'[u] = pc[u] /\ op'[u] = op[u] /\ obj'[u] = obj[u],
             KindOf(t)', Watches(t)' => hasResolver'[obj'[t]]
      PROVE  Kinds' /\ Resolved'
  BY <1>1, <1>2, <1>3 DEF Kinds, Resolved
<1>4. ASSUME NEW t \in Threads, Begins(t), \A o \in born : hasResolver'[o] = hasResolver[o]
      PROVE  Kinds' /\ Resolved'
  <2>1. KindOf(t)' /\ ~Watches(t)'
    BY <1>1, <1>2, <1>4 DEF Begins, Attends
  <2> QED
    BY <1>3, <1>4, <2>1 DEF Begins
<1>5. ASSUME NEW t \in Threads, Step(t) \/ (t \in Waiters /\ Wait(t)),
             \A o \in born : hasResolver'[o] = hasResolver[o]
      PROVE  Kinds' /\ Resolved'
  <2>1. obj[t] \in born
    <3>1. pc[t] \notin {"idle", "lookup"}
      BY <1>5 DEF Step, Wait, Check, StartCall, StartReturn, StopCall, StopReturn, FreePort,
          MarkStopped, Unregister, DeleteRow, Update, SaveRead, SaveExec, SaveFails, Poll,
          MarkRunning, MarkFailed, MarkFailedReturn
    <3> QED
      BY <3>1, HasObject
  <2>2. CASE ~SaveExec(t)
    <3>1. KindOf(t)' /\ \A u \in Threads \ {t} : pc'[u] = pc[u] /\ op'[u] = op[u] /\ obj'[u] = obj[u]
      BY <1>5, <2>2, StepKinds, OthersStay
    <3>2. Watches(t)' => obj'[t] = obj[t] /\ hasResolver[obj[t]]
      BY <1>5, <2>2, StepKinds DEF I!StartLaunches, Resolved
    <3> QED
      BY <1>3, <1>5, <2>1, <3>1, <3>2
  <2>3. CASE SaveExec(t)
    <3>1. /\ pc[t] = "exec" /\ pc'[t] = "idle" /\ op'[t] = None
      BY <2>3, SaveExecHandsOver
    <3>2. KindOf(t)' /\ ~Watches(t)'
      BY <3>1, NullAssumption DEF KindOf, Watches, Watching
    <3>3. CASE \A u \in Threads \ {t} : pc'[u] = pc[u] /\ op'[u] = op[u] /\ obj'[u] = obj[u]
      BY <1>3, <1>5, <3>2, <3>3
    <3>4. ASSUME NEW w \in Waiters \ {t}, op[t] \in {"start", "restart"},
                 w \in Threads, pc'[w] = "poll", op'[w] = "wait", obj'[w] = obj[t],
                 \A u \in Threads \ {t, w} : pc'[u] = pc[u] /\ op'[u] = op[u] /\ obj'[u] = obj[u]
          PROVE  Kinds' /\ Resolved'
      <4>1. hasResolver'[obj'[w]] /\ KindOf(w)'
        BY <1>5, <2>1, <3>1, <3>4 DEF Resolved, Watches, KindOf, Watching
      <4>2. \A u \in Threads : KindOf(u)' /\ (Watches(u)' => hasResolver'[obj'[u]])
        BY <1>1, <1>2, <1>5, <3>2, <3>4, <4>1 DEF Resolved
      <4> QED
        BY <4>2 DEF Kinds, Resolved
    <3> QED
      BY <2>3, <3>3, <3>4, SaveExecHandsOver
  <2> QED
    BY <2>2, <2>3
<1>6. CASE World \/ ServerGone
  <2>1. \A u \in Threads :
          \/ pc'[u] = pc[u] /\ op'[u] = op[u] /\ obj'[u] = obj[u]
          \/ ~Watches(u)' /\ KindOf(u)'
    <3>1. CASE World
      BY <3>1, WorldThreads, NullAssumption DEF Attends, KindOf, Watching, Kinds
    <3>2. CASE ServerGone
      BY <3>2, NullAssumption DEF ServerGone, EachThread, Watches, KindOf, Watching
    <3> QED
      BY <1>6, <3>1, <3>2
  <2>2. ServerGone \/ Boot => \A u \in Threads : ~Watches(u)'
    <3>1. ServerGone => \A u \in Threads : pc'[u] = "idle"
      BY DEF ServerGone, EachThread
    <3>2. Boot => \A u \in Threads : pc'[u] \in {"idle", "lookup"}
      BY DEF Boot, MInv, Phases
    <3> QED
      BY <3>1, <3>2 DEF Watches, Watching
  <2> QED
    BY <1>1, <1>2, <2>1, <2>2, ResolversStay DEF Kinds, Resolved
<1>7. ~(World \/ ServerGone) => \A o \in born : hasResolver'[o] = hasResolver[o]
  BY ResolversStay DEF World
<1>8. CASE UNCHANGED threadVars /\ ~(World \/ ServerGone)
  BY <1>1, <1>2, <1>7, <1>8 DEF threadVars, Kinds, Resolved
<1>9. CASE (\E c \in Clients : Call(c)) /\ ~(World \/ ServerGone)
  BY <1>4, <1>7, <1>9, CallBegins DEF Threads
<1>10. CASE (\E t \in Autos : AutoLookup(t)) /\ ~(World \/ ServerGone)
  BY <1>4, <1>7, <1>10, AutoBegins DEF Threads
<1>11. CASE (\E t \in Threads : Step(t) \/ (t \in Waiters /\ Wait(t))) /\ ~(World \/ ServerGone)
  BY <1>5, <1>7, <1>11
<1> QED
  BY <1>6, <1>8, <1>9, <1>10, <1>11 DEF Next, Process, vars, Threads, Waiters

(* Nothing runs at first.                                                  *)
LEMMA InitBase == Init => Base
<1> SUFFICES ASSUME Init PROVE Base
  OBVIOUS
<1>1. \A t \in Threads : pc[t] = "idle" /\ op[t] = None
  BY DEF Init, EachThread
<1>2. Kinds /\ Resolved
  BY <1>1, NullAssumption DEF Kinds, KindOf, Resolved, Watches, Watching
<1>3. Rounds /\ Bare /\ Equipped
  BY DEF Init, I!InstInit, Rounds, Bare, Equipped
<1>4. QED
  BY <1>2, <1>3, InitMInv DEF Base

(* All of this needs no hypothesis about what overlaps.                    *)
LEMMA BaseInvariant == Spec => []Base
<1>1. Base /\ [Next]_vars => Base'
  BY StepMInv, NextKinds, NextObjs DEF Base
<1>2. QED
  BY <1>1, InitBase, PTL DEF Spec

-----------------------------------------------------------------------------
(* What takes the PID off an instance.                                     *)

(* Start sets PID and cmd together, and nothing else sets a PID.           *)
PidIsCmd == \A o \in Objs : pid[o] # None => pid[o] = cmd[o]

(* No PID of a live process is taken off.                                  *)
NoneHidden == \A o \in Objs : pid[o] # None /\ pid'[o] # pid[o] => ~I!Live(pid[o])

LEMMA ObjStepPids ==
  ASSUME MInv, PidIsCmd, NEW o \in Objs, ObjStep(o)
  PROVE  PidIsCmd' /\ NoneHidden
<1>0. /\ pid \in [Objs -> Launches \cup {None}] /\ cmd \in [Objs -> Launches \cup {None}]
      /\ \A q \in Objs : pid[q] # None => pid[q] = cmd[q]
      /\ holder[o] = "start" => pid[o] = None
  BY DEF MInv, ObjInv, I!InstTypeOK, PidRests, PidIsCmd
<1>1. CASE UNCHANGED <<pid, cmd>>
  BY <1>0, <1>1 DEF PidIsCmd, NoneHidden
<1>2. CASE \E p \in Launches : I!StartLaunches(o, p)
  BY <1>0, <1>2 DEF I!StartLaunches, PidIsCmd, NoneHidden
<1>3. CASE I!StopSucceeds(o) \/ I!StopErrs(o)
  <2>1. /\ cmd[o] = None \/ ~I!Live(cmd[o])
        /\ cmd' = cmd
        /\ \E p \in {pid[o], None} : pid' = [pid EXCEPT ![o] = p]
    BY <1>3 DEF I!StopSucceeds, I!StopErrs, I!KillNoProcess, I!DoneClosed, I!KillReaped,
                I!RekillReaped, I!StopReturns
  <2> QED
    BY <1>0, <2>1 DEF PidIsCmd, NoneHidden
<1>4. I!MarkRunning(o) => UNCHANGED <<pid, cmd>>
  BY <1>0 DEF I!MarkRunning, I!Forced
<1>5. ObjStep(o) => \/ UNCHANGED <<pid, cmd>>
                    \/ \E p \in Launches : I!StartLaunches(o, p)
                    \/ I!StopSucceeds(o) \/ I!StopErrs(o)
  BY <1>4 DEF ObjStep, I!StartRefused, I!StartBegin, I!StartStep, I!StartFails, I!StartNoBinary,
     I!StopNil, I!StopRefused, I!StopBegin, I!MarkFailedBegin, I!ProcessStop, I!StopGoesOn,
     I!KillSent, I!GraceEnds, I!RekillSent, I!StageGoes, I!SetOpts, I!instVars, I!objVars
<1> QED
  BY <1>1, <1>2, <1>3, <1>5

(* Nor by any other step than a mark, or the end of the server.            *)
LEMMA NextPids ==
  ASSUME Base, PidIsCmd, [Next]_vars
  PROVE  /\ PidIsCmd'
         /\ NoneHidden \/ born' = {} \/ \E t \in Threads : MarkStopped(t)
<1>0. /\ pid \in [Objs -> Launches \cup {None}]
      /\ \A q \in Objs : pid[q] # None => pid[q] = cmd[q]
  BY DEF Base, MInv, ObjInv, I!InstTypeOK, PidIsCmd
<1>1. ASSUME NEW o \in Objs, ObjStep(o) PROVE PidIsCmd' /\ NoneHidden
  BY <1>1, ObjStepPids DEF Base
<1>2. ASSUME NEW t \in Threads, Marks(t) PROVE PidIsCmd' /\ MarkStopped(t)
  BY <1>0, <1>2 DEF Marks, I!MarkStopped, I!Forced, PidIsCmd
<1>3. CASE UNCHANGED <<pid, cmd>>
  BY <1>0, <1>3 DEF PidIsCmd, NoneHidden
<1>4. CASE ServerGone
  BY <1>4 DEF ServerGone, EachObj, PidIsCmd
<1>5. \/ \E p \in Launches : I!Listens(p) \/ I!Exits(p)
      \/ \E o \in Objs, pt \in P!Port, x \in Options : I!New(o, pt, TRUE, x)
      \/ Boot \/ UNCHANGED instVars
      => UNCHANGED <<pid, cmd>>
  BY DEF I!Listens, I!Exits, I!New, I!objVars, Boot, instVars
<1>6. ServerGone => born' = {}
  BY DEF ServerGone
<1> QED
  BY <1>1, <1>2, <1>3, <1>4, <1>5, <1>6, NextCalls DEF Base, ObjsStep

(* However requests, waiters and auto-restarts overlap, and whatever fails *)
(* in the table, an instance shows the PID of its llama-server until that  *)
(* has gone, unless markStopped comes.                                     *)
THEOREM MarksAloneHide == Spec => OnlyMarksHide
<1>1. Init => PidIsCmd
  BY DEF Init, I!InstInit, PidIsCmd
<1>2. Base /\ PidIsCmd /\ [Next]_vars => PidIsCmd'
  BY NextPids
<1>3. Base /\ PidIsCmd /\ [Next]_vars =>
        [\A o \in born \cap born' :
           pid[o] # None /\ pid'[o] # pid[o] =>
             ~I!Live(pid[o]) \/ \E t \in Threads : MarkStopped(t)]_vars
  BY NextPids DEF NoneHidden, Base, MInv, ObjInv, I!InstTypeOK
<1> QED
  BY <1>1, <1>2, <1>3, BaseInvariant, PTL DEF Spec, OnlyMarksHide

-----------------------------------------------------------------------------

LoadedIdle ==
  \A o \in born :
    ~hasResolver[o] => I!LiveOf(o) = {} /\ status[o] \in {Stopped, Restarting, Failed}

(* An instance that a boot has loaded from the database never has a        *)
(* process and is never shown as running, whatever requests, restarts and  *)
(* waiters overlap: only deleting and creating it again makes it startable. *)
THEOREM LoadedNeverRun == Spec => []LoadedIdle
<1>1. Base => LoadedIdle
  BY DEF Base, LoadedIdle, Bare, Equipped, I!LiveOf, I!Live
<1>2. QED
  BY <1>1, BaseInvariant, PTL

-----------------------------------------------------------------------------
(* One process for each object, whatever requests overlap, as long as      *)
(* markStopped does not declare stopped what runs.                         *)

(* Instance.tla's SingleProcess, RestIsQuiet and WedgedIsQuiet, without    *)
(* the PID.                                                                *)
Quiet ==
  \A o \in born :
    /\ I!LiveOf(o) \subseteq {cmd[o]}
    /\ status[o] \in {Stopped, Failed} \/ holder[o] = "start" => I!LiveOf(o) = {}
    /\ status[o] = ShuttingDown /\ holder[o] # "stop" => I!LiveOf(o) = {}

Calm == Base /\ Quiet

(* An object's live processes depend on the process table.                 *)
LEMMA SameLives ==
  ASSUME UNCHANGED <<pstate, powner>>
  PROVE  \A o \in Objs : I!LiveOf(o)' = I!LiveOf(o)
BY DEF I!LiveOf, I!Live

(* The types that the following proofs use.                                *)
LEMMA ObjTypes ==
  ASSUME MInv
  PROVE  /\ born \subseteq Objs
         /\ status \in [Objs -> Statuses] /\ hasResolver \in [Objs -> BOOLEAN]
         /\ holder \in [Objs -> {"none", "start", "stop", "fail"}]
         /\ cmd \in [Objs -> Launches \cup {None}]
         /\ DOMAIN pstate = Launches /\ powner \in [Launches -> Objs \cup {None}]
         /\ \A o \in Objs : holder[o] = "start" => status[o] = Restarting
         /\ \A o \in Objs : holder[o] = "stop" => status[o] = ShuttingDown
BY SameStatuses DEF MInv, ObjInv, I!InstTypeOK, I!LockOK

(* A launch makes the object's only process.                               *)
LEMMA LaunchMakesOne ==
  ASSUME Calm, NEW o \in Objs, NEW p \in Launches, o \in born, I!StartLaunches(o, p)
  PROVE  /\ I!LiveOf(o) = {} /\ I!LiveOf(o)' = {p}
         /\ \A q \in Objs \ {o} : I!LiveOf(q)' = I!LiveOf(q)
         /\ status[o] = Restarting /\ status' = status /\ born' = born
         /\ pstate[p] = "none" /\ pstate' = [pstate EXCEPT ![p] = "up"]
<1>1. I!LiveOf(o) = {} /\ status[o] = Restarting
  BY ObjTypes DEF I!StartLaunches, Calm, Base, Quiet
<1>2. QED
  BY <1>1, ObjTypes DEF I!StartLaunches, I!LiveOf, I!Live, Calm, Base

(* No process is left when process.stop returns.                           *)
LEMMA StoppedIsQuiet ==
  ASSUME Quiet, NEW o \in born, cmd[o] = None \/ ~I!Live(cmd[o])
  PROVE  I!LiveOf(o) = {}
BY NullAssumption DEF Quiet, I!LiveOf

(* A step of an object leaves no process behind.                           *)
LEMMA ObjMovesQuiet ==
  ASSUME Calm, NEW o \in Objs, ObjMoves(o)
  PROVE  Quiet'
<1>1. CASE Sets(o, status[o], holder[o])
  BY <1>1, ObjTypes, SameLives DEF Sets, Calm, Base, Quiet
<1>2. CASE o \in born /\ StartMoves(o)
  BY <1>2, ObjTypes, SameLives
  DEF StartMoves, Sets, Calm, Base, Quiet, Stopped, Restarting, Failed, ShuttingDown
<1>3. CASE o \in born /\ StopMoves(o)
  BY <1>3, ObjTypes, SameLives, StoppedIsQuiet
  DEF StopMoves, Sets, Calm, Base, Quiet, Stopped, Restarting, Failed, Running, ShuttingDown
<1>4. CASE o \in born /\ holder[o] = "none" /\ Sets(o, Running, "none")
  BY <1>4, ObjTypes, SameLives
  DEF Sets, Calm, Base, Quiet, Stopped, Failed, Running, ShuttingDown
<1>5. ASSUME NEW p \in Launches, o \in born, I!StartLaunches(o, p) PROVE Quiet'
  <2>1. cmd' = [cmd EXCEPT ![o] = p] /\ holder' = [holder EXCEPT ![o] = "none"]
    BY <1>5 DEF I!StartLaunches
  <2> QED
    BY <1>5, <2>1, ObjTypes, LaunchMakesOne
    DEF Calm, Base, Quiet, Stopped, Failed, Restarting, ShuttingDown
<1> QED
  BY <1>1, <1>2, <1>3, <1>4, <1>5 DEF ObjMoves

(* Nor does a step of the manager, if marks find no process.               *)
LEMMA NextQuiet == Calm /\ MarksOnlyQuiet /\ [Next]_vars => Quiet'
<1> SUFFICES ASSUME Calm, MarksOnlyQuiet, [Next]_vars PROVE Quiet'
  OBVIOUS
<1>1. ASSUME NEW o \in Objs, ObjStep(o) PROVE Quiet'
  BY <1>1, ObjStepMoves, ObjMovesQuiet DEF Calm, Base
<1>2. ASSUME NEW t \in Threads, Marks(t) PROVE Quiet'
  <2>1. PICK o \in Objs : o \in born /\ I!LiveOf(o) = {} /\ holder[o] = "none" /\ Sets(o, Stopped, "none")
    BY <1>2, MarksSet DEF Calm, Base, Marks, MarksOnlyQuiet
  <2> QED
    BY <2>1, ObjTypes, SameLives DEF Sets, Calm, Base, Quiet, Stopped, ShuttingDown
<1>3. ASSUME NEW p \in Launches, I!Listens(p) \/ I!Exits(p) PROVE Quiet'
  <2>1. UNCHANGED <<born, status, holder, cmd, powner>>
    BY <1>3 DEF I!Listens, I!Exits, I!objVars, I!lockVars
  <2>2. \A o \in Objs : I!LiveOf(o)' \subseteq I!LiveOf(o)
    BY <1>3, <2>1, ObjTypes DEF I!Listens, I!Exits, I!LiveOf, I!Live, Calm, Base
  <2> QED
    BY <2>1, <2>2, ObjTypes DEF Calm, Base, Quiet
<1>4. ASSUME NEW o \in Objs, NEW pt, NEW x, I!New(o, pt, TRUE, x), o[2] = made + 1
      PROVE  Quiet'
  <2>1. /\ UNCHANGED <<cmd, holder, pstate, powner>> /\ born' = born \cup {o} /\ o \notin born
        /\ \A q \in Objs \ {o} : status'[q] = status[q]
    BY <1>4, ObjTypes DEF I!New, I!procVars, I!lockVars, Calm, Base
  <2>2. made \in Nat
    BY ManagerAssumption DEF Calm, Base, MInv, Tables
  <2>3. I!LiveOf(o) = {}
    BY <1>4, <2>2 DEF Calm, Base, Rounds, I!LiveOf, I!Live
  <2> QED
    BY <2>1, <2>3, ObjTypes, SameLives DEF Calm, Base, Quiet
<1>5. CASE ServerGone
  BY <1>5 DEF ServerGone, Quiet
<1>6. CASE Boot
  <2>1. \A o \in born' : o \in Objs /\ o[2] = made + 1 /\ made \in Nat
    BY <1>6, BootMakes DEF Calm, Base
  <2>2. \A o \in born' : I!LiveOf(o) = {}
    BY <2>1 DEF Calm, Base, Rounds, I!LiveOf, I!Live
  <2> QED
    BY <1>6, <2>1, <2>2, BootMakes, SameLives DEF Calm, Base, Quiet, procVars
<1>7. CASE UNCHANGED instVars
  BY <1>7, ObjTypes, SameLives DEF instVars, lockVars, procVars, Calm, Base, Quiet
<1> QED
  BY <1>1, <1>2, <1>3, <1>4, <1>5, <1>6, <1>7, NextCalls DEF Calm, Base, ObjsStep

(* One step keeps the invariant, if marks find no process.                 *)
LEMMA StepCalm == Calm /\ MarksOnlyQuiet /\ [Next]_vars => Calm'
<1>1. Base /\ [Next]_vars => Base'
  BY StepMInv, NextKinds, NextObjs DEF Base
<1>2. QED
  BY <1>1, NextQuiet DEF Calm

(* It holds at first.                                                      *)
LEMMA InitCalm == Init => Calm
BY InitBase DEF Init, I!InstInit, Calm, Quiet

(* And so always, while marks find no process.                             *)
LEMMA CalmInvariant == Spec /\ []MarksOnlyQuiet => []Calm
BY InitCalm, StepCalm, PTL DEF Spec

(* It says what Instance.tla promises of an object.                        *)
LEMMA CalmSays == Calm => SingleProcess /\ I!RestIsQuiet /\ I!WedgedIsQuiet
BY SameStatuses
DEF Calm, Base, Quiet, SingleProcess, I!SingleProcess, I!RestIsQuiet, I!WedgedIsQuiet, MInv,
    ObjInv, PidRests, I!InstTypeOK

(* registry.markStopped is the only way to lose a llama-server: however    *)
(* many requests for one name overlap, with waiters, restarts, shutdowns,  *)
(* crashes and failing statements, an object's only live process is the    *)
(* one its cmd names, and none is left at rest or in shutting_down, unless *)
(* markStopped declares an object stopped whose process lives.             *)
THEOREM OnlyMarksLose ==
  Spec /\ []MarksOnlyQuiet => [](SingleProcess /\ I!RestIsQuiet /\ I!WedgedIsQuiet)
<1>1. Calm => SingleProcess /\ I!RestIsQuiet /\ I!WedgedIsQuiet
  BY CalmSays
<1>2. QED
  BY <1>1, CalmInvariant, PTL

(* The manager keeps what InstSpec asks of a caller: apart from the end of *)
(* a server process and the next boot, which drop and remake the objects,  *)
(* each of its steps is a call of one method, a return, a step of a        *)
(* process, or none of these.                                              *)
THEOREM ManagerUsesInstances ==
  Spec /\ []MarksOnlyQuiet => I!InstInit /\ [][I!InstNext \/ ServerGone \/ Boot]_I!instVars
<1>1. Init => I!InstInit
  BY DEF Init
<1>2. Base /\ MarksOnlyQuiet /\ [Next]_vars => [I!InstNext \/ ServerGone \/ Boot]_I!instVars
  <2> SUFFICES ASSUME Base, MarksOnlyQuiet, [Next]_vars
               PROVE  I!InstNext \/ ServerGone \/ Boot \/ UNCHANGED instVars
    BY SameVars
  <2>1. ASSUME NEW o \in Objs, ObjStep(o) PROVE I!InstNext
    BY <2>1 DEF ObjStep, I!InstNext, I!Call
  <2>2. ASSUME NEW t \in Threads, Marks(t) PROVE I!InstNext
    <3>1. PICK o \in Objs : I!LiveOf(o) = {} /\ I!MarkStopped(o)
      BY <2>2, MarksSet DEF Base, Marks, MarksOnlyQuiet
    <3> QED
      BY <3>1 DEF I!InstNext, I!Call
  <2>3. ASSUME NEW o \in Objs, NEW pt \in P!Port, NEW x \in Options, I!New(o, pt, TRUE, x)
        PROVE  I!InstNext
    BY <2>3 DEF I!InstNext, I!Call
  <2>4. ASSUME NEW p \in Launches, I!Listens(p) \/ I!Exits(p) PROVE I!InstNext
    BY <2>4 DEF I!InstNext
  <2> QED
    BY <2>1, <2>2, <2>3, <2>4, NextCalls DEF Base, ObjsStep
<1>3. QED
  BY <1>1, <1>2, BaseInvariant, PTL DEF Spec

-----------------------------------------------------------------------------
(* The promise of Supervision.tla, as Instance.tla's Contract reads it.    *)

Engaged     == {o \in born : status[o] \notin {Stopped, Failed}}
LaunchedSet == {p \in Launches : pstate[p] # "none"}
LiveBy      == [o \in Objs |-> I!LiveOf(o)]

Promise ==
  INSTANCE Supervision WITH engaged <- Engaged, launched <- LaunchedSet, live <- LiveBy

(* The end of a server process, which its llama-servers outlive.           *)
ServerEnds == Engaged' = {} /\ UNCHANGED <<LaunchedSet, LiveBy>>

PromiseStep == [Promise!SupNext \/ ServerEnds]_Promise!supVars

(* An object is set to a status, no process changes, and none is left if   *)
(* it comes to rest.                                                       *)
LEMMA SetsPromise ==
  ASSUME Calm, NEW o \in born, NEW s, NEW h, Sets(o, s, h),
         s \in {Stopped, Failed} => I!LiveOf(o) = {} \/ status[o] \in {Stopped, Failed}
  PROVE  PromiseStep
<1>1. o \in Objs /\ UNCHANGED <<LaunchedSet, LiveBy, born>>
  BY ObjTypes, SameLives DEF Sets, Calm, Base, LaunchedSet, LiveBy
<1>2. \/ Engaged' = Engaged
      \/ Engaged' = Engaged \cup {o}
      \/ Engaged' = Engaged \ {o} /\ o \in Engaged /\ I!LiveOf(o) = {}
  <2>1. /\ \A q \in born \ {o} : status'[q] = status[q]
        /\ status'[o] = s /\ born' = born
    BY ObjTypes DEF Sets, Calm, Base
  <2>2. CASE s \in {Stopped, Failed}
    BY <2>1, <2>2 DEF Engaged
  <2>3. CASE s \notin {Stopped, Failed}
    BY <2>1, <2>3 DEF Engaged
  <2> QED
    BY <2>2, <2>3
<1>3. CASE Engaged' = Engaged
  BY <1>1, <1>3 DEF PromiseStep, Promise!supVars
<1>4. CASE Engaged' = Engaged \cup {o}
  BY <1>1, <1>4 DEF PromiseStep, Promise!SupNext, Promise!Engage
<1>5. CASE Engaged' = Engaged \ {o} /\ o \in Engaged /\ I!LiveOf(o) = {}
  <2>1. LiveBy[o] = {}
    BY <1>1, <1>5 DEF LiveBy
  <2> QED
    BY <1>1, <1>5, <2>1 DEF PromiseStep, Promise!SupNext, Promise!Rest
<1> QED
  BY <1>2, <1>3, <1>4, <1>5

(* A step of an object is a step of the promise.                           *)
LEMMA ObjMovesPromise ==
  ASSUME Calm, NEW o \in Objs, ObjMoves(o)
  PROVE  PromiseStep
<1>1. CASE Sets(o, status[o], holder[o])
  <2>1. status' = status /\ UNCHANGED <<born, pstate, powner>>
    BY <1>1, ObjTypes DEF Sets, Calm, Base
  <2> QED
    BY <2>1, SameLives DEF PromiseStep, Promise!supVars, Engaged, LaunchedSet, LiveBy
<1>2. CASE o \in born /\ StartMoves(o)
  <2>1. holder[o] = "start" => I!LiveOf(o) = {}
    BY <1>2 DEF Calm, Quiet
  <2> QED
    BY <1>2, <2>1, SetsPromise DEF StartMoves, Stopped, Failed, Restarting
<1>3. CASE o \in born /\ StopMoves(o)
  BY <1>3, StoppedIsQuiet, SetsPromise
  DEF StopMoves, Calm, Stopped, Failed, Running, ShuttingDown
<1>4. CASE o \in born /\ Sets(o, Running, "none")
  BY <1>4, SetsPromise DEF Stopped, Failed, Running
<1>5. ASSUME NEW p \in Launches, o \in born, I!StartLaunches(o, p) PROVE PromiseStep
  <2>1. /\ I!LiveOf(o) = {} /\ I!LiveOf(o)' = {p} /\ status[o] = Restarting
        /\ \A q \in Objs \ {o} : I!LiveOf(q)' = I!LiveOf(q)
        /\ status' = status /\ born' = born
        /\ pstate[p] = "none" /\ pstate' = [pstate EXCEPT ![p] = "up"]
    BY <1>5, LaunchMakesOne
  <2>2. o \in Engaged /\ Engaged' = Engaged
    BY <1>5, <2>1 DEF Engaged, Stopped, Failed, Restarting
  <2>3. p \notin LaunchedSet /\ LaunchedSet' = LaunchedSet \cup {p}
    BY <2>1, ObjTypes DEF LaunchedSet, Calm, Base
  <2>4. LiveBy[o] = {} /\ LiveBy' = [LiveBy EXCEPT ![o] = {p}]
    BY <2>1 DEF LiveBy
  <2> QED
    BY <2>2, <2>3, <2>4 DEF PromiseStep, Promise!SupNext, Promise!Launch
<1> QED
  BY <1>1, <1>2, <1>3, <1>4, <1>5 DEF ObjMoves

(* A step of the manager is a step of the promise, or ends a server.       *)
LEMMA NextPromise == Calm /\ MarksOnlyQuiet /\ [Next]_vars => PromiseStep
<1> SUFFICES ASSUME Calm, MarksOnlyQuiet, [Next]_vars PROVE PromiseStep
  OBVIOUS
<1>1. ASSUME UNCHANGED <<pstate, powner>>, Engaged' = Engaged PROVE PromiseStep
  BY <1>1, SameLives DEF PromiseStep, Promise!supVars, LaunchedSet, LiveBy
<1>2. ASSUME NEW o \in Objs, ObjStep(o) PROVE PromiseStep
  BY <1>2, ObjStepMoves, ObjMovesPromise DEF Calm, Base
<1>3. ASSUME NEW t \in Threads, Marks(t) PROVE PromiseStep
  BY <1>3, MarksSet, SetsPromise DEF Calm, Base, Marks, MarksOnlyQuiet
<1>4. ASSUME NEW p \in Launches, I!Listens(p) PROVE PromiseStep
  <2>1. /\ UNCHANGED <<born, status, powner>>
        /\ pstate[p] = "up" /\ pstate' = [pstate EXCEPT ![p] = "listening"]
    BY <1>4 DEF I!Listens, I!objVars
  <2>2. \A o \in Objs : I!LiveOf(o)' = I!LiveOf(o)
    BY <2>1, ObjTypes DEF I!LiveOf, I!Live, Calm, Base
  <2> QED
    BY <2>1, <2>2, ObjTypes
    DEF PromiseStep, Promise!supVars, Engaged, LaunchedSet, LiveBy, Calm, Base
<1>5. ASSUME NEW p \in Launches, I!Exits(p) PROVE PromiseStep
  <2>1. /\ UNCHANGED <<born, status, powner>>
        /\ I!Live(p) /\ pstate' = [pstate EXCEPT ![p] = "gone"]
    BY <1>5 DEF I!Exits, I!objVars
  <2>2. PICK o \in Objs : o = powner[p]
    BY <2>1 DEF I!Live, Calm, Base, Rounds
  <2>3. /\ p \in I!LiveOf(o) /\ I!LiveOf(o)' = I!LiveOf(o) \ {p}
        /\ \A q \in Objs \ {o} : I!LiveOf(q)' = I!LiveOf(q)
    BY <2>1, <2>2, ObjTypes DEF I!LiveOf, I!Live, Calm, Base
  <2>4. p \in LiveBy[o] /\ LiveBy' = [LiveBy EXCEPT ![o] = @ \ {p}]
    BY <2>3 DEF LiveBy
  <2>5. UNCHANGED <<Engaged, LaunchedSet>>
    BY <2>1, ObjTypes DEF Engaged, LaunchedSet, I!Live, Calm, Base
  <2> QED
    BY <2>4, <2>5 DEF PromiseStep, Promise!SupNext, Promise!Die
<1>6. ASSUME NEW o \in Objs, NEW pt, NEW x, I!New(o, pt, TRUE, x) PROVE PromiseStep
  <2>1. /\ UNCHANGED <<pstate, powner>> /\ born' = born \cup {o} /\ o \notin born
        /\ status'[o] = Stopped /\ \A q \in Objs \ {o} : status'[q] = status[q]
    BY <1>6, SameStatuses, ObjTypes DEF I!New, I!procVars, Calm, Base
  <2>2. Engaged' = Engaged
    BY <2>1, ObjTypes DEF Engaged, Calm, Base
  <2> QED
    BY <1>1, <2>1, <2>2
<1>7. CASE ServerGone
  <2>1. UNCHANGED <<pstate, powner>> /\ Engaged' = {}
    BY <1>7 DEF ServerGone, procVars, Engaged
  <2> QED
    BY <2>1, SameLives DEF PromiseStep, ServerEnds, LaunchedSet, LiveBy
<1>8. CASE Boot
  <2>1. UNCHANGED <<pstate, powner>> /\ Engaged' = Engaged
    BY <1>8, BootMakes DEF Engaged, procVars, Calm, Base
  <2> QED
    BY <1>1, <2>1
<1>9. CASE UNCHANGED instVars
  BY <1>1, <1>9 DEF instVars, lockVars, procVars, Engaged
<1> QED
  BY <1>2, <1>3, <1>4, <1>5, <1>6, <1>7, <1>8, <1>9, NextCalls DEF Calm, Base, ObjsStep

(* Through the manager, too, the objects do what Supervision.tla promises: *)
(* only an engaged object launches a process, only when no earlier one of  *)
(* its own is left, and none comes to rest before its process has gone;    *)
(* the end of a server, whose processes live on, is the one other step.    *)
THEOREM ManagerKeepsPromise ==
  Spec /\ []MarksOnlyQuiet =>
    Promise!SupInit /\ [][Promise!SupNext \/ ServerEnds]_Promise!supVars
<1>1. Init => Promise!SupInit
  BY DEF Init, I!InstInit, Promise!SupInit, Engaged, LaunchedSet, LiveBy, I!LiveOf, I!Live
<1>2. Calm /\ MarksOnlyQuiet /\ [Next]_vars => [Promise!SupNext \/ ServerEnds]_Promise!supVars
  BY NextPromise DEF PromiseStep
<1>3. QED
  BY <1>1, <1>2, CalmInvariant, PTL DEF Spec

-----------------------------------------------------------------------------
(* The status machine's table, and the watch over what is starting, as     *)
(* long as markStopped finds stopped what it declares stopped.             *)

MarksStopped ==
  \A t \in Threads :
    pc[t] = "markStopped" /\ registry[Name(obj[t])] # None =>
      status[registry[Name(obj[t])]] = Stopped

Attending ==
  /\ \A t \in Threads : Attends(t) => status[obj[t]] = Restarting
  /\ \A t, u \in Threads : Attends(t) /\ Attends(u) /\ obj[t] = obj[u] => t = u

(* The entries of the table that the setters use, which do not consult it. *)
LEMMA TableEntries ==
  /\ CanSet(Restarting, Running) /\ CanSet(Restarting, Failed)
  /\ CanSet(ShuttingDown, Stopped)
BY DEF CanSet, statusTransitions, Statuses, Stopped, Running, Failed, Restarting, ShuttingDown

(* And those that Start and Stop look up.                                  *)
LEMMA StartsFrom ==
  ASSUME NEW s \in Statuses
  PROVE  /\ CanSet(s, Restarting) => s \in {Stopped, Failed}
         /\ CanSet(s, ShuttingDown) => s = Running
BY DEF CanSet, statusTransitions, Statuses, Stopped, Running, Failed, Restarting, ShuttingDown

(* The statuses that the proofs tell apart.                                *)
LEMMA Apart == Stopped \notin {Restarting, Failed, Running, ShuttingDown}
BY DEF Stopped, Running, Failed, Restarting, ShuttingDown

(* A mark changes no status.                                               *)
LEMMA MarksNothing ==
  ASSUME MInv, MarksStopped, NEW t \in Threads, MarkStopped(t)
  PROVE  status' = status
<1>1. CASE Marks(t)
  BY <1>1, MarksSet, ObjTypes DEF Marks, MarksStopped, Sets
<1>2. CASE ~Marks(t)
  BY <1>2 DEF MarkStopped, Marks, instVars
<1> QED
  BY <1>1, <1>2

(* A step of an operation changes at most the status of its object, along  *)
(* the table; from restarting only if the thread attends to it, and then   *)
(* it ceases to.                                                           *)
LEMMA StepSets ==
  ASSUME Base, Attending, MarksStopped, NEW t \in Threads, Step(t) \/ (t \in Waiters /\ Wait(t))
  PROVE  \/ status' = status
         \/ \E s :
              /\ status' = [status EXCEPT ![obj[t]] = s] /\ CanSet(status[obj[t]], s)
              /\ status[obj[t]] = Restarting => Attends(t) /\ ~Attends(t)'
              /\ status[obj[t]] = Stopped => pc[t] = "start"
              /\ s = Stopped => pc[t] = "stopping"
<1> DEFINE o == obj[t]
<1>1. /\ pc[t] \notin {"idle", "lookup"} /\ o \in Objs
      /\ Attends(t) => status[o] = Restarting
      /\ pc[t] = "stopping" => holder[o] = "stop" /\ status[o] = ShuttingDown
      /\ pc[t] = "failing" => holder[o] = "fail"
  <2>1. pc[t] \notin {"idle", "lookup"}
    BY DEF Step, Wait, Check, StartCall, StartReturn, StopCall, StopReturn, FreePort,
        MarkStopped, Unregister, DeleteRow, Update, SaveRead, SaveExec, SaveFails, Poll,
        MarkRunning, MarkFailed, MarkFailedReturn
  <2>2. o \in Objs
    BY <2>1, HasObject DEF Base
  <2>3. /\ pc[t] = "stopping" => holder[o] = "stop"
        /\ pc[t] = "failing" => holder[o] = "fail"
    BY DEF Base, MInv, Locks, Method
  <2> QED
    BY <2>1, <2>2, <2>3, ObjTypes DEF Base, Attending
<1>2. CASE \/ Check(t) \/ FreePort(t) \/ Unregister(t) \/ DeleteRow(t) \/ Update(t)
           \/ SaveRead(t) \/ SaveExec(t) \/ SaveFails(t) \/ Poll(t) \/ MarkFailed(t)
  BY <1>2
  DEF Check, FreePort, Unregister, DeleteRow, Update, SaveRead, SaveExec, SaveFails, Poll,
      MarkFailed, I!SetOpts, I!MarkFailedBegin, I!objVars, instVars
<1>3. CASE MarkStopped(t)
  BY <1>3, MarksNothing DEF Base
<1>4. CASE StartCall(t)
  <2>1. CASE I!StartBegin(o)
    <3>1. status' = [status EXCEPT ![o] = Restarting] /\ CanSet(status[o], Restarting)
      BY <2>1, SameStatuses DEF I!StartBegin
    <3> QED
      BY <1>1, <1>4, <3>1, StartsFrom, ObjTypes DEF StartCall, Base, Stopped, Failed, Restarting
  <2>2. CASE I!StartRefused(o)
    BY <2>2, SameVars DEF I!StartRefused, instVars
  <2> QED
    BY <1>4, <2>1, <2>2 DEF StartCall
<1>5. CASE StartReturn(t)
  <2>1. pc[t] = "starting" /\ Attends(t) /\ status[o] = Restarting
    BY <1>1, <1>5 DEF StartReturn, Attends
  <2>2. CASE I!StartFails(o) /\ Ends(t)
    <3>1. status' = [status EXCEPT ![o] = Failed] /\ ~Attends(t)'
      BY <2>2, SameStatuses, GoesTo, NullAssumption
      DEF I!StartFails, Base, Attends, Watches, Watching
    <3>2. CanSet(status[o], Failed)
      BY <2>1, TableEntries
    <3> QED
      BY <2>1, <3>1, <3>2, Apart
  <2>3. CASE I!StartNoBinary(o) \/ \E p \in Launches : I!StartLaunches(o, p)
    BY <2>3 DEF I!StartNoBinary, I!objVars, I!StartLaunches
  <2> QED
    BY <1>5, <2>2, <2>3 DEF StartReturn
<1>6. CASE StopCall(t)
  <2>1. CASE I!StopBegin(o)
    <3>1. status' = [status EXCEPT ![o] = ShuttingDown] /\ CanSet(status[o], ShuttingDown)
      BY <2>1, SameStatuses DEF I!StopBegin
    <3> QED
      BY <1>1, <3>1, StartsFrom, ObjTypes DEF Base, Stopped, Running, Restarting, ShuttingDown
  <2>2. CASE I!StopNil(o) \/ I!StopRefused(o)
    BY <2>2, SameVars DEF I!StopNil, I!StopRefused, instVars
  <2> QED
    BY <1>6, <2>1, <2>2 DEF StopCall
<1>7. CASE StopReturn(t) \/ MarkFailedReturn(t)
  <2>1. CASE I!StopGoesOn(o)
    BY <2>1 DEF I!StopGoesOn, I!KillSent, I!GraceEnds, I!RekillSent, I!StageGoes, I!objVars
  <2>2. CASE (I!StopSucceeds(o) \/ I!StopErrs(o)) /\ StopReturn(t)
    <3>1. status' = status \/ status' = [status EXCEPT ![o] = Stopped]
      BY <1>1, <2>2, ObjTypes, SameStatuses
      DEF StopReturn, Base, I!StopSucceeds, I!StopErrs, I!KillNoProcess, I!DoneClosed,
          I!KillReaped, I!RekillReaped, I!StopReturns
    <3> QED
      BY <1>1, <2>2, <3>1, TableEntries DEF StopReturn, Stopped, Restarting, ShuttingDown
  <2>3. CASE MarkFailedReturn(t) /\ ~I!StopGoesOn(o)
    <3>1. status' = [status EXCEPT ![o] = Failed]
      BY <1>1, <2>3, SameStatuses
      DEF MarkFailedReturn, I!StopSucceeds, I!StopErrs, I!KillNoProcess, I!DoneClosed,
          I!KillReaped, I!RekillReaped, I!StopReturns
    <3>2. pc[t] = "failing" /\ Goto(t, "save") /\ op[t] = "wait"
      BY <2>3 DEF MarkFailedReturn, Base, Kinds, KindOf, Watching
    <3>3. Attends(t) /\ ~Attends(t)'
      BY <3>2, GoesTo DEF Base, Attends, Watches, Watching
    <3>4. CanSet(status[o], Failed)
      BY <1>1, <3>3, TableEntries
    <3> QED
      BY <1>1, <3>1, <3>3, <3>4, Apart
  <2> QED
    BY <1>7, <2>1, <2>2, <2>3 DEF StopReturn, MarkFailedReturn
<1>8. CASE MarkRunning(t)
  <2>1. status' = [status EXCEPT ![o] = Running] /\ pc[t] = "markRunning" /\ Goto(t, "save")
    BY <1>8, SameStatuses DEF MarkRunning, I!MarkRunning, I!Forced
  <2>2. op[t] = "wait"
    BY <2>1 DEF Base, Kinds, KindOf, Watching
  <2>3. Attends(t) /\ ~Attends(t)'
    BY <2>1, <2>2, GoesTo DEF Base, Attends, Watches, Watching
  <2>4. CanSet(status[o], Running)
    BY <1>1, <2>3, TableEntries
  <2> QED
    BY <1>1, <2>1, <2>3, <2>4, Apart
<1> QED
  BY <1>2, <1>3, <1>4, <1>5, <1>6, <1>7, <1>8 DEF Step, Wait

(* A step of no operation, that neither ends a server nor boots one,       *)
(* changes no status and begins no watch.                                  *)
LEMMA RestKeeps ==
  ASSUME Base, [Next]_vars, ~ServerGone, ~Boot,
         \A t \in Threads : ~(Step(t) \/ (t \in Waiters /\ Wait(t)))
  PROVE  /\ \A o \in born : status'[o] = status[o]
         /\ \A u \in Threads : Attends(u)' => Attends(u) /\ obj'[u] = obj[u]
<1>1. ASSUME NEW u \in Threads, pc'[u] = pc[u], op'[u] = op[u] PROVE Attends(u)' = Attends(u)
  BY <1>1 DEF Attends, Watches
<1>2. ASSUME NEW t \in Threads, Begins(t)
      PROVE  \A u \in Threads : Attends(u)' => Attends(u) /\ obj'[u] = obj[u]
  BY <1>1, <1>2 DEF Begins
<1>3. CASE \E c \in Clients : Call(c)
  <2>1. PICK c \in Clients : Call(c)
    BY <1>3
  <2>2. \A o \in born : status'[o] = status[o]
    <3>1. ASSUME NEW n \in Names, NEW x \in Options, Create(c, n, x)
          PROVE  \A o \in born : status'[o] = status[o]
      BY <3>1, ObjTypes DEF Create, I!New, Base
    <3> QED
      BY <2>1, <3>1 DEF Call, Refused, CreateInvalid, Request, vars, instVars
  <2> QED
    BY <1>2, <2>1, <2>2, CallBegins DEF Base, Threads
<1>4. CASE \E t \in Autos : AutoLookup(t)
  <2>1. UNCHANGED status
    BY <1>4 DEF AutoLookup, instVars
  <2> QED
    BY <1>2, <1>4, <2>1, AutoBegins DEF Base, Threads
<1>5. CASE \E p \in Launches : Process(p)
  BY <1>1, <1>5 DEF Process, I!Listens, I!Exits, I!objVars, threadVars
<1>6. CASE World
  <2>1. Drain \/ ShutdownBegin
    BY <1>6 DEF World, Crash, ShutdownEnd
  <2>2. UNCHANGED status
    BY <2>1 DEF Drain, ShutdownBegin, instVars
  <2> QED
    BY <1>1, <1>6, <2>2, WorldThreads DEF Base
<1>7. CASE UNCHANGED vars
  BY <1>1, <1>7 DEF vars, threadVars, instVars
<1> QED
  BY <1>3, <1>4, <1>5, <1>6, <1>7 DEF Next, Waiters, Threads

(* One thread attends to an object that is starting, and to no other.      *)
LEMMA StepAttends ==
  ASSUME Base, Attending, MarksStopped, NEW t \in Threads, Step(t) \/ (t \in Waiters /\ Wait(t))
  PROVE  Attending'
<1> DEFINE o == obj[t]
<1>1. o \in Objs /\ \A u \in Threads : Attends(u) => obj[u] \in Objs
  BY StepCalls, HasObject DEF Base, Attends, Watches, Watching
<1>2. status \in [Objs -> Statuses]
  BY ObjTypes DEF Base
<1>3. \A u \in Threads \ {t} : Attends(u) => status'[obj[u]] = Restarting
  BY <1>1, <1>2, StepSets DEF Attending
<1>4. Attends(t) /\ Attends(t)' => status'[o] = Restarting
  BY <1>1, <1>2, StepSets DEF Attending
<1>5. CASE ~SaveExec(t)
  <2>1. \A u \in Threads \ {t} : obj'[u] = obj[u] /\ (Attends(u)' <=> Attends(u))
    BY <1>5, OthersStay DEF Base, Attends, Watches
  <2>2. Attends(t)' => obj'[t] = o /\ (Attends(t) \/ I!StartBegin(o))
    BY <1>5, StepKinds DEF Base
  <2>3. I!StartBegin(o) => status'[o] = Restarting /\ status[o] # Restarting
    <3>1. I!StartBegin(o) => status' = [status EXCEPT ![o] = Restarting] /\ CanSet(status[o], Restarting)
      BY SameStatuses DEF I!StartBegin
    <3> QED
      BY <1>1, <1>2, <3>1, StartsFrom DEF Stopped, Failed, Restarting
  <2> QED
    BY <1>3, <1>4, <2>1, <2>2, <2>3 DEF Attending
<1>6. CASE SaveExec(t)
  <2>1. status' = status
    BY <1>6 DEF SaveExec, instVars
  <2>2. ~Attends(t)' /\ (op[t] \in {"start", "restart"} => Attends(t))
    BY <1>6, SaveExecHandsOver, NullAssumption DEF Base, Attends, Watches, Watching
  <2>3. CASE \A u \in Threads \ {t} : pc'[u] = pc[u] /\ op'[u] = op[u] /\ obj'[u] = obj[u]
    <3>1. \A u \in Threads \ {t} : obj'[u] = obj[u] /\ (Attends(u)' <=> Attends(u))
      BY <2>3 DEF Attends, Watches
    <3> QED
      BY <2>1, <2>2, <3>1 DEF Attending
  <2>4. ASSUME NEW w \in Waiters \ {t}, op[t] \in {"start", "restart"}, w \in Threads, obj'[w] = o,
               \A u \in Threads \ {t, w} : pc'[u] = pc[u] /\ op'[u] = op[u] /\ obj'[u] = obj[u]
        PROVE  Attending'
    <3>1. \A u \in Threads \ {t, w} : obj'[u] = obj[u] /\ (Attends(u)' <=> Attends(u))
      BY <2>4 DEF Attends, Watches
    <3>2. \A u \in Threads : Attends(u)' =>
            \/ u = w
            \/ u # t /\ obj'[u] = obj[u] /\ Attends(u)
      BY <2>2, <3>1
    <3> QED
      BY <2>1, <2>2, <2>4, <3>2 DEF Attending
  <2> QED
    BY <1>6, <2>3, <2>4, SaveExecHandsOver DEF Base
<1> QED
  BY <1>5, <1>6

(* Each start keeps its one attendant, if marks find stopped what they     *)
(* mark.                                                                   *)
LEMMA NextAttends == Base /\ Attending /\ MarksStopped /\ [Next]_vars => Attending'
<1> SUFFICES ASSUME Base, Attending, MarksStopped, [Next]_vars PROVE Attending'
  OBVIOUS
<1>1. CASE \E t \in Threads : Step(t) \/ (t \in Waiters /\ Wait(t))
  BY <1>1, StepAttends
<1>2. CASE ServerGone \/ Boot
  <2>1. ServerGone => \A u \in Threads : pc'[u] = "idle"
    BY DEF ServerGone, EachThread
  <2>2. Boot => \A u \in Threads : pc'[u] \in {"idle", "lookup"}
    BY DEF Boot, Base, MInv, Phases
  <2> QED
    BY <1>2, <2>1, <2>2 DEF Attending, Attends, Watches, Watching
<1>3. CASE ~ServerGone /\ ~Boot /\ \A t \in Threads : ~(Step(t) \/ (t \in Waiters /\ Wait(t)))
  <2>1. \A u \in Threads : Attends(u) => obj[u] \in born
    BY HasObject DEF Base, Attends, Watches, Watching
  <2> QED
    BY <1>3, <2>1, RestKeeps DEF Attending
<1> QED
  BY <1>1, <1>2, <1>3

(* Nothing is attended to at first.                                        *)
LEMMA InitAttends == Init => Attending
BY NullAssumption DEF Init, EachThread, Attending, Attends, Watches, Watching

(* So each start has at most one attendant, while marks find stopped what  *)
(* they mark.                                                              *)
LEMMA AttendInvariant == Spec /\ []MarksStopped => [](Base /\ Attending)
BY InitBase, InitAttends, BaseInvariant, NextAttends, PTL DEF Spec

(* Every status that changes does so along the table.                      *)
FollowsTable ==
  \A o \in born \cap born' : status'[o] = status[o] \/ CanSet(status[o], status'[o])

(* While markStopped finds stopped what it declares stopped, every status  *)
(* changes along the status machine's table, though neither the waiters    *)
(* nor markStopped consult it: whoever sets a status from restarting is    *)
(* the one thread that attends to the start.                               *)
THEOREM OnlyMarksLeaveTable == Spec /\ []MarksStopped => StatusFollowsTable
<1>1. Base /\ Attending /\ MarksStopped /\ [Next]_vars => FollowsTable
  <2> SUFFICES ASSUME Base, Attending, MarksStopped, [Next]_vars PROVE FollowsTable
    OBVIOUS
  <2>1. ASSUME NEW t \in Threads, Step(t) \/ (t \in Waiters /\ Wait(t)) PROVE FollowsTable
    BY <2>1, StepSets, ObjTypes DEF Base, FollowsTable
  <2>2. CASE ServerGone \/ Boot
    BY <2>2 DEF ServerGone, Boot, Base, MInv, Phases, FollowsTable
  <2> QED
    BY <2>1, <2>2, RestKeeps DEF FollowsTable
<1>2. QED
  BY <1>1, AttendInvariant, PTL DEF Spec, StatusFollowsTable, FollowsTable

(* A watcher is the only one, and watches what is restarting.              *)
WatchedOnce ==
  \A o \in born :
    Watchers(o) # {} => status[o] = Restarting /\ Cardinality(Watchers(o)) = 1

(* The watchers of an instance are never two, and while there is one the   *)
(* instance is restarting: no waiter marks an instance that another start  *)
(* or stop has moved on.                                                   *)
THEOREM WatchersAreOne == Spec /\ []MarksStopped => []WatchedOnce
<1>1. Attending => WatchedOnce
  <2> SUFFICES ASSUME Attending, NEW o \in born, NEW t \in Threads, t \in Watchers(o)
               PROVE  status[o] = Restarting /\ Cardinality(Watchers(o)) = 1
    BY DEF WatchedOnce, Watchers
  <2>1. \A u \in Watchers(o) : u \in Threads /\ obj[u] = o /\ Attends(u)
    BY DEF Watchers, Attends, Watches, Watching
  <2>2. Watchers(o) = {t}
    BY <2>1 DEF Attending
  <2> QED
    BY <2>1, <2>2, FS_Singleton DEF Attending
<1>2. QED
  BY <1>1, AttendInvariant, PTL

(* What is stopped has no process, so a mark that changes no status loses  *)
(* none.                                                                   *)
LEMMA MarkedAreQuiet == Calm /\ MarksStopped => MarksOnlyQuiet
<1> SUFFICES ASSUME Calm, MarksStopped, NEW t \in Threads,
                    pc[t] = "markStopped", registry[Name(obj[t])] # None
             PROVE  I!LiveOf(registry[Name(obj[t])]) = {}
  BY DEF MarksOnlyQuiet
<1>1. registry[Name(obj[t])] \in born
  BY HasObject DEF Calm, Base, MInv, Tables, Backed
<1> QED
  BY <1>1 DEF Calm, Quiet, MarksStopped

(* So no process is left behind, while marks find stopped what they mark.  *)
LEMMA CalmWhileStopped == Spec /\ []MarksStopped => []Calm
<1>1. Calm /\ MarksStopped /\ [Next]_vars => Calm'
  BY StepCalm, MarkedAreQuiet
<1>2. QED
  BY <1>1, InitCalm, PTL DEF Spec

(* So no process is lost either.                                           *)
THEOREM StoppedMarksLoseNone == Spec /\ []MarksStopped => []MarksOnlyQuiet
BY CalmWhileStopped, MarkedAreQuiet, PTL

-----------------------------------------------------------------------------
(* Why markStopped finds stopped what it declares stopped: what a request  *)
(* relies on between two of its steps.                                     *)

(* A thread with a request at hand: a client, or an auto-restart that was  *)
(* so late that it found an instance made after the boot.  The start of an *)
(* instance that the boot has loaded is none: without a resolver it fails. *)
Asks(t) ==
  obj[t] # None /\ (t \in Clients \/ (t \in Autos /\ hasResolver[obj[t]]))

(* No other request for the same name is at hand.                          *)
Alone(t) == \A u \in Threads : Asks(u) /\ Name(obj[u]) = Name(obj[t]) => u = t

(* Only the requests to stop an instance overlap with no other one for its *)
(* name: starts, restarts, updates and deletions may overlap freely.       *)
StopsAlone == \A t \in Threads : op[t] = "stop" => Alone(t)

(* An object is registered under its own name.                             *)
Filed == \A n \in Names : registry[n] # None => Name(registry[n]) = n

(* Requests have ended when the stop goroutines of a shutdown begin.       *)
Drained == server = "stopping" => \A c \in Clients : pc[c] = "idle"

(* Stop sets the proxy's flag first.                                       *)
Flagged == \A o \in Objs : holder[o] = "stop" => shuttingDown[o]

(* The object of a request is the registered one, until it is deleted.     *)
HeldBy(t) == registry[Name(obj[t])] = IF pc[t] = "deleteRow" THEN None ELSE obj[t]

(* An object that a request has found not stopped is not stopped by anyone *)
(* else, and what the request has stopped stays stopped.                   *)
StopsAt(t) ==
  /\ pc[t] = "stop" /\ op[t] \in {"stop", "delete"} => status[obj[t]] # Stopped
  /\ pc[t] \in {"free", "markStopped"} =>
       hasResolver[obj[t]] /\ shuttingDown[obj[t]] /\ status[obj[t]] = Stopped

Sole ==
  /\ Filed /\ Drained /\ Flagged
  /\ \A t \in Threads : op[t] = "stop" => HeldBy(t) /\ StopsAt(t)

(* The registry in a step of an operation: only a deletion, or a creation  *)
(* that could not be saved, takes a name out.                              *)
LEMMA StepRegistry ==
  ASSUME MInv, Kinds, NEW t \in Threads, Step(t) \/ (t \in Waiters /\ Wait(t))
  PROVE  \/ registry' = registry
            /\ (pc'[t] = "deleteRow" => obj'[t] = None)
         \/ /\ t \in Clients /\ obj[t] # None /\ obj[t] \in Objs
            /\ registry' = [registry EXCEPT ![Name(obj[t])] = None]
            /\ pc'[t] = "deleteRow" \/ obj'[t] = None
<1>1. Fits(pc[t], op[t]) /\ KindOf(t)
  BY DEF MInv, Threaded, AtOp, Kinds
<1>2. CASE Unregister(t)
  <2>1. /\ pc[t] = "unregister" /\ registry' = [registry EXCEPT ![Name(obj[t])] = None]
        /\ pc'[t] = "deleteRow"
    BY <1>2, GoesTo DEF Unregister
  <2>2. obj[t] \in Objs /\ t \in Clients
    BY <1>1, <2>1, HasObject DEF KindOf
  <2> QED
    BY <2>1, <2>2, NullAssumption
<1>3. CASE SaveFails(t)
  <2>1. pc[t] = "exec" /\ pc'[t] = "idle" /\ obj'[t] = None
    BY <1>3, GoesTo DEF SaveFails
  <2>2. obj[t] \in Objs /\ obj[t] # None
    BY <2>1, HasObject, NullAssumption
  <2>3. CASE op[t] = "create"
    BY <1>1, <1>3, <2>1, <2>2, <2>3 DEF SaveFails, KindOf
  <2>4. CASE op[t] # "create"
    BY <1>3, <2>1, <2>4 DEF SaveFails
  <2> QED
    BY <2>3, <2>4
<1>4. CASE SaveExec(t)
  BY <1>4, SaveExecHandsOver DEF SaveExec
<1>5. CASE ~Unregister(t) /\ ~SaveFails(t) /\ ~SaveExec(t)
  <2>1. registry' = registry
    BY <1>5 DEF Step, Wait, Check, StartCall, StartReturn, StopCall, StopReturn, FreePort,
         MarkStopped, DeleteRow, Update, SaveRead, Poll, MarkRunning, MarkFailed, MarkFailedReturn
  <2>2. \/ Ends(t) \/ SaveRead(t)
        \/ \E l \in Labels \ {"deleteRow"} : Goto(t, l)
        \/ UNCHANGED threadVars /\ pc[t] # "deleteRow"
    BY <1>1, <1>5
    DEF Step, Wait, Check, AfterCheck, StartCall, StartReturn, StopCall, StopReturn, Stopping,
        AfterStop, FreePort, MarkStopped, DeleteRow, Update, Poll, MarkRunning, MarkFailed,
        MarkFailedReturn, Fits, Labels
  <2>3. SaveRead(t) => pc'[t] = "exec"
    BY DEF SaveRead, MInv, Threaded
  <2> QED
    BY <2>1, <2>2, <2>3, GoesTo DEF threadVars
<1> QED
  BY <1>2, <1>3, <1>4, <1>5

(* Whose step it is not keeps its request.                                 *)
LEMMA AskersStay ==
  ASSUME MInv, NEW t \in Threads, Step(t) \/ (t \in Waiters /\ Wait(t)),
         NEW u \in Threads \ {t}, u \in Clients \cup Autos
  PROVE  pc'[u] = pc[u] /\ op'[u] = op[u] /\ obj'[u] = obj[u]
<1>1. u \notin Waiters
  BY KindsApart DEF Waiters
<1> QED
  BY <1>1, OthersStay, SaveExecHandsOver

(* A request ends, or keeps its object.                                    *)
LEMMA StepObject ==
  ASSUME MInv, NEW t \in Threads, Step(t) \/ (t \in Waiters /\ Wait(t))
  PROVE  \/ obj'[t] = None
         \/ obj'[t] = obj[t] /\ op'[t] = op[t]
<1>1. CASE SaveExec(t)
  BY <1>1, SaveExecHandsOver
<1>2. CASE ~SaveExec(t)
  <2>1. Ends(t) \/ (\E l : Goto(t, l)) \/ SaveRead(t) \/ UNCHANGED threadVars
    BY <1>2
    DEF Step, Wait, Check, StartCall, StartReturn, StopCall, StopReturn, Stopping, FreePort,
        MarkStopped, Unregister, DeleteRow, Update, SaveFails, Poll, MarkRunning, MarkFailed,
        MarkFailedReturn
  <2> QED
    BY <2>1, GoesTo DEF SaveRead, threadVars
<1> QED
  BY <1>1, <1>2

(* A request that is alone keeps its object registered.                    *)
LEMMA StepHolds ==
  ASSUME Base, NEW t \in Threads, Step(t) \/ (t \in Waiters /\ Wait(t)),
         NEW u \in Threads, Asks(u), Alone(u), HeldBy(u)
  PROVE  \/ obj'[u] = None
         \/ obj'[u] = obj[u] /\ op'[u] = op[u] /\ HeldBy(u)'
<1>1. obj[u] \in Objs /\ Name(obj[u]) \in Names /\ registry \in [Names -> Objs \cup {None}]
  BY DEF Asks, Base, MInv, Threaded, Tables, Objs, Name
<1>2. CASE u = t
  <2>1. pc[t] = "deleteRow" => obj'[t] = None
    BY GoesTo, NullAssumption DEF Base, Step, Wait, Check, StartCall, StartReturn, StopCall, StopReturn, FreePort,
         MarkStopped, Unregister, DeleteRow, Update, SaveRead, SaveExec, SaveFails, Poll, MarkRunning, MarkFailed, MarkFailedReturn
  <2> QED
    BY <1>1, <1>2, <2>1, StepObject, StepRegistry DEF Base, HeldBy
<1>3. CASE u # t
  <2>1. pc'[u] = pc[u] /\ op'[u] = op[u] /\ obj'[u] = obj[u]
    BY <1>3, AskersStay DEF Base, Asks
  <2>2. registry'[Name(obj[u])] = registry[Name(obj[u])]
    <3>1. CASE registry' = registry
      BY <3>1
    <3>2. CASE t \in Clients /\ obj[t] # None /\ registry' = [registry EXCEPT ![Name(obj[t])] = None]
      BY <1>1, <1>3, <3>2 DEF Asks, Alone
    <3> QED
      BY <3>1, <3>2, StepRegistry DEF Base
  <2> QED
    BY <2>1, <2>2 DEF HeldBy
<1> QED
  BY <1>2, <1>3

(* A new request, or one that has found its object in the registry.        *)
Begun(u) == HeldBy(u)' /\ pc'[u] \in {"save", "check", "stop"} /\ (pc'[u] = "stop" => op'[u] = "restart")

(* A step of no operation lets each request be, or begins one.             *)
LEMMA RestHolds ==
  ASSUME Base, Filed, [Next]_vars, ~ServerGone, ~Boot,
         \A t \in Threads : ~(Step(t) \/ (t \in Waiters /\ Wait(t))),
         NEW u \in Clients \cup Autos
  PROVE  \/ obj'[u] = None
         \/ obj[u] = None /\ Begun(u)
         \/ /\ pc'[u] = pc[u] /\ op'[u] = op[u] /\ obj'[u] = obj[u] /\ obj[u] # None
            /\ Asks(u) /\ HeldBy(u) /\ Alone(u)' => HeldBy(u)'
<1>1. /\ u \in Threads
      /\ obj[u] # None <=> pc[u] \notin {"idle", "lookup"}
      /\ obj[u] # None => obj[u] \in Objs /\ Name(obj[u]) \in Names
      /\ registry \in [Names -> Objs \cup {None}]
  BY HasObject DEF Threads, Base, MInv, Threaded, AtOp, Tables
<1>2. ASSUME registry' = registry, pc'[u] = pc[u], op'[u] = op[u], obj'[u] = obj[u]
      PROVE  \/ obj'[u] = None
             \/ /\ obj[u] # None
                /\ HeldBy(u) => HeldBy(u)'
  BY <1>2 DEF HeldBy
<1>3. CASE \E c \in Clients : Call(c)
  <2>1. PICK c \in Clients : Call(c)
    BY <1>3
  <2>2. pc[c] = "idle" /\ c \in Threads /\ (u # c => pc'[u] = pc[u] /\ op'[u] = op[u] /\ obj'[u] = obj[u])
    BY <1>1, <2>1, CallBegins
    DEF Begins, Base, Threads, Call, Refused, Create, CreateInvalid, Request, MayCall
  <2>3. CASE UNCHANGED <<registry, threadVars>>
    BY <1>2, <2>3 DEF threadVars
  <2>4. ASSUME NEW n \in Names, NEW x \in Options, Create(c, n, x)
        PROVE  \/ obj'[u] = None
               \/ obj[u] = None /\ Begun(u)
               \/ obj[u] # None /\ (Asks(u) /\ HeldBy(u) /\ Alone(u)' => HeldBy(u)')
    <3> DEFINE o == <<n, made + 1>>
    <3>1. /\ registry[n] = None /\ registry' = [registry EXCEPT ![n] = o]
          /\ Runs(c, "save", "create", o) /\ Name(o) = n /\ o \in born'
      BY <2>4 DEF Create, Name, I!New
    <3>2. born' \subseteq Objs
      BY <2>4, ManagerAssumption DEF Create, I!New, Base, MInv, ObjInv, I!InstTypeOK, Tables, Objs
    <3> HIDE DEF o
    <3>3. pc'[c] = "save" /\ obj'[c] = o /\ o # None
      BY <2>2, <3>1, <3>2, NullAssumption DEF Runs, Base, MInv, Threaded
    <3>4. CASE u = c
      BY <1>1, <2>2, <3>1, <3>3, <3>4 DEF Begun, HeldBy
    <3>5. CASE u # c
      <4>1. pc'[u] = pc[u] /\ obj'[u] = obj[u] /\ Asks(c)'
        BY <2>2, <3>3, <3>5 DEF Asks
      <4>2. obj[u] # None /\ Alone(u)' => Name(obj[u]) # n
        BY <2>2, <3>1, <3>3, <3>5, <4>1 DEF Alone
      <4> QED
        BY <1>1, <3>1, <4>1, <4>2 DEF HeldBy
    <3> QED
      BY <3>4, <3>5
  <2>5. ASSUME NEW n \in Names, NEW how \in Requests, Request(c, n, how)
        PROVE  \/ obj'[u] = None
               \/ obj[u] = None /\ Begun(u)
               \/ obj[u] # None /\ (HeldBy(u) => HeldBy(u)')
    <3>1. /\ registry' = registry /\ registry[n] # None
          /\ Runs(c, IF how = "restart" THEN "stop" ELSE "check", how, registry[n])
      BY <2>5 DEF Request
    <3>2. /\ pc'[c] = IF how = "restart" THEN "stop" ELSE "check"
          /\ op'[c] = how /\ obj'[c] = registry[n]
      BY <2>2, <3>1 DEF Runs, Base, MInv, Threaded
    <3>3. CASE u = c
      BY <1>1, <2>2, <3>1, <3>2, <3>3 DEF Begun, HeldBy, Filed
    <3>4. CASE u # c
      BY <1>2, <2>2, <3>1, <3>4
    <3> QED
      BY <3>3, <3>4
  <2> QED
    BY <1>1, <2>1, <2>2, <2>3, <2>4, <2>5 DEF Call, Refused, CreateInvalid, vars
<1>4. CASE \E t \in Autos : AutoLookup(t)
  <2>1. PICK t \in Autos : AutoLookup(t)
    BY <1>4
  <2>2. /\ t \in Threads /\ pc[t] = "lookup" /\ registry' = registry
        /\ u # t => pc'[u] = pc[u] /\ op'[u] = op[u] /\ obj'[u] = obj[u]
    BY <1>1, <2>1, AutoBegins DEF Begins, Base, Threads, AutoLookup
  <2>3. CASE u # t
    BY <1>2, <2>2, <2>3
  <2>4. CASE u = t /\ Ends(t)
    BY <2>2, <2>4, GoesTo DEF Base
  <2>5. CASE u = t /\ ~Ends(t)
    <3>1. registry[t[2]] # None /\ Runs(t, "check", "start", registry[t[2]]) /\ t[2] \in Names
      BY <2>1, <2>5 DEF AutoLookup, Autos
    <3>2. pc'[t] = "check" /\ obj'[t] = registry[t[2]]
      BY <2>2, <3>1 DEF Runs, Base, MInv, Threaded
    <3> QED
      BY <1>1, <2>2, <2>5, <3>1, <3>2 DEF Begun, HeldBy, Filed
  <2> QED
    BY <2>3, <2>4, <2>5
<1>5. CASE UNCHANGED <<registry, threadVars>>
  BY <1>2, <1>5 DEF threadVars
<1>6. CASE ShutdownBegin
  <2>1. u \notin Stoppers /\ registry' = registry
    BY <1>6, KindsApart DEF ShutdownBegin
  <2> QED
    BY <1>1, <1>2, <1>6, <2>1 DEF ShutdownBegin
<1> QED
  BY <1>3, <1>4, <1>5, <1>6
  DEF Next, Waiters, Threads, World, Crash, ShutdownEnd, Drain, Process, vars

(* The proxy's flag stays set while the object is there, and Stop sets it. *)
LEMMA FlagsMove ==
  ASSUME MInv, Resolved, [Next]_vars, ~ServerGone, ~Boot
  PROVE  /\ \A o \in born : shuttingDown[o] => shuttingDown'[o]
         /\ \A o \in Objs : holder'[o] = "stop" => holder[o] = "stop" \/ shuttingDown'[o]
<1>1. /\ born \subseteq Objs /\ shuttingDown \in [Objs -> BOOLEAN]
      /\ holder \in [Objs -> {"none", "start", "stop", "fail"}]
  BY DEF MInv, ObjInv, I!InstTypeOK
<1>2. ASSUME shuttingDown' = shuttingDown, NEW o \in Objs, NEW h \in {"none", "start", "fail"},
             holder' = holder \/ holder' = [holder EXCEPT ![o] = h]
      PROVE  /\ \A q \in born : shuttingDown[q] => shuttingDown'[q]
             /\ \A q \in Objs : holder'[q] = "stop" => holder[q] = "stop"
  BY <1>1, <1>2
<1>3. ASSUME NEW o \in Objs, ObjStep(o)
      PROVE  /\ \A q \in born : shuttingDown[q] => shuttingDown'[q]
             /\ \A q \in Objs : holder'[q] = "stop" => holder[q] = "stop" \/ shuttingDown'[q]
  <2>1. CASE I!StopBegin(o)
    BY <1>1, <2>1 DEF I!StopBegin
  <2>2. CASE ~I!StopBegin(o)
    <3>1. shuttingDown' = shuttingDown
      BY <1>3, <2>2, SameVars
      DEF ObjStep, I!StartRefused, I!StartBegin, I!StartStep, I!StartLaunches, I!StartFails,
          I!StartNoBinary, I!StopNil, I!StopRefused, I!MarkFailedBegin, I!ProcessStop,
          I!StopGoesOn, I!KillSent, I!GraceEnds, I!RekillSent, I!StageGoes, I!StopSucceeds,
          I!StopErrs, I!KillNoProcess, I!DoneClosed, I!KillReaped, I!RekillReaped,
          I!StopReturns, I!MarkRunning, I!Forced, I!SetOpts, I!objVars, instVars
    <3>2. holder' = holder \/ \E h \in {"none", "start", "fail"} : holder' = [holder EXCEPT ![o] = h]
      BY <1>3, <2>2, SameVars
      DEF ObjStep, I!StartRefused, I!StartBegin, I!StartStep, I!StartLaunches, I!StartFails,
          I!StartNoBinary, I!StopNil, I!StopRefused, I!MarkFailedBegin, I!ProcessStop,
          I!StopGoesOn, I!KillSent, I!GraceEnds, I!RekillSent, I!StageGoes, I!StopSucceeds,
          I!StopErrs, I!KillNoProcess, I!DoneClosed, I!KillReaped, I!RekillReaped,
          I!StopReturns, I!MarkRunning, I!Forced, I!SetOpts, I!lockVars, instVars, lockVars
    <3> QED
      BY <1>2, <3>1, <3>2
  <2> QED
    BY <2>1, <2>2
<1>4. ASSUME UNCHANGED <<shuttingDown, holder>>
      PROVE  /\ \A q \in born : shuttingDown[q] => shuttingDown'[q]
             /\ \A q \in Objs : holder'[q] = "stop" => holder[q] = "stop"
  BY <1>4
<1>5. ASSUME NEW t \in Threads, Marks(t) PROVE UNCHANGED <<shuttingDown, holder>>
  BY <1>5 DEF Marks, I!MarkStopped, I!Forced, I!lockVars
<1>6. ASSUME NEW p \in Launches, I!Listens(p) \/ I!Exits(p) PROVE UNCHANGED <<shuttingDown, holder>>
  BY <1>6 DEF I!Listens, I!Exits, I!objVars, I!lockVars
<1>7. ASSUME NEW o \in Objs, NEW pt, NEW x, I!New(o, pt, TRUE, x)
      PROVE  UNCHANGED <<shuttingDown, holder>>
  BY <1>7 DEF I!New, I!lockVars
<1> QED
  BY <1>3, <1>4, <1>5, <1>6, <1>7, NextCalls DEF ObjsStep, instVars, lockVars

(* Stop sets the flag of the proxy before it holds the mutex for its       *)
(* process.                                                                *)
LEMMA NextFlagged == MInv /\ Resolved /\ Flagged /\ [Next]_vars => Flagged'
<1> SUFFICES ASSUME MInv, Resolved, Flagged, [Next]_vars PROVE Flagged'
  OBVIOUS
<1>1. CASE ServerGone
  BY <1>1 DEF ServerGone, EachObj, Flagged
<1>2. CASE Boot
  BY <1>2, BootMakes, ObjTypes DEF Flagged, Boot
<1>3. CASE ~ServerGone /\ ~Boot
  <2>1. \A o \in Objs : holder[o] = "stop" => o \in born
    BY DEF MInv, ObjInv, I!InstTypeOK, I!LockOK
  <2> QED
    BY <1>3, <2>1, FlagsMove DEF Flagged
<1> QED
  BY <1>1, <1>2, <1>3

(* No request begins or goes on when the stop goroutines run.              *)
LEMMA NextDrained == MInv /\ Drained /\ [Next]_vars => Drained'
<1> SUFFICES ASSUME MInv, Drained, [Next]_vars, server' = "stopping", NEW c \in Clients
             PROVE  pc'[c] = "idle"
  BY DEF Drained
<1>1. CASE ShutdownBegin
  BY <1>1, KindsApart DEF ShutdownBegin
<1>2. CASE ~ShutdownBegin
  <2>1. server = "stopping" /\ ~ServerGone /\ ~Boot /\ ~Drain
    BY <1>2
    DEF Next, Call, Refused, Create, CreateInvalid, Request, AutoLookup, Process, World, Crash,
        Drain, ServerGone, ShutdownEnd, Boot, vars, worldVars, Step, Wait, Check, StartCall,
        StartReturn, StopCall, StopReturn, FreePort, MarkStopped, Unregister, DeleteRow, Update,
        SaveRead, SaveExec, SaveFails, Poll, MarkRunning, MarkFailed, MarkFailedReturn
  <2>2. pc[c] = "idle" /\ c \in Threads
    BY <2>1 DEF Drained, Threads
  <2>3. ASSUME NEW t \in Threads, Step(t) \/ (t \in Waiters /\ Wait(t)) PROVE pc'[c] = "idle"
    <3>1. pc[t] # "idle"
      BY <2>3
      DEF Step, Wait, Check, StartCall, StartReturn, StopCall, StopReturn, FreePort, MarkStopped,
          Unregister, DeleteRow, Update, SaveRead, SaveExec, SaveFails, Poll, MarkRunning,
          MarkFailed, MarkFailedReturn
    <3> QED
      BY <2>2, <2>3, <3>1, AskersStay
  <2>4. ASSUME NEW t \in Autos, AutoLookup(t) PROVE pc'[c] = "idle"
    BY <2>2, <2>4, AutoBegins DEF Begins, AutoLookup
  <2>5. ASSUME NEW d \in Clients, Call(d) PROVE UNCHANGED pc
    BY <2>1, <2>5
    DEF Call, Refused, Create, CreateInvalid, Request, MayCall
  <2> QED
    BY <1>2, <2>1, <2>2, <2>3, <2>4, <2>5
    DEF Next, Process, World, Crash, ShutdownEnd, vars, threadVars, Waiters, Threads
<1> QED
  BY <1>1, <1>2

(* An object is registered under its own name only.                        *)
LEMMA NextFiled == MInv /\ Kinds /\ Filed /\ [Next]_vars => Filed'
<1> SUFFICES ASSUME MInv, Kinds, Filed, [Next]_vars PROVE Filed'
  OBVIOUS
<1>1. registry \in [Names -> Objs \cup {None}]
  BY DEF MInv, Tables
<1>2. CASE registry' = registry
  BY <1>2 DEF Filed
<1>3. ASSUME NEW t \in Threads, Step(t) \/ (t \in Waiters /\ Wait(t)) PROVE Filed'
  BY <1>1, <1>2, <1>3, StepRegistry DEF Filed
<1>4. ASSUME NEW c \in Clients, NEW n \in Names, NEW x \in Options, Create(c, n, x) PROVE Filed'
  BY <1>1, <1>4 DEF Create, Filed, Name
<1>5. CASE ServerGone
  BY <1>5 DEF ServerGone, Filed
<1>6. CASE Boot
  <2>1. PICK loaded \in SUBSET Names :
          registry' = [n \in Names |-> IF n \in loaded THEN <<n, made + 1>> ELSE None]
    BY <1>6 DEF Boot
  <2> QED
    BY <2>1 DEF Filed, Name
<1> QED
  BY <1>2, <1>3, <1>4, <1>5, <1>6
  DEF Next, Call, Refused, CreateInvalid, Request, AutoLookup, Process, World, Crash, Drain,
      ShutdownBegin, ShutdownEnd, vars, Waiters, Threads

(* A request that nobody else can disturb goes on to rely on what it has   *)
(* found.                                                                  *)
LEMMA StopsOn ==
  ASSUME Base, Attending, MarksStopped, Flagged,
         NEW t \in Threads, Step(t) \/ (t \in Waiters /\ Wait(t)), StopsAt(t)
  PROVE  obj'[t] = None \/ StopsAt(t)'
<1> DEFINE o == obj[t]
<1>1. o \in Objs /\ o \in born /\ Fits(pc[t], op[t]) /\ KindOf(t)
  <2>1. o \in Objs
    BY StepCalls DEF Base
  <2> QED
    BY <2>1, NullAssumption DEF Base, MInv, Threaded, AtOp, Kinds, Backed
<1>2. /\ status \in [Objs -> Statuses] /\ hasResolver \in [Objs -> BOOLEAN]
      /\ shuttingDown \in [Objs -> BOOLEAN]
  BY SameStatuses DEF Base, MInv, ObjInv, I!InstTypeOK
<1>3. CASE Ends(t)
  BY <1>3, GoesTo DEF Base
<1>4. CASE Check(t)
  <2>1. /\ pc[t] = "check" /\ UNCHANGED <<status, hasResolver, shuttingDown>>
        /\ Ends(t) \/ Goto(t, AfterCheck(op[t], status[o]))
    BY <1>4 DEF Check, instVars
  <2>2. op[t] \in {"stop", "delete"} /\ AfterCheck(op[t], status[o]) = "stop" => status[o] # Stopped
    BY DEF AfterCheck, Stopped, Running
  <2>3. AfterCheck(op[t], status[o]) \notin {"free", "markStopped"}
    BY <1>1, <2>1 DEF AfterCheck, Fits
  <2> QED
    BY <1>3, <2>1, <2>2, <2>3, GoesTo DEF Base, StopsAt
<1>5. CASE StopCall(t)
  <2>1. CASE I!StopNil(o) /\ Stopping(t) /\ ~Ends(t)
    <3>1. pc[t] = "stop" /\ op[t] \in {"stop", "delete", "restart"} /\ status[o] = Stopped
      BY <1>1, <1>5, <2>1, SameStatuses DEF StopCall, Stopping, AfterStop, Fits, I!StopNil
    <3>2. Goto(t, "start")
      BY <2>1, <3>1 DEF Stopping, AfterStop, StopsAt
    <3> QED
      BY <3>2, GoesTo DEF Base, StopsAt
  <2>2. CASE Goto(t, "stopping")
    BY <2>2, GoesTo DEF Base, StopsAt
  <2> QED
    BY <1>3, <1>5, <2>1, <2>2 DEF StopCall
<1>6. CASE StopReturn(t)
  <2>1. /\ pc[t] = "stopping" /\ holder[o] = "stop" /\ status[o] = ShuttingDown
        /\ hasResolver[o] /\ shuttingDown[o]
    <3>1. pc[t] = "stopping" /\ holder[o] = "stop"
      BY <1>6 DEF StopReturn, Base, MInv, Locks, Method
    <3>2. status[o] = ShuttingDown /\ shuttingDown[o]
      BY <1>1, <3>1, ObjTypes DEF Base, Flagged
    <3>3. hasResolver[o]
      BY <1>1, <3>2 DEF Base, Bare, ShuttingDown, Stopped, Restarting, Failed
    <3> QED
      BY <3>1, <3>2, <3>3
  <2>2. CASE UNCHANGED threadVars
    BY <2>1, <2>2 DEF threadVars, StopsAt
  <2>3. CASE I!StopSucceeds(o) /\ Stopping(t) /\ ~Ends(t)
    <3>1. /\ status' = [status EXCEPT ![o] = Stopped] /\ UNCHANGED <<hasResolver, shuttingDown>>
      BY <2>1, <2>3, SameStatuses
      DEF I!StopSucceeds, I!KillNoProcess, I!DoneClosed, I!StopReturns
    <3>2. status'[o] = Stopped /\ hasResolver'[o] /\ shuttingDown'[o]
      BY <1>1, <1>2, <2>1, <3>1
    <3>3. PICK l \in {"free", "start"} : Goto(t, l)
      BY <1>1, <2>1, <2>3 DEF Stopping, AfterStop, Fits
    <3> QED
      BY <3>2, <3>3, GoesTo DEF Base, StopsAt
  <2> QED
    BY <1>3, <1>6, <2>2, <2>3 DEF StopReturn
<1>7. CASE FreePort(t)
  <2>1. pc[t] = "free" /\ UNCHANGED <<status, hasResolver, shuttingDown>>
    BY <1>7 DEF FreePort, instVars
  <2>2. PICK l \in {"markStopped", "unregister"} : Goto(t, l)
    BY <1>7 DEF FreePort
  <2> QED
    BY <2>1, <2>2, GoesTo DEF Base, StopsAt
<1>8. CASE ~Check(t) /\ ~StopCall(t) /\ ~StopReturn(t) /\ ~FreePort(t)
  <2>1. obj'[t] = None \/ pc'[t] \notin {"stop", "free", "markStopped"}
    <3>1. CASE SaveExec(t)
      BY <3>1, SaveExecHandsOver DEF Base
    <3>2. CASE SaveRead(t)
      BY <3>2 DEF SaveRead, Base, MInv, Threaded
    <3>3. CASE ~SaveExec(t) /\ ~SaveRead(t)
      <4>1. \/ Ends(t)
            \/ \E l \in Labels \ {"stop", "free", "markStopped"} : Goto(t, l)
            \/ UNCHANGED threadVars /\ pc[t] = "failing"
        BY <1>1, <1>8, <3>3
        DEF Step, Wait, StartCall, StartReturn, MarkStopped, Unregister, DeleteRow, Update,
            SaveFails, Poll, MarkRunning, MarkFailed, MarkFailedReturn, Labels
      <4> QED
        BY <4>1, GoesTo DEF Base, threadVars
    <3> QED
      BY <3>1, <3>2, <3>3
  <2> QED
    BY <2>1 DEF StopsAt
<1> QED
  BY <1>4, <1>5, <1>6, <1>7, <1>8

(* Who else can set the status of its object: nobody, from or to stopped.  *)
LEMMA StepStops ==
  ASSUME Base, Attending, MarksStopped, Flagged, Drained, [Next]_vars,
         NEW t \in Threads, Step(t) \/ (t \in Waiters /\ Wait(t)),
         NEW u \in Threads, Asks(u), Alone(u), StopsAt(u)
  PROVE  obj'[u] = None \/ StopsAt(u)'
<1>1. CASE u = t
  BY <1>1, StopsOn
<1>2. CASE u # t /\ pc[u] \in {"stop", "free", "markStopped"} /\ op[u] \in {"stop", "delete"}
  <2>1. /\ pc'[u] = pc[u] /\ op'[u] = op[u] /\ obj'[u] = obj[u]
        /\ obj[u] \in Objs /\ obj[u] \in born /\ u \in Clients
    BY <1>2, AskersStay, HasObject DEF Base, Kinds, KindOf
  <2>2. ~ServerGone /\ ~Boot /\ server # "stopping" /\ server # "down"
    <3>1. obj'[u] # None /\ pc[u] # "idle"
      BY <1>2, <2>1, NullAssumption
    <3>2. ~ServerGone
      BY <3>1 DEF ServerGone, EachThread
    <3>3. server # "down" /\ server # "stopping"
      BY <2>1, <3>1 DEF Base, MInv, Phases, Drained
    <3> QED
      BY <3>2, <3>3 DEF Boot
  <2>3. /\ shuttingDown[obj[u]] => shuttingDown'[obj[u]]
        /\ hasResolver'[obj[u]] = hasResolver[obj[u]]
    BY <2>1, <2>2, FlagsMove, ResolversStay DEF Base
  <2>4. ASSUME obj[t] = obj[u], hasResolver[obj[u]] \/ pc[t] # "start",
               pc[t] \in {"start", "stopping"}
        PROVE  FALSE
    <3>1. Fits(pc[t], op[t]) /\ KindOf(t)
      BY DEF Base, MInv, Threaded, AtOp, Kinds
    <3>2. obj[t] # None
      BY <2>1, <2>4, NullAssumption
    <3>3. op[t] # "shutdown"
      <4>1. server \in {"up", "draining"}
        BY <2>2 DEF Base, MInv, Tables
      <4> QED
        BY <2>4, <3>1, <4>1 DEF Base, MInv, Phases, KindOf
    <3>4. Asks(t)
      BY <2>4, <3>1, <3>2, <3>3 DEF Fits, KindOf, Asks
    <3> QED
      BY <1>2, <2>4, <3>4 DEF Alone
  <2>5. \/ status'[obj[u]] = status[obj[u]]
        \/ /\ status[obj[u]] = Stopped => obj[t] = obj[u] /\ pc[t] = "start"
           /\ status'[obj[u]] = Stopped => obj[t] = obj[u] /\ pc[t] = "stopping"
    <3>1. obj[t] \in Objs /\ status \in [Objs -> Statuses]
      BY StepCalls, ObjTypes DEF Base
    <3> QED
      BY <2>1, <3>1, StepSets
  <2> QED
    BY <1>2, <2>1, <2>3, <2>4, <2>5 DEF StopsAt
<1>3. CASE u # t /\ ~(pc[u] \in {"stop", "free", "markStopped"} /\ op[u] \in {"stop", "delete"})
  <2>1. pc'[u] = pc[u] /\ op'[u] = op[u]
    BY <1>3, AskersStay DEF Base, Asks
  <2>2. pc[u] \in {"free", "markStopped"} => op[u] \in {"stop", "delete"}
    BY DEF Base, MInv, Threaded, AtOp, Fits, Kinds, KindOf
  <2> QED
    BY <1>3, <2>1, <2>2 DEF StopsAt
<1> QED
  BY <1>1, <1>2, <1>3

(* What a request relies on, in the other steps.                           *)
LEMMA RestStops ==
  ASSUME Base, Filed, [Next]_vars, ~ServerGone, ~Boot,
         \A t \in Threads : ~(Step(t) \/ (t \in Waiters /\ Wait(t))),
         NEW u \in Threads, Asks(u), StopsAt(u)
  PROVE  obj'[u] = None \/ StopsAt(u)'
<1>1. obj[u] # None /\ u \in Clients \cup Autos /\ obj[u] \in born
  BY DEF Asks, Base, MInv, Backed
<1>2. obj'[u] = None \/ (pc'[u] = pc[u] /\ op'[u] = op[u] /\ obj'[u] = obj[u])
  BY <1>1, RestHolds
<1>3. /\ status'[obj[u]] = status[obj[u]] /\ hasResolver'[obj[u]] = hasResolver[obj[u]]
      /\ shuttingDown[obj[u]] => shuttingDown'[obj[u]]
  BY <1>1, RestKeeps, ResolversStay, FlagsMove DEF Base
<1> QED
  BY <1>2, <1>3 DEF StopsAt

(* The request that is alone, in any step.                                 *)
LEMMA AloneStays ==
  ASSUME Base, Attending, MarksStopped, Filed, Drained, Flagged, [Next]_vars,
         NEW u \in Threads, Asks(u), Alone(u), Alone(u)', HeldBy(u), StopsAt(u)
  PROVE  \/ obj'[u] = None
         \/ obj'[u] = obj[u] /\ op'[u] = op[u] /\ HeldBy(u)' /\ StopsAt(u)'
<1>1. ASSUME NEW t \in Threads, Step(t) \/ (t \in Waiters /\ Wait(t))
      PROVE  \/ obj'[u] = None
             \/ obj'[u] = obj[u] /\ op'[u] = op[u] /\ HeldBy(u)' /\ StopsAt(u)'
  BY <1>1, StepHolds, StepStops
<1>2. CASE ServerGone
  BY <1>2 DEF ServerGone, EachThread
<1>3. CASE Boot
  BY <1>3 DEF Boot, Base, MInv, Phases, Threaded, AtOp, Asks
<1>4. CASE ~ServerGone /\ ~Boot /\ \A t \in Threads : ~(Step(t) \/ (t \in Waiters /\ Wait(t)))
  BY <1>4, RestHolds, RestStops DEF Asks
<1> QED
  BY <1>1, <1>2, <1>3, <1>4

(* A request that has just begun.                                          *)
LEMMA BegunHeld ==
  ASSUME Base, Filed, [Next]_vars, NEW u \in Clients \cup Autos, obj[u] = None, obj'[u] # None
  PROVE  Begun(u)
<1>1. u \in Threads /\ pc[u] \in {"idle", "lookup"}
  BY DEF Threads, Base, MInv, Threaded, AtOp
<1>2. ASSUME NEW t \in Threads, Step(t) \/ (t \in Waiters /\ Wait(t)) PROVE FALSE
  <2>1. pc[t] \notin {"idle", "lookup"}
    BY <1>2
    DEF Step, Wait, Check, StartCall, StartReturn, StopCall, StopReturn, FreePort, MarkStopped,
        Unregister, DeleteRow, Update, SaveRead, SaveExec, SaveFails, Poll, MarkRunning,
        MarkFailed, MarkFailedReturn
  <2> QED
    BY <1>1, <1>2, <2>1, AskersStay DEF Base
<1>3. ~ServerGone /\ ~Boot
  BY <1>1 DEF ServerGone, EachThread, Boot
<1> QED
  BY <1>2, <1>3, RestHolds

(* One step of the system.                                                 *)
LEMMA NextSole ==
  Base /\ Attending /\ MarksStopped /\ Sole /\ StopsAlone /\ StopsAlone' /\ [Next]_vars => Sole'
<1> SUFFICES ASSUME Base, Attending, MarksStopped, Sole, StopsAlone, StopsAlone', [Next]_vars,
                    MInv', Kinds'
             PROVE  Sole'
  BY StepMInv, NextKinds DEF Base
<1>1. Filed' /\ Drained' /\ Flagged'
  BY NextFiled, NextDrained, NextFlagged DEF Base, Sole
<1>2. ASSUME NEW t \in Threads, op'[t] = "stop" PROVE HeldBy(t)' /\ StopsAt(t)'
  <2>1. t \in Clients /\ obj'[t] # None
    BY <1>2, NullAssumption DEF Kinds, KindOf, MInv, Threaded, AtOp
  <2>2. CASE obj[t] = None
    <3>1. Begun(t)
      BY <2>1, <2>2, BegunHeld DEF Sole
    <3> QED
      BY <1>2, <3>1 DEF Begun, StopsAt
  <2>3. CASE obj[t] # None
    <3>1. op'[t] = op[t]
      <4>1. ASSUME NEW u \in Threads, Step(u) \/ (u \in Waiters /\ Wait(u)) PROVE op'[t] = op[t]
        BY <2>1, <4>1, AskersStay, StepObject DEF Base
      <4>2. ~ServerGone /\ ~Boot
        BY <2>1, <2>3 DEF ServerGone, EachThread, Boot, Base, MInv, Phases, Threaded, AtOp
      <4> QED
        BY <2>1, <2>3, <4>1, <4>2, RestHolds DEF Sole
    <3>2. Asks(t) /\ Alone(t) /\ Alone(t)' /\ HeldBy(t) /\ StopsAt(t)
      BY <1>2, <2>1, <2>3, <3>1 DEF Asks, StopsAlone, Sole
    <3> QED
      BY <2>1, <3>2, AloneStays DEF Sole
  <2> QED
    BY <2>2, <2>3
<1> QED
  BY <1>1, <1>2 DEF Sole

(* A stop that is alone marks the object that it has stopped.              *)
LEMMA SoleMarks == Base /\ Sole => MarksStopped
<1> SUFFICES ASSUME Base, Sole, NEW t \in Threads, pc[t] = "markStopped"
             PROVE  status[registry[Name(obj[t])]] = Stopped
  BY DEF MarksStopped
<1>1. op[t] = "stop"
  BY DEF Base, Kinds, KindOf
<1> QED
  BY <1>1 DEF Sole, HeldBy, StopsAt

SoleInv == Calm /\ Attending /\ Sole

(* What stops that are alone find, always.                                 *)
LEMMA SoleInvariant == Spec /\ []StopsAlone => []SoleInv
<1>1. Init => Sole
  BY NullAssumption DEF Init, I!InstInit, EachThread, Sole, Filed, Drained, Flagged
<1>2. SoleInv /\ StopsAlone /\ StopsAlone' /\ [Next]_vars => SoleInv'
  <2>1. SoleInv => MarksStopped /\ MarksOnlyQuiet
    BY SoleMarks, MarkedAreQuiet DEF SoleInv, Calm
  <2> QED
    BY <2>1, StepCalm, NextAttends, NextSole DEF SoleInv, Calm
<1>3. QED
  BY <1>1, <1>2, InitCalm, InitAttends, PTL DEF Spec, SoleInv

(* registry.markStopped looks a name up that another request may have      *)
(* given to another instance, and sets stopped whatever it finds.  As long *)
(* as no other request for the name overlaps with a stop it finds the      *)
(* instance that the request has stopped, which has no process.            *)
THEOREM MarkStoppedFindsItQuiet == Spec /\ []StopsAlone => [](MarksStopped /\ MarksOnlyQuiet)
<1>1. SoleInv => MarksStopped /\ MarksOnlyQuiet
  BY SoleMarks, MarkedAreQuiet DEF SoleInv, Calm
<1>2. QED
  BY <1>1, SoleInvariant, PTL

(* So an object's only live process is the one that its cmd and PID show,  *)
(* whatever starts, restarts, deletions and updates overlap, with waiters, *)
(* shutdowns, crashes, boots and failing statements.                       *)
THEOREM OneProcessEach == Spec /\ []StopsAlone => []SingleProcess
BY OnlyMarksLose, MarkStoppedFindsItQuiet, PTL

(* An instance shown as stopped or failed has no live process.             *)
THEOREM RestHasNoProcess == Spec /\ []StopsAlone => []I!RestIsQuiet
BY OnlyMarksLose, MarkStoppedFindsItQuiet, PTL

(* The status machine's table is followed, though three of the setters do  *)
(* not consult it.                                                         *)
THEOREM TableIsFollowed == Spec /\ []StopsAlone => StatusFollowsTable
BY OnlyMarksLeaveTable, MarkStoppedFindsItQuiet, PTL
================================================================================
