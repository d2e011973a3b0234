-------------------------- MODULE ManagerSerialProofs --------------------------
(***************************************************************************)
(* Proofs about the manager in the behaviours in which requests for one    *)
(* name do not overlap (SerialByName), or no two requests do (Serial).     *)
(* Those for other names, the waiters, the auto-restarts of what a boot    *)
(* has loaded, shutdowns, crashes and boots come at any moment, and        *)
(* statements may fail unless a theorem says that they do not.  What needs *)
(* less than that is in ManagerProofs.                                     *)
(***************************************************************************)
EXTENDS ManagerProofs

SerialByName ==
  \A t, u \in Threads :
    Asks(t) /\ Asks(u) /\ Name(obj[t]) = Name(obj[u]) => t = u

Serial == \A t, u \in Threads : Asks(t) /\ Asks(u) => t = u

-----------------------------------------------------------------------------
(* What the requests for a name rely on between two of their steps.        *)

Held  == \A t \in Threads : Asks(t) => HeldBy(t)
Stops == \A t \in Threads : Asks(t) => StopsAt(t)

SInv == MInv /\ SoleInv /\ Held /\ Stops

(* Requests that take turns are alone, those that stop something too.      *)
LEMMA SerialIsAlone ==
  /\ SerialByName => \A t \in Threads : Asks(t) => Alone(t)
  /\ MInv /\ Kinds /\ SerialByName => StopsAlone
<1>1. SerialByName => \A t \in Threads : Asks(t) => Alone(t)
  BY DEF SerialByName, Alone
<1>2. MInv /\ Kinds => \A t \in Threads : op[t] = "stop" => Asks(t)
  BY NullAssumption DEF MInv, Threaded, AtOp, Kinds, KindOf, Asks
<1>3. QED
  BY <1>1, <1>2 DEF StopsAlone

(* A request keeps its object, until it ends.                              *)
LEMMA ObjectsStay ==
  ASSUME Base, Filed, [Next]_vars, NEW u \in Clients \cup Autos, obj[u] # None
  PROVE  obj'[u] \in {obj[u], None}
<1>1. ASSUME NEW t \in Threads, Step(t) \/ (t \in Waiters /\ Wait(t))
      PROVE  obj'[u] \in {obj[u], None}
  BY <1>1, AskersStay, StepObject DEF Base, Threads
<1>2. CASE ServerGone \/ Boot
  BY <1>2 DEF ServerGone, EachThread, Boot, Threads
<1>3. CASE ~ServerGone /\ ~Boot /\ \A t \in Threads : ~(Step(t) \/ (t \in Waiters /\ Wait(t)))
  BY <1>3, RestHolds
<1> QED
  BY <1>1, <1>2, <1>3

(* One step between two states without overlapping requests for a name.    *)
LEMMA StepSInv == SInv /\ SerialByName /\ SerialByName' /\ [Next]_vars => Held' /\ Stops'
<1> SUFFICES ASSUME SInv, SerialByName, SerialByName', [Next]_vars,
                    NEW u \in Threads, Asks(u)', MInv'
             PROVE  HeldBy(u)' /\ StopsAt(u)'
  BY StepMInv DEF SInv, Held, Stops
<1>1. /\ u \in Clients \cup Autos /\ obj'[u] # None
      /\ Base /\ Attending /\ MarksStopped /\ Filed /\ Drained /\ Flagged
  BY SoleMarks DEF Asks, SInv, SoleInv, Calm, Sole
<1>2. CASE obj[u] = None
  <2>1. Begun(u)
    BY <1>1, <1>2, BegunHeld
  <2> QED
    BY <2>1 DEF Begun, StopsAt
<1>3. CASE obj[u] # None
  <2>1. obj'[u] = obj[u] /\ obj[u] \in born
    BY <1>1, <1>3, ObjectsStay DEF Base, MInv, Backed
  <2>2. ~ServerGone /\ ~Boot
    BY <1>1, <1>3 DEF ServerGone, EachThread, Boot, Base, MInv, Phases, Threaded, AtOp
  <2>3. hasResolver'[obj[u]] = hasResolver[obj[u]]
    BY <1>1, <2>1, <2>2, ResolversStay DEF Base
  <2>4. Asks(u)
    BY <1>1, <1>3, <2>1, <2>3 DEF Asks
  <2>5. Alone(u) /\ Alone(u)' /\ HeldBy(u) /\ StopsAt(u)
    BY <2>4, SerialIsAlone DEF SerialByName, Alone, SInv, Held, Stops
  <2> QED
    BY <1>1, <2>4, <2>5, AloneStays
<1> QED
  BY <1>2, <1>3

(* What the requests for a name find holds as long as they take turns.     *)
THEOREM SerialInvariant == Spec /\ []SerialByName => []SInv
<1>1. Init => Held /\ Stops
  BY DEF Init, EachThread, Held, Stops, Asks
<1>2. Base /\ SerialByName => StopsAlone
  BY SerialIsAlone DEF Base
<1>3. MInv /\ SoleInv /\ Held /\ Stops <=> SInv
  BY DEF SInv
<1>4. QED
  BY <1>1, <1>2, <1>3, StepSInv, BaseInvariant, SoleInvariant, ManagerInvariant, PTL DEF Spec

(* What the parts of the invariant say about a thread, in one place.       *)
LEMMA ThreadFacts ==
  ASSUME SInv, NEW t \in Threads
  PROVE  /\ KindOf(t) /\ (Asks(t) => HeldBy(t) /\ StopsAt(t))
         /\ Attends(t) => status[obj[t]] = Restarting
         /\ Watches(t) => hasResolver[obj[t]]
         /\ Fits(pc[t], op[t])
         /\ obj[t] # None <=> pc[t] \notin {"idle", "lookup"}
         /\ obj[t] # None => obj[t] \in Objs /\ obj[t] \in born /\ Name(obj[t]) \in Names
         /\ pc[t] \in {"idle", "lookup"} => op[t] = None
BY DEF SInv, SoleInv, Calm, Base, Kinds, Resolved, Attending, Held, Stops, MInv, Threaded, AtOp,
       Backed, Objs, Name

(* A thread that frees a port or takes an instance out asks.               *)
LEMMA StopperAsks ==
  ASSUME SInv, NEW t \in Threads, pc[t] \in {"free", "markStopped", "unregister", "deleteRow"}
  PROVE  Asks(t) /\ t \in Clients /\ op[t] \in {"stop", "delete"}
BY ThreadFacts DEF KindOf, Fits, Asks

(* An object stays in the registry, or is taken out, in every operation.   *)
LEMMA RegistryKeeps ==
  ASSUME SInv, NEW t \in Threads, Step(t) \/ (t \in Waiters /\ Wait(t))
  PROVE  \A n \in Names : registry'[n] \in {registry[n], None}
BY StepRegistry DEF SInv, SoleInv, Calm, Base, Tables, MInv

-----------------------------------------------------------------------------
(* The rows.  All are saved under the id 0, so there is at most one, and   *)
(* what is registered has it.                                              *)

OneRow == \A n, m \in Names : rows[n] # None /\ rows[m] # None => n = m

RowOf ==
  \A n \in Names :
    registry[n] # None =>
      rows[n] # None \/ \E c \in Clients : op[c] = "create" /\ obj[c] = registry[n]

RInv == OneRow /\ RowOf

(* The tables in a step of an operation.                                   *)
LEMMA RowsMove ==
  ASSUME SInv, NEW t \in Threads, Step(t) \/ (t \in Waiters /\ Wait(t))
  PROVE  /\ ~SaveExec(t) /\ ~DeleteRow(t) => rows' = rows
         /\ ~Unregister(t) /\ ~SaveFails(t) => registry' = registry
         /\ op[t] = "create" => pc[t] \in {"save", "exec"}
BY DEF Step, Wait, Check, StartCall, StartReturn, StopCall, StopReturn, FreePort,
       MarkStopped, Unregister, DeleteRow, Update, SaveRead, SaveExec, SaveFails, Poll,
       MarkRunning, MarkFailed, MarkFailedReturn, SInv, MInv, Threaded, AtOp, Fits

(* What was registered still is or is not, with its row or its creator.    *)
LEMMA RowOfStays ==
  ASSUME RowOf,
         \A n \in Names : registry'[n] \in {registry[n], None},
         \A n \in Names : registry'[n] # None /\ rows[n] # None => rows'[n] # None,
         \A c \in Clients :
           op[c] = "create" => \/ op'[c] = "create" /\ obj'[c] = obj[c]
                               \/ \A n \in Names :
                                    registry[n] = obj[c] =>
                                      rows'[n] # None \/ registry'[n] = None
  PROVE  RowOf'
BY DEF RowOf

(* A step of an operation keeps the invariant of the rows.                 *)
LEMMA StepRows ==
  ASSUME SInv, RInv, SerialByName, NEW t \in Threads, Step(t) \/ (t \in Waiters /\ Wait(t))
  PROVE  RInv'
<1>1. obj[t] \in Objs /\ Name(obj[t]) \in Names
  BY HasObject
  DEF Step, Wait, Check, StartCall, StartReturn, StopCall, StopReturn, FreePort, MarkStopped,
      Unregister, DeleteRow, Update, SaveRead, SaveExec, SaveFails, Poll, MarkRunning,
      MarkFailed, MarkFailedReturn, SInv
<1>2. \A n \in Names : registry[n] = obj[t] => n = Name(obj[t])
  BY <1>1, NullAssumption DEF SInv, SoleInv, Sole, Filed
<1>3. CASE SaveExec(t)
  <2>1. /\ rows' = [rows EXCEPT ![Name(obj[t])] = snap[t]]
        /\ snap[t] # None /\ registry' = registry
        /\ \A m \in Names \ {Name(obj[t])} : rows[m] = None
    BY <1>3 DEF SaveExec, IdTaken, SInv, MInv, Threaded, AtOp
  <2>2. \A c \in Clients : c # t /\ op[c] = "create" => op'[c] = "create" /\ obj'[c] = obj[c]
    BY <1>3, KindsApart, NullAssumption
    DEF SaveExec, EndsWatched, Ends, Waiters, SInv, MInv, Threaded, AtOp, Threads
  <2>3. OneRow'
    BY <1>1, <2>1 DEF OneRow, SInv, MInv, Tables
  <2>4. \A n \in Names : rows[n] # None => rows'[n] # None
    BY <1>1, <2>1 DEF SInv, MInv, Tables
  <2>5. rows'[Name(obj[t])] # None
    BY <1>1, <2>1 DEF SInv, MInv, Tables
  <2>6. RowOf'
    BY <1>2, <2>1, <2>2, <2>4, <2>5, RowOfStays DEF RInv
  <2> QED
    BY <2>3, <2>6 DEF RInv
<1>4. CASE DeleteRow(t)
  <2>1. /\ pc[t] = "deleteRow" /\ registry' = registry /\ Ends(t)
        /\ rows' = rows \/ rows' = [rows EXCEPT ![Name(obj[t])] = None]
    BY <1>4 DEF DeleteRow
  <2>2. registry[Name(obj[t])] = None /\ op[t] # "create"
    BY <2>1, StopperAsks, RowsMove DEF SInv, Held, HeldBy
  <2>3. \A c \in Clients : op[c] = "create" => op'[c] = "create" /\ obj'[c] = obj[c]
    BY <1>4, <2>1, <2>2, OthersStay DEF Threads, SaveExec, SInv
  <2>4. OneRow' /\ \A n \in Names \ {Name(obj[t])} : rows'[n] = rows[n]
    BY <1>1, <2>1 DEF RInv, OneRow, SInv, MInv, Tables
  <2>5. RowOf'
    BY <2>1, <2>2, <2>3, <2>4, RowOfStays DEF RInv
  <2> QED
    BY <2>4, <2>5 DEF RInv
<1>5. CASE ~SaveExec(t) /\ ~DeleteRow(t)
  <2>1. rows' = rows
    BY <1>5, RowsMove
  <2>2. \A n \in Names : registry'[n] \in {registry[n], None}
    BY RegistryKeeps DEF SInv, MInv, Tables
  <2>3. \A c \in Clients \ {t} : op[c] = "create" => op'[c] = "create" /\ obj'[c] = obj[c]
    BY <1>5, OthersStay DEF Threads, SInv
  <2>4. CASE op[t] = "create"
    <3>1. SaveRead(t) \/ SaveFails(t)
      BY <1>5, <2>4, RowsMove
      DEF Step, Wait, Check, StartCall, StartReturn, StopCall, StopReturn, FreePort,
          MarkStopped, Unregister, Update, Poll, MarkRunning, MarkFailed, MarkFailedReturn
    <3>2. \/ op' = op /\ obj' = obj
          \/ registry'[Name(obj[t])] = None
      BY <1>1, <2>4, <3>1 DEF SaveRead, SaveFails, SInv, MInv, Tables
    <3> QED
      BY <1>2, <2>1, <2>2, <2>3, <3>2, RowOfStays DEF RInv, OneRow
  <2>5. CASE op[t] # "create"
    BY <2>1, <2>2, <2>3, <2>5, RowOfStays DEF RInv, OneRow
  <2> QED
    BY <2>4, <2>5
<1> QED
  BY <1>3, <1>4, <1>5

(* A creation registers what it will save.                                 *)
LEMMA CreateRows ==
  ASSUME SInv, RInv, NEW c \in Clients, NEW n \in Names, NEW x \in Options, Create(c, n, x)
  PROVE  RInv'
<1> DEFINE o == <<n, made + 1>>
<1>1. /\ registry' = [registry EXCEPT ![n] = o] /\ rows' = rows
      /\ Runs(c, "save", "create", o) /\ MuFree
  BY DEF Create, MayCall
<1> HIDE DEF o
<1>2. op'[c] = "create" /\ obj'[c] = o
  BY <1>1 DEF Runs, SInv, MInv, Threaded, Threads
<1>3. \A d \in Clients : op[d] # "create"
  BY <1>1 DEF MuFree, Threads
<1>4. \A m \in Names \ {n} : registry'[m] = registry[m] /\ registry'[n] = o
  BY <1>1 DEF SInv, MInv, Tables
<1>5. RowOf'
  BY <1>1, <1>2, <1>3, <1>4 DEF RInv, RowOf
<1>6. QED
  BY <1>1, <1>5 DEF RInv, OneRow

(* One step of the system keeps the invariant of the rows.                 *)
LEMMA NextRows == SInv /\ RInv /\ SerialByName /\ [Next]_vars => RInv'
<1> SUFFICES ASSUME SInv, RInv, SerialByName, [Next]_vars PROVE RInv'
  OBVIOUS
<1>1. ASSUME UNCHANGED <<registry, rows>>,
             \A c \in Clients : op[c] = "create" => op'[c] = "create" /\ obj'[c] = obj[c]
      PROVE  RInv'
  BY <1>1, RowOfStays DEF RInv, OneRow
<1>2. CASE UNCHANGED vars
  BY <1>1, <1>2 DEF vars, threadVars
<1>3. ASSUME NEW c \in Clients, Call(c) PROVE RInv'
  <2>1. ASSUME NEW n \in Names, NEW how \in Requests, Request(c, n, how) PROVE RInv'
    BY <1>1, <2>1 DEF Request, MayCall, MuFree, Threads
  <2>2. ASSUME NEW n \in Names, CreateInvalid(c, n) PROVE RInv'
    BY <1>1, <2>2 DEF CreateInvalid, threadVars
  <2> QED
    BY <1>2, <1>3, <2>1, <2>2, CreateRows DEF Call, Refused
<1>4. ASSUME NEW t \in Threads, Step(t) \/ (t \in Waiters /\ Wait(t)) PROVE RInv'
  BY <1>4, StepRows
<1>5. ASSUME NEW t \in Autos, AutoLookup(t) PROVE RInv'
  BY <1>1, <1>5 DEF AutoLookup, MuFree, Threads
<1>6. ASSUME NEW p \in Launches, Process(p) PROVE RInv'
  BY <1>1, <1>6 DEF Process, threadVars
<1>7. CASE World
  <2>1. CASE ServerGone
    BY <2>1 DEF ServerGone, RInv, OneRow, RowOf
  <2>2. CASE Drain
    BY <1>1, <2>2 DEF Drain, threadVars
  <2>3. CASE ShutdownBegin
    BY <1>1, <2>3, KindsApart DEF ShutdownBegin
  <2>4. CASE Boot
    <3>1. PICK loaded \in {{n \in Names : rows[n] # None}} \cup (IF DbFaults THEN {{}} ELSE {}) :
            /\ registry' = [n \in Names |-> IF n \in loaded THEN <<n, made + 1>> ELSE None]
            /\ rows' = rows
      BY <2>4 DEF Boot
    <3> QED
      BY <3>1 DEF RInv, OneRow, RowOf
  <2> QED
    BY <1>7, <2>1, <2>2, <2>3, <2>4 DEF World, Crash, ShutdownEnd
<1> QED
  BY <1>2, <1>3, <1>4, <1>5, <1>6, <1>7 DEF Next, Waiters, Threads

(* The invariant of the rows holds, also where statements may fail.        *)
LEMMA RowsInvariant == Spec /\ []SerialByName => []RInv
<1>1. Init => RInv
  BY DEF Init, RInv, OneRow, RowOf
<1>2. QED
  BY <1>1, NextRows, SerialInvariant, PTL DEF Spec

-----------------------------------------------------------------------------
(* Who ends a start, while the database works and the boot had the path of *)
(* a binary.                                                               *)

Reliable == DbFaults = FALSE /\ Binaryless \cap Objs = {}

Watched ==
  \A o \in born :
    status[o] = Restarting => \E t \in Threads : Attends(t) /\ obj[t] = o

(* One thread moves, and keeps to what it attends unless it has ended it.  *)
LEMMA WatchedMoves ==
  ASSUME SInv, Watched, NEW t \in Threads, born' \subseteq born,
         \A u \in Threads \ {t} : pc'[u] = pc[u] /\ op'[u] = op[u] /\ obj'[u] = obj[u],
         \A o \in born' : status'[o] = Restarting =>
           status[o] = Restarting \/ (Attends(t)' /\ obj'[t] = o),
         Attends(t) /\ status'[obj[t]] = Restarting => Attends(t)' /\ obj'[t] = obj[t]
  PROVE  Watched'
<1>1. \A u \in Threads \ {t} : Attends(u)' = Attends(u)
  BY DEF Attends, Watches
<1>2. QED
  BY <1>1 DEF Watched

(* Threads that attend stay where they are.                                *)
LEMMA WatchedStays ==
  ASSUME Watched, born' \subseteq born,
         \A o \in born' : status'[o] = Restarting => status[o] = Restarting,
         \A t \in Threads : Attends(t) => Attends(t)' /\ obj'[t] = obj[t]
  PROVE  Watched'
BY DEF Watched

(* A start is saved: its row was made with it, and it is the only one.     *)
LEMMA StartsAreSaved ==
  ASSUME SInv, RInv, Reliable, NEW t \in Threads, Attends(t)
  PROVE  ~SaveFails(t)
<1> SUFFICES ASSUME SaveFails(t) PROVE FALSE
  OBVIOUS
<1>1. /\ op[t] \in {"start", "restart"} /\ pc[t] = "exec" /\ hasResolver[obj[t]]
      /\ obj[t] \in Objs /\ Name(obj[t]) \in Names /\ obj[t] # None
      /\ t \in Clients \cup Autos
  BY ThreadFacts DEF SaveFails, Attends, Watches, Watching, KindOf
<1>2. registry[Name(obj[t])] = obj[t]
  BY <1>1 DEF SInv, Held, HeldBy, Asks
<1>3. rows[Name(obj[t])] # None
  <2>1. \A c \in Clients : op[c] = "create" => obj[c] # obj[t]
    BY <1>1 DEF SInv, MInv, Threaded, UnsavedUntouched, Threads
  <2> QED
    BY <1>1, <1>2, <2>1 DEF RInv, RowOf
<1>4. ~IdTaken(Name(obj[t]))
  BY <1>1, <1>3 DEF RInv, OneRow, IdTaken
<1>5. QED
  BY <1>4 DEF SaveFails, Reliable

(* Start returns with a process to watch, or in failed.                    *)
LEMMA StartsWatched ==
  ASSUME SInv, Watched, Reliable, NEW t \in Threads, StartCall(t) \/ StartReturn(t)
  PROVE  Watched'
<1>1. /\ obj[t] \in Objs /\ op[t] \in {"start", "restart"}
      /\ \A u \in Threads \ {t} : pc'[u] = pc[u] /\ op'[u] = op[u] /\ obj'[u] = obj[u]
  BY HasObject, OthersStay
  DEF StartCall, StartReturn, Step, SaveExec, SInv, MInv, Threaded, AtOp, Fits
<1>2. CASE pc[t] = "start" /\ I!StartRefused(obj[t])
  <2>1. ~Attends(t) /\ UNCHANGED <<born, status>>
    BY <1>2 DEF Attends, Watches, Watching, I!StartRefused, I!instVars, I!objVars
  <2> QED
    BY <1>1, <2>1, WatchedMoves
<1>3. CASE pc[t] = "start" /\ I!StartBegin(obj[t]) /\ Goto(t, "starting")
  <2>1. ~Attends(t) /\ Attends(t)' /\ obj'[t] = obj[t]
    BY <1>3, GoesTo DEF Attends, Watches, Watching, SInv
  <2>2. born' = born /\ \A o \in born : o # obj[t] => status'[o] = status[o]
    BY <1>3 DEF I!StartBegin, SInv, MInv, ObjInv, I!InstTypeOK
  <2> QED
    BY <1>1, <2>1, <2>2, WatchedMoves
<1>4. CASE (I!StartFails(obj[t]) \/ I!StartNoBinary(obj[t]))
  <2>1. status' = [status EXCEPT ![obj[t]] = Failed] /\ born' = born
    BY <1>1, <1>4, SameStatuses DEF I!StartFails, I!StartNoBinary, Reliable
  <2>2. /\ \A o \in born : o # obj[t] => status'[o] = status[o]
        /\ status'[obj[t]] # Restarting
    BY <1>1, <2>1 DEF SInv, MInv, ObjInv, I!InstTypeOK, Failed, Restarting
  <2> QED
    BY <1>1, <2>1, <2>2, WatchedMoves
<1>5. CASE (\E p \in Launches : I!StartLaunches(obj[t], p)) /\ Goto(t, "save")
  <2>1. Attends(t)' /\ obj'[t] = obj[t]
    BY <1>1, <1>5, GoesTo DEF Attends, Watches, SInv
  <2>2. UNCHANGED <<born, status>>
    BY <1>5 DEF I!StartLaunches
  <2> QED
    BY <1>1, <2>1, <2>2, WatchedMoves
<1> QED
  BY <1>2, <1>3, <1>4, <1>5 DEF StartCall, StartReturn

(* The one who has saved a start leaves a waiter for it.                   *)
LEMMA SaveExecWatched ==
  ASSUME SInv, Watched, NEW t \in Threads, SaveExec(t)
  PROVE  Watched'
<1>1. UNCHANGED <<born, status>> /\ pc[t] = "exec"
  BY DEF SaveExec, instVars
<1>2. CASE op[t] \in {"start", "restart"}
  <2>1. PICK w \in Waiters :
          /\ pc[w] = "idle"
          /\ pc' = [pc EXCEPT ![t] = "idle", ![w] = "poll"]
          /\ op' = [op EXCEPT ![t] = None, ![w] = "wait"]
          /\ obj' = [obj EXCEPT ![t] = None, ![w] = obj[t]]
    BY <1>2 DEF SaveExec, EndsWatched
  <2>2. w \in Threads /\ w # t /\ ~Attends(w)
    BY <1>1, <2>1, ThreadFacts, NullAssumption DEF Threads, Attends, Watches, Watching
  <2>3. Attends(w)' /\ obj'[w] = obj[t]
    BY <2>1, <2>2 DEF SInv, MInv, Threaded, Attends, Watches, Watching
  <2>4. \A u \in Threads \ {t, w} : Attends(u)' = Attends(u) /\ obj'[u] = obj[u]
    BY <2>1 DEF SInv, MInv, Threaded, Attends, Watches
  <2> QED
    BY <1>1, <2>2, <2>3, <2>4 DEF Watched
<1>3. CASE op[t] \notin {"start", "restart"}
  <2>1. \A u \in Threads \ {t} : pc'[u] = pc[u] /\ op'[u] = op[u] /\ obj'[u] = obj[u]
    BY <1>3 DEF SaveExec, EndsWatched, Ends, SInv, MInv, Threaded
  <2>2. ~Attends(t)
    BY <1>1, <1>3 DEF Attends, Watches, Watching
  <2> QED
    BY <1>1, <2>1, <2>2, WatchedMoves
<1> QED
  BY <1>2, <1>3

(* The waiter, and whoever reads the object to save it, goes on with it,   *)
(* until it is not restarting any more.                                    *)
LEMMA WaitsWatched ==
  ASSUME SInv, Watched, NEW t \in Threads,
         SaveRead(t) \/ Poll(t) \/ MarkRunning(t) \/ MarkFailed(t) \/ MarkFailedReturn(t)
  PROVE  Watched'
<1>1. obj[t] \in Objs
  BY HasObject DEF SaveRead, Poll, MarkRunning, MarkFailed, MarkFailedReturn, SInv
<1>2. \A u \in Threads \ {t} : pc'[u] = pc[u] /\ op'[u] = op[u] /\ obj'[u] = obj[u]
  <2>1. (\E l : Goto(t, l)) \/ SaveRead(t) \/ UNCHANGED threadVars
    BY DEF Poll, MarkRunning, MarkFailed, MarkFailedReturn
  <2> QED
    BY <2>1 DEF Goto, SaveRead, threadVars, SInv, MInv, Threaded
<1>3. CASE SaveRead(t)
  <2>1. /\ UNCHANGED <<born, status, op, obj>> /\ pc[t] = "save" /\ pc'[t] = "exec"
    BY <1>3 DEF SaveRead, instVars, SInv, MInv, Threaded
  <2>2. Attends(t) => Attends(t)'
    BY <2>1 DEF Attends, Watches, Watching
  <2> QED
    BY <1>2, <2>1, <2>2, WatchedMoves
<1>4. CASE Poll(t) \/ MarkFailed(t)
  <2>1. PICK l \in {"markRunning", "markFailed", "failing"} : Goto(t, l)
    BY <1>4 DEF Poll, MarkFailed
  <2>2. Attends(t)' /\ obj' = obj
    BY <2>1, GoesTo DEF Attends, Watches, Watching, SInv
  <2>3. UNCHANGED <<born, status>>
    BY <1>4 DEF Poll, MarkFailed, I!MarkFailedBegin, I!objVars, instVars
  <2> QED
    BY <1>2, <2>2, <2>3, WatchedMoves
<1>5. CASE MarkRunning(t)
  <2>1. born' = born /\ status' = [status EXCEPT ![obj[t]] = Running]
    BY <1>5, SameStatuses DEF MarkRunning, I!MarkRunning, I!Forced
  <2>2. /\ \A o \in born : o # obj[t] => status'[o] = status[o]
        /\ status'[obj[t]] # Restarting
    BY <1>1, <2>1 DEF SInv, MInv, ObjInv, I!InstTypeOK, Running, Restarting
  <2> QED
    BY <1>2, <2>1, <2>2, WatchedMoves
<1>6. CASE MarkFailedReturn(t)
  <2>1. CASE I!StopGoesOn(obj[t]) /\ UNCHANGED threadVars
    <3>1. UNCHANGED <<born, status, pc, op, obj>>
      BY <2>1 DEF threadVars, I!StopGoesOn, I!KillSent, I!GraceEnds, I!RekillSent,
                  I!StageGoes, I!objVars
    <3> QED
      BY <3>1, WatchedStays DEF Attends, Watches
  <2>2. CASE I!StopSucceeds(obj[t]) \/ I!StopErrs(obj[t])
    <3>1. holder[obj[t]] = "fail" /\ made' = made
      BY <1>6 DEF MarkFailedReturn, worldVars, SInv, MInv, Locks, Method
    <3>2. born' = born /\ status' = [status EXCEPT ![obj[t]] = Failed]
      BY <1>1, <2>2, <3>1, SameStatuses
      DEF I!StopSucceeds, I!StopErrs, I!KillNoProcess, I!DoneClosed, I!KillReaped,
          I!RekillReaped, I!StopReturns
    <3>3. /\ \A o \in born : o # obj[t] => status'[o] = status[o]
          /\ status'[obj[t]] # Restarting
      BY <1>1, <3>2 DEF SInv, MInv, ObjInv, I!InstTypeOK, Failed, Restarting
    <3> QED
      BY <1>2, <3>2, <3>3, WatchedMoves
  <2> QED
    BY <1>6, <2>1, <2>2 DEF MarkFailedReturn
<1> QED
  BY <1>3, <1>4, <1>5, <1>6

(* The other steps are of threads that attend to nothing, and none of them *)
(* sets restarting.                                                        *)
LEMMA OthersWatched ==
  ASSUME SInv, RInv, Watched, Reliable, NEW t \in Threads,
         \/ Check(t) \/ StopCall(t) \/ StopReturn(t) \/ FreePort(t) \/ MarkStopped(t)
         \/ Unregister(t) \/ DeleteRow(t) \/ Update(t) \/ SaveFails(t)
  PROVE  Watched'
<1>1. ~Attends(t)
  BY StartsAreSaved
  DEF Check, StopCall, StopReturn, FreePort, MarkStopped, Unregister, DeleteRow, Update,
      Attends, Watches, Watching
<1>2. \A u \in Threads \ {t} : pc'[u] = pc[u] /\ op'[u] = op[u] /\ obj'[u] = obj[u]
  <2>1. CASE SaveFails(t)
    BY <2>1 DEF SaveFails, Ends, SInv, MInv, Threaded
  <2>2. CASE ~SaveFails(t)
    <3>1. Step(t)
      BY <2>2 DEF Step
    <3>2. ~SaveExec(t)
      BY <2>2
      DEF SaveExec, Check, StopCall, StopReturn, FreePort, MarkStopped, Unregister, DeleteRow,
          Update
    <3> QED
      BY <3>1, <3>2, OthersStay DEF SInv
  <2> QED
    BY <2>1, <2>2
<1>3. born' = born /\ \A o \in born : status'[o] = Restarting => status[o] = Restarting
  <2>1. CASE StopCall(t) \/ StopReturn(t)
    <3>1. born' = born
      BY <2>1, StopHolder, HasObject, SameVars
      DEF StopCall, StopReturn, I!StopNil, I!StopRefused, I!StopBegin, instVars, SInv
    <3>2. \A o \in born : status'[o] # status[o] => status'[o] \in {ShuttingDown, Stopped, Failed}
      BY <2>1, SameStatuses, SameVars
      DEF StopCall, StopReturn, I!StopNil, I!StopRefused, I!StopBegin, I!StopGoesOn, I!KillSent,
          I!GraceEnds, I!RekillSent, I!StageGoes, I!objVars, I!StopSucceeds, I!StopErrs,
          I!KillNoProcess, I!DoneClosed, I!KillReaped, I!RekillReaped, I!StopReturns, instVars,
          SInv, MInv, ObjInv, I!InstTypeOK
    <3> QED
      BY <3>1, <3>2 DEF Restarting, ShuttingDown, Stopped, Failed
  <2>2. CASE MarkStopped(t)
    BY <2>2, SameStatuses
    DEF MarkStopped, I!MarkStopped, I!Forced, instVars, SInv, MInv, ObjInv, I!InstTypeOK,
        Stopped, Restarting
  <2>3. CASE ~(StopCall(t) \/ StopReturn(t) \/ MarkStopped(t))
    BY <2>3
    DEF Check, FreePort, Unregister, DeleteRow, Update, SaveFails, I!SetOpts, instVars
  <2> QED
    BY <2>1, <2>2, <2>3
<1>4. QED
  BY <1>1, <1>2, <1>3, WatchedMoves

(* One step of the system.                                                 *)
LEMMA NextWatched ==
  SInv /\ SInv' /\ RInv /\ Watched /\ Reliable /\ [Next]_vars => Watched'
<1> SUFFICES ASSUME SInv, SInv', RInv, Watched, Reliable, [Next]_vars PROVE Watched'
  OBVIOUS
<1>1. ASSUME UNCHANGED <<born, status>>,
             \A t \in Threads : Attends(t) => UNCHANGED <<pc[t], op[t], obj[t]>>
      PROVE  Watched'
  BY <1>1, WatchedStays DEF Attends, Watches
<1>2. CASE UNCHANGED vars
  BY <1>1, <1>2 DEF vars, threadVars, instVars
<1>3. ASSUME NEW c \in Clients, Call(c) PROVE Watched'
  <2>1. CASE Refused(c)
    BY <1>2, <2>1 DEF Refused
  <2>2. ASSUME NEW n \in Names, NEW x \in Options, Create(c, n, x) PROVE Watched'
    <3>1. PICK p \in P!Port : I!New(<<n, made + 1>>, p, TRUE, x)
      BY <2>2 DEF Create
    <3>2. /\ \A u \in Threads \ {c} : pc'[u] = pc[u] /\ op'[u] = op[u] /\ obj'[u] = obj[u]
          /\ pc[c] = "idle" /\ op[c] = None /\ c \in Threads
      BY <2>2, ThreadFacts DEF Create, MayCall, Runs, SInv, MInv, Threaded, Threads
    <3>3. /\ born' = born \cup {<<n, made + 1>>}
          /\ \A o \in born' : status'[o] = Restarting => o \in born /\ status[o] = Restarting
      BY <3>1, SameStatuses
      DEF I!New, SInv, MInv, ObjInv, I!InstTypeOK, Stopped, Restarting
    <3>4. \A u \in Threads : Attends(u) => Attends(u)' /\ obj'[u] = obj[u]
      BY <3>2, NullAssumption DEF Attends, Watches, Watching
    <3> QED
      BY <3>3, <3>4 DEF Watched
  <2>3. ASSUME NEW n \in Names, CreateInvalid(c, n) PROVE Watched'
    BY <1>1, <2>3 DEF CreateInvalid, instVars, threadVars
  <2>4. ASSUME NEW n \in Names, NEW how \in Requests, Request(c, n, how) PROVE Watched'
    <3>1. UNCHANGED <<born, status>>
      BY <2>4 DEF Request, instVars
    <3>2. /\ \A u \in Threads \ {c} : pc'[u] = pc[u] /\ op'[u] = op[u] /\ obj'[u] = obj[u]
          /\ ~Attends(c) /\ c \in Threads
      BY <2>4, ThreadFacts, NullAssumption
      DEF Request, MayCall, Runs, SInv, MInv, Threaded, Threads, Attends, Watches, Watching
    <3> QED
      BY <3>1, <3>2, WatchedMoves
  <2> QED
    BY <1>3, <2>1, <2>2, <2>3, <2>4 DEF Call
<1>4. ASSUME NEW t \in Threads, Step(t) \/ (t \in Waiters /\ Wait(t)) PROVE Watched'
  BY <1>4, StartsWatched, SaveExecWatched, WaitsWatched, OthersWatched DEF Step, Wait
<1>5. ASSUME NEW t \in Autos, AutoLookup(t) PROVE Watched'
  <2>1. t \in Threads /\ UNCHANGED <<born, status>>
    BY <1>5 DEF AutoLookup, Threads, instVars
  <2>2. /\ \A u \in Threads \ {t} : pc'[u] = pc[u] /\ op'[u] = op[u] /\ obj'[u] = obj[u]
        /\ ~Attends(t)
    BY <1>5, <2>1, ThreadFacts, NullAssumption
    DEF AutoLookup, Runs, Ends, SInv, MInv, Threaded, Attends, Watches, Watching
  <2> QED
    BY <2>1, <2>2, WatchedMoves
<1>6. ASSUME NEW p \in Launches, Process(p) PROVE Watched'
  BY <1>1, <1>6 DEF Process, I!Listens, I!Exits, I!objVars, threadVars
<1>7. CASE World
  <2>1. CASE ServerGone
    BY <2>1 DEF ServerGone, Watched
  <2>2. CASE Drain
    BY <1>1, <2>2 DEF Drain, instVars, threadVars
  <2>3. CASE ShutdownBegin
    <3>1. server = "draining" /\ UNCHANGED <<born, status>>
      BY <2>3 DEF ShutdownBegin, instVars
    <3>2. \A t \in Stoppers : pc[t] = "idle" /\ op[t] = None /\ t \in Threads
      BY <3>1, ThreadFacts DEF SInv, MInv, Phases, Threads
    <3>3. \A t \in Threads : Attends(t) => t \notin Stoppers
      BY <3>2, NullAssumption DEF Attends, Watches, Watching
    <3> QED
      BY <1>1, <2>3, <3>1, <3>3 DEF ShutdownBegin
  <2>4. CASE Boot
    <3>1. \A o \in born' : status'[o] # Restarting
      <4>1. \A o \in Objs : status[o] = Stopped
        <5>1. born = {}
          BY <2>4 DEF Boot, SInv, MInv, Phases
        <5> QED
          BY <5>1, SameStatuses DEF SInv, MInv, ObjInv, I!InstTypeOK, I!LockOK
      <4>2. born' \subseteq Objs
        BY DEF SInv, MInv, ObjInv, I!InstTypeOK
      <4> QED
        BY <2>4, <4>1, <4>2 DEF Boot, Stopped, Restarting
    <3> QED
      BY <3>1 DEF Watched
  <2> QED
    BY <1>7, <2>1, <2>2, <2>3, <2>4 DEF World, Crash, ShutdownEnd
<1> QED
  BY <1>2, <1>3, <1>4, <1>5, <1>6, <1>7 DEF Next, Waiters, Threads

(* A start has exactly one goroutine that will end it, as long as no       *)
(* statement fails that the caller of Start has to execute before it       *)
(* leaves the waiter, and Start does not return in the middle for want of  *)
(* a binary.                                                               *)
THEOREM StartsAreWatched ==
  Reliable => (Spec /\ []SerialByName => []RestartingIsWatched)
<1> SUFFICES ASSUME Reliable PROVE Spec /\ []SerialByName => []RestartingIsWatched
  OBVIOUS
<1>1. Init => Watched
  BY DEF Init, I!InstInit, Watched
<1>2. SInv /\ SInv' /\ RInv /\ Watched /\ [Next]_vars => Watched'
  BY NextWatched
<1>3. SInv /\ Watched => RestartingIsWatched
  <2> SUFFICES ASSUME SInv, Watched, NEW o \in born, status[o] = Restarting,
                      holder[o] # "start"
               PROVE  Cardinality(Watchers(o)) = 1
    BY DEF RestartingIsWatched
  <2>1. PICK t \in Threads : Attends(t) /\ obj[t] = o
    BY DEF Watched
  <2>2. pc[t] # "starting"
    BY <2>1 DEF SInv, MInv, Locks, Method
  <2>3. \A u \in Threads : u \in Watchers(o) <=> obj[u] = o /\ Watches(u)
    BY DEF Watchers, Watches, Watching
  <2>4. t \in Watchers(o)
    BY <2>1, <2>2, <2>3 DEF Attends
  <2>5. \A u \in Watchers(o) : u = t
    BY <2>1, <2>3 DEF Watchers, SInv, SoleInv, Attending, Attends
  <2>6. Watchers(o) = {t}
    BY <2>4, <2>5
  <2> QED
    BY <2>6, FS_Singleton
<1>4. QED
  BY <1>1, <1>2, <1>3, SerialInvariant, RowsInvariant, PTL DEF Spec

-----------------------------------------------------------------------------
(* Ports, while requests take turns whatever their names.                  *)

Launched(o) == \E p \in Launches : pstate[p] # "none" /\ powner[p] = o

(* What has not been used yet.                                             *)
Untouched ==
  /\ \A o \in Objs \ born : ~shuttingDown[o] /\ port[o] = NoPort
  /\ \A t \in Threads : op[t] = "create" => ~shuttingDown[obj[t]] /\ ~Launched(obj[t])
  /\ \A o \in born : Launched(o) => hasResolver[o]

(* An instance that was launched and never stopped holds its port, also    *)
(* when it was deleted while it started.                                   *)
PortKept ==
  \A o \in born :
    Launched(o) /\ ~shuttingDown[o] => allocated[port[o]] = Name(o)

(* No registered instance has the port of another one that was launched    *)
(* and never stopped.                                                      *)
PortsApart ==
  \A n \in Names : \A o \in born :
    registry[n] # None /\ o # registry[n] /\ Launched(o) /\ ~shuttingDown[o] =>
      port[o] # port[registry[n]]

(* In the first server process, no process is left from an earlier one.    *)
OwnPorts ==
  boots = 0 /\ server # "down" =>
    \A p \in Launches :
      pstate[p] # "none" => powner[p] \in born /\ pport[p] = port[powner[p]]

PInv == Untouched /\ PortHeld /\ PortKept /\ PortsApart /\ OwnPorts

(* What is registered under a name, when one thread asks, is its object.   *)
LEMMA OneRegistered ==
  ASSUME SInv, RInv, Serial, NEW t \in Threads, Asks(t), op[t] # "create",
         NEW n \in Names, registry[n] # None, pc[t] # "deleteRow"
  PROVE  n = Name(obj[t]) /\ registry[n] = obj[t]
<1>1. registry[Name(obj[t])] = obj[t] /\ Name(obj[t]) \in Names /\ obj[t] # None
  BY ThreadFacts DEF SInv, Held, HeldBy, Asks
<1>2. \A c \in Clients : op[c] # "create"
  <2> SUFFICES ASSUME NEW c \in Clients, op[c] = "create" PROVE FALSE
    OBVIOUS
  <2>1. c \in Threads /\ c # t
    BY DEF Threads
  <2>2. Asks(c)
    BY <2>1, ThreadFacts, NullAssumption DEF Asks
  <2> QED
    BY <2>1, <2>2 DEF Serial
<1>3. QED
  BY <1>1, <1>2 DEF RInv, RowOf, OneRow

(* A launched object has a port, which is one of the allocator's.          *)
LEMMA LaunchedHasPort ==
  ASSUME SInv, PInv, NEW o \in born, Launched(o)
  PROVE  port[o] \in P!Port /\ port[o] # NoPort /\ Name(o) \in Names /\ o \in Objs
BY DEF PInv, Untouched, SInv, MInv, ObjInv, PortsKnown, I!InstTypeOK, Objs, Name

(* Whether an object was launched.                                         *)
LEMMA SameLaunched ==
  ASSUME UNCHANGED powner,
         \A p \in Launches : pstate'[p] = "none" <=> pstate[p] = "none"
  PROVE  \A o : Launched(o)' <=> Launched(o)
BY DEF Launched

(* No step on the ports: names leave the registry, and objects that exist  *)
(* and are no longer being created are stopped.                            *)
LEMMA PortsStay ==
  ASSUME SInv, PInv,
         UNCHANGED <<born, port, hasResolver, allocated, powner, pport, boots>>,
         \A p \in Launches : pstate'[p] = "none" <=> pstate[p] = "none",
         server # "down" \/ server' = "down",
         \A n \in Names : registry'[n] \in {registry[n], None},
         \A o \in Objs : shuttingDown[o] => shuttingDown'[o],
         \A o \in Objs \ born : shuttingDown'[o] = shuttingDown[o],
         \A t \in Threads :
           op'[t] = "create" => /\ op[t] = "create" /\ obj'[t] = obj[t]
                                /\ shuttingDown'[obj[t]] = shuttingDown[obj[t]]
  PROVE  PInv'
<1>1. \A o : Launched(o)' <=> Launched(o)
  BY SameLaunched
<1>2. /\ born \subseteq Objs
      /\ \A n \in Names : registry[n] # None => registry[n] \in Objs
      /\ shuttingDown \in [Objs -> BOOLEAN]
  BY DEF SInv, MInv, ObjInv, I!InstTypeOK, Tables
<1>3. Untouched'
  BY <1>1, <1>2 DEF PInv, Untouched
<1>4. PortHeld'
  BY <1>2 DEF PInv, PortHeld
<1>5. PortKept'
  BY <1>1, <1>2 DEF PInv, PortKept
<1>6. PortsApart'
  BY <1>1, <1>2 DEF PInv, PortsApart
<1>7. OwnPorts'
  BY DEF PInv, OwnPorts
<1>8. QED
  BY <1>3, <1>4, <1>5, <1>6, <1>7 DEF PInv

(* A port that Allocate picks is free.                                     *)
LEMMA PicksFree ==
  ASSUME MInv, NEW p \in P!Port, P!Picks(p)
  PROVE  allocated[p] = NoOwner
BY DEF P!Picks, P!IsLowest, P!FromCursor, P!BelowCursor, P!FreeIn

(* Allocating disturbs nobody.                                             *)
LEMMA AllocatesApart ==
  ASSUME SInv, PInv, NEW m \in Names, NEW p \in P!Port, P!Allocate(m, p)
  PROVE  /\ allocated[p] = NoOwner /\ allocated'[p] = m
         /\ \A q \in P!Port : allocated[q] # NoOwner => allocated'[q] = allocated[q]
         /\ NoOwner \notin Names
BY PicksFree, PortAssumption DEF P!Allocate, SInv, MInv, Tables, P!PortTypeOK

(* A creation takes a port that nobody has who matters.                    *)
LEMMA CreatePorts ==
  ASSUME SInv, PInv, Serial, NEW c \in Clients, NEW n \in Names, NEW x \in Options,
         Create(c, n, x)
  PROVE  PInv'
<1> DEFINE o == <<n, made + 1>>
<1>1. PICK p \in P!Port : P!Allocate(n, p) /\ I!New(o, p, TRUE, x)
  BY DEF Create
<1>2. /\ o \in Objs /\ Name(o) = n /\ o[2] = made + 1 /\ made \in Nat
      /\ registry' = [registry EXCEPT ![n] = o] /\ registry[n] = None
      /\ Runs(c, "save", "create", o) /\ MuFree /\ UNCHANGED <<server, boots>>
      /\ c \in Threads
  BY ManagerAssumption DEF Create, MayCall, SInv, MInv, Tables, Objs, Name, Threads
<1> HIDE DEF o
<1>3. /\ o \notin born /\ born' = born \cup {o}
      /\ port' = [port EXCEPT ![o] = p] /\ hasResolver' = [hasResolver EXCEPT ![o] = TRUE]
      /\ UNCHANGED <<shuttingDown, pstate, powner, pport>>
  BY <1>1 DEF I!New, I!procVars
<1>4. /\ \A q \in Launches : pstate[q] # "none" => powner[q] # o
      /\ \A q : Launched(q)' <=> Launched(q)
      /\ ~Launched(o)
  <2>1. \A q \in Launches : pstate[q] # "none" => powner[q] # o
    BY <1>2 DEF SInv, SoleInv, Calm, Base, Rounds
  <2> QED
    BY <1>3, <2>1, SameLaunched DEF Launched
<1>5. /\ born \subseteq Objs /\ registry \in [Names -> Objs \cup {None}]
      /\ shuttingDown \in [Objs -> BOOLEAN]
      /\ port \in [Objs -> P!Port \cup {NoPort}] /\ hasResolver \in [Objs -> BOOLEAN]
      /\ \A m \in Names : registry[m] # None => registry[m] \in born /\ registry[m] # o
      /\ NoPort \notin P!Port
  BY <1>3, PortAssumption DEF SInv, MInv, ObjInv, I!InstTypeOK, Tables, Backed, P!Port
<1>6. /\ allocated[p] = NoOwner /\ allocated'[p] = n
      /\ \A q \in P!Port : allocated[q] # NoOwner => allocated'[q] = allocated[q]
      /\ NoOwner \notin Names
  BY <1>1, AllocatesApart
<1>7. /\ \A q \in Objs \ {o} : port'[q] = port[q] /\ hasResolver'[q] = hasResolver[q]
      /\ port'[o] = p /\ hasResolver'[o]
      /\ \A m \in Names \ {n} : registry'[m] = registry[m]
      /\ registry'[n] = o
  BY <1>2, <1>3, <1>5
<1>8. Untouched'
  <2>1. \A t \in Threads : op'[t] = "create" => t = c /\ obj'[t] = o
    BY <1>2 DEF Runs, MuFree, SInv, MInv, Threaded
  <2>2. ~shuttingDown[o]
    BY <1>2, <1>3 DEF PInv, Untouched
  <2> QED
    BY <1>3, <1>4, <1>5, <1>7, <2>1, <2>2 DEF PInv, Untouched
<1>9. PortHeld'
  <2> SUFFICES ASSUME NEW m \in Names, registry'[m] # None, ~shuttingDown'[registry'[m]],
                      port'[registry'[m]] # NoPort
               PROVE  allocated'[port'[registry'[m]]] = m
    BY DEF PortHeld
  <2>1. CASE m = n
    BY <1>6, <1>7, <2>1
  <2>2. CASE m # n
    <3>1. /\ registry'[m] = registry[m] /\ registry[m] \in born /\ registry[m] \in Objs \ {o}
          /\ port'[registry[m]] = port[registry[m]] /\ port[registry[m]] \in P!Port
      BY <1>5, <1>7, <2>2
    <3>2. allocated[port[registry[m]]] = m
      BY <1>3, <3>1 DEF PInv, PortHeld
    <3> QED
      BY <1>6, <3>1, <3>2
  <2> QED
    BY <2>1, <2>2
<1>10. /\ \A q \in born : Launched(q) /\ ~shuttingDown[q] =>
            /\ q \in Objs \ {o} /\ port[q] \in P!Port
            /\ allocated[port[q]] = Name(q) /\ Name(q) \in Names
  BY <1>3, LaunchedHasPort DEF PInv, PortKept
<1>11. PortKept'
  BY <1>3, <1>4, <1>6, <1>7, <1>10 DEF PortKept
<1>12. PortsApart'
  <2> SUFFICES ASSUME NEW m \in Names, NEW q \in born', registry'[m] # None,
                      q # registry'[m], Launched(q)', ~shuttingDown'[q]
               PROVE  port'[q] # port'[registry'[m]]
    BY DEF PortsApart
  <2>1. q \in born /\ Launched(q) /\ ~shuttingDown[q] /\ port'[q] = port[q]
    BY <1>3, <1>4, <1>7, <1>10
  <2>2. CASE m = n
    BY <1>6, <1>7, <1>10, <2>1, <2>2
  <2>3. CASE m # n
    BY <1>5, <1>7, <2>1, <2>3 DEF PInv, PortsApart
  <2> QED
    BY <2>2, <2>3
<1>13. OwnPorts'
  BY <1>2, <1>3, <1>5, <1>7 DEF PInv, OwnPorts
<1>14. QED
  BY <1>8, <1>9, <1>11, <1>12, <1>13 DEF PInv

(* So does one that is refused after the port has been taken.              *)
LEMMA CreateInvalidPorts ==
  ASSUME SInv, PInv, NEW c \in Clients, NEW n \in Names, CreateInvalid(c, n)
  PROVE  PInv'
<1>1. PICK p \in P!Port : P!Allocate(n, p)
  BY DEF CreateInvalid
<1>2. /\ allocated[p] = NoOwner
      /\ \A q \in P!Port : allocated[q] # NoOwner => allocated'[q] = allocated[q]
      /\ NoOwner \notin Names
  BY <1>1, AllocatesApart
<1>3. UNCHANGED <<born, port, hasResolver, shuttingDown, pstate, powner, pport, registry,
                  op, obj, server, boots>>
  BY DEF CreateInvalid, instVars, procVars, threadVars, worldVars
<1>4. \A q : Launched(q)' <=> Launched(q)
  BY <1>3, SameLaunched
<1>5. PortHeld'
  <2>1. \A m \in Names : registry[m] # None => port[registry[m]] \in P!Port \cup {NoPort}
    BY DEF SInv, MInv, ObjInv, I!InstTypeOK, Tables
  <2> QED
    BY <1>2, <1>3, <2>1 DEF PInv, PortHeld
<1>6. PortKept'
  BY <1>2, <1>3, <1>4, LaunchedHasPort DEF PInv, PortKept
<1>7. Untouched' /\ PortsApart' /\ OwnPorts'
  BY <1>3, <1>4 DEF PInv, Untouched, PortsApart, OwnPorts
<1>8. QED
  BY <1>5, <1>6, <1>7 DEF PInv

(* Giving a port back disturbs nobody else.                                *)
LEMMA FreesOne ==
  ASSUME MInv, NEW q, P!Free(q)
  PROVE  \A p \in P!Port : p # q => allocated'[p] = allocated[p]
BY DEF P!Free, MInv, Tables, P!PortTypeOK

(* A stop gives the port of the only registered instance back.             *)
LEMMA FreePortPorts ==
  ASSUME SInv, RInv, PInv, Serial, NEW t \in Threads, FreePort(t)
  PROVE  PInv'
<1>1. /\ obj[t] \in Objs /\ obj[t] \in born /\ Name(obj[t]) \in Names /\ obj[t] # None
      /\ pc[t] = "free" /\ shuttingDown[obj[t]] /\ op[t] # "create"
  BY ThreadFacts, StopperAsks DEF FreePort, StopsAt
<1>2. Asks(t)
  BY <1>1, StopperAsks
<1>3. \A n \in Names : registry[n] # None => n = Name(obj[t]) /\ registry[n] = obj[t]
  BY <1>1, <1>2, OneRegistered
<1>4. registry[Name(obj[t])] = obj[t]
  BY <1>1, <1>2 DEF SInv, Held, HeldBy
<1>5. UNCHANGED <<born, port, hasResolver, shuttingDown, pstate, powner, pport, registry,
                  op, obj, server, boots>>
  BY DEF FreePort, instVars, procVars, Goto, worldVars
<1>6. \A q : Launched(q)' <=> Launched(q)
  BY <1>5, SameLaunched
<1>7. \A p \in P!Port : p # port[obj[t]] => allocated'[p] = allocated[p]
  BY FreesOne DEF FreePort, SInv
<1>8. PortHeld'
  BY <1>1, <1>3, <1>5 DEF PortHeld
<1>9. PortKept'
  <2>1. \A o \in born : Launched(o) /\ ~shuttingDown[o] => port[o] # port[obj[t]]
    BY <1>1, <1>4 DEF PInv, PortsApart
  <2> QED
    BY <1>5, <1>6, <1>7, <2>1, LaunchedHasPort DEF PInv, PortKept
<1>10. Untouched' /\ PortsApart' /\ OwnPorts'
  BY <1>5, <1>6 DEF PInv, Untouched, PortsApart, OwnPorts
<1>11. QED
  BY <1>8, <1>9, <1>10 DEF PInv

(* A creation that is taken back gives back what nobody else has.          *)
LEMMA TakesBackPorts ==
  ASSUME SInv, PInv, NEW t \in Threads, SaveFails(t), op[t] = "create"
  PROVE  PInv'
<1>1. /\ obj[t] \in Objs /\ obj[t] \in born /\ Name(obj[t]) \in Names /\ obj[t] # None
      /\ pc[t] = "exec" /\ t \in Clients
  BY ThreadFacts DEF SaveFails, KindOf
<1>2. registry[Name(obj[t])] = obj[t]
  BY <1>1 DEF SInv, Held, HeldBy, Asks
<1>3. ~shuttingDown[obj[t]] /\ ~Launched(obj[t])
  BY DEF PInv, Untouched
<1>4. /\ UNCHANGED <<born, port, hasResolver, shuttingDown, pstate, powner, pport, server, boots>>
      /\ registry' = [registry EXCEPT ![Name(obj[t])] = None]
      /\ Ends(t)
  BY DEF SaveFails, instVars, procVars, worldVars
<1>5. /\ \A u \in Threads \ {t} : op'[u] = op[u] /\ obj'[u] = obj[u]
      /\ op'[t] = None
  BY <1>4 DEF Ends, SInv, MInv, Threaded
<1>6. \A q : Launched(q)' <=> Launched(q)
  BY <1>4, SameLaunched
<1>7. \A p \in P!Port : p # port[obj[t]] => allocated'[p] = allocated[p]
  BY FreesOne DEF SaveFails, SInv
<1>8. \A n \in Names : registry'[n] # None => registry'[n] = registry[n] /\ n # Name(obj[t])
  BY <1>1, <1>4 DEF SInv, MInv, Tables
<1>9. PortHeld'
  <2> SUFFICES ASSUME NEW n \in Names, registry'[n] # None, ~shuttingDown[registry[n]],
                      port[registry[n]] # NoPort
               PROVE  allocated'[port[registry[n]]] = n
    BY <1>4, <1>8 DEF PortHeld
  <2>1. allocated[port[registry[n]]] = n /\ port[registry[n]] \in P!Port /\ n # Name(obj[t])
    BY <1>8 DEF PInv, PortHeld, SInv, MInv, ObjInv, I!InstTypeOK, Tables
  <2>2. port[obj[t]] = NoPort \/ allocated[port[obj[t]]] = Name(obj[t])
    BY <1>1, <1>2, <1>3 DEF PInv, PortHeld
  <2>3. port[registry[n]] # port[obj[t]]
    BY <2>1, <2>2, PortAssumption DEF P!Port
  <2> QED
    BY <1>7, <2>1, <2>3
<1>10. PortKept'
  <2>1. \A o \in born : Launched(o) /\ ~shuttingDown[o] => port[o] # port[obj[t]]
    BY <1>1, <1>2, <1>3 DEF PInv, PortsApart
  <2> QED
    BY <1>4, <1>6, <1>7, <2>1, LaunchedHasPort DEF PInv, PortKept
<1>11. PortsApart'
  BY <1>4, <1>6, <1>8 DEF PInv, PortsApart
<1>12. Untouched' /\ OwnPorts'
  BY <1>4, <1>5, <1>6, NullAssumption DEF PInv, Untouched, OwnPorts
<1>13. QED
  BY <1>9, <1>10, <1>11, <1>12 DEF PInv

(* A launch is on the port of the only registered instance.                *)
LEMMA LaunchPorts ==
  ASSUME SInv, RInv, PInv, Serial, NEW t \in Threads, StartReturn(t),
         NEW p \in Launches, I!StartLaunches(obj[t], p), Goto(t, "save")
  PROVE  PInv'
<1> DEFINE o == obj[t]
<1>1. /\ o \in Objs /\ o \in born /\ Name(o) \in Names /\ o # None
      /\ pc[t] = "starting" /\ op[t] \in {"start", "restart"} /\ t \in Clients \cup Autos
  BY ThreadFacts DEF StartReturn, KindOf, Fits
<1>2. /\ hasResolver[o] /\ pstate[p] = "none"
      /\ pstate' = [pstate EXCEPT ![p] = "up"] /\ powner' = [powner EXCEPT ![p] = o]
      /\ pport' = [pport EXCEPT ![p] = port[o]]
      /\ UNCHANGED <<born, port, hasResolver, shuttingDown>>
      /\ UNCHANGED <<allocated, registry, op, obj, server, boots>>
  BY DEF I!StartLaunches, StartReturn, Goto, portVars, worldVars
<1> HIDE DEF o
<1>3. Asks(t)
  BY <1>1, <1>2 DEF Asks, o
<1>4. \A n \in Names : registry[n] # None => n = Name(o) /\ registry[n] = o
  BY <1>1, <1>3, OneRegistered DEF o
<1>5. registry[Name(o)] = o
  BY <1>1, <1>3 DEF SInv, Held, HeldBy, o
<1>6. /\ \A q \in Launches \ {p} : pstate'[q] = pstate[q] /\ powner'[q] = powner[q] /\ pport'[q] = pport[q]
      /\ pstate'[p] = "up" /\ powner'[p] = o /\ pport'[p] = port[o]
  BY <1>2 DEF SInv, MInv, ObjInv, I!InstTypeOK
<1>7. \A q : Launched(q)' => Launched(q) \/ q = o
  BY <1>6 DEF Launched
<1>8. Untouched'
  <2>1. \A u \in Threads : op[u] = "create" => obj[u] # o
    BY <1>1 DEF SInv, MInv, Threaded, UnsavedUntouched, o
  <2> QED
    BY <1>1, <1>2, <1>7, <2>1 DEF PInv, Untouched
<1>9. PortHeld'
  BY <1>2 DEF PInv, PortHeld
<1>10. PortKept'
  <2>1. ~shuttingDown[o] => allocated[port[o]] = Name(o)
    BY <1>1, <1>2, <1>5 DEF PInv, PortHeld, SInv, MInv, ObjInv, PortsKnown
  <2> QED
    BY <1>2, <1>7, <2>1 DEF PInv, PortKept
<1>11. PortsApart'
  BY <1>2, <1>4, <1>7 DEF PInv, PortsApart
<1>12. OwnPorts'
  BY <1>1, <1>2, <1>6 DEF PInv, OwnPorts
<1>13. QED
  BY <1>8, <1>9, <1>10, <1>11, <1>12 DEF PInv

(* A server that ends takes the allocator with it.                         *)
LEMMA ServerGonePorts ==
  ASSUME ServerGone
  PROVE  PInv'
<1>1. Untouched'
  BY NullAssumption DEF ServerGone, EachObj, EachThread, Untouched
<1>2. PortHeld' /\ PortKept' /\ PortsApart' /\ OwnPorts'
  BY DEF ServerGone, PortHeld, PortKept, PortsApart, OwnPorts
<1>3. QED
  BY <1>1, <1>2 DEF PInv

(* What a boot loads has neither a port nor a process.                     *)
LEMMA BootPorts ==
  ASSUME SInv, MInv', PInv, Boot
  PROVE  PInv'
<1>1. PICK loaded \in {{n \in Names : rows[n] # None}} \cup (IF DbFaults THEN {{}} ELSE {}) :
        /\ born' = {<<n, made + 1>> : n \in loaded}
        /\ registry' = [n \in Names |-> IF n \in loaded THEN <<n, made + 1>> ELSE None]
  BY DEF Boot
<1>2. /\ server = "down" /\ boots' = boots + 1 /\ boots \in Nat /\ made \in Nat
      /\ born = {} /\ \A t \in Threads : op[t] = None
      /\ UNCHANGED <<port, shuttingDown, pstate, powner, pport, op, obj>>
  <2>1. server = "down" /\ UNCHANGED <<port, shuttingDown, pstate, powner, pport, op, obj>>
    BY DEF Boot, procVars
  <2>2. born = {} /\ \A t \in Threads : op[t] = None
    BY <2>1, ThreadFacts DEF SInv, MInv, Phases
  <2> QED
    BY <2>1, <2>2, ManagerAssumption DEF Boot, SInv, MInv, Tables
<1>3. \A o \in born' : o \in Objs /\ o[2] = made + 1 /\ ~shuttingDown[o] /\ port[o] = NoPort
  <2>1. born' \subseteq Objs
    BY DEF MInv, ObjInv, I!InstTypeOK
  <2> QED
    BY <1>1, <1>2, <2>1 DEF PInv, Untouched
<1>4. \A o \in born' : ~Launched(o)'
  <2>1. \A q \in Objs : q[2] \in Nat
    BY ManagerAssumption DEF Objs
  <2> QED
    BY <1>2, <1>3, <2>1 DEF Launched, SInv, SoleInv, Calm, Base, Rounds
<1>5. Untouched'
  BY <1>2, <1>4, NullAssumption DEF PInv, Untouched
<1>6. PortHeld'
  <2>1. \A n \in Names : registry'[n] # None => registry'[n] \in born'
    BY <1>1
  <2> QED
    BY <1>2, <1>3, <2>1 DEF PortHeld
<1>7. PortKept' /\ PortsApart'
  BY <1>4 DEF PortKept, PortsApart
<1>8. OwnPorts'
  BY <1>2 DEF OwnPorts
<1>9. QED
  BY <1>5, <1>6, <1>7, <1>8 DEF PInv

(* The methods of an object, other than a launch.                          *)
LEMMA MethodsSteady ==
  ASSUME NEW o \in Objs,
         \/ I!StartRefused(o) \/ I!StartBegin(o) \/ I!StartFails(o) \/ I!StartNoBinary(o)
         \/ I!StopNil(o) \/ I!StopRefused(o) \/ I!StopBegin(o) \/ I!MarkFailedBegin(o)
         \/ I!StopGoesOn(o) \/ I!StopSucceeds(o) \/ I!StopErrs(o)
         \/ I!MarkRunning(o) \/ I!MarkStopped(o) \/ \E x \in Options : I!SetOpts(o, x)
  PROVE  /\ UNCHANGED <<born, port, hasResolver, pstate, powner, pport>>
         /\ shuttingDown' = shuttingDown \/ I!StopBegin(o)
BY DEF I!StartRefused, I!StartBegin, I!StartFails, I!StartNoBinary, I!StopNil, I!StopRefused,
       I!StopBegin, I!MarkFailedBegin, I!StopGoesOn, I!KillSent, I!GraceEnds, I!RekillSent,
       I!StageGoes, I!StopSucceeds, I!StopErrs, I!KillNoProcess, I!DoneClosed, I!KillReaped,
       I!RekillReaped, I!StopReturns, I!MarkRunning, I!MarkStopped, I!Forced, I!SetOpts,
       I!instVars, I!objVars, I!lockVars, I!procVars

(* A step of an operation that neither launches nor frees a port.          *)
LEMMA StepSteady ==
  ASSUME SInv, SerialByName, NEW t \in Threads, Step(t) \/ (t \in Waiters /\ Wait(t))
  PROVE  \/ /\ UNCHANGED <<born, port, hasResolver, pstate, powner, pport, allocated, boots, server>>
            /\ shuttingDown' = shuttingDown \/ (I!StopBegin(obj[t]) /\ op[t] # "create")
         \/ FreePort(t)
         \/ SaveFails(t) /\ op[t] = "create"
         \/ StartReturn(t) /\ \E p \in Launches : I!StartLaunches(obj[t], p) /\ Goto(t, "save")
<1>1. obj[t] \in Objs
  BY HasObject
  DEF Step, Wait, Check, StartCall, StartReturn, StopCall, StopReturn, FreePort, MarkStopped,
      Unregister, DeleteRow, Update, SaveRead, SaveExec, SaveFails, Poll, MarkRunning,
      MarkFailed, MarkFailedReturn, SInv
<1>2. CASE StartCall(t) \/ StartReturn(t) \/ MarkFailed(t) \/ MarkFailedReturn(t) \/ MarkRunning(t)
  <2>1. op[t] # "create"
    BY <1>2
    DEF StartCall, StartReturn, MarkFailed, MarkFailedReturn, MarkRunning, SInv, MInv, Threaded,
        AtOp, Fits
  <2> QED
    BY <1>1, <1>2, <2>1, MethodsSteady
    DEF StartCall, StartReturn, MarkFailed, MarkFailedReturn, MarkRunning, portVars, worldVars
<1>3. CASE StopCall(t) \/ StopReturn(t)
  <2>1. op[t] # "create"
    BY <1>3 DEF StopCall, StopReturn, SInv, MInv, Threaded, AtOp, Fits
  <2> QED
    BY <1>1, <1>3, <2>1, MethodsSteady DEF StopCall, StopReturn, portVars, worldVars
<1>4. CASE MarkStopped(t)
  <2>1. registry[Name(obj[t])] = obj[t] /\ op[t] # "create"
    BY <1>4, StopperAsks, ThreadFacts DEF MarkStopped, HeldBy
  <2> QED
    BY <1>1, <1>4, <2>1, MethodsSteady, NullAssumption DEF MarkStopped, portVars, worldVars
<1>5. CASE Update(t)
  <2>1. op[t] # "create"
    BY <1>5 DEF Update, SInv, MInv, Threaded, AtOp, Fits
  <2> QED
    BY <1>1, <1>5, <2>1, MethodsSteady DEF Update, instVars, procVars, portVars, worldVars
<1>6. CASE \/ Check(t) \/ Unregister(t) \/ DeleteRow(t) \/ SaveRead(t) \/ SaveExec(t) \/ Poll(t)
           \/ SaveFails(t) /\ op[t] # "create"
  BY <1>6
  DEF Check, Unregister, DeleteRow, SaveRead, SaveExec, Poll, SaveFails, instVars, procVars,
      portVars, worldVars
<1> QED
  BY <1>2, <1>3, <1>4, <1>5, <1>6 DEF Step, Wait

(* No operation becomes a creation.                                        *)
LEMMA CreatorsStay ==
  ASSUME SInv, NEW t \in Threads, Step(t) \/ (t \in Waiters /\ Wait(t))
  PROVE  \A u \in Threads : op'[u] = "create" => op[u] = "create" /\ obj'[u] = obj[u]
<1>1. Ends(t) \/ (\E l : Goto(t, l)) \/ SaveRead(t) \/ UNCHANGED threadVars
      \/ (op[t] \in {"start", "restart"} /\ EndsWatched(t))
  BY DEF Step, Wait, Check, StartCall, StartReturn, StopCall, StopReturn, Stopping, FreePort,
         MarkStopped, Unregister, DeleteRow, Update, SaveFails, SaveExec, EndsWatched, Poll,
         MarkRunning, MarkFailed, MarkFailedReturn
<1>2. QED
  BY <1>1, NullAssumption
  DEF Ends, Goto, SaveRead, threadVars, EndsWatched, SInv, MInv, Threaded, Waiters

(* A step of an operation keeps the invariant of the ports.                *)
LEMMA StepPorts ==
  ASSUME SInv, RInv, PInv, Serial, NEW t \in Threads, Step(t) \/ (t \in Waiters /\ Wait(t))
  PROVE  PInv'
<1>1. SerialByName
  BY DEF Serial, SerialByName
<1>2. CASE FreePort(t)
  BY <1>2, FreePortPorts
<1>3. CASE SaveFails(t) /\ op[t] = "create"
  BY <1>3, TakesBackPorts
<1>4. CASE StartReturn(t) /\ \E p \in Launches : I!StartLaunches(obj[t], p) /\ Goto(t, "save")
  BY <1>4, LaunchPorts
<1>5. CASE /\ UNCHANGED <<born, port, hasResolver, pstate, powner, pport, allocated, boots, server>>
           /\ shuttingDown' = shuttingDown \/ (I!StopBegin(obj[t]) /\ op[t] # "create")
  <2>1. obj[t] \in born /\ obj[t] \in Objs /\ shuttingDown \in [Objs -> BOOLEAN]
    BY HasObject
    DEF Step, Wait, Check, StartCall, StartReturn, StopCall, StopReturn, FreePort, MarkStopped,
        Unregister, DeleteRow, Update, SaveRead, SaveExec, SaveFails, Poll, MarkRunning,
        MarkFailed, MarkFailedReturn, SInv, MInv, ObjInv, I!InstTypeOK
  <2>2. \/ shuttingDown' = shuttingDown
        \/ op[t] # "create" /\ shuttingDown' = [shuttingDown EXCEPT ![obj[t]] = TRUE]
    BY <1>5 DEF I!StopBegin
  <2>3. /\ \A o \in Objs : shuttingDown[o] => shuttingDown'[o]
        /\ \A o \in Objs \ born : shuttingDown'[o] = shuttingDown[o]
    BY <2>1, <2>2
  <2>4. \A u \in Threads :
          op'[u] = "create" => /\ op[u] = "create" /\ obj'[u] = obj[u]
                               /\ shuttingDown'[obj[u]] = shuttingDown[obj[u]]
    <3> SUFFICES ASSUME NEW u \in Threads, op'[u] = "create"
                 PROVE  /\ op[u] = "create" /\ obj'[u] = obj[u]
                        /\ shuttingDown'[obj[u]] = shuttingDown[obj[u]]
      OBVIOUS
    <3>1. op[u] = "create" /\ obj'[u] = obj[u]
      BY CreatorsStay
    <3>2. op[t] # "create" => obj[u] # obj[t]
      BY <3>1 DEF SInv, MInv, Threaded, UnsavedUntouched
    <3>3. obj[u] \in Objs
      BY <3>1, ThreadFacts, NullAssumption
    <3> QED
      BY <2>1, <2>2, <3>1, <3>2, <3>3
  <2>5. \A n \in Names : registry'[n] \in {registry[n], None}
    BY RegistryKeeps DEF SInv, MInv, Tables
  <2> QED
    BY <1>5, <2>3, <2>4, <2>5, PortsStay
<1> QED
  BY <1>1, <1>2, <1>3, <1>4, <1>5, StepSteady

(* One step of the system.                                                 *)
LEMMA NextPorts ==
  SInv /\ MInv' /\ RInv /\ PInv /\ Serial /\ [Next]_vars => PInv'
<1> SUFFICES ASSUME SInv, MInv', RInv, PInv, Serial, [Next]_vars PROVE PInv'
  OBVIOUS
<1>1. ASSUME UNCHANGED <<instVars, portVars, registry, boots>>,
             server # "down" \/ server' = "down",
             \A t \in Threads : op'[t] = "create" => op[t] = "create" /\ obj'[t] = obj[t]
      PROVE  PInv'
  BY <1>1, PortsStay DEF instVars, procVars, portVars
<1>2. CASE UNCHANGED vars
  BY <1>1, <1>2 DEF vars, threadVars, worldVars
<1>3. ASSUME NEW c \in Clients, Call(c) PROVE PInv'
  <2>1. ASSUME NEW n \in Names, NEW how \in Requests, Request(c, n, how) PROVE PInv'
    <3>1. \A t \in Threads : op'[t] # "create"
      BY <2>1 DEF Request, MayCall, MuFree, Runs, Requests, SInv, MInv, Threaded
    <3> QED
      BY <1>1, <2>1, <3>1 DEF Request, MayCall, worldVars
  <2> QED
    BY <1>2, <1>3, <2>1, CreatePorts, CreateInvalidPorts DEF Call, Refused
<1>4. ASSUME NEW t \in Threads, Step(t) \/ (t \in Waiters /\ Wait(t)) PROVE PInv'
  BY <1>4, StepPorts
<1>5. ASSUME NEW t \in Autos, AutoLookup(t) PROVE PInv'
  <2>1. \A u \in Threads : op'[u] # "create"
    BY <1>5, NullAssumption DEF AutoLookup, MuFree, Runs, Ends, SInv, MInv, Threaded
  <2>2. server # "down"
    BY <1>5 DEF AutoLookup, SInv, MInv, Phases, Threads
  <2> QED
    BY <1>1, <1>5, <2>1, <2>2 DEF AutoLookup, worldVars
<1>6. ASSUME NEW p \in Launches, Process(p) PROVE PInv'
  <2>1. /\ UNCHANGED <<born, port, hasResolver, shuttingDown, allocated, powner, pport, boots,
                       server, registry, op, obj>>
    BY <1>6 DEF Process, I!Listens, I!Exits, I!objVars, portVars, threadVars, worldVars
  <2>2. \A q \in Launches : pstate'[q] = "none" <=> pstate[q] = "none"
    BY <1>6 DEF Process, I!Listens, I!Exits, I!Live, SInv, MInv, ObjInv, I!InstTypeOK
  <2>3. server # "down" \/ server' = "down"
    BY <2>1
  <2> QED
    BY <2>1, <2>2, <2>3, PortsStay
<1>7. CASE World
  <2>1. CASE Drain
    BY <1>1, <2>1 DEF Drain, threadVars
  <2>2. CASE ShutdownBegin
    <3>1. \A t \in Threads : op'[t] = "create" => op[t] = "create" /\ obj'[t] = obj[t]
      BY <2>2 DEF ShutdownBegin
    <3> QED
      BY <1>1, <2>2, <3>1 DEF ShutdownBegin
  <2> QED
    BY <1>7, <2>1, <2>2, ServerGonePorts, BootPorts DEF World, Crash, ShutdownEnd
<1> QED
  BY <1>2, <1>3, <1>4, <1>5, <1>6, <1>7 DEF Next, Waiters, Threads

(* The invariant of the ports holds.                                       *)
LEMMA PortsInvariant == Spec /\ []Serial => []PInv
<1>1. Init => PInv
  BY NullAssumption
  DEF Init, I!InstInit, EachThread, PInv, Untouched, PortHeld, PortKept, PortsApart, OwnPorts,
      Launched
<1>2. Serial => SerialByName
  BY DEF Serial, SerialByName
<1>3. SInv => MInv
  BY DEF SInv
<1>4. QED
  BY <1>1, <1>2, <1>3, NextPorts, SerialInvariant, RowsInvariant, PTL DEF Spec

(* A registered instance that was never stopped holds its port: no creation *)
(* that is refused or taken back, and no stop or delete of another          *)
(* instance, gives it away.                                                 *)
THEOREM PortsAreHeld == Spec /\ []Serial => []PortHeld
<1>1. PInv => PortHeld
  BY DEF PInv
<1>2. QED
  BY <1>1, PortsInvariant, PTL

(* The health a waiter sees is that of its own process, also next to those  *)
(* of instances that were deleted while they started.                       *)
THEOREM HealthIsItsOwn == Spec /\ []Serial => []HealthIsOwn
<1>1. SInv /\ PInv => HealthIsOwn
  <2> SUFFICES ASSUME SInv, PInv, boots = 0, NEW w \in Waiters, NEW p \in Launches,
                      pc[w] = "poll", registry[Name(obj[w])] = obj[w],
                      pstate[p] = "listening", pport[p] = port[obj[w]],
                      powner[p] # obj[w], ~shuttingDown[powner[p]]
               PROVE  FALSE
    BY DEF HealthIsOwn
  <2>1. w \in Threads /\ obj[w] # None /\ Name(obj[w]) \in Names /\ server # "down"
    <3>1. w \in Threads
      BY DEF Threads
    <3> QED
      BY <3>1, ThreadFacts DEF SInv, MInv, Phases
  <2>2. powner[p] \in born /\ pport[p] = port[powner[p]] /\ Launched(powner[p])
    BY <2>1 DEF PInv, OwnPorts, Launched
  <2>3. port[powner[p]] # port[obj[w]]
    BY <2>1, <2>2 DEF PInv, PortsApart
  <2> QED
    BY <2>2, <2>3
<1>2. Serial => SerialByName
  BY DEF Serial, SerialByName
<1>3. QED
  BY <1>1, <1>2, SerialInvariant, PortsInvariant, PTL

-----------------------------------------------------------------------------
(* The hypotheses are met.                                                 *)

AutosIdle == \A t \in Autos : pc[t] = "idle"

OneClient ==
  /\ \A c, d \in Clients : c = d
  /\ AutoRestart = {} \/ MaxBoots = 0

(* With one client requests take turns, across crashes and boots, unless a *)
(* boot starts instances by itself: those starts can come so late that     *)
(* their instance has been deleted and made again.                         *)
THEOREM OneClientIsSerial == OneClient => (Spec => []Serial)
<1> SUFFICES ASSUME OneClient PROVE Spec => []Serial
  OBVIOUS
<1>1. MInv /\ Boot => AutoRestart = {}
  BY DEF Boot, OneClient, MInv, Phases, Tables
<1>2. Init => AutosIdle
  BY DEF Init, EachThread, AutosIdle, Threads
<1>3. MInv /\ AutosIdle /\ [Next]_vars => AutosIdle'
  <2> SUFFICES ASSUME MInv, AutosIdle, [Next]_vars, NEW a \in Autos
               PROVE  pc'[a] = "idle"
    BY DEF AutosIdle
  <2>1. pc[a] = "idle" /\ a \in Threads /\ a \notin Clients \cup Launches \cup Stoppers
    BY KindsApart DEF AutosIdle
  <2>2. CASE Boot
    <3>1. AutoRestart = {}
      BY <1>1, <2>2
    <3> QED
      BY <2>1, <2>2, <3>1 DEF Boot
  <2>3. ASSUME NEW c \in Clients, Call(c) PROVE pc'[a] = "idle"
    BY <2>1, <2>3
    DEF Call, Refused, Create, CreateInvalid, Request, Runs, vars, threadVars, MInv, Threaded
  <2>4. ASSUME NEW t \in Threads, Step(t) \/ (t \in Waiters /\ Wait(t)) PROVE pc'[a] = "idle"
    <3>1. pc[t] # "idle"
      BY <2>4
      DEF Step, Wait, Check, StartCall, StartReturn, StopCall, StopReturn, FreePort,
          MarkStopped, Unregister, DeleteRow, Update, SaveRead, SaveExec, SaveFails, Poll,
          MarkRunning, MarkFailed, MarkFailedReturn
    <3>2. CASE SaveExec(t)
      BY <2>1, <3>1, <3>2 DEF SaveExec, EndsWatched, Ends, Waiters, MInv, Threaded
    <3> QED
      BY <2>1, <2>4, <3>1, <3>2, OthersStay
  <2>5. ASSUME NEW t \in Autos, AutoLookup(t) PROVE FALSE
    BY <2>5 DEF AutoLookup, AutosIdle
  <2>6. ASSUME NEW p \in Launches, Process(p) PROVE pc'[a] = "idle"
    BY <2>1, <2>6 DEF Process, threadVars
  <2>7. CASE World
    BY <2>1, <2>2, <2>7
    DEF World, Crash, Drain, ShutdownBegin, ShutdownEnd, ServerGone, EachThread, threadVars
  <2>8. CASE UNCHANGED vars
    BY <2>1, <2>8 DEF vars, threadVars
  <2> QED
    BY <2>3, <2>4, <2>5, <2>6, <2>7, <2>8 DEF Next, Waiters, Threads
<1>4. MInv /\ AutosIdle => Serial
  <2> SUFFICES ASSUME MInv, AutosIdle, NEW t \in Threads, NEW u \in Threads,
                      Asks(t), Asks(u)
               PROVE  t = u
    BY DEF Serial
  <2>1. t \notin Autos /\ u \notin Autos
    BY DEF AutosIdle, Asks, MInv, Threaded, AtOp
  <2> QED
    BY <2>1 DEF Asks, OneClient
<1>5. QED
  BY <1>2, <1>3, <1>4, ManagerInvariant, PTL DEF Spec

(* Requests that take turns are alone, so all that StopsAlone gives holds  *)
(* of them.                                                                *)
THEOREM SerialStopsAlone == Spec /\ []SerialByName => []StopsAlone
<1>1. Base /\ SerialByName => StopsAlone
  BY SerialIsAlone DEF Base
<1>2. QED
  BY <1>1, BaseInvariant, PTL

(* With one client, then, an object has one process, rest has none, the    *)
(* table is followed, ports are held and the health seen is the instance's *)
(* own, with no hypothesis but those about the constants.                  *)
THEOREM OneClientIsSafe ==
  OneClient =>
    (Spec => /\ [](MarksOnlyQuiet /\ SingleProcess /\ I!RestIsQuiet /\ PortHeld /\ HealthIsOwn)
             /\ StatusFollowsTable)
<1>1. Serial => SerialByName
  BY DEF Serial, SerialByName
<1>2. QED
  BY <1>1, OneClientIsSerial, SerialStopsAlone, MarkStoppedFindsItQuiet, OneProcessEach,
     RestHasNoProcess, TableIsFollowed, PortsAreHeld, HealthIsItsOwn, PTL
===============================================================================
