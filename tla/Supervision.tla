----------------------------- MODULE Supervision -----------------------------
(***************************************************************************)
(* What an instance promises its callers, whatever its status machine and  *)
(* its locks do: an object is at rest or engaged; only an engaged object   *)
(* launches a process, only when no earlier process of its own is left,    *)
(* and an object comes to rest only when none is.  Instance.tla implements *)
(* it.                                                                     *)
(***************************************************************************)
CONSTANTS Objs, Launches

VARIABLES
  engaged,   \* objects that are not at rest
  launched,  \* processes launched so far
  live       \* Objs -> its processes that have not gone

supVars == <<engaged, launched, live>>

SupInit ==
  /\ engaged = {}
  /\ launched = {}
  /\ live = [o \in Objs |-> {}]

Engage(o) ==
  /\ engaged' = engaged \cup {o}
  /\ UNCHANGED <<launched, live>>

Launch(o, p) ==
  /\ o \in engaged
  /\ p \notin launched
  /\ live[o] = {}
  /\ launched' = launched \cup {p}
  /\ live' = [live EXCEPT ![o] = {p}]
  /\ UNCHANGED engaged

Die(o, p) ==
  /\ p \in live[o]
  /\ live' = [live EXCEPT ![o] = @ \ {p}]
  /\ UNCHANGED <<engaged, launched>>

Rest(o) ==
  /\ o \in engaged
  /\ live[o] = {}
  /\ engaged' = engaged \ {o}
  /\ UNCHANGED <<launched, live>>

SupNext ==
  \E o \in Objs :
    \/ Engage(o)
    \/ Rest(o)
    \/ \E p \in Launches : Launch(o, p) \/ Die(o, p)

SupSpec == SupInit /\ [][SupNext]_supVars
===============================================================================
