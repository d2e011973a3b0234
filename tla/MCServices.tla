------------------------------ MODULE MCServices ------------------------------
(***************************************************************************)
(* For TLC: four components that share no state: logging in, checking API  *)
(* keys, serving inference and allocating ports.  A behaviour is one of    *)
(* the four: "part" says which, and the variables of the others stay at    *)
(* their initial values, where none of their fair actions is enabled.      *)
(***************************************************************************)
EXTENDS Login, Keys, Serving, PortAllocator

VARIABLE part

(* Objects, launches and ports are numbers, and the lowest that was not    *)
(* used before is taken first: no definition tells them apart, and the     *)
(* symmetry of model values is not sound where liveness is checked.        *)
LowestFirst(used, all) ==
  \A x \in used' \ used, y \in all \ used' : x < y

TakenInOrder ==
  /\ LowestFirst(born, Objs)
  /\ LowestFirst({p \in Launches : pstate[p] # "none"}, Launches)
  /\ LowestFirst({port[o] : o \in born}, Ports)

ServicesInit ==
  /\ part \in {"login", "keys", "serving", "ports"}
  /\ LoginInit /\ KeysInit /\ ServingInit /\ PortInit
  /\ part # "login" => seeded = {}

ServicesNext ==
  \/ /\ part = "login" /\ LoginNext
     /\ UNCHANGED <<part, keysVars, servingVars, portVars>>
  \/ /\ part = "keys" /\ KeysNext
     /\ UNCHANGED <<part, loginVars, servingVars, portVars>>
  \/ /\ part = "serving" /\ ServingNext /\ TakenInOrder
     /\ UNCHANGED <<part, loginVars, keysVars, portVars>>
  \/ /\ part = "ports" /\ PortNext
     /\ UNCHANGED <<part, loginVars, keysVars, servingVars>>

FairServicesSpec ==
  /\ ServicesInit
  /\ [][ServicesNext]_<<part, loginVars, keysVars, servingVars, portVars>>
  /\ LoginFairness /\ ServingFairness

(* What a row, a token, a request or a poll refers to exists.              *)
ServicesTypeOK == LoginTypeOK /\ KeysTypeOK /\ ServingTypeOK
===============================================================================
