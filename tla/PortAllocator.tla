---------------------------- MODULE PortAllocator ----------------------------
(***************************************************************************)
(* The port allocator of the instance manager (src/pkg/manager/ports.go):  *)
(* a map from port to the name of the instance holding it, and the cursor  *)
(* at which the next search begins.  Every operation runs under the        *)
(* allocator's own mutex, so each is one action.  newPortAllocator drops   *)
(* the configured maximum, so it is no parameter here.                     *)
(***************************************************************************)
EXTENDS Naturals

CONSTANTS
  Names,      \* instance names
  NoOwner,    \* the empty string: the map's value at a port nobody holds
  MinPort,    \* instances.portRange.min, where the cursor starts
  WrapLo,     \* 8100 in the code: where the search resumes after wrapping
  LastPort,   \* 9000 in the code: the last port the search tries
  TopPort     \* 65535: bounds the ports a caller may name

Port == 1 .. TopPort

ASSUME OwnerAssumption == NoOwner \notin Names
ASSUME RangeAssumption ==
  /\ MinPort \in Port /\ WrapLo \in Port
  /\ LastPort \in Nat /\ TopPort \in Nat
  /\ WrapLo <= LastPort /\ LastPort < TopPort

VARIABLES
  allocated,  \* Port -> holder, or NoOwner
  next        \* cursor

portVars == <<allocated, next>>

-----------------------------------------------------------------------------

FreeIn(lo, hi) == {p \in lo .. hi : allocated[p] = NoOwner}

IsLowest(p, S) == p \in S /\ \A q \in S : p <= q

(* The two loops of Allocate: from the cursor up, then, wrapped around,    *)
(* from 8100 up to the cursor.                                             *)
Mutant_FromCursor == FreeIn(next, LastPort + 1)

FromCursor == FreeIn(next, LastPort)

Mutant_BelowCursor == FreeIn(WrapLo, next - 2)

BelowCursor == FreeIn(WrapLo, next - 1)

Picks(p) ==
  \/ IsLowest(p, FromCursor)
  \/ FromCursor = {} /\ IsLowest(p, BelowCursor)

Allocate(name, p) ==
  /\ Picks(p)
  /\ allocated' = [allocated EXCEPT ![p] = name]
  /\ next' = p + 1

(* Allocate with a port asked for: the cursor does not move.               *)
AllocateSpecific(name, p) ==
  /\ allocated[p] = NoOwner
  /\ allocated' = [allocated EXCEPT ![p] = name]
  /\ UNCHANGED next

(* "no available ports in range"                                           *)
Exhausted == FromCursor = {} /\ BelowCursor = {}

(* delete(a.allocated, port): also when the port is held by someone else,  *)
(* and no effect on a port outside the map, such as port 0.                *)
Free(p) ==
  /\ allocated' = [q \in Port |-> IF q = p THEN NoOwner ELSE allocated[q]]
  /\ UNCHANGED next

MarkAllocated(name, p) ==
  /\ allocated' = [allocated EXCEPT ![p] = name]
  /\ UNCHANGED next

-----------------------------------------------------------------------------

PortInit ==
  /\ allocated = [p \in Port |-> NoOwner]
  /\ next = MinPort

PortNext ==
  \/ \E n \in Names, p \in Port : Allocate(n, p)
  \/ \E n \in Names, p \in Port : AllocateSpecific(n, p)
  \/ \E p \in Port : Free(p)
  \/ \E n \in Names, p \in Port : MarkAllocated(n, p)

PortSpec == PortInit /\ [][PortNext]_portVars

-----------------------------------------------------------------------------

(* The allocator's types; the cursor never passes the end of the range by  *)
(* more than one, whatever was asked for, freed and marked in between, nor *)
(* a configured minimum that lies beyond the range.                        *)
PortTypeOK ==
  /\ allocated \in [Port -> Names \cup {NoOwner}]
  /\ next \in Port
  /\ next <= LastPort + 1 \/ next <= MinPort

(* Two loops, a cursor that moves, and a base for the second loop that is  *)
(* not the configured minimum: Allocate still gives up only when every     *)
(* port of the range is taken, however the cursor got where it is.         *)
RefusesOnlyWhenFull ==
  Exhausted => \A p \in WrapLo .. LastPort : allocated[p] # NoOwner

(* landing/content/docs/configuration.md:61, "Port range allocated to      *)
(* spawned llama-server instances": what Allocate hands out next is not    *)
(* below instances.portRange.min.  Beginning again at 8100, it may be.     *)
PicksFromMinimum == \A p \in Port : Picks(p) => MinPort <= p

=============================================================================
