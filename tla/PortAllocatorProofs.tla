-------------------------- MODULE PortAllocatorProofs --------------------------
(* Proofs about the port allocator, for every range and every set of names. *)
EXTENDS PortAllocator, TLAPS

(* A port the search arrives at is free, and is not past the range's end   *)
(* unless it is below the configured minimum: where the cursor is not at   *)
(* most one past that end, it is at most at the minimum.                   *)
LEMMA PickedPort ==
  ASSUME PortTypeOK, NEW p \in Port, Picks(p)
  PROVE  allocated[p] = NoOwner /\ (p <= LastPort \/ p < MinPort)
<1>1. next \in Nat /\ (next <= LastPort + 1 \/ next <= MinPort)
      /\ LastPort \in Nat /\ MinPort \in Nat
  BY RangeAssumption DEF PortTypeOK, Port
<1>2. p \in Nat
  BY RangeAssumption DEF Port
<1>3. CASE IsLowest(p, FromCursor)
  BY <1>1, <1>2, <1>3 DEF IsLowest, FromCursor, FreeIn
<1>4. CASE IsLowest(p, BelowCursor)
  BY <1>1, <1>2, <1>4, RangeAssumption DEF IsLowest, BelowCursor, FreeIn, Port
<1>5. QED
  BY <1>3, <1>4 DEF Picks

(* The cursor and the map keep their types under every operation.          *)
THEOREM PortTypeCorrect == PortSpec => []PortTypeOK
<1>1. PortInit => PortTypeOK
  BY RangeAssumption DEF PortInit, PortTypeOK, Port
<1>2. PortTypeOK /\ [PortNext]_portVars => PortTypeOK'
  <2> SUFFICES ASSUME PortTypeOK, [PortNext]_portVars
               PROVE  PortTypeOK'
    OBVIOUS
  <2>1. ASSUME NEW n \in Names, NEW p \in Port, Allocate(n, p)
        PROVE  PortTypeOK'
    <3>1. p \in Nat \ {0} /\ (p <= LastPort \/ p < MinPort)
      BY <2>1, PickedPort, RangeAssumption DEF Allocate, Port
    <3>2. next' \in Port /\ (next' <= LastPort + 1 \/ next' <= MinPort)
      BY <2>1, <3>1, RangeAssumption DEF Allocate, Port
    <3> QED
      BY <2>1, <3>2 DEF Allocate, PortTypeOK
  <2>2. ASSUME NEW n \in Names, NEW p \in Port,
               AllocateSpecific(n, p) \/ MarkAllocated(n, p)
        PROVE  PortTypeOK'
    BY <2>2 DEF AllocateSpecific, MarkAllocated, PortTypeOK
  <2>3. ASSUME NEW p \in Port, Free(p)
        PROVE  PortTypeOK'
    BY <2>3 DEF Free, PortTypeOK
  <2>4. CASE UNCHANGED portVars
    BY <2>4 DEF portVars, PortTypeOK
  <2> QED
    BY <2>1, <2>2, <2>3, <2>4 DEF PortNext
<1>3. QED
  BY <1>1, <1>2, PTL DEF PortSpec

(* The two loops together visit every port from 8100 to 9000, wherever the *)
(* cursor stands: a refusal means that all of them are taken.              *)
THEOREM RefusalMeansFull == PortSpec => []RefusesOnlyWhenFull
<1>1. PortTypeOK => RefusesOnlyWhenFull
  <2> SUFFICES ASSUME PortTypeOK, Exhausted, NEW p \in WrapLo .. LastPort
               PROVE  allocated[p] # NoOwner
    BY DEF RefusesOnlyWhenFull
  <2>1. p \in Nat /\ next \in Nat /\ WrapLo \in Nat /\ LastPort \in Nat
    BY RangeAssumption DEF PortTypeOK, Port
  <2>2. CASE next <= p
    BY <2>1, <2>2 DEF Exhausted, FromCursor, FreeIn
  <2>3. CASE p < next
    BY <2>1, <2>3 DEF Exhausted, BelowCursor, FreeIn
  <2> QED
    BY <2>1, <2>2, <2>3
<1>2. QED
  BY <1>1, PortTypeCorrect, PTL

(* The cursor is never below both the minimum and the wrap base.           *)
CursorAbove == next >= WrapLo \/ next >= MinPort

(* A pick moves it up, or is not below the base.                           *)
LEMMA CursorStaysAbove == PortSpec => []CursorAbove
<1>1. PortInit => CursorAbove
  BY RangeAssumption DEF PortInit, CursorAbove, Port
<1>2. PortTypeOK /\ CursorAbove /\ [PortNext]_portVars => CursorAbove'
  <2> SUFFICES ASSUME PortTypeOK, CursorAbove, [PortNext]_portVars
               PROVE  CursorAbove'
    OBVIOUS
  <2>1. ASSUME NEW n \in Names, NEW p \in Port, Allocate(n, p)
        PROVE  CursorAbove'
    <3>1. next \in Nat /\ p \in Nat /\ WrapLo \in Nat /\ MinPort \in Nat
      BY RangeAssumption DEF PortTypeOK, Port
    <3>2. next <= p \/ WrapLo <= p
      BY <2>1, <3>1, RangeAssumption
      DEF Allocate, Picks, IsLowest, FromCursor, BelowCursor, FreeIn
    <3> QED
      BY <2>1, <3>1, <3>2 DEF Allocate, CursorAbove
  <2>2. ASSUME NEW n \in Names, NEW p \in Port,
               AllocateSpecific(n, p) \/ MarkAllocated(n, p)
        PROVE  CursorAbove'
    BY <2>2 DEF AllocateSpecific, MarkAllocated, CursorAbove
  <2>3. ASSUME NEW p \in Port, Free(p)
        PROVE  CursorAbove'
    BY <2>3 DEF Free, CursorAbove
  <2>4. CASE UNCHANGED portVars
    BY <2>4 DEF portVars, CursorAbove
  <2> QED
    BY <2>1, <2>2, <2>3, <2>4 DEF PortNext
<1>3. QED
  BY <1>1, <1>2, PortTypeCorrect, PTL DEF PortSpec

(* What the configured minimum is good for.  One below 8100 extends the    *)
(* range downwards; one beyond 9001 extends it upwards, to the ports below *)
(* the minimum; all else handed out is in 8100 .. 9000.                    *)
PicksInRange ==
  \A p \in Port : Picks(p) =>
    /\ WrapLo <= p \/ MinPort <= p
    /\ p <= LastPort \/ p < MinPort

(* So it is for every configured minimum.                                  *)
THEOREM PicksAreInRange == PortSpec => []PicksInRange
<1>1. PortTypeOK /\ CursorAbove => PicksInRange
  <2> SUFFICES ASSUME PortTypeOK, CursorAbove, NEW p \in Port, Picks(p)
               PROVE  /\ WrapLo <= p \/ MinPort <= p
                      /\ p <= LastPort \/ p < MinPort
    BY DEF PicksInRange
  <2>1. next \in Nat /\ p \in Nat /\ WrapLo \in Nat /\ MinPort \in Nat
    BY RangeAssumption DEF PortTypeOK, Port
  <2>2. next <= p \/ WrapLo <= p
    BY <2>1, RangeAssumption
    DEF Picks, IsLowest, FromCursor, BelowCursor, FreeIn
  <2> QED
    BY <2>1, <2>2, PickedPort DEF CursorAbove
<1>2. QED
  BY <1>1, PortTypeCorrect, CursorStaysAbove, PTL

(* The documented range begins at the minimum.  Allocate keeps to that as  *)
(* long as the minimum is not above 8100.                                  *)
THEOREM LowMinimumIsKept ==
  ASSUME MinPort <= WrapLo
  PROVE  PortSpec => []PicksFromMinimum
<1>1. PicksInRange => PicksFromMinimum
  <2> SUFFICES ASSUME PicksInRange, NEW p \in Port, Picks(p)
               PROVE  MinPort <= p
    BY DEF PicksFromMinimum
  <2>1. p \in Nat /\ WrapLo \in Nat /\ MinPort \in Nat
    BY RangeAssumption DEF Port
  <2> QED
    BY <2>1, MinPort <= WrapLo DEF PicksInRange
<1>2. QED
  BY <1>1, PicksAreInRange, PTL
===============================================================================
