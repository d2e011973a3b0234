---------------------------- MODULE ServicesProofs ----------------------------
(***************************************************************************)
(* Proofs about the components of MCServices.tla.  First Keys.tla: types,  *)
(* and that a request that arrives after its key has ended does not pass,  *)
(* for every set of keys and of requests.  Then the composition: it is     *)
(* each of the four, so that what is proved about one of them by itself    *)
(* holds of the specification that TLC runs.                               *)
(***************************************************************************)
EXTENDS MCServices, LoginProofs, ServingProofs, PortAllocatorProofs

-----------------------------------------------------------------------------
(* API keys.                                                               *)

(* KeysTypeOK is inductive: each action changes one of the two variables,  *)
(* at one point.                                                           *)
THEOREM KeysTypeCorrect == KeysSpec => []KeysTypeOK
<1>1. KeysInit => KeysTypeOK
  BY DEF KeysInit, KeysTypeOK, Unchecked
<1>2. KeysTypeOK /\ [KeysNext]_keysVars => KeysTypeOK'
  <2> SUFFICES ASSUME KeysTypeOK, [KeysNext]_keysVars
               PROVE  KeysTypeOK'
    OBVIOUS
  <2> USE DEF KeysTypeOK
  <2>1. ASSUME NEW k \in Keys, CreateAPIKey(k) \/ KeyLapses(k) \/ DeleteAPIKey(k)
        PROVE  KeysTypeOK'
    BY <2>1 DEF CreateAPIKey, Expiries, InsertKey, KeyLapses, DeleteAPIKey, KeyBecomes
  <2>2. ASSUME NEW r \in Checks, NEW k \in Keys \cup {NoKey}, KeyArrives(r, k)
        PROVE  KeysTypeOK'
    BY <2>2 DEF KeyArrives, Unchecked, KeyEnded
  <2>3. ASSUME NEW r \in Checks, ReadsKeys(r)
        PROVE  KeysTypeOK'
    <3>1. GetActiveKeys \in SUBSET Keys
      BY DEF GetActiveKeys
    <3>2. check' = [check EXCEPT ![r] = [check[r] EXCEPT !.at = "verify",
                                                         !.rows = GetActiveKeys]]
      BY <2>3 DEF ReadsKeys
    <3>3. [check[r] EXCEPT !.at = "verify", !.rows = GetActiveKeys]
            \in [at : {"idle", "auth", "verify", "passed"},
                 key : Keys \cup {NoKey}, late : BOOLEAN, rows : SUBSET Keys]
      BY <3>1
    <3> QED
      BY <2>3, <3>2, <3>3 DEF ReadsKeys
  <2>4. ASSUME NEW r \in Checks, VerifiesKey(r)
        PROVE  KeysTypeOK'
    BY <2>4 DEF VerifiesKey
  <2>5. ASSUME NEW r \in Checks, CheckEnds(r)
        PROVE  KeysTypeOK'
    BY <2>5 DEF CheckEnds, Unchecked
  <2>6. CASE UNCHANGED keysVars
    BY <2>6 DEF keysVars
  <2> QED
    BY <2>1, <2>2, <2>3, <2>4, <2>5, <2>6 DEF KeysNext
<1> QED
  BY <1>1, <1>2, PTL DEF KeysSpec

(* NoLateKey says nothing of the rows a request has read, and so is not    *)
(* inductive.  What is: a late request's key has ended for good, and so    *)
(* the rows it reads, all of keys active then, do not have it.             *)
LateFindsNothing ==
  \A r \in Checks :
    /\ check[r].late => KeyEnded(check[r].key)
    /\ check[r].late => check[r].key \notin check[r].rows
    /\ check[r].at = "passed" => check[r].key \in check[r].rows

(* A key that has ended stays so: nothing makes it active again.           *)
LEMMA EndedKeysStay ==
  ASSUME KeysTypeOK, [KeysNext]_keysVars
  PROVE  \A k \in Keys : keyState[k] \in {"expired", "deleted"}
                         => keyState'[k] \in {"expired", "deleted"}
<1>1. ASSUME NEW j \in Keys, CreateAPIKey(j) \/ KeyLapses(j) \/ DeleteAPIKey(j)
      PROVE  \A k \in Keys : keyState[k] \in {"expired", "deleted"}
                             => keyState'[k] \in {"expired", "deleted"}
  BY <1>1 DEF KeysTypeOK, CreateAPIKey, Expiries, InsertKey, KeyLapses,
              DeleteAPIKey, KeyBecomes
<1>2. CASE UNCHANGED keyState
  BY <1>2
<1> QED
  BY <1>1, <1>2 DEF KeysNext, KeyArrives, ReadsKeys, VerifiesKey, CheckEnds, keysVars

(* The strengthening is inductive.                                         *)
LEMMA LateFindsNothingInductive ==
  ASSUME KeysTypeOK, LateFindsNothing, [KeysNext]_keysVars
  PROVE  LateFindsNothing'
<1>0. \A r \in Checks :
        check[r].late => /\ check[r].key # NoKey
                         /\ keyState'[check[r].key] \in {"expired", "deleted"}
  BY EndedKeysStay DEF LateFindsNothing, KeysTypeOK, KeyEnded
<1>1. CASE UNCHANGED check
  BY <1>0, <1>1 DEF LateFindsNothing, KeyEnded
<1>2. ASSUME NEW r \in Checks, NEW k \in Keys \cup {NoKey}, KeyArrives(r, k)
      PROVE  LateFindsNothing'
  BY <1>0, <1>2 DEF LateFindsNothing, KeysTypeOK, KeyArrives, Unchecked, KeyEnded
<1>3. ASSUME NEW r \in Checks, ReadsKeys(r)
      PROVE  LateFindsNothing'
  BY <1>0, <1>3 DEF LateFindsNothing, KeysTypeOK, ReadsKeys, GetActiveKeys, KeyEnded
<1>4. ASSUME NEW r \in Checks, VerifiesKey(r)
      PROVE  LateFindsNothing'
  BY <1>0, <1>4 DEF LateFindsNothing, KeysTypeOK, VerifiesKey, VerifyKey, KeyEnded
<1>5. ASSUME NEW r \in Checks, CheckEnds(r)
      PROVE  LateFindsNothing'
  BY <1>0, <1>5 DEF LateFindsNothing, KeysTypeOK, CheckEnds, Unchecked, KeyEnded
<1> QED
  BY <1>1, <1>2, <1>3, <1>4, <1>5
  DEF KeysNext, CreateAPIKey, InsertKey, KeyLapses, DeleteAPIKey, KeyBecomes, keysVars

(* A request that arrives after its key has expired or been deleted, or    *)
(* with none, does not get past the middleware, whatever happens to the    *)
(* rows between its query and its verification.                            *)
THEOREM LateKeysDoNotPass == KeysSpec => []NoLateKey
<1>1. KeysInit => LateFindsNothing
  BY DEF KeysInit, LateFindsNothing, Unchecked
<1>2. KeysTypeOK /\ LateFindsNothing => NoLateKey
  BY KeysAssumption DEF KeysTypeOK, LateFindsNothing, NoLateKey
<1> QED
  BY <1>1, <1>2, KeysTypeCorrect, LateFindsNothingInductive, PTL DEF KeysSpec

-----------------------------------------------------------------------------
(* The composition.                                                        *)

(* A component that a behaviour is not about stays where it began, so      *)
(* every behaviour is one of each component.                               *)
THEOREM ServicesAreEach ==
  FairServicesSpec => LoginSpec /\ KeysSpec /\ ServingSpec /\ PortSpec
<1>1. ServicesInit => LoginInit /\ KeysInit /\ ServingInit /\ PortInit
  BY DEF ServicesInit
<1>2. [ServicesNext]_<<part, loginVars, keysVars, servingVars, portVars>>
      => /\ [LoginNext]_loginVars /\ [KeysNext]_keysVars
         /\ [ServingNext]_servingVars /\ [PortNext]_portVars
  BY DEF ServicesNext
<1> QED
  BY <1>1, <1>2, PTL DEF FairServicesSpec, LoginSpec, KeysSpec, ServingSpec, PortSpec

(* Rows, tokens, requests and polls refer to what exists, in all of them.  *)
THEOREM ServicesTypeCorrect == FairServicesSpec => []ServicesTypeOK
<1>1. LoginTypeOK /\ KeysTypeOK /\ ServingTypeOK <=> ServicesTypeOK
  BY DEF ServicesTypeOK
<1> QED
  BY <1>1, ServicesAreEach, LoginTypeCorrect, KeysTypeCorrect, ServingTypeCorrect, PTL

(* The properties of the components in the behaviours in which they run: a *)
(* closed allowlist stays closed, a failed login leaves no session, neither *)
(* an ended session nor an ended key is accepted late, a session that has  *)
(* ended stays so, answers and waits are about the instance named, and a   *)
(* refusal of the port allocator means that all ports are taken.           *)
THEOREM ServicesKeepTheirs ==
  FairServicesSpec =>
    /\ [](NothingFromNothing /\ FailedLeavesNothing /\ NoLateService /\ NoLateKey)
    /\ [](OnlyFreedPortsStray /\ WaitToldRight)
    /\ [](PortTypeOK /\ RefusesOnlyWhenFull)
    /\ EndedStaysEnded
<1>1. FairServicesSpec => [](NothingFromNothing /\ FailedLeavesNothing
                              /\ NoLateService /\ NoLateKey)
  BY ServicesAreEach, AllowlistIsClosed, FailuresLeaveNothing, LateRequestsAreRefused,
     LateKeysDoNotPass, PTL
<1>2. FairServicesSpec => [](OnlyFreedPortsStray /\ WaitToldRight)
  BY ServicesAreEach, AnswersComeFromTheNamed, WaitIsToldRight, PTL
<1>3. FairServicesSpec => [](PortTypeOK /\ RefusesOnlyWhenFull)
  BY ServicesAreEach, PortTypeCorrect, RefusalMeansFull, PTL
<1> QED
  BY <1>1, <1>2, <1>3, ServicesAreEach, EndedSessionsStay
===============================================================================
