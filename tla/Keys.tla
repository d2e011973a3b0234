--------------------------------- MODULE Keys ---------------------------------
(***************************************************************************)
(* API keys: their rows (src/pkg/database/apikeys.go), the management      *)
(* handlers (src/pkg/server/handlers_auth.go), the command line that calls *)
(* them (src/internal/cmd/api_keys.go) and the middleware that checks the  *)
(* key of each inference request (src/pkg/server/middleware.go).           *)
(*                                                                         *)
(* A key stands for its row and for the secret its hash verifies.  Time is *)
(* one event, a key's expires_at passing.  The middleware reads the rows   *)
(* in one query and then verifies them one by one, which takes long: rows  *)
(* change meanwhile.  What follows, Serving.tla, does not look at the key. *)
(***************************************************************************)
CONSTANTS
  Keys,
  Checks,  \* inference requests in the middleware at a time
  NoKey    \* no key, or one that never existed

ASSUME KeysAssumption == NoKey \notin Keys

VARIABLES
  keyState,  \* "none" yet, "active", "expired" or "deleted"
  check      \* a request: where it is, its key, whether that had ended when
             \* it arrived, and the rows it has read
keysVars == <<keyState, check>>

Unchecked == [at |-> "idle", key |-> NoKey, late |-> FALSE, rows |-> {}]

KeyEnded(k) == k # NoKey /\ keyState[k] \in {"expired", "deleted"}

KeyBecomes(k, from, to) ==
  /\ keyState[k] \in from
  /\ keyState' = [keyState EXCEPT ![k] = to]
  /\ UNCHANGED check

InsertKey(k, s) == KeyBecomes(k, {"none"}, s)

(* What the command line's expires_at makes of a key: the present, for a   *)
(* duration that cannot be parsed, as "7d".                                *)
Expiries == {"active", "expired"}

(* An expires_at that is not in the future is stored as it is.             *)
CreateAPIKey(k) == \E s \in Expiries : InsertKey(k, s)

KeyLapses(k) == KeyBecomes(k, {"active"}, "expired")

(* Its rows in key_permissions, which no request reads, stay.              *)
DeleteAPIKey(k) == KeyBecomes(k, {"active", "expired"}, "deleted")

-----------------------------------------------------------------------------
(* InferenceAuthMiddleware.                                                *)

KeyArrives(r, k) ==
  /\ check[r].at = "idle"
  /\ check' = [check EXCEPT ![r] = [Unchecked EXCEPT !.at = "auth", !.key = k,
                                                     !.late = KeyEnded(k)]]
  /\ UNCHANGED keyState

(* A query without the comparison of expires_at.                           *)
Mutant_GetActiveKeys == {k \in Keys : keyState[k] \in {"active", "expired"}}

GetActiveKeys == {k \in Keys : keyState[k] = "active"}

ReadsKeys(r) ==
  /\ check[r].at = "auth"
  /\ check' = [check EXCEPT ![r].at = "verify", ![r].rows = GetActiveKeys]
  /\ UNCHANGED keyState

(* The hash of one of the rows verifies the key.                           *)
VerifyKey(r) == check[r].key \in check[r].rows

(* TouchKey, in a goroutine, writes a column that nothing reads.           *)
VerifiesKey(r) ==
  /\ check[r].at = "verify" /\ VerifyKey(r)
  /\ check' = [check EXCEPT ![r].at = "passed"]
  /\ UNCHANGED keyState

(* Refused, a database error, or done with what follows.                   *)
CheckEnds(r) ==
  /\ \/ check[r].at = "auth"
     \/ check[r].at = "verify" /\ ~VerifyKey(r)
     \/ check[r].at = "passed"
  /\ check' = [check EXCEPT ![r] = Unchecked]
  /\ UNCHANGED keyState

KeysInit ==
  /\ keyState = [k \in Keys |-> "none"]
  /\ check = [r \in Checks |-> Unchecked]

KeysNext ==
  \/ \E k \in Keys : CreateAPIKey(k) \/ KeyLapses(k) \/ DeleteAPIKey(k)
  \/ \E r \in Checks :
       \/ \E k \in Keys \cup {NoKey} : KeyArrives(r, k)
       \/ ReadsKeys(r) \/ VerifiesKey(r) \/ CheckEnds(r)

KeysSpec == KeysInit /\ [][KeysNext]_keysVars

-----------------------------------------------------------------------------
KeysTypeOK ==
  /\ keyState \in [Keys -> {"none", "active", "expired", "deleted"}]
  /\ check \in [Checks -> [at : {"idle", "auth", "verify", "passed"},
                           key : Keys \cup {NoKey}, late : BOOLEAN,
                           rows : SUBSET Keys]]

(* A request that arrives after its key has expired or been deleted, or    *)
(* with no key at all, does not get past the middleware, whatever was      *)
(* created or deleted between the query and the verification; a request    *)
(* that arrived before may pass after.                                     *)
NoLateKey ==
  \A r \in Checks :
    check[r].at = "passed" => ~check[r].late /\ check[r].key # NoKey
===============================================================================
