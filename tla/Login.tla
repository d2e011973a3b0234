-------------------------------- MODULE Login --------------------------------
(***************************************************************************)
(* Logging in and managing with a session: the command line client's       *)
(* device flow (src/internal/auth/device.go, src/internal/cmd/auth.go),    *)
(* the handlers it talks to (handlers_auth_oauth.go,                       *)
(* handlers_auth_allowlist.go), the session middleware (middleware.go) and *)
(* the tables users, sessions and allowed_emails.  GitHub, which issues    *)
(* device codes and redeems each of them once, is the environment.         *)
(*                                                                         *)
(* Time is two events: a login's device code reaches its lifetime, a       *)
(* session its expires_at.  Handlers are threads; a client that polls again *)
(* after a broken connection has several of them.                          *)
(***************************************************************************)
EXTENDS Naturals, FiniteSets

CONSTANTS
  Logins,    \* runs of `llama-admin auth login`, each with a user of its own
  Commands,  \* concurrent requests to the session-protected routes
  Emails,
  MaxPosts,  \* bound: POSTs to /token by all logins together
  Nobody     \* no token

ASSUME LoginAssumption ==
  /\ IsFiniteSet(Logins)
  /\ MaxPosts \in Nat \ {0}
  /\ Nobody \notin Logins \X (1 .. MaxPosts)

(* A handler of POST /auth/{provider}/token; the session it may create is  *)
(* named after it.                                                         *)
Posts == Logins \X (1 .. MaxPosts)

VARIABLES
  seeded,    \* cfg.Auth.AllowedEmails, read when the server starts
  added,     \* table allowed_emails
  users,     \* logins whose user is in table users
  code,      \* a login's device code at GitHub
  cli,       \* where the login's client is
  sent,      \* POSTs to /token so far
  token,     \* the session token in the client's config file, or Nobody
  lapsed,    \* logins whose code has reached its lifetime
  lost,      \* logins of which an answer, or the config file, was lost
  at,        \* where a handler is; then its answer
  sessions,  \* table sessions
  issued,    \* sessions ever created
  stale,     \* sessions whose expires_at has passed
  touches,   \* goroutines of the middleware about to call Touch
  command    \* a request to a protected route

clientVars == <<code, cli, sent, token, lapsed, lost>>
tableVars  == <<users, sessions, issued, stale>>
loginVars  == <<seeded, added, clientVars, at, tableVars, touches, command>>

Actions == {<<"session">>, <<"logout">>} \cup ({"add", "remove"} \X Emails)
Idle    == [at |-> "idle", by |-> Nobody, token |-> Nobody, does |-> <<"session">>,
            late |-> FALSE]

Ended(s) == s \notin sessions \/ s \in stale

-----------------------------------------------------------------------------
(* GitHub and the user.  A code is "void" once redeemed or denied.         *)

Becomes(l, from, to) ==
  /\ code[l] = from
  /\ code' = [code EXCEPT ![l] = to]
  /\ UNCHANGED <<seeded, added, cli, sent, token, lapsed, lost, at, tableVars,
                 touches, command>>

Authorizes(l) == Becomes(l, "pending", "granted")

Denies(l) == Becomes(l, "pending", "void")

(* GitHub need not report the expiry of a code that has lapsed.            *)
CodeExpires(l) == l \in lapsed /\ Becomes(l, "pending", "expired")

-----------------------------------------------------------------------------
(* CompleteDeviceFlow.                                                     *)

(* POST /auth/{provider}/device: the handler passes a code on.             *)
InitiateDeviceFlow(l) == code' = [code EXCEPT ![l] = "pending"]

BeginLogin(l) ==
  /\ cli[l] = "idle"
  /\ cli' = [cli EXCEPT ![l] = "ask"]
  /\ InitiateDeviceFlow(l)
  /\ UNCHANGED <<seeded, added, sent, token, lapsed, lost, at, tableVars,
                 touches, command>>

CodeLapses(l) ==
  /\ cli[l] \in {"ask", "posted"} /\ l \notin lapsed
  /\ lapsed' = lapsed \cup {l}
  /\ UNCHANGED <<seeded, added, code, cli, sent, token, lost, at, tableVars,
                 touches, command>>

(* The loop posts while the code has not lapsed, and waits for the answer  *)
(* without a timeout.                                                      *)
Post(l) ==
  /\ cli[l] = "ask" /\ l \notin lapsed
  /\ Cardinality({h \in Posts : at[h] # "none"}) < MaxPosts
  /\ cli' = [cli EXCEPT ![l] = "posted"]
  /\ sent' = [sent EXCEPT ![l] = @ + 1]
  /\ at' = [at EXCEPT ![<<l, sent[l] + 1>>] = "exchange"]
  /\ UNCHANGED <<seeded, added, code, token, lapsed, lost, tableVars, touches,
                 command>>

(* The client stops waiting for an answer when the code lapses.            *)
Mutant_TimesOut(l) ==
  /\ cli[l] \in {"ask", "posted"} /\ l \in lapsed
  /\ cli' = [cli EXCEPT ![l] = "failed"]
  /\ UNCHANGED <<seeded, added, code, sent, token, lapsed, lost, at, tableVars,
                 touches, command>>

TimesOut(l) ==
  /\ cli[l] = "ask" /\ l \in lapsed
  /\ cli' = [cli EXCEPT ![l] = "failed"]
  /\ UNCHANGED <<seeded, added, code, sent, token, lapsed, lost, at, tableVars,
                 touches, command>>

(* A transport error: the client goes on polling, the handler does not     *)
(* notice unless it is calling GitHub.                                     *)
Breaks(l) ==
  /\ cli[l] = "posted"
  /\ cli' = [cli EXCEPT ![l] = "ask"]
  /\ lost' = lost \cup {l}
  /\ UNCHANGED <<seeded, added, code, sent, token, lapsed, at, tableVars,
                 touches, command>>

Connected(h) == cli[h[1]] = "posted" /\ sent[h[1]] = h[2]

(* What the client makes of an answer: an error object does not decode     *)
(* into the string it expects, and it goes on polling.                     *)
AfterAnswer(a) ==
  CASE a = "token"   -> "in"
    [] a = "refused" -> "ask"
    [] a = "error"   -> "failed"

(* The answer arrives, or there is no connection to send it on.            *)
Answer(h) ==
  LET l == h[1] IN
  /\ at[h] \in {"token", "refused", "error"}
  /\ at' = [at EXCEPT ![h] = "ended"]
  /\ IF Connected(h)
     THEN /\ cli' = [cli EXCEPT ![l] = AfterAnswer(at[h])]
          /\ token' = [token EXCEPT ![l] = IF at[h] = "token" THEN h ELSE @]
     ELSE UNCHANGED <<cli, token>>
  /\ UNCHANGED <<seeded, added, code, sent, lapsed, lost, tableVars, touches,
                 command>>

(* The config file cannot be written: the command fails with the token in  *)
(* hand.                                                                   *)
SaveFails(h) ==
  LET l == h[1] IN
  /\ at[h] = "token" /\ Connected(h)
  /\ at' = [at EXCEPT ![h] = "ended"]
  /\ cli' = [cli EXCEPT ![l] = "failed"]
  /\ lost' = lost \cup {l}
  /\ UNCHANGED <<seeded, added, code, sent, token, lapsed, tableVars, touches,
                 command>>

-----------------------------------------------------------------------------
(* ExchangeDeviceCode.                                                     *)

HandlerGoes(h, to) ==
  /\ at' = [at EXCEPT ![h] = to]
  /\ UNCHANGED <<seeded, added, cli, sent, token, lapsed, lost, users, issued,
                 sessions, stale, touches, command>>

Redeems(h) ==
  /\ at[h] = "exchange" /\ code[h[1]] = "granted"
  /\ code' = [code EXCEPT ![h[1]] = "void"]
  /\ HandlerGoes(h, "allow")

(* "expired_token" is answered with an OpenAI error object, any other      *)
(* error with a string.                                                    *)
Rejected(h) ==
  /\ at[h] = "exchange" /\ code[h[1]] \in {"expired", "void"}
  /\ HandlerGoes(h, IF code[h[1]] = "expired" THEN "refused" ELSE "error")
  /\ UNCHANGED code

(* The exchange is bound to the request's context only.                    *)
Mutant_Capped(h) ==
  at[h] = "exchange" /\ ~Connected(h) /\ HandlerGoes(h, "error") /\ UNCHANGED code

(* The context of 20 minutes ends, whatever GitHub does.                   *)
Capped(h) == at[h] = "exchange" /\ HandlerGoes(h, "error") /\ UNCHANGED code

(* No way to GitHub, a client that has gone, or a database error.          *)
Errs(h) ==
  /\ at[h] \in {"exchange", "allow", "upsert", "create"}
  /\ HandlerGoes(h, "error") /\ UNCHANGED code

(* The verified ones of a user's addresses.                                *)
FetchUserInfo == SUBSET Emails

(* Any verified address will do.                                           *)
Mutant_Allow(h) ==
  /\ at[h] = "allow"
  /\ \E verified \in FetchUserInfo :
       HandlerGoes(h, IF verified # {} THEN "upsert" ELSE "refused")
  /\ UNCHANGED code

(* The rows of allowed_emails; an error is ignored.                        *)
Listed == {added, {}}

Allow(h) ==
  /\ at[h] = "allow"
  /\ \E verified \in FetchUserInfo, listed \in Listed :
       HandlerGoes(h, IF verified \cap (seeded \cup listed) # {}
                      THEN "upsert" ELSE "refused")
  /\ UNCHANGED code

(* The session is created without its user.                                *)
Mutant_Upsert(h) ==
  /\ at[h] = "upsert"
  /\ at' = [at EXCEPT ![h] = "create"]
  /\ UNCHANGED <<seeded, added, clientVars, tableVars, touches, command>>

Upsert(h) ==
  /\ at[h] = "upsert"
  /\ users' = users \cup {h[1]}
  /\ at' = [at EXCEPT ![h] = "create"]
  /\ UNCHANGED <<seeded, added, clientVars, sessions, issued, stale, touches,
                 command>>

CreateSession(h) ==
  /\ at[h] = "create"
  /\ sessions' = sessions \cup {h}
  /\ issued' = issued \cup {h}
  /\ at' = [at EXCEPT ![h] = "token"]
  /\ UNCHANGED <<seeded, added, clientVars, users, stale, touches, command>>

-----------------------------------------------------------------------------
(* Requests to the protected routes.                                       *)

(* GetClient takes the token of the config file.                           *)
Sends(c, l, does) ==
  /\ command[c].at = "idle" /\ token[l] # Nobody
  /\ command' = [command EXCEPT ![c] =
       [at |-> "auth", by |-> l, token |-> token[l], does |-> does,
        late |-> Ended(token[l])]]
  /\ UNCHANGED <<seeded, added, clientVars, at, tableVars, touches>>

(* The client has its answer, or none: logout clears the token anyway,     *)
(* and whatever token the file holds by then.                              *)
CommandEnds(c) ==
  /\ command' = [command EXCEPT ![c] = Idle]
  /\ token' = IF command[c].does = <<"logout">>
              THEN [token EXCEPT ![command[c].by] = Nobody] ELSE token
  /\ UNCHANGED <<seeded, code, cli, sent, lapsed, lost, at, users, issued, stale>>

(* The request does not reach the server.                                  *)
CommandLost(c) ==
  /\ command[c].at = "auth"
  /\ CommandEnds(c)
  /\ UNCHANGED <<added, sessions, touches>>

(* GetByHash and the comparison with the clock.  An expired row is deleted, *)
(* unless the database errs.                                               *)
Rejects(c) ==
  /\ command[c].at = "auth" /\ Ended(command[c].token)
  /\ sessions' \in {sessions, sessions \ {command[c].token}}
  /\ CommandEnds(c)
  /\ UNCHANGED <<added, touches>>

(* The clock is not looked at.                                             *)
Mutant_Accepts(c) ==
  /\ command[c].at = "auth" /\ command[c].token \in sessions
  /\ command' = [command EXCEPT ![c].at = "handle"]
  /\ touches' = touches \cup {command[c].token}
  /\ UNCHANGED <<seeded, added, clientVars, at, tableVars>>

Accepts(c) ==
  /\ command[c].at = "auth" /\ ~Ended(command[c].token)
  /\ command' = [command EXCEPT ![c].at = "handle"]
  /\ touches' = touches \cup {command[c].token}
  /\ UNCHANGED <<seeded, added, clientVars, at, tableVars>>

(* An upsert of the row that the middleware had read.                      *)
Mutant_Touch(s) ==
  /\ s \in touches
  /\ touches' = touches \ {s}
  /\ sessions' = sessions \cup {s}
  /\ UNCHANGED <<seeded, added, clientVars, at, users, issued, stale, command>>

(* UPDATE sessions SET last_used_at: nothing, if the row has gone.         *)
Touch(s) ==
  /\ s \in touches
  /\ touches' = touches \ {s}
  /\ UNCHANGED <<seeded, added, clientVars, at, tableVars, command>>

(* The handlers.  An error of the database leaves the row as it was, and   *)
(* DeleteSession does not look at it.                                      *)
Handles(c, does) ==
  /\ command[c].at = "handle" /\ command[c].does = does
  /\ CommandEnds(c)
  /\ UNCHANGED touches

GetSession(c) == Handles(c, <<"session">>) /\ UNCHANGED <<added, sessions>>

DeleteSession(c) ==
  /\ Handles(c, <<"logout">>)
  /\ sessions' \in {sessions, sessions \ {command[c].token}}
  /\ UNCHANGED added

AddAllowedEmail(c, e) ==
  /\ Handles(c, <<"add", e>>)
  /\ added' \in {added, added \cup {e}}
  /\ UNCHANGED sessions

(* An address of the configuration is not removed from the table either.   *)
RemoveAllowedEmail(c, e) ==
  /\ Handles(c, <<"remove", e>>)
  /\ added' \in {added} \cup (IF e \in seeded THEN {} ELSE {added \ {e}})
  /\ UNCHANGED sessions

SessionLapses(s) ==
  /\ s \in sessions \ stale
  /\ stale' = stale \cup {s}
  /\ UNCHANGED <<seeded, added, clientVars, at, users, sessions, issued, touches,
                 command>>

-----------------------------------------------------------------------------
(* The server ends and another begins: handlers, goroutines and            *)
(* connections are gone, the tables stay.                                  *)
ServerRestarts ==
  LET cut == {l \in Logins : cli[l] = "posted"}
      out == {command[c].by : c \in {d \in Commands : command[d].does = <<"logout">>}}
  IN /\ at' = [h \in Posts |-> IF at[h] = "none" THEN "none" ELSE "ended"]
     /\ cli' = [l \in Logins |-> IF l \in cut THEN "ask" ELSE cli[l]]
     /\ lost' = lost \cup cut
     /\ token' = [l \in Logins |-> IF l \in out THEN Nobody ELSE token[l]]
     /\ command' = [c \in Commands |-> Idle]
     /\ touches' = {}
     /\ UNCHANGED <<seeded, added, code, sent, lapsed, tableVars>>

-----------------------------------------------------------------------------

LoginInit ==
  /\ seeded \in SUBSET Emails /\ added = {} /\ users = {}
  /\ code = [l \in Logins |-> "none"]
  /\ cli = [l \in Logins |-> "idle"]
  /\ sent = [l \in Logins |-> 0]
  /\ token = [l \in Logins |-> Nobody]
  /\ lapsed = {} /\ lost = {}
  /\ at = [h \in Posts |-> "none"]
  /\ sessions = {} /\ issued = {} /\ stale = {} /\ touches = {}
  /\ command = [c \in Commands |-> Idle]

Client(l) ==
  BeginLogin(l) \/ CodeLapses(l) \/ Post(l) \/ TimesOut(l) \/ Breaks(l)

GitHub(l) == Authorizes(l) \/ Denies(l) \/ CodeExpires(l)

Exchange(h) ==
  Redeems(h) \/ Rejected(h) \/ Capped(h) \/ Errs(h)
  \/ Allow(h) \/ Upsert(h) \/ CreateSession(h)

Requested(c) ==
  \/ \E l \in Logins, does \in Actions : Sends(c, l, does)
  \/ CommandLost(c) \/ Rejects(c) \/ Accepts(c)
  \/ GetSession(c) \/ DeleteSession(c)
  \/ \E e \in Emails : AddAllowedEmail(c, e) \/ RemoveAllowedEmail(c, e)

LoginNext ==
  \/ \E l \in Logins : Client(l) \/ GitHub(l)
  \/ \E h \in Posts :
       Exchange(h) \/ Answer(h) \/ SaveFails(h) \/ Touch(h) \/ SessionLapses(h)
  \/ \E c \in Commands : Requested(c)
  \/ ServerRestarts

LoginSpec == LoginInit /\ [][LoginNext]_loginVars

(* Time passes: a code's lifetime and the context of an exchange end.  A   *)
(* handler past its calls to GitHub, and the client, are scheduled.  Allow *)
(* is not: FetchUserInfo asks GitHub twice, outside that context and with  *)
(* no timeout.                                                             *)
LoginFairness ==
  /\ \A l \in Logins : WF_loginVars(CodeLapses(l) \/ TimesOut(l))
  /\ \A h \in Posts :
       WF_loginVars(Capped(h) \/ Upsert(h) \/ CreateSession(h) \/ Answer(h))

FairLoginSpec == LoginSpec /\ LoginFairness

-----------------------------------------------------------------------------
(* Types, and what a row or a token is always backed by.                   *)
LoginTypeOK ==
  /\ seeded \subseteq Emails /\ added \subseteq Emails /\ users \subseteq Logins
  /\ code \in [Logins -> {"none", "pending", "granted", "void", "expired"}]
  /\ cli \in [Logins -> {"idle", "ask", "posted", "in", "failed"}]
  /\ sent \in [Logins -> 0 .. MaxPosts]
  /\ token \in [Logins -> issued \cup {Nobody}]
  /\ lapsed \subseteq Logins /\ lost \subseteq Logins
  /\ at \in [Posts -> {"none", "exchange", "allow", "upsert", "create", "token",
                       "refused", "error", "ended"}]
  /\ sessions \subseteq issued /\ issued \subseteq Posts
  /\ stale \subseteq issued /\ touches \subseteq issued
  /\ command \in [Commands ->
       [at : {"idle", "auth", "handle"}, by : Logins \cup {Nobody},
        token : issued \cup {Nobody}, does : Actions, late : BOOLEAN]]
  /\ \A h \in issued : h[1] \in users

(* The allowlist grows only through somebody who was on it: with no address *)
(* in the configuration there is never a user, a session or an address in  *)
(* the table, whatever fails and however requests overlap.                 *)
NothingFromNothing ==
  seeded = {} => users = {} /\ issued = {} /\ added = {}

(* A login that fails has created no session, unless an answer or the      *)
(* config file was lost: then a session is left that nobody can log out.   *)
FailedLeavesNothing ==
  \A l \in Logins :
    cli[l] = "failed" /\ l \notin lost => ~\E h \in issued : h[1] = l

(* A session that has been logged out or deleted as expired stays deleted, *)
(* although a Touch of it may still be on its way, and so does one that    *)
(* has expired stay expired.                                               *)
EndedStaysEnded == [][\A s \in issued : Ended(s) => Ended(s)']_loginVars

(* A request that arrives after its session has ended is not handled,      *)
(* however many requests with that token are under way.                    *)
NoLateService ==
  \A c \in Commands : command[c].at = "handle" => ~command[c].late

(* `auth login` ends, also when GitHub never reports an expiry, answers    *)
(* are lost or errors are not understood, although it waits for an answer  *)
(* without a timeout; unless its handler waits for ever in FetchUserInfo,  *)
(* the one call to GitHub that the 20 minutes of the handler do not bound. *)
LoginEndsOrAwaitsGitHub ==
  \A l \in Logins :
    cli[l] \in {"ask", "posted"} ~>
      \/ cli[l] \in {"in", "failed"}
      \/ [](\E h \in Posts : h[1] = l /\ Connected(h) /\ at[h] = "allow")
=============================================================================
