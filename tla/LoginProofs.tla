------------------------------ MODULE LoginProofs ------------------------------
(***************************************************************************)
(* Proofs about Login.tla, for any number of logins, commands, addresses   *)
(* and POSTs.  LoginInv adds to the types what the properties rest on: how *)
(* far a handler is and what it has written, that a client that has lost   *)
(* nothing is connected to the only handler at work for it, and that a     *)
(* session that has ended has ended for good.                              *)
(***************************************************************************)
EXTENDS Login, FiniteSetTheorems, TLAPS

(* A login's handlers are numbered; a session is created by the step that  *)
(* ends in "token", for a user that is in the table by then.               *)
Written ==
  \A h \in Posts :
    /\ at[h] # "none" <=> h[2] <= sent[h[1]]
    /\ h \in issued => at[h] \in {"token", "ended"}
    /\ at[h] = "token" => h \in issued
    /\ at[h] = "create" => h[1] \in users

AtWork == {"exchange", "allow", "upsert", "create", "token", "refused", "error"}

(* Without a lost answer a handler at work has its client waiting for it,  *)
(* and a session has reached the config file or is about to.               *)
InStep ==
  \A h \in Posts :
    h[1] \notin lost =>
      /\ at[h] \in AtWork => Connected(h)
      /\ h \in issued => at[h] = "token" \/ cli[h[1]] = "in"

(* A request carries a session; one that was late is late for good.        *)
LateStays ==
  \A c \in Commands :
    /\ command[c].at # "idle" => command[c].token \in issued
    /\ command[c].late => command[c].at = "auth" /\ Ended(command[c].token)

(* Without an address in the configuration no handler gets past Allow.     *)
NobodyAllowed ==
  seeded = {} =>
    /\ users = {} /\ issued = {} /\ added = {}
    /\ \A h \in Posts : at[h] \notin {"upsert", "create", "token"}

LoginInv ==
  LoginTypeOK /\ Written /\ InStep /\ LateStays /\ NobodyAllowed

-----------------------------------------------------------------------------

(* As long as fewer than MaxPosts handlers have begun, none of the logins  *)
(* has used up its numbers.                                                *)
LEMMA PostsLeft ==
  ASSUME LoginTypeOK, Written, NEW l \in Logins,
         Cardinality({h \in Posts : at[h] # "none"}) < MaxPosts
  PROVE  sent[l] < MaxPosts
<1> DEFINE Begun == {h \in Posts : at[h] # "none"}
           Own == {l} \X (1 .. sent[l])
<1>1. sent[l] \in 0 .. MaxPosts /\ MaxPosts \in Nat /\ IsFiniteSet(Logins)
  BY LoginAssumption DEF LoginTypeOK
<1>2. /\ IsFiniteSet(1 .. MaxPosts) /\ IsFiniteSet(1 .. sent[l])
      /\ Cardinality(1 .. sent[l]) = sent[l]
  <2>1. 1 \in Int /\ sent[l] \in Int /\ MaxPosts \in Int
    BY <1>1
  <2> HIDE <1>1
  <2>2. IsFiniteSet(1 .. MaxPosts) /\ IsFiniteSet(1 .. sent[l])
    BY <2>1, FS_Interval
  <2>3. Cardinality(1 .. sent[l]) = IF 1 > sent[l] THEN 0 ELSE sent[l] - 1 + 1
    BY <2>1, FS_Interval
  <2> QED
    BY <1>1, <2>2, <2>3
<1>3. IsFiniteSet(Posts)
  BY <1>1, <1>2, FS_Product DEF Posts
<1>4. IsFiniteSet({l}) /\ Cardinality({l}) = 1
  BY FS_Singleton
<1>5. Cardinality(Own) = sent[l]
  <2>1. Cardinality(Own) = Cardinality({l}) * Cardinality(1 .. sent[l])
    BY <1>2, <1>4, FS_Product
  <2> QED
    BY <2>1, <1>1, <1>2, <1>4
<1>6. Own \subseteq Begun
  BY <1>1 DEF Written, Posts
<1>7. IsFiniteSet(Begun)
  BY <1>3, FS_Subset
<1>8. Cardinality(Own) <= Cardinality(Begun) /\ Cardinality(Begun) \in Nat
  BY <1>6, <1>7, FS_Subset, FS_CardinalityType
<1> QED
  BY <1>1, <1>5, <1>8

(* LoginTypeOK, action by action.                                          *)
LEMMA TypesKept ==
  ASSUME LoginTypeOK, Written, [LoginNext]_loginVars
  PROVE  LoginTypeOK'
<1> USE DEF LoginTypeOK
<1>1. ASSUME NEW l \in Logins,
             GitHub(l) \/ BeginLogin(l) \/ CodeLapses(l) \/ TimesOut(l) \/ Breaks(l)
      PROVE  LoginTypeOK'
  BY <1>1 DEF GitHub, Authorizes, Denies, CodeExpires, Becomes, BeginLogin,
              InitiateDeviceFlow, CodeLapses, TimesOut, Breaks, tableVars
<1>2. ASSUME NEW l \in Logins, Post(l)
      PROVE  LoginTypeOK'
  BY <1>2, PostsLeft, LoginAssumption DEF Post, Posts, tableVars
<1>3. ASSUME NEW h \in Posts, Answer(h) \/ SaveFails(h)
      PROVE  LoginTypeOK'
  BY <1>3 DEF Answer, SaveFails, AfterAnswer, Connected, Written, Posts, tableVars
<1>4. ASSUME NEW h \in Posts, Redeems(h) \/ Rejected(h) \/ Capped(h) \/ Errs(h)
      PROVE  LoginTypeOK'
  BY <1>4 DEF Redeems, Rejected, Capped, Errs, HandlerGoes, Posts
<1>5. ASSUME NEW h \in Posts, Allow(h)
      PROVE  LoginTypeOK'
  BY <1>5 DEF Allow, HandlerGoes
<1>6. ASSUME NEW h \in Posts, Upsert(h) \/ CreateSession(h)
      PROVE  LoginTypeOK'
  BY <1>6 DEF Upsert, CreateSession, Written, Posts, clientVars, tableVars
<1>7. ASSUME NEW h \in Posts, Touch(h) \/ SessionLapses(h)
      PROVE  LoginTypeOK'
  BY <1>7 DEF Touch, SessionLapses, clientVars, tableVars
<1>8. ASSUME NEW c \in Commands, Requested(c)
      PROVE  LoginTypeOK'
  <2>1. ASSUME NEW l \in Logins, NEW does \in Actions, Sends(c, l, does)
        PROVE  LoginTypeOK'
    <3> DEFINE request == [at |-> "auth", by |-> l, token |-> token[l],
                           does |-> does, late |-> Ended(token[l])]
    <3>1. request \in [at : {"idle", "auth", "handle"}, by : Logins \cup {Nobody},
                      token : issued \cup {Nobody}, does : Actions, late : BOOLEAN]
      BY <2>1 DEF Ended
    <3>2. command' = [command EXCEPT ![c] = request]
      BY <2>1 DEF Sends
    <3> HIDE DEF request
    <3> QED
      BY <2>1, <3>1, <3>2 DEF Sends, clientVars, tableVars
  <2>2. CASE Accepts(c)
    <3>1. command[c].token \in issued
      BY <2>2 DEF Accepts, Ended
    <3> QED
      BY <2>2, <3>1 DEF Accepts, clientVars, tableVars
  <2>3. ASSUME CommandEnds(c), added' \in {added} \cup SUBSET Emails,
               sessions' \subseteq sessions, UNCHANGED touches
        PROVE  LoginTypeOK'
    <3>1. Idle \in [at : {"idle", "auth", "handle"}, by : Logins \cup {Nobody},
                    token : issued \cup {Nobody}, does : Actions, late : BOOLEAN]
      BY DEF Idle, Actions
    <3>2. token' \in {token, [token EXCEPT ![command[c].by] = Nobody]}
      BY <2>3 DEF CommandEnds
    <3>3. token' \in [Logins -> issued \cup {Nobody}]
      BY <3>2
    <3>4. command' = [command EXCEPT ![c] = Idle]
          /\ UNCHANGED <<seeded, code, cli, sent, lapsed, lost, at, users, issued, stale>>
      BY <2>3 DEF CommandEnds
    <3> QED
      BY <2>3, <3>1, <3>3, <3>4
  <2>4. ASSUME CommandLost(c) \/ Rejects(c) \/ GetSession(c) \/ DeleteSession(c)
        PROVE  LoginTypeOK'
    BY <2>3, <2>4 DEF CommandLost, Rejects, GetSession, DeleteSession, Handles
  <2>5. ASSUME NEW e \in Emails, AddAllowedEmail(c, e) \/ RemoveAllowedEmail(c, e)
        PROVE  LoginTypeOK'
    BY <2>3, <2>5 DEF AddAllowedEmail, RemoveAllowedEmail, Handles
  <2> QED
    BY <1>8, <2>1, <2>2, <2>4, <2>5 DEF Requested
<1>9. CASE ServerRestarts
  BY <1>9 DEF ServerRestarts, Idle, Actions, tableVars
<1>10. CASE UNCHANGED loginVars
  BY <1>10 DEF loginVars, clientVars, tableVars
<1> QED
  BY <1>1, <1>2, <1>3, <1>4, <1>5, <1>6, <1>7, <1>8, <1>9, <1>10
  DEF LoginNext, Client, Exchange

(* The actions that touch neither handlers nor the two tables.             *)
LEMMA Elsewhere ==
  /\ \A l \in Logins :
       GitHub(l) \/ BeginLogin(l) \/ CodeLapses(l) \/ TimesOut(l) \/ Breaks(l)
       => UNCHANGED <<at, sent, issued, users>>
  /\ \A h \in Posts : Touch(h) \/ SessionLapses(h) => UNCHANGED <<at, sent, cli, lost, issued, users>>
  /\ \A c \in Commands : Requested(c) => UNCHANGED <<at, sent, cli, lost, issued, users>>
<1>1. ASSUME NEW l \in Logins,
             GitHub(l) \/ BeginLogin(l) \/ CodeLapses(l) \/ TimesOut(l) \/ Breaks(l)
      PROVE  UNCHANGED <<at, sent, issued, users>>
  BY <1>1 DEF GitHub, Authorizes, Denies, CodeExpires, Becomes, BeginLogin,
              CodeLapses, TimesOut, Breaks, tableVars
<1>2. ASSUME NEW h \in Posts, Touch(h) \/ SessionLapses(h)
      PROVE  UNCHANGED <<at, sent, cli, lost, issued, users>>
  BY <1>2 DEF Touch, SessionLapses, clientVars, tableVars
<1>3. ASSUME NEW c \in Commands, Requested(c)
      PROVE  UNCHANGED <<at, sent, cli, lost, issued, users>>
  BY <1>3 DEF Requested, Sends, CommandLost, Rejects, Accepts, GetSession, DeleteSession,
              AddAllowedEmail, RemoveAllowedEmail, Handles, CommandEnds,
              clientVars, tableVars
<1> QED
  BY <1>1, <1>2, <1>3

(* Where the steps of an exchange lead, and what they write.               *)
LEMMA Exchanged ==
  ASSUME NEW h \in Posts, Exchange(h), LoginTypeOK
  PROVE  /\ UNCHANGED <<cli, sent, lost, token>>
         /\ \A g \in Posts \ {h} : at'[g] = at[g]
         /\ at[h] \in {"exchange", "allow", "upsert", "create"}
         /\ at'[h] \in AtWork
         /\ at'[h] = "create" => users' = users \cup {h[1]} /\ issued' = issued
         /\ at'[h] = "token" => at[h] = "create" /\ users' = users /\ issued' = issued \cup {h}
         /\ at'[h] \notin {"create", "token"} => users' = users /\ issued' = issued
<1> USE DEF AtWork
<1>1. CASE Redeems(h) \/ Rejected(h) \/ Capped(h) \/ Errs(h)
  BY <1>1 DEF Redeems, Rejected, Capped, Errs, HandlerGoes, LoginTypeOK
<1>2. CASE Allow(h)
  BY <1>2 DEF Allow, HandlerGoes, LoginTypeOK
<1>3. CASE Upsert(h) \/ CreateSession(h)
  BY <1>3 DEF Upsert, CreateSession, LoginTypeOK, clientVars
<1> QED
  BY <1>1, <1>2, <1>3 DEF Exchange

LEMMA WrittenKept ==
  ASSUME LoginTypeOK, Written, [LoginNext]_loginVars
  PROVE  Written'
<1>1. ASSUME UNCHANGED <<at, sent, issued, users>>
      PROVE  Written'
  BY <1>1 DEF Written
<1>2. ASSUME NEW l \in Logins, Client(l) \/ GitHub(l)
      PROVE  Written'
  <2>1. CASE Post(l)
    <3>1. sent[l] < MaxPosts /\ sent[l] \in Nat /\ MaxPosts \in Nat
      BY <2>1, PostsLeft, LoginAssumption DEF Post, LoginTypeOK
    <3>2. <<l, sent[l] + 1>> \in Posts /\ at[<<l, sent[l] + 1>>] = "none"
      BY <3>1 DEF Posts, Written
    <3>3. at' = [at EXCEPT ![<<l, sent[l] + 1>>] = "exchange"]
          /\ sent' = [sent EXCEPT ![l] = @ + 1] /\ users' = users /\ issued' = issued
      BY <2>1 DEF Post, tableVars
    <3>4. ASSUME NEW h \in Posts
          PROVE  at'[h] # "none" <=> h[2] <= sent'[h[1]]
      <4>1. h[1] \in Logins /\ h[2] \in Nat /\ h = <<h[1], h[2]>> /\ sent[h[1]] \in Nat
        BY LoginAssumption DEF Posts, LoginTypeOK
      <4>2. CASE h = <<l, sent[l] + 1>>
        BY <3>1, <3>2, <3>3, <4>2 DEF LoginTypeOK
      <4>3. CASE h # <<l, sent[l] + 1>>
        <5>1. at'[h] = at[h] /\ (h[1] = l => h[2] # sent[l] + 1)
          BY <3>3, <4>1, <4>3 DEF LoginTypeOK
        <5>2. sent'[h[1]] = IF h[1] = l THEN sent[l] + 1 ELSE sent[h[1]]
          BY <3>3, <4>1 DEF LoginTypeOK
        <5> QED
          BY <3>1, <4>1, <5>1, <5>2 DEF Written
      <4> QED
        BY <4>2, <4>3
    <3>5. ASSUME NEW h \in Posts
          PROVE  /\ h \in issued' => at'[h] \in {"token", "ended"}
                 /\ at'[h] = "token" => h \in issued'
                 /\ at'[h] = "create" => h[1] \in users'
      BY <3>2, <3>3 DEF Written, LoginTypeOK
    <3> QED
      BY <3>4, <3>5 DEF Written
  <2> QED
    BY <1>1, <1>2, <2>1, Elsewhere DEF Client
<1>3. ASSUME NEW h \in Posts, Exchange(h)
      PROVE  Written'
  <2>1. h \notin issued /\ at[h] # "none"
    BY <1>3, Exchanged DEF Written
  <2>2. ASSUME NEW g \in Posts
        PROVE  /\ at'[g] # "none" <=> g[2] <= sent'[g[1]]
               /\ g \in issued' => at'[g] \in {"token", "ended"}
               /\ at'[g] = "token" => g \in issued'
               /\ at'[g] = "create" => g[1] \in users'
    <3>1. CASE g = h
      BY <1>3, <2>1, <3>1, Exchanged DEF Written, AtWork
    <3>2. CASE g # h
      BY <1>3, <3>2, Exchanged DEF Written
    <3> QED
      BY <3>1, <3>2
  <2> QED
    BY <2>2 DEF Written
<1>4. ASSUME NEW h \in Posts, Answer(h) \/ SaveFails(h)
      PROVE  Written'
  BY <1>4 DEF Answer, SaveFails, Written, LoginTypeOK, tableVars
<1>5. CASE ServerRestarts
  BY <1>5 DEF ServerRestarts, Written, tableVars
<1>6. CASE UNCHANGED loginVars
  BY <1>1, <1>6 DEF loginVars, clientVars, tableVars
<1> QED
  BY <1>1, <1>2, <1>3, <1>4, <1>5, <1>6, Elsewhere DEF LoginNext

LEMMA InStepKept ==
  ASSUME LoginTypeOK, Written, InStep, [LoginNext]_loginVars
  PROVE  InStep'
<1> USE DEF InStep
<1>1. ASSUME UNCHANGED <<at, sent, cli, lost, issued>>
      PROVE  InStep'
  BY <1>1 DEF Connected
<1>2. ASSUME NEW l \in Logins, BeginLogin(l) \/ TimesOut(l)
      PROVE  InStep'
  BY <1>2 DEF BeginLogin, TimesOut, Connected, AtWork, LoginTypeOK, Posts, tableVars
<1>3. ASSUME NEW l \in Logins, CodeLapses(l) \/ GitHub(l)
      PROVE  InStep'
  BY <1>1, <1>3
  DEF CodeLapses, GitHub, Authorizes, Denies, CodeExpires, Becomes, tableVars
<1>4. ASSUME NEW l \in Logins, Post(l)
      PROVE  InStep'
  <2>1. /\ cli[l] = "ask" /\ cli' = [cli EXCEPT ![l] = "posted"]
        /\ sent' = [sent EXCEPT ![l] = @ + 1] /\ lost' = lost /\ issued' = issued
        /\ at' = [at EXCEPT ![<<l, sent[l] + 1>>] = "exchange"]
    BY <1>4 DEF Post, tableVars
  <2>2. ASSUME NEW h \in Posts, h[1] \notin lost
        PROVE  /\ at'[h] \in AtWork => Connected(h)'
               /\ h \in issued => at'[h] = "token" \/ cli'[h[1]] = "in"
    <3>1. h[1] \in Logins /\ h = <<h[1], h[2]>>
      BY DEF Posts
    <3>2. CASE h = <<l, sent[l] + 1>>
      BY <2>1, <2>2, <3>2 DEF Connected, AtWork, LoginTypeOK, Written
    <3>3. CASE h # <<l, sent[l] + 1>> /\ h[1] = l
      BY <2>1, <2>2, <3>3 DEF Connected, AtWork, LoginTypeOK
    <3>4. CASE h[1] # l
      BY <2>1, <2>2, <3>1, <3>4 DEF Connected, LoginTypeOK
    <3> QED
      BY <3>2, <3>3, <3>4
  <2> QED
    BY <2>1, <2>2
<1>5. ASSUME NEW l \in Logins, Breaks(l)
      PROVE  InStep'
  BY <1>5 DEF Breaks, Connected, LoginTypeOK, tableVars, Posts
<1>6. ASSUME NEW h \in Posts, Exchange(h)
      PROVE  InStep'
  <2>1. at[h] \in AtWork /\ h \notin issued
    BY <1>6, Exchanged DEF AtWork, Written
  <2>2. ASSUME NEW g \in Posts, g[1] \notin lost'
        PROVE  /\ at'[g] \in AtWork => Connected(g)'
               /\ g \in issued' => at'[g] = "token" \/ cli'[g[1]] = "in"
    <3>1. g[1] \notin lost /\ (Connected(g)' <=> Connected(g)) /\ cli' = cli
      BY <1>6, <2>2, Exchanged DEF Connected
    <3>2. CASE g = h
      BY <1>6, <2>1, <3>1, <3>2, Exchanged
    <3>3. CASE g # h
      BY <1>6, <3>1, <3>3, Exchanged
    <3> QED
      BY <3>2, <3>3
  <2> QED
    BY <2>2
<1>7. ASSUME NEW h \in Posts, Answer(h)
      PROVE  InStep'
  <2>1. /\ at[h] \in {"token", "refused", "error"} /\ at' = [at EXCEPT ![h] = "ended"]
        /\ UNCHANGED <<sent, lost, issued>>
        /\ cli' = IF Connected(h) THEN [cli EXCEPT ![h[1]] = AfterAnswer(at[h])] ELSE cli
    BY <1>7 DEF Answer, tableVars
  <2>2. ASSUME NEW g \in Posts, g[1] \notin lost
        PROVE  /\ at'[g] \in AtWork => Connected(g)'
               /\ g \in issued => at'[g] = "token" \/ cli'[g[1]] = "in"
    <3>1. h \in Logins \X (1 .. MaxPosts) /\ g \in Logins \X (1 .. MaxPosts)
      BY DEF Posts
    <3>2. CASE g = h
      BY <2>1, <2>2, <3>1, <3>2 DEF Connected, AtWork, AfterAnswer, Written, LoginTypeOK
    <3>3. CASE g # h /\ g[1] = h[1]
      <4>1. at[h] \in AtWork /\ Connected(h)
        BY <2>1, <2>2, <3>3 DEF AtWork
      <4>2. at[g] \notin AtWork
        BY <2>2, <3>1, <3>3, <4>1 DEF Connected
      <4>3. g \notin issued
        BY <2>2, <3>3, <4>1, <4>2 DEF Connected, AtWork
      <4> QED
        BY <2>1, <3>3, <4>2, <4>3 DEF LoginTypeOK
    <3>4. CASE g[1] # h[1]
      BY <2>1, <2>2, <3>1, <3>4 DEF Connected, LoginTypeOK
    <3> QED
      BY <3>2, <3>3, <3>4
  <2> QED
    BY <2>1, <2>2
<1>8. ASSUME NEW h \in Posts, SaveFails(h)
      PROVE  InStep'
  BY <1>8 DEF SaveFails, Connected, LoginTypeOK, tableVars, Posts
<1>9. CASE ServerRestarts
  BY <1>9 DEF ServerRestarts, Connected, AtWork, tableVars, LoginTypeOK, Posts
<1>10. CASE UNCHANGED loginVars
  BY <1>1, <1>10 DEF loginVars, clientVars, tableVars
<1> QED
  BY <1>1, <1>2, <1>3, <1>4, <1>5, <1>6, <1>7, <1>8, <1>9, <1>10, Elsewhere
  DEF LoginNext, Client

(* A session that has been deleted is not created again, and no expiry is  *)
(* taken back.                                                             *)
LEMMA EndedKept ==
  ASSUME LoginTypeOK, Written, [LoginNext]_loginVars, NEW s \in issued, Ended(s)
  PROVE  Ended(s)'
<1> USE DEF Ended
<1>1. ASSUME sessions' \subseteq sessions, stale \subseteq stale'
      PROVE  Ended(s)'
  BY <1>1
<1>2. ASSUME NEW l \in Logins, Client(l) \/ GitHub(l)
      PROVE  Ended(s)'
  BY <1>2 DEF Client, GitHub, Authorizes, Denies, CodeExpires, Becomes, BeginLogin,
              CodeLapses, Post, TimesOut, Breaks, tableVars
<1>3. ASSUME NEW h \in Posts, Exchange(h)
      PROVE  Ended(s)'
  <2>1. CASE CreateSession(h)
    BY <2>1 DEF CreateSession, Written, LoginTypeOK
  <2>2. CASE ~CreateSession(h)
    BY <1>3, <2>2 DEF Exchange, Redeems, Rejected, Capped, Errs, Allow, Upsert,
                      HandlerGoes
  <2> QED
    BY <2>1, <2>2
<1>4. ASSUME NEW h \in Posts, Answer(h) \/ SaveFails(h) \/ Touch(h) \/ SessionLapses(h)
      PROVE  Ended(s)'
  BY <1>4 DEF Answer, SaveFails, Touch, SessionLapses, tableVars
<1>5. ASSUME NEW c \in Commands, Requested(c)
      PROVE  Ended(s)'
  BY <1>1, <1>5 DEF Requested, Sends, CommandLost, Rejects, Accepts, GetSession,
     DeleteSession, AddAllowedEmail, RemoveAllowedEmail, Handles, CommandEnds, tableVars
<1>6. CASE ServerRestarts \/ UNCHANGED loginVars
  BY <1>6 DEF ServerRestarts, loginVars, tableVars
<1> QED
  BY <1>2, <1>3, <1>4, <1>5, <1>6 DEF LoginNext

LEMMA LateStaysKept ==
  ASSUME LoginTypeOK, Written, LateStays, [LoginNext]_loginVars
  PROVE  LateStays'
<1>1. issued \subseteq issued'
  BY Exchanged, Elsewhere
  DEF LoginNext, Client, Post, Answer, SaveFails, ServerRestarts, loginVars, tableVars
<1>2. \A s \in issued : Ended(s) => Ended(s)'
  BY EndedKept
<1>3. ASSUME UNCHANGED command
      PROVE  LateStays'
  <2>1. ASSUME NEW c \in Commands
        PROVE  /\ command'[c].at # "idle" => command'[c].token \in issued'
               /\ command'[c].late => command'[c].at = "auth" /\ Ended(command[c].token)'
    BY <1>1, <1>2, <1>3, <2>1 DEF LateStays
  <2> QED
    BY <1>3, <2>1 DEF LateStays, Ended
<1>4. ASSUME NEW c \in Commands, UNCHANGED <<issued, stale>>, command'[c].at # "auth",
             command'[c].at # "idle" => command'[c].token \in issued,
             ~command'[c].late, \A d \in Commands \ {c} : command'[d] = command[d]
      PROVE  LateStays'
  <2>1. ASSUME NEW d \in Commands \ {c}
        PROVE  /\ command'[d].at # "idle" => command'[d].token \in issued'
               /\ command'[d].late => command'[d].at = "auth" /\ Ended(command[d].token)'
    <3>1. /\ command'[d] = command[d] /\ UNCHANGED issued
          /\ command[d].at # "idle" => command[d].token \in issued
          /\ command[d].late => command[d].at = "auth" /\ Ended(command[d].token)
      BY <1>4, <2>1 DEF LateStays
    <3>2. ASSUME command[d].late
          PROVE  Ended(command[d].token)'
      BY <1>2, <3>1, <3>2
    <3> QED
      BY <3>1, <3>2 DEF Ended
  <2> QED
    BY <1>4, <2>1 DEF LateStays
<1>5. ASSUME NEW c \in Commands, Requested(c)
      PROVE  LateStays'
  <2>1. ASSUME NEW l \in Logins, NEW does \in Actions, Sends(c, l, does)
        PROVE  LateStays'
    <3>1. /\ token[l] \in issued /\ UNCHANGED <<sessions, issued, stale>>
          /\ command' = [command EXCEPT ![c] =
               [at |-> "auth", by |-> l, token |-> token[l], does |-> does,
                late |-> Ended(token[l])]]
      BY <2>1 DEF Sends, tableVars, LoginTypeOK
    <3> QED
      BY <3>1 DEF LateStays, Ended, LoginTypeOK
  <2>2. CASE Accepts(c)
    <3>1. /\ command[c].at = "auth" /\ ~Ended(command[c].token)
          /\ UNCHANGED <<issued, stale>> /\ command[c].late \in BOOLEAN
          /\ command'[c].at = "handle" /\ command'[c].token = command[c].token
          /\ command'[c].late = command[c].late
          /\ \A d \in Commands \ {c} : command'[d] = command[d]
      BY <2>2 DEF Accepts, tableVars, LoginTypeOK
    <3> QED
      BY <1>4, <3>1 DEF LateStays
  <2>3. ASSUME CommandEnds(c)
        PROVE  LateStays'
    BY <1>4, <2>3 DEF CommandEnds, Idle, LoginTypeOK
  <2> QED
    BY <1>5, <2>1, <2>2, <2>3 DEF Requested, CommandLost, Rejects, GetSession,
       DeleteSession, AddAllowedEmail, RemoveAllowedEmail, Handles
<1>6. ASSUME NEW l \in Logins, Client(l) \/ GitHub(l)
      PROVE  UNCHANGED command
  BY <1>6 DEF Client, GitHub, Authorizes, Denies, CodeExpires, Becomes, BeginLogin,
              CodeLapses, Post, TimesOut, Breaks
<1>7. ASSUME NEW h \in Posts,
             Exchange(h) \/ Answer(h) \/ SaveFails(h) \/ Touch(h) \/ SessionLapses(h)
      PROVE  UNCHANGED command
  BY <1>7 DEF Exchange, Redeems, Rejected, Capped, Errs, Allow, Upsert, CreateSession,
              HandlerGoes, Answer, SaveFails, Touch, SessionLapses
<1>8. CASE ServerRestarts
  BY <1>8 DEF ServerRestarts, Idle, LateStays
<1>9. CASE UNCHANGED loginVars
  BY <1>3, <1>9 DEF loginVars
<1> QED
  BY <1>3, <1>5, <1>6, <1>7, <1>8, <1>9 DEF LoginNext

(* With an empty allowlist Allow refuses everybody, and nobody has a       *)
(* session to extend the list with.                                        *)
LEMMA NobodyAllowedKept ==
  ASSUME LoginTypeOK, Written, LateStays, NobodyAllowed, [LoginNext]_loginVars
  PROVE  NobodyAllowed'
<1>1. UNCHANGED seeded
  BY DEF LoginNext, Client, GitHub, Authorizes, Denies, CodeExpires, Becomes, BeginLogin,
     CodeLapses, Post, TimesOut, Breaks, Exchange, Redeems, Rejected, Capped, Errs, Allow,
     Upsert, CreateSession, HandlerGoes, Answer, SaveFails, Touch, SessionLapses,
     Requested, Sends, CommandLost, Rejects, Accepts, GetSession, DeleteSession,
     AddAllowedEmail, RemoveAllowedEmail, Handles, CommandEnds, ServerRestarts, loginVars
<1> SUFFICES ASSUME seeded = {}
             PROVE  NobodyAllowed'
  BY <1>1 DEF NobodyAllowed
<1>2. /\ users = {} /\ issued = {} /\ added = {}
      /\ \A h \in Posts : at[h] \notin {"upsert", "create", "token"}
  BY DEF NobodyAllowed
<1>3. ASSUME UNCHANGED <<users, issued, added>>,
             \A h \in Posts : at'[h] \notin {"upsert", "create", "token"}
      PROVE  NobodyAllowed'
  BY <1>2, <1>3 DEF NobodyAllowed
<1>4. ASSUME NEW l \in Logins, Client(l) \/ GitHub(l)
      PROVE  NobodyAllowed'
  BY <1>2, <1>3, <1>4 DEF LoginTypeOK, tableVars, Client, GitHub, Authorizes, Denies,
     CodeExpires, Becomes, BeginLogin, CodeLapses, Post, TimesOut, Breaks
<1>5. ASSUME NEW h \in Posts, Exchange(h)
      PROVE  NobodyAllowed'
  <2>1. CASE Allow(h)
    <3>1. ASSUME NEW verified \in FetchUserInfo, NEW listed \in Listed
          PROVE  verified \cap (seeded \cup listed) = {}
      BY <1>2, <3>1 DEF Listed
    <3>2. HandlerGoes(h, "refused")
      BY <2>1, <3>1 DEF Allow
    <3> QED
      BY <1>2, <1>3, <3>2 DEF HandlerGoes, LoginTypeOK
  <2>2. CASE Redeems(h) \/ Rejected(h) \/ Capped(h) \/ Errs(h)
    BY <1>2, <1>3, <2>2
    DEF Redeems, Rejected, Capped, Errs, HandlerGoes, LoginTypeOK
  <2>3. CASE Upsert(h) \/ CreateSession(h)
    BY <1>2, <2>3 DEF Upsert, CreateSession
  <2> QED
    BY <1>5, <2>1, <2>2, <2>3 DEF Exchange
<1>6. ASSUME NEW h \in Posts, Answer(h) \/ SaveFails(h) \/ Touch(h) \/ SessionLapses(h)
      PROVE  NobodyAllowed'
  BY <1>2, <1>3, <1>6
  DEF Answer, SaveFails, Touch, SessionLapses, clientVars, tableVars, LoginTypeOK
<1>7. ASSUME NEW c \in Commands, Requested(c)
      PROVE  NobodyAllowed'
  <2>1. command[c].at = "idle" /\ token \in [Logins -> {Nobody}]
    BY <1>2 DEF LateStays, LoginTypeOK
  <2> QED
    BY <1>7, <2>1 DEF Requested, Sends, CommandLost, Rejects, Accepts, GetSession,
       DeleteSession, AddAllowedEmail, RemoveAllowedEmail, Handles
<1>8. CASE ServerRestarts \/ UNCHANGED loginVars
  BY <1>2, <1>3, <1>8 DEF ServerRestarts, loginVars, tableVars
<1> QED
  BY <1>4, <1>5, <1>6, <1>7, <1>8 DEF LoginNext

LEMMA LoginStarts == LoginInit => LoginInv
<1> SUFFICES ASSUME LoginInit PROVE LoginInv
  OBVIOUS
<1> USE DEF LoginInit
<1>1. MaxPosts \in Nat /\ \A h \in Posts : h[1] \in Logins /\ h[2] \in 1 .. MaxPosts
  BY LoginAssumption DEF Posts
<1>2. LoginTypeOK
  BY <1>1 DEF LoginTypeOK, Idle, Actions
<1>3. Written /\ InStep
  BY <1>1 DEF Written, InStep, AtWork
<1>4. LateStays /\ NobodyAllowed
  BY DEF LateStays, NobodyAllowed, Idle
<1> QED
  BY <1>2, <1>3, <1>4 DEF LoginInv

LEMMA LoginInductive == LoginSpec => []LoginInv
<1>1. LoginInv /\ [LoginNext]_loginVars => LoginInv'
  BY TypesKept, WrittenKept, InStepKept, LateStaysKept, NobodyAllowedKept DEF LoginInv
<1> QED
  BY LoginStarts, <1>1, PTL DEF LoginSpec

(* Every variable keeps its type, tokens and rows are of sessions that     *)
(* were created, and every session created has its user.                   *)
THEOREM LoginTypeCorrect == LoginSpec => []LoginTypeOK
<1>1. LoginInv => LoginTypeOK
  BY DEF LoginInv
<1> QED
  BY LoginInductive, <1>1, PTL

(* With no address in the configuration there is never a user, a session   *)
(* or an address in the table, for any number of users and requests.       *)
THEOREM AllowlistIsClosed == LoginSpec => []NothingFromNothing
<1>1. LoginInv => NothingFromNothing
  BY DEF LoginInv, NobodyAllowed, NothingFromNothing
<1> QED
  BY LoginInductive, <1>1, PTL

(* A login that failed without losing an answer has left no session: its   *)
(* client would be waiting for the handler that created one, or logged in. *)
THEOREM FailuresLeaveNothing == LoginSpec => []FailedLeavesNothing
<1>1. LoginInv => FailedLeavesNothing
  <2> SUFFICES ASSUME LoginInv, NEW l \in Logins, cli[l] = "failed", l \notin lost,
                      NEW h \in issued, h[1] = l
               PROVE  FALSE
    BY DEF FailedLeavesNothing
  <2>1. h \in Posts
    BY DEF LoginInv, LoginTypeOK
  <2>2. at[h] = "token"
    BY <2>1 DEF LoginInv, InStep
  <2>3. Connected(h)
    BY <2>1, <2>2 DEF LoginInv, InStep, AtWork
  <2> QED
    BY <2>3 DEF Connected
<1> QED
  BY LoginInductive, <1>1, PTL

(* A request whose session had ended before it arrived is not handled.     *)
THEOREM LateRequestsAreRefused == LoginSpec => []NoLateService
<1>1. LoginInv => NoLateService
  BY DEF LoginInv, LateStays, NoLateService
<1> QED
  BY LoginInductive, <1>1, PTL

(* No step revives a session that was deleted or has expired.              *)
THEOREM EndedSessionsStay == LoginSpec => EndedStaysEnded
<1>1. LoginInv /\ [LoginNext]_loginVars
      => [\A s \in issued : Ended(s) => Ended(s)']_loginVars
  BY EndedKept DEF LoginInv
<1> QED
  BY LoginInductive, <1>1, PTL DEF LoginSpec, EndedStaysEnded

===============================================================================
