----------------------- MODULE ConnectionAttemptsProofs -----------------------
(***************************************************************************)
(* Proofs about ConnectionAttempts, for any number of events.              *)
(*                                                                         *)
(* IInv is inductive and gives the assertions of the source, that the      *)
(* client never waits for nothing, and that the server knows the user.  It *)
(* counts what is under way: every attempt is a fetch or an answer, once,  *)
(* and the last news on the way name the user who is signed in.  RInv, on  *)
(* top of it, orders the tokens of a user and follows a refused one until  *)
(* a new one is there.                                                     *)
(***************************************************************************)
EXTENDS ConnectionAttempts, TLAPS

Stages == {"asked", "queued", "requested"}
Fetches == [attempt : Nat, forced : BOOLEAN, user : Users, stage : Stages]
Messages == [kind : {"changed", "fetched", "failed"}, attempt : Nat, token : Tokens]
IsChange(m) == m.kind = "changed"
isUp == connectionState \in {"Connecting", "Authenticating", "Connected"}

\* What Auth keeps.  Each event signs in at most once.
AuthInv ==
    /\ events \in 0..MaxEvents
    /\ signIns \in Nat /\ signIns <= events + 1
    /\ currentUser \in 0..signIns
    /\ minted \in [Users -> Nat]
    /\ minted[0] = 0 /\ \A u \in Users : 0 < u /\ u <= signIns => minted[u] > 0

\* The fetches under way, the tasks of one user one after the other.
FetchInv ==
    /\ fetches \subseteq Fetches
    /\ \A f \in fetches : IF f.stage = "asked" THEN f.attempt > 0 ELSE f.user # 0
    /\ \A f, g \in fetches : f.user = g.user /\ f.stage = "requested" /\ g.stage = "requested"
                             => f = g
    /\ currentFetchTokenAttempt \in Nat

\* The tokens and messages, and the client's own state.
TokenInv ==
    /\ inbox \in Seq(Messages)
    /\ authToken \in Tokens /\ serverToken \in Tokens
    /\ sent \in Seq(Tokens)
    /\ refused \subseteq Tokens /\ rejected \subseteq refused
    /\ announced \in Users

FlagInv ==
    /\ connectionState \in {"Disconnected", "GettingToken", "Connecting", "Authenticating",
                            "Connected"}
    /\ interruptReasons \subseteq {"waiting_for_open", "server_kill", "repo_interrupt"}
    /\ scheduledRetry \in {"none", "plain", "forced"}
    /\ forceAuthTokenRefresh \in BOOLEAN
    /\ overtaken \in BOOLEAN /\ forcing \in BOOLEAN /\ forceLost \in BOOLEAN

\* Retries and interruptions: a retry is scheduled exactly when there is
\* nothing else to wait for and no reason to stay away.
RetryInv ==
    /\ scheduledRetry # "none" <=> connectionState = "Disconnected" /\ shouldReconnect
    /\ connectionState # "Disconnected" => shouldReconnect

\* Every attempt is answered once, and the latest one is what GettingToken waits
\* for; who has a connection does not wait for an attempt.
OnceInv ==
    /\ \A f \in fetches : f.attempt <= currentFetchTokenAttempt
    /\ \A f, g \in fetches : f.attempt > 0 /\ f.attempt = g.attempt => f = g
    /\ \A i \in 1..Len(inbox) :
         ~IsChange(inbox[i]) => inbox[i].attempt \in 1..currentFetchTokenAttempt
    /\ \A i, j \in 1..Len(inbox) :
         ~IsChange(inbox[i]) /\ ~IsChange(inbox[j]) /\ inbox[i].attempt = inbox[j].attempt => i = j
    /\ \A f \in fetches : \A i \in 1..Len(inbox) :
         ~IsChange(inbox[i]) => f.attempt # inbox[i].attempt

AwaitInv ==
    /\ connectionState # "Disconnected" => currentFetchTokenAttempt > 0
    /\ isUp => ~Awaited(currentFetchTokenAttempt)
    /\ connectionState = "GettingToken" => Awaited(currentFetchTokenAttempt)

\* What the client was last told, or is about to be, is who is signed in.
ToldInv ==
    /\ \A i \in 1..Len(inbox) :
         IsChange(inbox[i]) /\ (\A j \in i + 1..Len(inbox) : ~IsChange(inbox[j]))
            => inbox[i].token.user = currentUser
    /\ (\A i \in 1..Len(inbox) : ~IsChange(inbox[i])) => announced = currentUser

\* The last credentials on the wire, or what the server has, are the token the
\* client has, and that is of the user it was told of or is marked.
WireInv ==
    /\ ~connected => sent = <<>> /\ serverToken = NoToken
    /\ connected => authToken = IF sent = <<>> THEN serverToken ELSE sent[Len(sent)]
    /\ isUp => authToken.user = announced \/ overtaken

IInv == AuthInv /\ FetchInv /\ TokenInv /\ FlagInv /\ RetryInv /\ OnceInv /\ AwaitInv
        /\ ToldInv /\ WireInv

-----------------------------------------------------------------------------
(* The three messages of Auth.                                             *)
LEMMA MessagesOf ==
    ASSUME NEW t \in Tokens, NEW a \in Nat, NoToken \in Tokens
    PROVE  /\ Changed(t) \in Messages /\ IsChange(Changed(t)) /\ Changed(t).token = t
           /\ Fetched(a, t) \in Messages /\ ~IsChange(Fetched(a, t))
           /\ Fetched(a, t).attempt = a
           /\ FetchFailed(a) \in Messages /\ ~IsChange(FetchFailed(a))
           /\ FetchFailed(a).attempt = a
  BY DEF Messages, Changed, Fetched, FetchFailed, IsChange

\* What Auth told the client in a step: news of the user who is signed in then,
\* if there are any, and behind them the answer to one of the attempts.
Posted ==
    /\ inbox' \in Seq(Messages)
    /\ Len(inbox) \in Nat /\ Len(inbox') \in Nat /\ Len(inbox) <= Len(inbox')
    /\ \A i \in 1..Len(inbox) : inbox'[i] = inbox[i]
    /\ \A i \in 1..Len(inbox') :
         i > Len(inbox) /\ IsChange(inbox'[i]) => inbox'[i].token.user = currentUser'
    /\ currentUser' # currentUser =>
         \E i \in 1..Len(inbox') : i > Len(inbox) /\ IsChange(inbox'[i])

Answered(attempts) ==
    /\ \A i \in 1..Len(inbox') :
         i > Len(inbox) /\ ~IsChange(inbox'[i]) =>
            i = Len(inbox') /\ inbox'[i].attempt \in attempts
    /\ attempts # {} => Len(inbox') > Len(inbox) /\ ~IsChange(inbox'[Len(inbox')])

\* What was added is news of a token that is no longer the one it was, or one of
\* the answers.
Adds(answers) ==
    \A i \in 1..Len(inbox') : i > Len(inbox) =>
        \/ /\ i = Len(inbox) + 1 /\ Token(currentUser)' # Token(currentUser)
           /\ inbox'[i] = Changed(Token(currentUser)')
        \/ inbox'[i] \in answers

(* Appending one answer, or nothing.                                        *)
LEMMA OneAnswer ==
    ASSUME inbox \in Seq(Messages), NEW m \in Messages, ~IsChange(m),
           inbox' = Append(inbox, m), UNCHANGED currentUser
    PROVE  Posted /\ Answered({m.attempt}) /\ Adds({m})
  <1>1. /\ inbox' \in Seq(Messages) /\ Len(inbox) \in Nat /\ Len(inbox') = Len(inbox) + 1
        /\ \A i \in 1..Len(inbox) : inbox'[i] = inbox[i]
        /\ inbox'[Len(inbox) + 1] = m
    OBVIOUS
  <1>2. \A i \in 1..Len(inbox') : i > Len(inbox) => i = Len(inbox')
    BY <1>1
  <1>3. inbox'[Len(inbox')] = m /\ Len(inbox') \in Nat /\ Len(inbox') > Len(inbox)
    BY <1>1
  <1>4. \A i \in 1..Len(inbox') : i > Len(inbox) => ~IsChange(inbox'[i])
    BY <1>2, <1>3
  <1>5. Posted
    BY <1>1, <1>3, <1>4 DEF Posted
  <1>6. Answered({m.attempt})
    BY <1>2, <1>3 DEF Answered
  <1>7. Adds({m})
    BY <1>2, <1>3 DEF Adds
  <1> QED
    BY <1>5, <1>6, <1>7

(* Telling nothing.                                                        *)
LEMMA NoAnswer ==
    ASSUME inbox \in Seq(Messages), UNCHANGED <<inbox, currentUser>>
    PROVE  Posted /\ Answered({}) /\ Adds({})
  BY DEF Posted, Answered, Adds

(* A user and a number make a token.                                       *)
LEMMA TokenMade ==
    ASSUME NEW u \in Users, NEW n \in Nat
    PROVE  /\ [user |-> u, number |-> n] \in Tokens
           /\ [user |-> u, number |-> n].user = u
  BY DEF Tokens

(* Everybody's newest token is theirs.                                     *)
LEMMA TokenOf ==
    ASSUME AuthInv, AttemptsAssumption
    PROVE  /\ currentUser \in Users /\ NoToken \in Tokens
           /\ \A u \in Users : Token(u) \in Tokens /\ Token(u).user = u
  <1>1. currentUser \in Users
    BY DEF AuthInv, Users, AttemptsAssumption
  <1>2. 0 \in Users
    BY DEF Users, AttemptsAssumption
  <1>3. ASSUME NEW u \in Users
        PROVE  Token(u) \in Tokens /\ Token(u).user = u
    <2>1. CASE u = 0
      <3>1. Token(u) = [user |-> u, number |-> 0]
        BY <2>1 DEF Token, NoToken
      <3> QED
        BY <3>1, TokenMade
    <2>2. CASE u # 0
      <3>1. Token(u) = [user |-> u, number |-> minted[u]] /\ minted[u] \in Nat
        BY <2>2 DEF Token, AuthInv
      <3> QED
        BY <3>1, TokenMade
    <2> QED
      BY <2>1, <2>2
  <1>4. NoToken \in Tokens
    BY <1>2, TokenMade DEF NoToken
  <1> QED
    BY <1>1, <1>3, <1>4

(* Lengths are numbers.                                                    *)
LEMMA Lengths ==
    ASSUME NEW S, NEW s \in Seq(S)
    PROVE  Len(s) \in Nat /\ (Len(s) <= 1 => Len(s) \in 0..1)
  <1>1. Len(s) \in Nat
    OBVIOUS
  <1> QED
    BY <1>1

(* possiblyPostAuthStateChangeNotification tells a change of user.          *)
LEMMA Notified ==
    ASSUME AttemptsAssumption, AuthInv, inbox \in Seq(Messages),
           Token(currentUser)' \in Tokens, Token(currentUser)'.user = currentUser',
           NoToken \in Tokens,
           NEW after \in Seq(Messages), Len(after) <= 1,
           \A i \in 1..Len(after) : ~IsChange(after[i]),
           possiblyPostAuthStateChangeNotification(after)
    PROVE  /\ Posted /\ Answered({after[i].attempt : i \in 1..Len(after)})
           /\ Adds({after[i] : i \in 1..Len(after)})
  <1> DEFINE t == Token(currentUser)'
             news == IF t = Token(currentUser) THEN inbox ELSE Append(inbox, Changed(t))
             n == Len(inbox)
  <1>0. t \in Tokens /\ t.user = currentUser'
    BY DEF t
  <1> HIDE DEF t
  <1>1. /\ Len(after) \in 0..1 /\ n \in Nat
        /\ Changed(t) \in Messages /\ IsChange(Changed(t)) /\ Changed(t).token = t
    <2>1. Changed(t) \in Messages /\ IsChange(Changed(t)) /\ Changed(t).token = t
      BY <1>0, MessagesOf
    <2>2. Len(after) \in 0..1 /\ n \in Nat
      BY Lengths, Zenon DEF n
    <2> QED
      BY <2>1, <2>2
  <1>2. inbox' = news \o after
    BY DEF t, possiblyPostAuthStateChangeNotification
  <1>3. t = Token(currentUser) => currentUser' = currentUser
    BY TokenOf DEF t
  <1>4. /\ news \in Seq(Messages) /\ Len(news) \in {n, n + 1}
        /\ \A i \in 1..n : news[i] = inbox[i]
        /\ Len(news) = n + 1 => news[n + 1] = Changed(t) /\ t # Token(currentUser)
        /\ currentUser' # currentUser => Len(news) = n + 1
    <2>1. CASE t = Token(currentUser)
      BY <1>1, <1>3, <2>1
    <2>2. CASE t # Token(currentUser)
      <3>1. news = Append(inbox, Changed(t))
        BY <2>2
      <3> HIDE DEF news
      <3> QED
        BY <1>1, <2>2, <3>1
    <2> QED
      BY <2>1, <2>2
  <1> HIDE DEF news
  <1>5. /\ inbox' \in Seq(Messages) /\ Len(inbox') = Len(news) + Len(after)
        /\ \A i \in 1..Len(inbox') :
             inbox'[i] = IF i <= Len(news) THEN news[i] ELSE after[i - Len(news)]
    BY <1>1, <1>2, <1>4
  <1> HIDE DEF n
  <1>6. /\ n <= Len(inbox') /\ Len(inbox') \in Nat
        /\ \A i \in 1..n : inbox'[i] = inbox[i]
    BY <1>1, <1>4, <1>5
  <1>7. ASSUME NEW i \in 1..Len(inbox'), i > n
        PROVE  \/ i = n + 1 /\ Len(news) = n + 1 /\ inbox'[i] = Changed(t)
               \/ i = Len(inbox') /\ Len(after) = 1 /\ inbox'[i] = after[1]
    <2>1. CASE i <= Len(news)
      BY <1>1, <1>4, <1>5, <1>7, <2>1
    <2>2. CASE ~(i <= Len(news))
      <3>1. i = Len(inbox') /\ Len(after) = 1 /\ i - Len(news) = 1
        BY <1>1, <1>4, <1>5, <1>7, <2>2
      <3> QED
        BY <1>5, <2>2, <3>1
    <2> QED
      BY <2>1, <2>2
  <1>8. currentUser' # currentUser =>
          n + 1 \in 1..Len(inbox') /\ n + 1 > n /\ inbox'[n + 1] = Changed(t)
    BY <1>1, <1>4, <1>5
  <1>9. t.user = currentUser'
    BY <1>0
  <1>10. Posted
    BY <1>1, <1>5, <1>6, <1>7, <1>8, <1>9 DEF Posted, n
  <1>11. Len(after) = 1 => /\ Len(inbox') > n /\ Len(inbox') \in 1..Len(inbox')
                           /\ inbox'[Len(inbox')] = after[1] /\ ~IsChange(after[1])
    BY <1>1, <1>4, <1>5
  <1>12. Answered({after[i].attempt : i \in 1..Len(after)})
    <2>1. CASE Len(after) = 0
      BY <1>1, <1>7, <2>1 DEF Answered, n
    <2>2. CASE Len(after) = 1
      BY <1>1, <1>7, <1>11, <2>2 DEF Answered, n
    <2> QED
      BY <1>1, <2>1, <2>2
  <1>13. Adds({after[i] : i \in 1..Len(after)})
    <2> SUFFICES ASSUME NEW i \in 1..Len(inbox'), i > n
                 PROVE  \/ i = n + 1 /\ t # Token(currentUser) /\ inbox'[i] = Changed(t)
                        \/ inbox'[i] \in {after[k] : k \in 1..Len(after)}
      BY Zenon DEF Adds, n, t
    <2>1. CASE i = n + 1 /\ Len(news) = n + 1 /\ inbox'[i] = Changed(t)
      BY <1>4, <2>1
    <2>2. CASE i = Len(inbox') /\ Len(after) = 1 /\ inbox'[i] = after[1]
      BY <2>2
    <2> QED
      BY <1>7, <2>1, <2>2
  <1> QED
    BY <1>10, <1>12, <1>13

-----------------------------------------------------------------------------
(* Events are counted, and each signs in once at most; tokens are numbered. *)
LEMMA AuthStep ==
    ASSUME AttemptsAssumption, AuthInv, FetchInv, [Next]_vars
    PROVE  AuthInv'
  <1>1. ASSUME UNCHANGED auth, UNCHANGED events \/ Event
        PROVE  AuthInv'
    BY <1>1 DEF auth, Event, AuthInv, AttemptsAssumption
  <1>2. CASE signIn
    <2>1. /\ events' \in 0..MaxEvents /\ signIns' = signIns + 1 /\ signIns' <= events' + 1
          /\ signIns \in Nat /\ currentUser' = signIns + 1 /\ signIns + 1 \in Users
          /\ minted' = [minted EXCEPT ![signIns + 1] = 1] /\ 0 \in Users /\ signIns + 1 # 0
      BY <1>2 DEF signIn, Event, AuthInv, Users, AttemptsAssumption
    <2>2. minted' \in [Users -> Nat] /\ minted'[0] = 0
      BY <2>1 DEF AuthInv
    <2>3. ASSUME NEW u \in Users, 0 < u, u <= signIns'
          PROVE  minted'[u] > 0
      BY <2>1, <2>3 DEF AuthInv, Users
    <2>4. signIns' \in Nat /\ currentUser' \in 0..signIns'
      BY <2>1
    <2> QED
      BY <2>1, <2>2, <2>3, <2>4 DEF AuthInv
  <1>3. CASE signOut
    BY <1>3 DEF signOut, Event, AuthInv, AttemptsAssumption
  <1>4. ASSUME NEW f \in fetches, getTokenForcingRefresh(f) \/ fetchAccessTokenForcingRefresh(f)
        PROVE  AuthInv'
    BY <1>1, <1>4 DEF getTokenForcingRefresh, fetchAccessTokenForcingRefresh
  <1>5. ASSUME NEW f \in fetches, requestAccessToken(f)
        PROVE  AuthInv'
    <2>1. f.user \in Users \ {0} /\ 0 \in Users
      BY <1>5 DEF requestAccessToken, FetchInv, Fetches, Users, AttemptsAssumption
    <2>2. /\ minted' = [minted EXCEPT ![f.user] = minted[f.user] + 1]
          /\ UNCHANGED <<signIns, currentUser, events>>
      BY <1>5 DEF requestAccessToken
    <2> QED
      BY <2>1, <2>2 DEF AuthInv
  <1>6. ASSUME NEW f \in fetches, requestFailed(f)
        PROVE  AuthInv'
    BY <1>6 DEF requestFailed, Event, AuthInv, AttemptsAssumption
  <1>7. CASE scheduleAutoTokenRefresh \/ TokenExpires \/ ConnectionLost \/ enteringForeground
    BY <1>1, <1>7 DEF scheduleAutoTokenRefresh, TokenExpires, ConnectionLost, enteringForeground
  <1>8. CASE onKill \/ goOffline
    BY <1>1, <1>8 DEF onKill, goOffline, interruptForReason
  <1>9. CASE goOnline \/ open
    BY <1>1, <1>9 DEF goOnline, open, resumeForReason
  <1>10. CASE retry \/ openNetworkConnectionWithToken \/ fetchTokenFailed \/ refreshAuthToken
    BY <1>1, <1>10 DEF retry, openNetworkConnectionWithToken, fetchTokenFailed, refreshAuthToken
  <1>11. CASE onReady \/ AuthAnswered \/ AuthRejected \/ onAuthRevokedWithStatus
    BY <1>1, <1>11 DEF onReady, AuthAnswered, AuthRejected, onAuthRevokedWithStatus, TokenRejected
  <1>12. CASE UNCHANGED vars
    BY <1>1, <1>12 DEF vars, auth
  <1> QED
    BY <1>2, <1>3, <1>4, <1>5, <1>6, <1>7, <1>8, <1>9, <1>10, <1>11, <1>12
    DEF Next, FetchStep, ClientStep

(* getTokenForcingRefresh, fetchAccessTokenForcingRefresh: a user's tasks   *)
(* ask the network one at a time.                                           *)
LEMMA FetchesStep ==
    ASSUME AttemptsAssumption, AuthInv, FetchInv, [Next]_vars
    PROVE  FetchInv'
  <1>0. currentUser \in Users
    BY TokenOf
  <1>1. ASSUME UNCHANGED <<fetches, currentFetchTokenAttempt>>
        PROVE  FetchInv'
    BY <1>1 DEF FetchInv
  <1>2. ASSUME NEW g \in Fetches, fetches' \subseteq fetches \cup {g},
               g.stage # "requested",
               IF g.stage = "asked" THEN g.attempt > 0 ELSE g.user # 0,
               currentFetchTokenAttempt' \in Nat
        PROVE  FetchInv'
    BY <1>2 DEF FetchInv
  <1>3. ASSUME NEW f \in fetches, fetches' = fetches \ {f}, UNCHANGED currentFetchTokenAttempt
        PROVE  FetchInv'
    BY <1>3 DEF FetchInv
  <1>4. CASE scheduleAutoTokenRefresh
    <2> DEFINE g == [attempt |-> 0, forced |-> TRUE, user |-> currentUser, stage |-> "queued"]
    <2>1. g \in Fetches /\ g.stage = "queued" /\ g.user = currentUser
      BY <1>0 DEF Fetches, Stages
    <2>2. fetches' = fetches \cup {g} /\ currentUser # 0
          /\ UNCHANGED currentFetchTokenAttempt
      BY <1>4 DEF scheduleAutoTokenRefresh, client
    <2> HIDE DEF g
    <2> QED
      BY <1>2, <2>1, <2>2 DEF FetchInv
  <1>5. ASSUME NEW f \in fetches, getTokenForcingRefresh(f)
        PROVE  FetchInv'
    <2> DEFINE g == [f EXCEPT !.user = currentUser, !.stage = "queued"]
    <2>0. UNCHANGED currentFetchTokenAttempt /\ f \in Fetches
      BY <1>5 DEF getTokenForcingRefresh, client, FetchInv
    <2>1. CASE fetches' = fetches \ {f}
      BY <1>3, <2>0, <2>1
    <2>2. CASE currentUser # 0 /\ fetches' = (fetches \ {f}) \cup {g}
      <3>1. g \in Fetches /\ g.stage = "queued" /\ g.user = currentUser
        BY <1>0, <2>0 DEF Fetches, Stages
      <3> HIDE DEF g
      <3> QED
        BY <1>2, <2>0, <2>2, <3>1 DEF FetchInv
    <2> QED
      BY <1>5, <2>1, <2>2 DEF getTokenForcingRefresh
  <1>6. ASSUME NEW f \in fetches, fetchAccessTokenForcingRefresh(f)
        PROVE  FetchInv'
    <2> DEFINE g == [f EXCEPT !.stage = "requested"]
    <2>0. UNCHANGED currentFetchTokenAttempt /\ f \in Fetches
      BY <1>6 DEF fetchAccessTokenForcingRefresh, client, FetchInv
    <2>1. CASE fetches' = fetches \ {f}
      BY <1>3, <2>0, <2>1
    <2>2. CASE fetches' = (fetches \ {f}) \cup {g}
      <3>1. g \in Fetches /\ g.stage = "requested" /\ g.user = f.user
        BY <2>0 DEF Fetches, Stages
      <3>2. f.stage = "queued" /\ \A h \in fetches : h.user = f.user => h.stage # "requested"
        BY <1>6 DEF fetchAccessTokenForcingRefresh, TaskMayRun
      <3> HIDE DEF g
      <3> QED
        BY <2>0, <2>2, <3>1, <3>2 DEF FetchInv
    <2> QED
      BY <1>6, <2>1, <2>2 DEF fetchAccessTokenForcingRefresh
  <1>7. ASSUME NEW f \in fetches, requestAccessToken(f) \/ requestFailed(f)
        PROVE  FetchInv'
    BY <1>3, <1>7 DEF requestAccessToken, requestFailed, client
  <1>8. CASE retry
    <2> DEFINE g == [attempt |-> currentFetchTokenAttempt + 1,
                     forced |-> scheduledRetry = "forced", user |-> 0, stage |-> "asked"]
    <2>1. g \in Fetches /\ g.stage = "asked" /\ g.attempt > 0
      BY DEF Fetches, Stages, FetchInv, Users, AttemptsAssumption
    <2>2. fetches' = fetches \cup {g} /\ currentFetchTokenAttempt' \in Nat
      BY <1>8 DEF retry, FetchInv
    <2> HIDE DEF g
    <2> QED
      BY <1>2, <2>1, <2>2
  <1> QED
    BY <1>1, <1>4, <1>5, <1>6, <1>7, <1>8
    DEF Next, FetchStep, ClientStep, vars, client, signIn, signOut, open,
        openNetworkConnectionWithToken, fetchTokenFailed, refreshAuthToken, onReady,
        AuthAnswered, AuthRejected, onAuthRevokedWithStatus, TokenRejected, ConnectionLost,
        TokenExpires, onKill, goOffline, goOnline, enteringForeground, interruptForReason,
        resumeForReason

-----------------------------------------------------------------------------
\* The steps of Auth and its token provider, and what they leave behind.
AuthAction == \/ signIn \/ signOut \/ scheduleAutoTokenRefresh
              \/ \E f \in fetches : FetchStep(f) \/ requestFailed(f)

FetchRemains ==
    /\ Answered({}) /\ Adds({})
    /\ \/ UNCHANGED fetches
       \/ \E g \in Fetches : /\ g.attempt = 0 /\ g.stage # "asked" /\ g.user = currentUser
                             /\ fetches' = fetches \cup {g} /\ UNCHANGED auth
       \/ \E f \in fetches, g \in Fetches :
            /\ g.attempt = f.attempt /\ g.forced = f.forced /\ g.stage # "asked"
            /\ g.user = (IF f.stage = "asked" THEN currentUser ELSE f.user)
            /\ fetches' = (fetches \ {f}) \cup {g} /\ UNCHANGED auth

\* A token newer than any of its user's so far.
Fresh(t) == t.number > minted[t.user]

\* The answer m to the fetch f: none, nobody's, the cached token or a new one.
Reply(f, m) ==
    /\ ~IsChange(m) /\ m.attempt = f.attempt
    /\ \/ m.kind = "failed" /\ m.token = NoToken
       \/ m.token = NoToken /\ currentUser = 0 /\ UNCHANGED auth
       \/ f.stage # "asked" /\ ~f.forced /\ m.token = Token(f.user) /\ UNCHANGED auth
       \/ /\ f.stage # "asked" /\ m.token = Token(f.user)' /\ Fresh(m.token)
          /\ UNCHANGED currentUser

FetchEnds ==
    \E f \in fetches, m \in Messages :
        /\ fetches' = fetches \ {f} /\ Reply(f, m)
        /\ Answered(IF f.attempt = 0 THEN {} ELSE {f.attempt})
        /\ Adds(IF f.attempt = 0 THEN {} ELSE {m})

(* There are no more users than the events allow.                          *)
LEMMA UserCount ==
    ASSUME AttemptsAssumption, NEW e \in 0..MaxEvents, NEW s \in Nat, s <= e + 1,
           NEW c \in 0..s
    PROVE  c \in Users /\ 0 \in Users
  BY DEF Users, AttemptsAssumption

(* Everybody's newest token after a step.                                  *)
LEMMA NextTokenOf ==
    ASSUME AuthInv', AttemptsAssumption
    PROVE  /\ currentUser' \in Users
           /\ Token(currentUser)' \in Tokens /\ Token(currentUser)'.user = currentUser'
           /\ \A u \in Users : Token(u)' \in Tokens
  <1>1. currentUser' \in Users /\ 0 \in Users
    <2>1. /\ events' \in 0..MaxEvents /\ signIns' \in Nat /\ signIns' <= events' + 1
          /\ currentUser' \in 0..signIns'
      BY DEF AuthInv
    <2> QED
      BY <2>1, UserCount, Zenon
  <1>2. ASSUME NEW u \in Users
        PROVE  [user |-> u, number |-> minted'[u]] \in Tokens
    <2>1. minted'[u] \in Nat
      BY DEF AuthInv
    <2> QED
      BY <2>1, TokenMade
  <1>3. NoToken \in Tokens
    BY <1>1, TokenMade DEF NoToken
  <1>4. ASSUME NEW u \in Users
        PROVE  Token(u)' \in Tokens
    BY <1>2, <1>3, Zenon DEF Token
  <1>5. CASE currentUser' = 0
    BY <1>1, <1>3, <1>4, <1>5 DEF Token, NoToken
  <1>6. CASE currentUser' # 0
    <2>1. Token(currentUser)' = [user |-> currentUser', number |-> minted'[currentUser']]
      BY <1>6 DEF Token
    <2> QED
      BY <1>1, <1>2, <1>4, <2>1
  <1> QED
    BY <1>5, <1>6

(* No answer, or a single one, behind the news.                            *)
LEMMA Told ==
    ASSUME AttemptsAssumption, AuthInv, AuthInv', inbox \in Seq(Messages)
    PROVE  /\ possiblyPostAuthStateChangeNotification(<<>>) =>
                Posted /\ Answered({}) /\ Adds({})
           /\ \A m \in Messages :
                ~IsChange(m) /\ possiblyPostAuthStateChangeNotification(<<m>>)
                   => Posted /\ Answered({m.attempt}) /\ Adds({m})
  <1>1. /\ Token(currentUser)' \in Tokens /\ Token(currentUser)'.user = currentUser'
        /\ NoToken \in Tokens
    BY NextTokenOf, TokenOf
  <1>2. ASSUME possiblyPostAuthStateChangeNotification(<<>>)
        PROVE  Posted /\ Answered({}) /\ Adds({})
    <2> DEFINE after == <<>>
    <2>1. after \in Seq(Messages) /\ Len(after) <= 1
          /\ (\A i \in 1..Len(after) : ~IsChange(after[i]))
          /\ {after[i].attempt : i \in 1..Len(after)} = {}
          /\ {after[i] : i \in 1..Len(after)} = {}
      OBVIOUS
    <2>2. possiblyPostAuthStateChangeNotification(after)
      BY <1>2
    <2> HIDE DEF after
    <2> QED
      BY <1>1, <2>1, <2>2, Notified
  <1>3. ASSUME NEW m \in Messages, ~IsChange(m),
               possiblyPostAuthStateChangeNotification(<<m>>)
        PROVE  Posted /\ Answered({m.attempt}) /\ Adds({m})
    <2> DEFINE after == <<m>>
    <2>1. after \in Seq(Messages) /\ Len(after) = 1 /\ after[1] = m
      OBVIOUS
    <2>2. possiblyPostAuthStateChangeNotification(after)
      BY <1>3
    <2> HIDE DEF after
    <2>3. Len(after) <= 1 /\ \A i \in 1..Len(after) : ~IsChange(after[i])
      BY <1>3, <2>1
    <2>4. /\ Posted /\ Answered({after[i].attempt : i \in 1..Len(after)})
          /\ Adds({after[i] : i \in 1..Len(after)})
      BY <1>1, <2>1, <2>2, <2>3, Notified, Zenon
    <2>5. /\ {after[i].attempt : i \in 1..Len(after)} = {m.attempt}
          /\ {after[i] : i \in 1..Len(after)} = {m}
      BY <2>1
    <2> QED
      BY <2>4, <2>5
  <1> QED
    BY <1>2, <1>3

(* A step of Auth posts what it has to, and a fetch goes on or is answered. *)
LEMMA AuthSide ==
    ASSUME AttemptsAssumption, AuthInv, AuthInv', FetchInv, inbox \in Seq(Messages), AuthAction
    PROVE  Posted /\ (FetchRemains \/ FetchEnds)
  <1>0. currentUser \in Users /\ NoToken \in Tokens
    BY TokenOf
  <1>1. CASE signIn \/ signOut
    BY <1>1, Told DEF signIn, signOut, FetchRemains
  <1>2. CASE scheduleAutoTokenRefresh
    <2> DEFINE g == [attempt |-> 0, forced |-> TRUE, user |-> currentUser, stage |-> "queued"]
    <2>1. g \in Fetches /\ g.attempt = 0 /\ g.stage # "asked" /\ g.user = currentUser
      BY <1>0 DEF Fetches, Stages
    <2>2. fetches' = fetches \cup {g} /\ UNCHANGED <<inbox, currentUser>> /\ UNCHANGED auth
      BY <1>2 DEF scheduleAutoTokenRefresh, auth
    <2> HIDE DEF g
    <2> QED
      BY <2>1, <2>2, NoAnswer DEF FetchRemains
  <1>3. ASSUME NEW f \in fetches, getTokenForcingRefresh(f)
        PROVE  Posted /\ (FetchRemains \/ FetchEnds)
    <2>0. /\ f \in Fetches /\ f.attempt \in Nat /\ f.attempt > 0 /\ f.stage = "asked"
          /\ UNCHANGED auth /\ UNCHANGED currentUser
      BY <1>3 DEF FetchInv, Fetches, getTokenForcingRefresh, auth
    <2>1. CASE /\ currentUser = 0 /\ fetches' = fetches \ {f}
               /\ inbox' = Append(inbox, Fetched(f.attempt, NoToken))
      <3> DEFINE m == Fetched(f.attempt, NoToken)
      <3>1. m \in Messages /\ ~IsChange(m) /\ m.attempt = f.attempt
        BY <1>0, <2>0, MessagesOf
      <3>2. inbox' = Append(inbox, m)
        BY <2>1
      <3>3. Reply(f, m)
        BY <2>0, <2>1, <3>1 DEF Reply, Fetched
      <3> HIDE DEF m
      <3>4. Posted /\ Answered({f.attempt}) /\ Adds({m})
        BY <2>0, <3>1, <3>2, OneAnswer
      <3>5. f.attempt # 0
        BY <2>0
      <3> QED
        BY <2>1, <3>1, <3>3, <3>4, <3>5 DEF FetchEnds
    <2>2. CASE /\ fetches' = (fetches \ {f}) \cup
                                {[f EXCEPT !.user = currentUser, !.stage = "queued"]}
               /\ UNCHANGED inbox
      <3> DEFINE g == [f EXCEPT !.user = currentUser, !.stage = "queued"]
      <3>1. /\ g \in Fetches /\ g.attempt = f.attempt /\ g.forced = f.forced
            /\ g.stage # "asked" /\ g.user = currentUser
        BY <1>0, <2>0 DEF Fetches, Stages
      <3>2. fetches' = (fetches \ {f}) \cup {g}
        BY <2>2
      <3> HIDE DEF g
      <3> QED
        BY <2>0, <2>2, <3>1, <3>2, NoAnswer DEF FetchRemains
    <2> QED
      BY <1>3, <2>1, <2>2 DEF getTokenForcingRefresh
  <1>4. ASSUME NEW f \in fetches, fetchAccessTokenForcingRefresh(f)
        PROVE  Posted /\ (FetchRemains \/ FetchEnds)
    <2>0. /\ f \in Fetches /\ f.attempt \in Nat /\ f.stage # "asked" /\ Token(f.user) \in Tokens
          /\ UNCHANGED auth /\ UNCHANGED currentUser
      BY <1>4, TokenOf DEF FetchInv, Fetches, fetchAccessTokenForcingRefresh, TaskMayRun, auth
    <2>1. CASE /\ ~f.forced /\ fetches' = fetches \ {f}
               /\ inbox' = IF f.attempt = 0 THEN inbox
                           ELSE Append(inbox, Fetched(f.attempt, Token(f.user)))
      <3> DEFINE m == Fetched(f.attempt, Token(f.user))
      <3>1. m \in Messages /\ ~IsChange(m) /\ m.attempt = f.attempt
        BY <2>0, <1>0, MessagesOf
      <3>2. inbox' = IF f.attempt = 0 THEN inbox ELSE Append(inbox, m)
        BY <2>1
      <3>3. m.token = Token(f.user)
        BY DEF Fetched
      <3> HIDE DEF m
      <3>4. Reply(f, m)
        BY <2>0, <2>1, <3>1, <3>3 DEF Reply
      <3>5. CASE f.attempt = 0
        BY <2>0, <2>1, <3>1, <3>2, <3>4, <3>5, NoAnswer DEF FetchEnds
      <3>6. CASE f.attempt # 0
        <4>1. Posted /\ Answered({f.attempt}) /\ Adds({m})
          BY <2>0, <3>1, <3>2, <3>6, OneAnswer
        <4> QED
          BY <2>1, <3>1, <3>4, <3>6, <4>1 DEF FetchEnds
      <3> QED
        BY <3>5, <3>6
    <2>2. CASE /\ fetches' = (fetches \ {f}) \cup {[f EXCEPT !.stage = "requested"]}
               /\ UNCHANGED inbox
      <3> DEFINE g == [f EXCEPT !.stage = "requested"]
      <3>1. /\ g \in Fetches /\ g.attempt = f.attempt /\ g.forced = f.forced
            /\ g.stage # "asked" /\ g.user = f.user
        BY <2>0 DEF Fetches, Stages
      <3>2. fetches' = (fetches \ {f}) \cup {g}
        BY <2>2
      <3> HIDE DEF g
      <3> QED
        BY <2>0, <2>2, <3>1, <3>2, NoAnswer DEF FetchRemains
    <2> QED
      BY <1>4, <2>1, <2>2 DEF fetchAccessTokenForcingRefresh, MayUseCached
  <1>5. ASSUME NEW f \in fetches, requestAccessToken(f) \/ requestFailed(f)
        PROVE  Posted /\ (FetchRemains \/ FetchEnds)
    <2>0. f.attempt \in Nat /\ f.user \in Users /\ f.stage # "asked" /\ f.user # 0
      BY <1>5 DEF FetchInv, Fetches, requestAccessToken, requestFailed
    <2>1. PICK m \in Messages :
            /\ Reply(f, m)
            /\ possiblyPostAuthStateChangeNotification(IF f.attempt = 0 THEN <<>> ELSE <<m>>)
      <3>1. CASE requestAccessToken(f)
        <4>1. Token(f.user)' \in Tokens
          BY <2>0, NextTokenOf
        <4> DEFINE m == Fetched(f.attempt, Token(f.user)')
        <4>2. m \in Messages /\ ~IsChange(m) /\ m.attempt = f.attempt
          BY <1>0, <2>0, <4>1, MessagesOf
        <4>3. possiblyPostAuthStateChangeNotification(IF f.attempt = 0 THEN <<>> ELSE <<m>>)
          BY <3>1 DEF requestAccessToken
        <4>4. m.token = Token(f.user)'
          BY DEF Fetched
        <4> HIDE DEF m
        <4>5. Fresh(Token(f.user)')
          <5>1. minted' = [minted EXCEPT ![f.user] = minted[f.user] + 1] /\ minted[f.user] \in Nat
                /\ minted \in [Users -> Nat]
            BY <2>0, <3>1 DEF requestAccessToken, AuthInv
          <5>2. Token(f.user)' = [user |-> f.user, number |-> minted[f.user] + 1]
            BY <2>0, <5>1 DEF Token
          <5> QED
            BY <5>1, <5>2 DEF Fresh
        <4>6. Reply(f, m)
          BY <2>0, <3>1, <4>2, <4>4, <4>5 DEF Reply, requestAccessToken
        <4> QED
          BY <4>2, <4>3, <4>6
      <3>2. CASE requestFailed(f)
        <4> DEFINE m == FetchFailed(f.attempt)
        <4>2. m \in Messages /\ ~IsChange(m) /\ m.attempt = f.attempt
          BY <1>0, <2>0, MessagesOf
        <4>3. possiblyPostAuthStateChangeNotification(IF f.attempt = 0 THEN <<>> ELSE <<m>>)
          BY <3>2 DEF requestFailed
        <4>4. Reply(f, m)
          BY <4>2 DEF Reply, FetchFailed
        <4> HIDE DEF m
        <4> QED
          BY <4>2, <4>3, <4>4
      <3> QED
        BY <1>5, <3>1, <3>2
    <2>2. fetches' = fetches \ {f} /\ ~IsChange(m) /\ m.attempt = f.attempt
      BY <1>5, <2>1 DEF requestAccessToken, requestFailed, Reply
    <2>3. CASE f.attempt = 0
      BY <1>0, <2>1, <2>2, <2>3, Told DEF FetchEnds
    <2>4. CASE f.attempt # 0
      <3>1. Posted /\ Answered({f.attempt}) /\ Adds({m})
        BY <2>1, <2>2, <2>4, Told
      <3> QED
        BY <2>1, <2>2, <2>4, <3>1 DEF FetchEnds
    <2> QED
      BY <2>3, <2>4
  <1> QED
    BY <1>1, <1>2, <1>3, <1>4, <1>5 DEF AuthAction, FetchStep

-----------------------------------------------------------------------------
(* What Head and Tail return of a sequence that is not empty.              *)
LEMMA Shortened ==
    ASSUME NEW S, NEW s \in Seq(S), s # <<>>
    PROVE  /\ Head(s) = s[1] /\ Head(s) \in S /\ 1 \in 1..Len(s)
           /\ Tail(s) \in Seq(S) /\ Len(Tail(s)) = Len(s) - 1 /\ Len(s) \in Nat
           /\ \A i \in 1..Len(Tail(s)) : i + 1 \in 1..Len(s) /\ Tail(s)[i] = s[i + 1]
  OBVIOUS

(* What Append returns.                                                    *)
LEMMA Appended ==
    ASSUME NEW S, NEW s \in Seq(S), NEW e \in S
    PROVE  /\ Append(s, e) \in Seq(S) /\ Len(Append(s, e)) = Len(s) + 1 /\ Len(s) \in Nat
           /\ Append(s, e)[Len(s) + 1] = e /\ Append(s, e) # <<>>
  OBVIOUS

(* A step of Auth leaves the client, the server and the history alone.     *)
LEMMA AuthLeaves ==
    ASSUME AuthAction
    PROVE  UNCHANGED <<client, server, history>>
  <1>1. CASE signIn \/ signOut \/ scheduleAutoTokenRefresh
    BY <1>1 DEF signIn, signOut, scheduleAutoTokenRefresh
  <1>2. ASSUME NEW f \in fetches, FetchStep(f) \/ requestFailed(f)
        PROVE  UNCHANGED <<client, server, history>>
    BY <1>2 DEF FetchStep, requestFailed, getTokenForcingRefresh,
                fetchAccessTokenForcingRefresh, requestAccessToken
  <1> QED
    BY <1>1, <1>2 DEF AuthAction

(* A step is one of Auth or one of the others.                             *)
LEMMA Steps ==
    ASSUME [Next]_vars
    PROVE  \/ AuthAction
           \/ open \/ goOnline \/ onKill \/ goOffline \/ enteringForeground
           \/ retry \/ openNetworkConnectionWithToken \/ fetchTokenFailed \/ refreshAuthToken
           \/ onReady \/ AuthAnswered \/ AuthRejected \/ onAuthRevokedWithStatus
           \/ ConnectionLost \/ TokenExpires
           \/ UNCHANGED vars
  BY DEF Next, ClientStep, AuthAction

(* The tokens and messages stay what they are.                             *)
LEMMA TokensStep ==
    ASSUME AttemptsAssumption, IInv, AuthInv', [Next]_vars
    PROVE  TokenInv'
  <1>0. NoToken \in Tokens /\ \A u \in Users : Token(u) \in Tokens
    BY TokenOf DEF IInv
  <1>1. CASE AuthAction
    BY <1>1, AuthSide, AuthLeaves DEF IInv, TokenInv, Posted, client, server, history
  <1>2. CASE open \/ goOnline
    BY <1>2 DEF open, goOnline, resumeForReason, IInv, TokenInv, server, history
  <1>3. CASE onKill \/ goOffline
    <2>1. UNCHANGED <<inbox, authToken, refused, rejected, announced>>
      BY <1>3 DEF onKill, goOffline, interruptForReason
    <2>2. CASE sent' = <<>> /\ serverToken' = NoToken
      BY <1>0, <2>1, <2>2 DEF IInv, TokenInv
    <2>3. CASE UNCHANGED <<sent, serverToken>>
      BY <2>1, <2>3 DEF IInv, TokenInv
    <2> QED
      BY <1>3, <2>2, <2>3 DEF onKill, goOffline, interruptForReason, onDisconnect
  <1>4. CASE enteringForeground \/ retry
    BY <1>4 DEF enteringForeground, retry, IInv, TokenInv, server
  <1>5. CASE openNetworkConnectionWithToken \/ fetchTokenFailed \/ refreshAuthToken
    <2>1. /\ inbox # <<>> /\ inbox' = Tail(inbox)
          /\ UNCHANGED <<serverToken, refused, rejected>>
      BY <1>5 DEF openNetworkConnectionWithToken, fetchTokenFailed, refreshAuthToken, server
    <2>2. inbox' \in Seq(Messages) /\ Head(inbox) \in Messages
      BY <2>1, Shortened, Zenon DEF IInv, TokenInv
    <2>3. Head(inbox).token \in Tokens /\ Head(inbox).token.user \in Users
      BY <2>2 DEF Messages, Tokens
    <2>4. authToken' \in Tokens /\ announced' \in Users
      BY <1>5, <2>3 DEF openNetworkConnectionWithToken, fetchTokenFailed, refreshAuthToken,
                        IInv, TokenInv
    <2>5. sent' \in Seq(Tokens)
      BY <1>5, <2>3, Appended DEF openNetworkConnectionWithToken, fetchTokenFailed,
                                  refreshAuthToken, IInv, TokenInv
    <2> QED
      BY <2>1, <2>2, <2>4, <2>5 DEF IInv, TokenInv
  <1>6. CASE onReady
    BY <1>6 DEF onReady, IInv, TokenInv, server, history
  <1>7. CASE AuthAnswered
    <2>1. /\ sent # <<>> /\ sent' = Tail(sent) /\ serverToken' = Head(sent)
          /\ UNCHANGED <<inbox, authToken, refused, rejected, announced>>
      BY <1>7 DEF AuthAnswered, history
    <2>2. sent' \in Seq(Tokens) /\ serverToken' \in Tokens
      BY <2>1, Shortened, Zenon DEF IInv, TokenInv
    <2> QED
      BY <2>1, <2>2 DEF IInv, TokenInv
  <1>8. CASE AuthRejected \/ onAuthRevokedWithStatus
    <2>1. PICK t \in refused : TokenRejected(t)
      BY <1>8 DEF AuthRejected, onAuthRevokedWithStatus
    <2> QED
      BY <1>0, <2>1 DEF TokenRejected, onDisconnect, IInv, TokenInv
  <1>9. CASE ConnectionLost
    BY <1>0, <1>9 DEF ConnectionLost, onDisconnect, IInv, TokenInv, history
  <1>10. CASE TokenExpires
    BY <1>0, <1>10 DEF TokenExpires, IInv, TokenInv, client, history
  <1>11. CASE UNCHANGED vars
    BY <1>11 DEF vars, client, server, history, IInv, TokenInv
  <1> QED
    BY <1>1, <1>2, <1>3, <1>4, <1>5, <1>6, <1>7, <1>8, <1>9, <1>10, <1>11, Steps

(* What tryScheduleReconnect does to the retry.                            *)
LEMMA Scheduled ==
    ASSUME NEW force \in BOOLEAN, FlagInv, tryScheduleReconnect(force)
    PROVE  /\ scheduledRetry' \in {"none", "plain", "forced"}
           /\ forceAuthTokenRefresh' \in BOOLEAN
           /\ IF shouldReconnect' THEN scheduledRetry' # "none" ELSE UNCHANGED scheduledRetry
  <1>1. CASE shouldReconnect'
    BY <1>1 DEF tryScheduleReconnect, FlagInv
  <1>2. CASE ~shouldReconnect'
    BY <1>2 DEF tryScheduleReconnect, FlagInv
  <1> QED
    BY <1>1, <1>2

\* What a step does to the connection's state, the retry and the reasons to stay
\* away, whatever else it does.
Reconnects ==      \* the connection is lost, and made again
    /\ isUp /\ connectionState' = "Disconnected" /\ UNCHANGED interruptReasons
    /\ IF shouldReconnect' THEN scheduledRetry' # "none" ELSE UNCHANGED scheduledRetry
Retries ==         \* from being disconnected, or from a fetch that failed
    /\ connectionState \in {"Disconnected", "GettingToken"}
    /\ connectionState' = "Disconnected"
    /\ interruptReasons' \subseteq interruptReasons
    /\ IF shouldReconnect' THEN scheduledRetry' # "none" ELSE UNCHANGED scheduledRetry
Interrupted ==     \* there is a reason to stay away
    /\ connectionState' = "Disconnected" /\ ~shouldReconnect'
    /\ scheduledRetry' = "none" \/ (isUp /\ UNCHANGED scheduledRetry)
Advances ==        \* from one state of a connection to the next
    /\ connectionState # "Disconnected" /\ connectionState' # "Disconnected"
    /\ isUp => isUp'
    /\ UNCHANGED <<interruptReasons, scheduledRetry>>
Fires ==           \* the retry fires
    /\ scheduledRetry # "none" /\ scheduledRetry' = "none"
    /\ connectionState' = "GettingToken" /\ UNCHANGED interruptReasons
Stays == UNCHANGED <<connectionState, interruptReasons, scheduledRetry>>

(* Who has a connection is not answered the latest attempt.                *)
LEMMA LatestIsAwaited ==
    ASSUME IInv, inbox # <<>>, ~IsChange(Head(inbox)),
           Head(inbox).attempt = currentFetchTokenAttempt
    PROVE  Awaited(currentFetchTokenAttempt) /\ connectionState \in {"Disconnected", "GettingToken"}
  <1>1. inbox \in Seq(Messages)
    BY DEF IInv, TokenInv
  <1>2. 1 \in DOMAIN inbox /\ Head(inbox) = inbox[1]
    BY <1>1
  <1>3. Awaited(currentFetchTokenAttempt)
    BY <1>2 DEF Awaited, IsChange
  <1> QED
    BY <1>3 DEF IInv, AwaitInv, FlagInv, isUp

(* Credentials on the wire are those of a connection.                      *)
LEMMA SentIsConnected ==
    ASSUME IInv, sent # <<>> \/ serverToken # NoToken
    PROVE  connected /\ isUp
  BY DEF IInv, WireInv, connected, isUp

(* How each step moves the connection.                                     *)
LEMMA Course ==
    ASSUME IInv, [Next]_vars
    PROVE  Reconnects \/ Retries \/ Interrupted \/ Advances \/ Fires \/ Stays
  <1>0. FlagInv
    BY DEF IInv
  <1>1. CASE AuthAction
    BY <1>1, AuthLeaves DEF client, Stays
  <1>2. CASE open \/ goOnline
    <2>1. PICK reason \in interruptReasons : resumeForReason(reason)
      BY <1>2 DEF open, goOnline, resumeForReason
    <2>2. connectionState = "Disconnected" /\ scheduledRetry = "none"
      BY <2>1 DEF IInv, RetryInv, shouldReconnect
    <2>3. connectionState' = "Disconnected" /\ interruptReasons' \subseteq interruptReasons
      BY <2>1, <2>2 DEF resumeForReason
    <2>4. CASE shouldReconnect'
      <3>1. tryScheduleReconnect(forceAuthTokenRefresh)
        BY <2>1, <2>4 DEF resumeForReason
      <3> QED
        BY <1>0, <2>2, <2>3, <3>1, Scheduled DEF FlagInv, Retries
    <2>5. CASE ~shouldReconnect'
      BY <2>1, <2>2, <2>3, <2>5 DEF resumeForReason, Interrupted
    <2> QED
      BY <2>4, <2>5
  <1>3. CASE onKill \/ goOffline
    <2>1. PICK reason : interruptForReason(reason)
      BY <1>3 DEF onKill, goOffline
    <2>2. ~shouldReconnect' /\ connectionState' = "Disconnected"
      BY <2>1 DEF interruptForReason, onDisconnect, shouldReconnect
    <2>3. scheduledRetry' = "none" \/ (isUp /\ UNCHANGED scheduledRetry)
      BY <2>1, <2>2 DEF interruptForReason, onDisconnect, tryScheduleReconnect, isUp, connected
    <2> QED
      BY <2>2, <2>3 DEF Interrupted
  <1>4. CASE enteringForeground
    <2>1. /\ connectionState = "Disconnected" /\ connectionState' = "Disconnected"
          /\ UNCHANGED interruptReasons /\ tryScheduleReconnect(forceAuthTokenRefresh)
      BY <1>4 DEF enteringForeground
    <2> QED
      BY <1>0, <2>1, Scheduled DEF FlagInv, Retries
  <1>5. CASE retry
    BY <1>5 DEF retry, Fires
  <1>6. CASE openNetworkConnectionWithToken
    BY <1>6 DEF openNetworkConnectionWithToken, Advances, Stays, isUp
  <1>7. CASE fetchTokenFailed
    <2>1. CASE LatestAttempt(Head(inbox).attempt)
      <3>1. connectionState \in {"Disconnected", "GettingToken"}
        BY <1>7, <2>1, LatestIsAwaited DEF fetchTokenFailed, LatestAttempt, IsChange
      <3>2. /\ connectionState' = "Disconnected" /\ UNCHANGED interruptReasons
            /\ tryScheduleReconnect(forceAuthTokenRefresh)
        BY <1>7, <2>1 DEF fetchTokenFailed, TryAgain
      <3> QED
        BY <1>0, <3>1, <3>2, Scheduled DEF FlagInv, Retries
    <2>2. CASE ~LatestAttempt(Head(inbox).attempt)
      BY <1>7, <2>2 DEF fetchTokenFailed, Stays
    <2> QED
      BY <2>1, <2>2
  <1>8. CASE refreshAuthToken
    BY <1>8 DEF refreshAuthToken, Stays
  <1>9. CASE onReady
    BY <1>9 DEF onReady, Advances, isUp
  <1>10. CASE AuthAnswered
    <2>1. connected /\ isUp
      BY <1>10, SentIsConnected DEF AuthAnswered
    <2> QED
      BY <1>10, <2>1 DEF AuthAnswered, Advances, isUp, connected
  <1>11. CASE AuthRejected \/ onAuthRevokedWithStatus
    <2>1. PICK t : TokenRejected(t)
      BY <1>11 DEF AuthRejected, onAuthRevokedWithStatus
    <2>2. isUp
      BY <1>11, SentIsConnected DEF AuthRejected, onAuthRevokedWithStatus, connected, isUp
    <2>3. /\ connectionState' = "Disconnected" /\ UNCHANGED interruptReasons
          /\ tryScheduleReconnect(TRUE)
      BY <2>1 DEF TokenRejected, onDisconnect, NeedsNewToken
    <2> QED
      BY <1>0, <2>2, <2>3, Scheduled DEF Reconnects
  <1>12. CASE ConnectionLost
    <2>1. /\ isUp /\ connectionState' = "Disconnected" /\ UNCHANGED interruptReasons
          /\ tryScheduleReconnect(forceAuthTokenRefresh)
      BY <1>12 DEF ConnectionLost, onDisconnect, isUp, connected
    <2> QED
      BY <1>0, <2>1, Scheduled DEF FlagInv, Reconnects
  <1>13. CASE TokenExpires \/ UNCHANGED vars
    BY <1>13 DEF TokenExpires, vars, client, Stays
  <1> QED
    BY <1>1, <1>2, <1>3, <1>4, <1>5, <1>6, <1>7, <1>8, <1>9, <1>10, <1>11, <1>12, <1>13, Steps

(* A retry is scheduled when it has to be and only then.                   *)
LEMMA RetryStep ==
    ASSUME IInv, [Next]_vars
    PROVE  RetryInv'
  <1>0. RetryInv /\ FlagInv
    BY DEF IInv
  <1>1. CASE Reconnects
    BY <1>0, <1>1 DEF Reconnects, RetryInv, isUp, shouldReconnect
  <1>2. CASE Retries
    BY <1>0, <1>2 DEF Retries, RetryInv, shouldReconnect
  <1>3. CASE Interrupted
    BY <1>0, <1>3 DEF Interrupted, RetryInv, isUp, shouldReconnect
  <1>4. CASE Advances
    BY <1>0, <1>4 DEF Advances, RetryInv, shouldReconnect
  <1>5. CASE Fires
    BY <1>0, <1>5 DEF Fires, RetryInv, shouldReconnect
  <1>6. CASE Stays
    BY <1>0, <1>6 DEF Stays, RetryInv, shouldReconnect
  <1> QED
    BY <1>1, <1>2, <1>3, <1>4, <1>5, <1>6, Course

(* The client's own state stays in its sets.                               *)
LEMMA FlagStep ==
    ASSUME IInv, [Next]_vars
    PROVE  FlagInv'
  <1>0. FlagInv
    BY DEF IInv
  <1>1. CASE AuthAction \/ TokenExpires \/ UNCHANGED vars
    BY <1>0, <1>1, AuthLeaves DEF TokenExpires, vars, client, history, FlagInv
  <1>2. CASE open \/ goOnline
    <2>1. PICK reason \in interruptReasons : resumeForReason(reason)
      BY <1>2 DEF open, goOnline, resumeForReason
    <2>2. scheduledRetry' \in {"none", "plain", "forced"} /\ forceAuthTokenRefresh' \in BOOLEAN
      BY <1>0, <2>1, Scheduled DEF resumeForReason, FlagInv
    <2> QED
      BY <1>0, <2>1, <2>2 DEF resumeForReason, history, FlagInv
  <1>3. CASE onKill \/ goOffline
    <2>1. PICK reason \in {"server_kill", "repo_interrupt"} : interruptForReason(reason)
      BY <1>3 DEF onKill, goOffline
    <2>2. scheduledRetry' \in {"none", "plain", "forced"} /\ forceAuthTokenRefresh' \in BOOLEAN
      BY <1>0, <2>1, Scheduled DEF interruptForReason, onDisconnect, FlagInv
    <2>3. forceLost' \in BOOLEAN
      BY <1>0, <2>1, Zenon DEF interruptForReason, FlagInv
    <2> QED
      BY <1>0, <2>1, <2>2, <2>3 DEF interruptForReason, onDisconnect, FlagInv
  <1>4. CASE enteringForeground
    <2>1. scheduledRetry' \in {"none", "plain", "forced"} /\ forceAuthTokenRefresh' \in BOOLEAN
      BY <1>0, <1>4, Scheduled DEF enteringForeground, FlagInv
    <2>2. forceLost' \in BOOLEAN
      BY <1>0, <1>4, Zenon DEF enteringForeground, FlagInv
    <2> QED
      BY <1>0, <1>4, <2>1, <2>2 DEF enteringForeground, FlagInv
  <1>5. CASE retry
    <2>1. forcing' \in BOOLEAN
      BY <1>5, Zenon DEF retry
    <2> QED
      BY <1>0, <1>5, <2>1 DEF retry, FlagInv
  <1>6. CASE openNetworkConnectionWithToken
    <2>1. overtaken' \in BOOLEAN /\ forceLost' \in BOOLEAN
      BY <1>0, <1>6, Zenon DEF openNetworkConnectionWithToken, FlagInv
    <2>2. connectionState' \in {connectionState, "Connecting"}
      BY <1>6 DEF openNetworkConnectionWithToken
    <2> QED
      BY <1>0, <1>6, <2>1, <2>2 DEF openNetworkConnectionWithToken, FlagInv
  <1>7. CASE fetchTokenFailed
    <2>1. scheduledRetry' \in {"none", "plain", "forced"} /\ forceAuthTokenRefresh' \in BOOLEAN
      BY <1>0, <1>7, Scheduled DEF fetchTokenFailed, TryAgain, FlagInv
    <2>2. forceLost' \in BOOLEAN
      BY <1>0, <1>7, Zenon DEF fetchTokenFailed, FlagInv
    <2> QED
      BY <1>0, <1>7, <2>1, <2>2 DEF fetchTokenFailed, FlagInv
  <1>8. CASE refreshAuthToken
    BY <1>0, <1>8 DEF refreshAuthToken, FlagInv
  <1>9. CASE onReady \/ AuthAnswered
    BY <1>0, <1>9 DEF onReady, AuthAnswered, history, FlagInv
  <1>10. CASE AuthRejected \/ onAuthRevokedWithStatus
    <2>1. PICK t : TokenRejected(t)
      BY <1>10 DEF AuthRejected, onAuthRevokedWithStatus
    <2>2. scheduledRetry' \in {"none", "plain", "forced"} /\ forceAuthTokenRefresh' \in BOOLEAN
      BY <1>0, <2>1, Scheduled DEF TokenRejected, onDisconnect, NeedsNewToken
    <2> QED
      BY <1>0, <2>1, <2>2 DEF TokenRejected, onDisconnect, FlagInv
  <1>11. CASE ConnectionLost
    <2>1. scheduledRetry' \in {"none", "plain", "forced"} /\ forceAuthTokenRefresh' \in BOOLEAN
      BY <1>0, <1>11, Scheduled DEF ConnectionLost, onDisconnect, FlagInv
    <2> QED
      BY <1>0, <1>11, <2>1 DEF ConnectionLost, onDisconnect, history, FlagInv
  <1> QED
    BY <1>1, <1>2, <1>3, <1>4, <1>5, <1>6, <1>7, <1>8, <1>9, <1>10, <1>11, Steps

-----------------------------------------------------------------------------
(* Nothing but news is added behind the answers when none is given.        *)
LEMMA OldAnswers ==
    ASSUME Posted, NEW a, Answered(a), a = {}, NEW i \in 1..Len(inbox'), ~IsChange(inbox'[i])
    PROVE  i \in 1..Len(inbox) /\ inbox'[i] = inbox[i]
  BY DEF Posted, Answered

(* An answer is an earlier one, or the one that is given now.              *)
LEMMA NewAnswer ==
    ASSUME Posted, NEW a, Answered({a}), NEW i \in 1..Len(inbox'), ~IsChange(inbox'[i])
    PROVE  \/ i \in 1..Len(inbox) /\ inbox'[i] = inbox[i]
           \/ i = Len(inbox') /\ inbox'[i].attempt = a
  BY DEF Posted, Answered

(* The attempts that are under way or answered, after a step of Auth.      *)
LEMMA OnceRemains ==
    ASSUME FetchInv, OnceInv, inbox \in Seq(Messages), Posted, FetchRemains,
           UNCHANGED currentFetchTokenAttempt
    PROVE  /\ OnceInv'
           /\ currentFetchTokenAttempt > 0 =>
                (Awaited(currentFetchTokenAttempt)' <=> Awaited(currentFetchTokenAttempt))
  <1>1. \A i \in 1..Len(inbox') : ~IsChange(inbox'[i]) =>
          i \in 1..Len(inbox) /\ inbox'[i] = inbox[i]
    BY OldAnswers DEF FetchRemains
  <1>2. \A i \in 1..Len(inbox) : i \in 1..Len(inbox') /\ inbox'[i] = inbox[i]
    BY DEF Posted
  <1>3. /\ \A f \in fetches : f.attempt \in Nat
        /\ currentFetchTokenAttempt \in Nat
    BY DEF FetchInv, Fetches
  <1> DEFINE Same ==
        /\ \A g \in fetches' : g.attempt = 0 \/ \E f \in fetches : f.attempt = g.attempt
        /\ \A f \in fetches : f.attempt > 0 => \E g \in fetches' : f.attempt = g.attempt
        /\ \A f, g \in fetches' : f.attempt > 0 /\ f.attempt = g.attempt => f = g
  <1>4. Same
    <2>1. CASE UNCHANGED fetches
      BY <2>1 DEF OnceInv
    <2>2. ASSUME NEW g \in Fetches, g.attempt = 0, fetches' = fetches \cup {g}
          PROVE  Same
      BY <1>3, <2>2 DEF OnceInv
    <2>3. ASSUME NEW f \in fetches, NEW g \in Fetches, g.attempt = f.attempt,
                 fetches' = (fetches \ {f}) \cup {g}
          PROVE  Same
      BY <1>3, <2>3 DEF OnceInv
    <2> QED
      BY <2>1, <2>2, <2>3 DEF FetchRemains
  <1>5. OnceInv'
    <2>1. \A f \in fetches' : f.attempt <= currentFetchTokenAttempt'
      BY <1>3, <1>4 DEF OnceInv
    <2>2. \A f, g \in fetches' : f.attempt > 0 /\ f.attempt = g.attempt => f = g
      BY <1>4
    <2>3. \A i \in 1..Len(inbox') :
            ~IsChange(inbox'[i]) => inbox'[i].attempt \in 1..currentFetchTokenAttempt'
      BY <1>1 DEF OnceInv
    <2>4. \A i, j \in 1..Len(inbox') :
            ~IsChange(inbox'[i]) /\ ~IsChange(inbox'[j]) /\ inbox'[i].attempt = inbox'[j].attempt
               => i = j
      BY <1>1 DEF OnceInv
    <2>5. \A f \in fetches' : \A i \in 1..Len(inbox') :
            ~IsChange(inbox'[i]) => f.attempt # inbox'[i].attempt
      <3> SUFFICES ASSUME NEW f \in fetches', NEW i \in 1..Len(inbox'), ~IsChange(inbox'[i])
                   PROVE  f.attempt # inbox'[i].attempt
        OBVIOUS
      <3>1. inbox'[i].attempt \in 1..currentFetchTokenAttempt /\ i \in 1..Len(inbox)
            /\ inbox'[i] = inbox[i] /\ ~IsChange(inbox[i])
        BY <1>1 DEF OnceInv
      <3>2. \A g \in fetches : g.attempt # inbox[i].attempt
        BY <3>1 DEF OnceInv
      <3>3. inbox[i].attempt # 0
        BY <1>3, <3>1
      <3> QED
        BY <1>4, <3>1, <3>2, <3>3
    <2> QED
      BY <2>1, <2>2, <2>3, <2>4, <2>5 DEF OnceInv
  <1>6. ASSUME currentFetchTokenAttempt > 0
        PROVE  Awaited(currentFetchTokenAttempt)' <=> Awaited(currentFetchTokenAttempt)
    <2>1. (\E f \in fetches' : f.attempt = currentFetchTokenAttempt)
             <=> (\E f \in fetches : f.attempt = currentFetchTokenAttempt)
      BY <1>3, <1>4, <1>6
    <2>2. (\E i \in DOMAIN inbox' : /\ inbox'[i].kind # "changed"
                                    /\ inbox'[i].attempt = currentFetchTokenAttempt)
             <=> (\E i \in DOMAIN inbox : /\ inbox[i].kind # "changed"
                                          /\ inbox[i].attempt = currentFetchTokenAttempt)
      BY <1>1, <1>2 DEF IsChange, Posted
    <2> QED
      BY <2>1, <2>2 DEF Awaited
  <1> QED
    BY <1>5, <1>6

(* The same when a fetch is answered: it is over, and its answer is behind *)
(* everything that was on its way.                                         *)
LEMMA OnceEnds ==
    ASSUME FetchInv, OnceInv, inbox \in Seq(Messages), Posted, FetchEnds,
           UNCHANGED currentFetchTokenAttempt
    PROVE  /\ OnceInv'
           /\ currentFetchTokenAttempt > 0 =>
                (Awaited(currentFetchTokenAttempt)' <=> Awaited(currentFetchTokenAttempt))
  <1>1. PICK f \in fetches : /\ fetches' = fetches \ {f}
                             /\ Answered(IF f.attempt = 0 THEN {} ELSE {f.attempt})
    BY Zenon DEF FetchEnds
  <1>2. \A i \in 1..Len(inbox) : i \in 1..Len(inbox') /\ inbox'[i] = inbox[i]
    BY DEF Posted
  <1>3. /\ \A g \in fetches : g.attempt \in Nat
        /\ currentFetchTokenAttempt \in Nat
    BY DEF FetchInv, Fetches
  <1>4. \A i \in 1..Len(inbox') : ~IsChange(inbox'[i]) =>
          \/ i \in 1..Len(inbox) /\ inbox'[i] = inbox[i]
          \/ i = Len(inbox') /\ f.attempt > 0 /\ inbox'[i].attempt = f.attempt
    <2>1. CASE f.attempt = 0
      BY <1>1, <2>1, OldAnswers
    <2>2. CASE f.attempt # 0
      <3>1. Answered({f.attempt})
        BY <1>1, <2>2
      <3>2. f.attempt > 0
        BY <1>3, <2>2
      <3> QED
        BY <3>1, <3>2, NewAnswer
    <2> QED
      BY <2>1, <2>2
  <1>5. f.attempt > 0 => /\ Len(inbox') \in 1..Len(inbox') /\ ~IsChange(inbox'[Len(inbox')])
                         /\ inbox'[Len(inbox')].attempt = f.attempt
    BY <1>1, <1>3 DEF Answered, Posted
  <1>6. \A g \in fetches' : g \in fetches /\ (g.attempt > 0 => g.attempt # f.attempt)
    BY <1>1 DEF OnceInv
  <1>7. OnceInv'
    <2>1. \A g \in fetches' : g.attempt <= currentFetchTokenAttempt'
      BY <1>6 DEF OnceInv
    <2>2. \A g, h \in fetches' : g.attempt > 0 /\ g.attempt = h.attempt => g = h
      BY <1>6 DEF OnceInv
    <2>3. \A i \in 1..Len(inbox') :
            ~IsChange(inbox'[i]) => inbox'[i].attempt \in 1..currentFetchTokenAttempt'
      BY <1>3, <1>4 DEF OnceInv
    <2>4. ASSUME NEW i \in 1..Len(inbox'), NEW j \in 1..Len(inbox'), ~IsChange(inbox'[i]),
                 ~IsChange(inbox'[j]), inbox'[i].attempt = inbox'[j].attempt
          PROVE  i = j
      BY <1>4, <2>4 DEF OnceInv
    <2>5. ASSUME NEW g \in fetches', NEW i \in 1..Len(inbox'), ~IsChange(inbox'[i])
          PROVE  g.attempt # inbox'[i].attempt
      BY <1>4, <1>6, <2>5 DEF OnceInv
    <2> QED
      BY <2>1, <2>2, <2>3, <2>4, <2>5 DEF OnceInv
  <1>8. ASSUME currentFetchTokenAttempt > 0
        PROVE  Awaited(currentFetchTokenAttempt)' <=> Awaited(currentFetchTokenAttempt)
    <2>1. ASSUME Awaited(currentFetchTokenAttempt)
          PROVE  Awaited(currentFetchTokenAttempt)'
      <3>1. ASSUME NEW g \in fetches, g.attempt = currentFetchTokenAttempt
            PROVE  Awaited(currentFetchTokenAttempt)'
        BY <1>1, <1>5, <1>8, <3>1 DEF Awaited, IsChange, Posted
      <3>2. ASSUME NEW i \in DOMAIN inbox, inbox[i].kind # "changed",
                   inbox[i].attempt = currentFetchTokenAttempt
            PROVE  Awaited(currentFetchTokenAttempt)'
        BY <1>2, <3>2 DEF Awaited, Posted
      <3> QED
        BY <2>1, <3>1, <3>2 DEF Awaited
    <2>2. ASSUME Awaited(currentFetchTokenAttempt)'
          PROVE  Awaited(currentFetchTokenAttempt)
      <3>1. ASSUME NEW g \in fetches', g.attempt = currentFetchTokenAttempt
            PROVE  Awaited(currentFetchTokenAttempt)
        BY <1>6, <3>1 DEF Awaited
      <3>2. ASSUME NEW i \in DOMAIN inbox', inbox'[i].kind # "changed",
                   inbox'[i].attempt = currentFetchTokenAttempt
            PROVE  Awaited(currentFetchTokenAttempt)
        BY <1>4, <3>2 DEF Awaited, IsChange, Posted
      <3> QED
        BY <2>2, <3>1, <3>2 DEF Awaited
    <2> QED
      BY <2>1, <2>2
  <1> QED
    BY <1>7, <1>8

(* The same when the client takes a message: the attempt it answers is not *)
(* waited for any more.                                                    *)
LEMMA OnceTaken ==
    ASSUME FetchInv, OnceInv, inbox \in Seq(Messages), inbox # <<>>, inbox' = Tail(inbox),
           UNCHANGED <<fetches, currentFetchTokenAttempt>>
    PROVE  /\ OnceInv'
           /\ IF ~IsChange(Head(inbox)) /\ Head(inbox).attempt = currentFetchTokenAttempt
              THEN ~Awaited(currentFetchTokenAttempt)'
              ELSE Awaited(currentFetchTokenAttempt)' <=> Awaited(currentFetchTokenAttempt)
  <1>1. /\ inbox' \in Seq(Messages) /\ Len(inbox') = Len(inbox) - 1 /\ Len(inbox) \in Nat
        /\ 1 \in 1..Len(inbox) /\ Head(inbox) = inbox[1]
        /\ \A i \in 1..Len(inbox') : i + 1 \in 1..Len(inbox) /\ inbox'[i] = inbox[i + 1]
    BY Shortened
  <1>2. \A i \in 1..Len(inbox) : i # 1 => i - 1 \in 1..Len(inbox') /\ inbox'[i - 1] = inbox[i]
    BY <1>1
  <1>3. DOMAIN inbox = 1..Len(inbox) /\ DOMAIN inbox' = 1..Len(inbox')
    BY <1>1
  <1>4. OnceInv'
    BY <1>1 DEF OnceInv
  <1>5. ASSUME ~IsChange(Head(inbox)), Head(inbox).attempt = currentFetchTokenAttempt
        PROVE  ~Awaited(currentFetchTokenAttempt)'
    <2>1. \A f \in fetches' : f.attempt # currentFetchTokenAttempt
      BY <1>1, <1>5 DEF OnceInv
    <2>2. ASSUME NEW i \in 1..Len(inbox'), ~IsChange(inbox'[i])
          PROVE  inbox'[i].attempt # currentFetchTokenAttempt
      <3>1. i + 1 \in 1..Len(inbox) /\ i + 1 # 1 /\ inbox'[i] = inbox[i + 1]
        BY <1>1
      <3> QED
        BY <1>1, <1>5, <2>2, <3>1 DEF OnceInv
    <2> QED
      BY <1>3, <2>1, <2>2 DEF Awaited, IsChange
  <1>6. ASSUME ~(~IsChange(Head(inbox)) /\ Head(inbox).attempt = currentFetchTokenAttempt)
        PROVE  Awaited(currentFetchTokenAttempt)' <=> Awaited(currentFetchTokenAttempt)
    <2>1. ASSUME NEW i \in 1..Len(inbox'), ~IsChange(inbox'[i]),
                 inbox'[i].attempt = currentFetchTokenAttempt
          PROVE  \E j \in 1..Len(inbox) :
                    ~IsChange(inbox[j]) /\ inbox[j].attempt = currentFetchTokenAttempt
      BY <1>1, <2>1
    <2>2. ASSUME NEW j \in 1..Len(inbox), ~IsChange(inbox[j]),
                 inbox[j].attempt = currentFetchTokenAttempt
          PROVE  \E i \in 1..Len(inbox') :
                    ~IsChange(inbox'[i]) /\ inbox'[i].attempt = currentFetchTokenAttempt
      BY <1>1, <1>2, <1>6, <2>2
    <2> QED
      BY <1>3, <2>1, <2>2 DEF Awaited, IsChange
  <1> QED
    BY <1>4, <1>5, <1>6

(* The same when a retry starts a new attempt: it is the only one of its   *)
(* number.                                                                 *)
LEMMA OnceRetried ==
    ASSUME FetchInv, OnceInv, NEW g \in Fetches, g.attempt = currentFetchTokenAttempt + 1,
           fetches' = fetches \cup {g}, UNCHANGED inbox,
           currentFetchTokenAttempt' = currentFetchTokenAttempt + 1
    PROVE  OnceInv' /\ Awaited(currentFetchTokenAttempt)'
  <1>1. /\ currentFetchTokenAttempt \in Nat
        /\ \A f \in fetches : f.attempt \in Nat /\ f.attempt <= currentFetchTokenAttempt
    BY DEF FetchInv, Fetches, OnceInv
  <1>2. \A f \in fetches : f.attempt < g.attempt
    BY <1>1
  <1>3. OnceInv'
    BY <1>1, <1>2 DEF OnceInv
  <1> QED
    BY <1>3 DEF Awaited

(* Every attempt is answered once, and the latest is waited for when it has *)
(* to be: GettingToken ends with its answer, and no connection is made      *)
(* before it.                                                               *)
LEMMA AwaitStep ==
    ASSUME AttemptsAssumption, IInv, AuthInv', [Next]_vars
    PROVE  OnceInv' /\ AwaitInv'
  <1>0. /\ FetchInv /\ OnceInv /\ AwaitInv /\ inbox \in Seq(Messages) /\ FlagInv
        /\ currentFetchTokenAttempt \in Nat
    BY DEF IInv, TokenInv, FetchInv
  <1>1. CASE AuthAction
    <2>1. /\ UNCHANGED <<currentFetchTokenAttempt, connectionState>>
          /\ Posted /\ (FetchRemains \/ FetchEnds)
      BY <1>0, <1>1, AuthSide, AuthLeaves DEF client, IInv
    <2>2. /\ OnceInv'
          /\ currentFetchTokenAttempt > 0 =>
                (Awaited(currentFetchTokenAttempt)' <=> Awaited(currentFetchTokenAttempt))
      BY <1>0, <2>1, OnceRemains, OnceEnds
    <2>3. connectionState # "Disconnected" => currentFetchTokenAttempt > 0
      BY <1>0 DEF AwaitInv
    <2> QED
      BY <1>0, <2>1, <2>2, <2>3 DEF AwaitInv, isUp
  <1>2. ASSUME UNCHANGED <<fetches, inbox, currentFetchTokenAttempt>>, isUp' => isUp,
               connectionState' = "Disconnected" \/ connectionState # "Disconnected",
               connectionState' = "GettingToken" => connectionState = "GettingToken"
        PROVE  OnceInv' /\ AwaitInv'
    <2>1. OnceInv' /\ (Awaited(currentFetchTokenAttempt)' <=> Awaited(currentFetchTokenAttempt))
      BY <1>0, <1>2 DEF OnceInv, Awaited
    <2> QED
      BY <1>0, <1>2, <2>1 DEF AwaitInv
  <1>3. CASE retry
    <2> DEFINE g == [attempt |-> currentFetchTokenAttempt + 1,
                     forced |-> scheduledRetry = "forced", user |-> 0, stage |-> "asked"]
    <2>1. g \in Fetches /\ g.attempt = currentFetchTokenAttempt + 1
      BY <1>0 DEF Fetches, Stages, Users, AttemptsAssumption
    <2>2. /\ fetches' = fetches \cup {g} /\ UNCHANGED inbox
          /\ currentFetchTokenAttempt' = currentFetchTokenAttempt + 1
          /\ connectionState' = "GettingToken"
      BY <1>3 DEF retry
    <2> HIDE DEF g
    <2>3. OnceInv' /\ Awaited(currentFetchTokenAttempt)'
      BY <1>0, <2>1, <2>2, OnceRetried
    <2> QED
      BY <1>0, <2>2, <2>3 DEF AwaitInv, isUp
  <1>4. ASSUME inbox # <<>>, inbox' = Tail(inbox),
               UNCHANGED <<fetches, currentFetchTokenAttempt>>,
               connectionState # "Disconnected" \/ connectionState' = "Disconnected",
               ~IsChange(Head(inbox)) /\ Head(inbox).attempt = currentFetchTokenAttempt
                  => connectionState' # "GettingToken",
               ~(~IsChange(Head(inbox)) /\ Head(inbox).attempt = currentFetchTokenAttempt)
                  => UNCHANGED connectionState
        PROVE  OnceInv' /\ AwaitInv'
    <2>1. /\ OnceInv'
          /\ IF ~IsChange(Head(inbox)) /\ Head(inbox).attempt = currentFetchTokenAttempt
             THEN ~Awaited(currentFetchTokenAttempt)'
             ELSE Awaited(currentFetchTokenAttempt)' <=> Awaited(currentFetchTokenAttempt)
      BY <1>0, <1>4, OnceTaken
    <2>2. connectionState' # "Disconnected" => currentFetchTokenAttempt' > 0
      BY <1>0, <1>4 DEF AwaitInv
    <2>3. CASE ~IsChange(Head(inbox)) /\ Head(inbox).attempt = currentFetchTokenAttempt
      BY <1>4, <2>1, <2>2, <2>3 DEF AwaitInv
    <2>4. CASE ~(~IsChange(Head(inbox)) /\ Head(inbox).attempt = currentFetchTokenAttempt)
      BY <1>0, <1>4, <2>1, <2>2, <2>4 DEF AwaitInv, isUp
    <2> QED
      BY <2>3, <2>4
  <1>5. CASE openNetworkConnectionWithToken
    <2>1. /\ inbox # <<>> /\ inbox' = Tail(inbox) /\ ~IsChange(Head(inbox))
          /\ UNCHANGED <<fetches, currentFetchTokenAttempt>>
          /\ IF Head(inbox).attempt = currentFetchTokenAttempt
                   /\ connectionState = "GettingToken"
             THEN connectionState' = "Connecting" ELSE UNCHANGED connectionState
      BY <1>5 DEF openNetworkConnectionWithToken, LatestAttempt, IsChange
    <2> QED
      BY <1>4, <2>1
  <1>6. CASE fetchTokenFailed
    <2>1. /\ inbox # <<>> /\ inbox' = Tail(inbox) /\ ~IsChange(Head(inbox))
          /\ UNCHANGED <<fetches, currentFetchTokenAttempt>>
          /\ IF Head(inbox).attempt = currentFetchTokenAttempt
             THEN connectionState' = "Disconnected" ELSE UNCHANGED connectionState
      BY <1>6 DEF fetchTokenFailed, LatestAttempt, IsChange
    <2> QED
      BY <1>4, <2>1
  <1>7. CASE refreshAuthToken
    <2>1. /\ inbox # <<>> /\ inbox' = Tail(inbox) /\ IsChange(Head(inbox))
          /\ UNCHANGED <<fetches, currentFetchTokenAttempt, connectionState>>
      BY <1>7 DEF refreshAuthToken, IsChange
    <2> QED
      BY <1>4, <2>1
  <1>8. CASE open \/ goOnline
    <2>1. UNCHANGED <<fetches, inbox, currentFetchTokenAttempt, connectionState>>
      BY <1>8 DEF open, goOnline, resumeForReason
    <2> QED
      BY <1>2, <2>1 DEF isUp
  <1>9. CASE onKill \/ goOffline \/ enteringForeground \/ ConnectionLost
    <2>1. /\ UNCHANGED <<fetches, inbox, currentFetchTokenAttempt>>
          /\ connectionState' = "Disconnected"
      BY <1>9 DEF onKill, goOffline, interruptForReason, onDisconnect, enteringForeground,
                  ConnectionLost
    <2> QED
      BY <1>2, <2>1 DEF isUp
  <1>10. CASE AuthRejected \/ onAuthRevokedWithStatus
    <2>1. /\ UNCHANGED <<fetches, inbox, currentFetchTokenAttempt>>
          /\ connectionState' = "Disconnected"
      BY <1>10 DEF AuthRejected, onAuthRevokedWithStatus, TokenRejected, onDisconnect
    <2> QED
      BY <1>2, <2>1 DEF isUp
  <1>11. CASE onReady
    BY <1>2, <1>11 DEF onReady, isUp
  <1>12. CASE AuthAnswered
    <2>1. isUp
      BY <1>12, SentIsConnected DEF AuthAnswered
    <2> QED
      BY <1>2, <1>12, <2>1 DEF AuthAnswered, isUp
  <1>13. CASE TokenExpires \/ UNCHANGED vars
    BY <1>2, <1>13 DEF TokenExpires, vars, client, isUp
  <1> QED
    BY <1>1, <1>3, <1>5, <1>6, <1>7, <1>8, <1>9, <1>10, <1>11, <1>12, <1>13, Steps

-----------------------------------------------------------------------------
(* What the client was last told of, or is about to be, is who is signed in. *)
LEMMA ToldStep ==
    ASSUME AttemptsAssumption, IInv, AuthInv', [Next]_vars
    PROVE  ToldInv'
  <1>0. ToldInv /\ AuthInv /\ FetchInv /\ inbox \in Seq(Messages)
    BY DEF IInv, TokenInv
  <1>1. CASE AuthAction
    <2>1. Posted /\ UNCHANGED announced
      BY <1>0, <1>1, AuthSide, AuthLeaves DEF history
    <2>2. \A i \in 1..Len(inbox) : i \in 1..Len(inbox') /\ inbox'[i] = inbox[i]
      BY <2>1 DEF Posted
    <2>3. ASSUME \A i \in 1..Len(inbox') : i > Len(inbox) => ~IsChange(inbox'[i])
          PROVE  UNCHANGED currentUser
      BY <2>1, <2>3 DEF Posted
    <2>4. ASSUME NEW i \in 1..Len(inbox'), IsChange(inbox'[i]),
                 \A j \in i + 1..Len(inbox') : ~IsChange(inbox'[j])
          PROVE  inbox'[i].token.user = currentUser'
      <3>1. CASE i > Len(inbox)
        BY <2>1, <2>4, <3>1 DEF Posted
      <3>2. CASE ~(i > Len(inbox))
        <4>1. Len(inbox) \in Nat /\ Len(inbox') \in Nat /\ i \in 1..Len(inbox)
          BY <2>1, <3>2 DEF Posted
        <4>2. UNCHANGED currentUser
          BY <2>3, <2>4, <4>1
        <4>3. \A j \in i + 1..Len(inbox) : ~IsChange(inbox[j])
          BY <2>2, <2>4, <4>1
        <4> QED
          BY <1>0, <2>2, <2>4, <4>1, <4>2, <4>3 DEF ToldInv
      <3> QED
        BY <3>1, <3>2
    <2>5. ASSUME \A i \in 1..Len(inbox') : ~IsChange(inbox'[i])
          PROVE  announced' = currentUser'
      <3>1. UNCHANGED currentUser
        BY <2>3, <2>5
      <3>2. \A i \in 1..Len(inbox) : ~IsChange(inbox[i])
        BY <2>2, <2>5
      <3> QED
        BY <1>0, <2>1, <3>1, <3>2 DEF ToldInv
    <2> QED
      BY <2>4, <2>5 DEF ToldInv
  <1>2. ASSUME inbox # <<>>, inbox' = Tail(inbox), UNCHANGED currentUser,
               announced' = IF IsChange(Head(inbox)) THEN Head(inbox).token.user ELSE announced
        PROVE  ToldInv'
    <2>1. /\ Len(inbox') = Len(inbox) - 1 /\ Len(inbox) \in Nat
          /\ 1 \in 1..Len(inbox) /\ Head(inbox) = inbox[1]
          /\ \A i \in 1..Len(inbox') : i + 1 \in 1..Len(inbox) /\ inbox'[i] = inbox[i + 1]
      BY <1>0, <1>2, Shortened
    <2>2. \A i \in 1..Len(inbox) : i # 1 => i - 1 \in 1..Len(inbox') /\ inbox'[i - 1] = inbox[i]
      BY <2>1
    <2>3. ASSUME NEW i \in 1..Len(inbox'), IsChange(inbox'[i]),
                 \A j \in i + 1..Len(inbox') : ~IsChange(inbox'[j])
          PROVE  inbox'[i].token.user = currentUser'
      <3>1. i + 1 \in 1..Len(inbox) /\ inbox'[i] = inbox[i + 1]
        BY <2>1
      <3>2. ASSUME NEW j \in (i + 1) + 1..Len(inbox)
            PROVE  ~IsChange(inbox[j])
        <4>1. j - 1 \in i + 1..Len(inbox') /\ inbox'[j - 1] = inbox[j]
          BY <2>1, <2>2
        <4> QED
          BY <2>3, <4>1
      <3> QED
        BY <1>0, <1>2, <2>3, <3>1, <3>2 DEF ToldInv
    <2>4. ASSUME \A i \in 1..Len(inbox') : ~IsChange(inbox'[i])
          PROVE  announced' = currentUser'
      <3>1. \A i \in 1..Len(inbox) : i # 1 => ~IsChange(inbox[i])
        BY <2>2, <2>4
      <3>2. CASE IsChange(Head(inbox))
        <4>1. \A j \in 1 + 1..Len(inbox) : ~IsChange(inbox[j])
          BY <2>1, <3>1
        <4> QED
          BY <1>0, <1>2, <2>1, <3>2, <4>1 DEF ToldInv
      <3>3. CASE ~IsChange(Head(inbox))
        BY <1>0, <1>2, <2>1, <3>1, <3>3 DEF ToldInv
      <3> QED
        BY <3>2, <3>3
    <2> QED
      BY <2>3, <2>4 DEF ToldInv
  <1>3. CASE openNetworkConnectionWithToken \/ fetchTokenFailed
    <2>1. /\ inbox # <<>> /\ inbox' = Tail(inbox) /\ ~IsChange(Head(inbox))
          /\ UNCHANGED <<currentUser, announced>>
      BY <1>3 DEF openNetworkConnectionWithToken, fetchTokenFailed, auth, IsChange
    <2> QED
      BY <1>2, <2>1
  <1>4. CASE refreshAuthToken
    <2>1. /\ inbox # <<>> /\ inbox' = Tail(inbox) /\ IsChange(Head(inbox))
          /\ UNCHANGED currentUser /\ announced' = Head(inbox).token.user
      BY <1>4 DEF refreshAuthToken, auth, IsChange
    <2> QED
      BY <1>2, <2>1
  <1>5. ASSUME UNCHANGED <<inbox, currentUser, announced>>
        PROVE  ToldInv'
    BY <1>0, <1>5 DEF ToldInv
  <1>6. CASE open \/ goOnline \/ onKill \/ goOffline \/ enteringForeground \/ retry
    BY <1>5, <1>6 DEF open, goOnline, resumeForReason, onKill, goOffline, interruptForReason,
                      enteringForeground, retry, auth, history
  <1>7. CASE onReady \/ AuthAnswered \/ ConnectionLost \/ TokenExpires \/ UNCHANGED vars
    BY <1>5, <1>7 DEF onReady, AuthAnswered, ConnectionLost, TokenExpires, vars, auth, history
  <1>8. CASE AuthRejected \/ onAuthRevokedWithStatus
    BY <1>5, <1>8 DEF AuthRejected, onAuthRevokedWithStatus, TokenRejected, auth
  <1> QED
    BY <1>1, <1>3, <1>4, <1>6, <1>7, <1>8, Steps

(* What is on the wire, or else what the server has, is what the client has. *)
LEMMA WireStep ==
    ASSUME AttemptsAssumption, IInv, AuthInv', [Next]_vars
    PROVE  WireInv'
  <1>0. WireInv /\ TokenInv
    BY DEF IInv
  <1>1. CASE AuthAction \/ TokenExpires \/ UNCHANGED vars
    BY <1>0, <1>1, AuthLeaves DEF TokenExpires, vars, client, server, history, WireInv, connected,
                                  isUp
  <1>2. CASE open \/ goOnline \/ enteringForeground
    BY <1>0, <1>2 DEF open, goOnline, resumeForReason, enteringForeground, server, history,
                      WireInv, connected, isUp
  <1>3. ASSUME connectionState' \in {"Disconnected", "GettingToken"},
               \/ sent' = <<>> /\ serverToken' = NoToken
               \/ ~connected /\ UNCHANGED <<sent, serverToken>>
        PROVE  WireInv'
    BY <1>0, <1>3 DEF WireInv, connected, isUp
  <1>4. CASE onKill \/ goOffline
    BY <1>3, <1>4 DEF onKill, goOffline, interruptForReason, onDisconnect, connected
  <1>5. CASE retry
    BY <1>3, <1>5 DEF retry, IInv, RetryInv, connected, server
  <1>6. CASE fetchTokenFailed
    <2>1. CASE LatestAttempt(Head(inbox).attempt)
      <3>1. connectionState \in {"Disconnected", "GettingToken"}
        BY <1>6, <2>1, LatestIsAwaited DEF fetchTokenFailed, LatestAttempt, IsChange
      <3>2. connectionState' = "Disconnected" /\ UNCHANGED <<sent, serverToken>>
        BY <1>6, <2>1 DEF fetchTokenFailed, server
      <3> QED
        BY <1>3, <3>1, <3>2 DEF connected
    <2>2. CASE ~LatestAttempt(Head(inbox).attempt)
      BY <1>0, <1>6, <2>2 DEF fetchTokenFailed, server, WireInv, connected, isUp
    <2> QED
      BY <2>1, <2>2
  <1>7. CASE AuthRejected \/ onAuthRevokedWithStatus \/ ConnectionLost
    BY <1>3, <1>7 DEF AuthRejected, onAuthRevokedWithStatus, ConnectionLost, TokenRejected,
                      onDisconnect
  <1>8. CASE openNetworkConnectionWithToken
    <2>1. UNCHANGED <<sent, serverToken, announced>>
      BY <1>8 DEF openNetworkConnectionWithToken, server
    <2>2. CASE UNCHANGED <<connectionState, authToken, overtaken>>
      BY <1>0, <2>1, <2>2 DEF WireInv, connected, isUp
    <2>3. CASE /\ connectionState = "GettingToken" /\ connectionState' = "Connecting"
               /\ overtaken' = (authToken'.user # announced)
      BY <1>0, <2>1, <2>3 DEF WireInv, connected, isUp
    <2> QED
      BY <1>8, <2>2, <2>3 DEF openNetworkConnectionWithToken
  <1>9. CASE refreshAuthToken
    <2>1. Head(inbox).token \in Tokens
      <3>1. Head(inbox) \in Messages
        BY <1>0, <1>9, Shortened, Zenon DEF refreshAuthToken, TokenInv
      <3> QED
        BY <3>1 DEF Messages
    <2>2. /\ UNCHANGED <<connectionState, serverToken>>
          /\ authToken' = Head(inbox).token /\ announced' = authToken'.user
          /\ sent' = IF connected THEN Append(sent, Head(inbox).token) ELSE sent
      BY <1>9 DEF refreshAuthToken, server, TellsServer
    <2>3. CASE connected
      <3>1. sent' # <<>> /\ sent'[Len(sent')] = authToken'
        <4>1. sent' = Append(sent, Head(inbox).token) /\ sent \in Seq(Tokens)
          BY <1>0, <2>2, <2>3 DEF TokenInv
        <4>2. Len(sent') = Len(sent) + 1 /\ sent'[Len(sent) + 1] = Head(inbox).token /\ sent' # <<>>
          BY <2>1, <4>1, Appended
        <4> QED
          BY <2>2, <4>2
      <3> QED
        BY <2>2, <2>3, <3>1 DEF WireInv, connected, isUp
    <2>4. CASE ~connected
      BY <1>0, <2>2, <2>4 DEF WireInv, connected, isUp
    <2> QED
      BY <2>3, <2>4
  <1>10. CASE onReady
    <2>1. /\ connectionState = "Connecting" /\ ~connected /\ isUp /\ isUp' /\ connected'
          /\ UNCHANGED <<serverToken, authToken, announced, overtaken>>
          /\ sent' = IF authToken = NoToken THEN <<>> ELSE <<authToken>>
      BY <1>10 DEF onReady, connected, isUp, server, history
    <2>2. CASE authToken = NoToken
      BY <1>0, <2>1, <2>2 DEF WireInv
    <2>3. CASE authToken # NoToken
      <3>1. sent' # <<>> /\ sent'[Len(sent')] = authToken
        BY <2>1, <2>3
      <3> QED
        BY <1>0, <2>1, <3>1 DEF WireInv
    <2> QED
      BY <2>2, <2>3
  <1>11. CASE AuthAnswered
    <2>1. connected /\ isUp
      BY <1>11, SentIsConnected DEF AuthAnswered
    <2>2. /\ sent # <<>> /\ sent' = Tail(sent) /\ serverToken' = Head(sent)
          /\ connected' /\ isUp' /\ UNCHANGED <<authToken, announced, overtaken>>
      BY <1>11, <2>1 DEF AuthAnswered, connected, isUp, history
    <2>3. authToken = sent[Len(sent)]
      BY <1>0, <2>1, <2>2 DEF WireInv
    <2>4. authToken = IF sent' = <<>> THEN serverToken' ELSE sent'[Len(sent')]
      <3>1. /\ Head(sent) = sent[1] /\ Len(sent') = Len(sent) - 1 /\ Len(sent) \in Nat
            /\ sent' \in Seq(Tokens)
            /\ \A i \in 1..Len(sent') : sent'[i] = sent[i + 1]
        BY <1>0, <2>2, Shortened DEF TokenInv
      <3>2. CASE sent' = <<>>
        BY <2>2, <2>3, <3>1, <3>2
      <3>3. CASE sent' # <<>>
        <4>1. Len(sent') \in 1..Len(sent')
          BY <3>1, <3>3
        <4> QED
          BY <2>3, <3>1, <3>3, <4>1
      <3> QED
        BY <3>2, <3>3
    <2> QED
      BY <1>0, <2>1, <2>2, <2>4 DEF WireInv
  <1> QED
    BY <1>1, <1>2, <1>4, <1>5, <1>6, <1>7, <1>8, <1>9, <1>10, <1>11, Steps

-----------------------------------------------------------------------------
(* The app starts with at most one user signed in, disconnected and not yet *)
(* opened.                                                                   *)
LEMMA InitInv ==
    ASSUME AttemptsAssumption, Init
    PROVE  IInv
  <1>1. signIns \in {0, 1} /\ 0 \in Users /\ 1 \in Users /\ currentUser = signIns
    BY DEF Init, Users, AttemptsAssumption
  <1>2. NoToken \in Tokens
    BY <1>1, TokenMade DEF NoToken
  <1>3. AuthInv
    BY <1>1 DEF Init, AuthInv, AttemptsAssumption
  <1>4. FetchInv /\ FlagInv
    BY DEF Init, FetchInv, FlagInv
  <1>5. TokenInv
    BY <1>1, <1>2 DEF Init, TokenInv
  <1>6. RetryInv /\ OnceInv /\ AwaitInv
    BY DEF Init, RetryInv, shouldReconnect, OnceInv, AwaitInv, isUp
  <1>7. ToldInv /\ WireInv
    BY DEF Init, ToldInv, WireInv, connected, isUp
  <1> QED
    BY <1>3, <1>4, <1>5, <1>6, <1>7 DEF IInv

(* Every step keeps the invariant.                                         *)
LEMMA StepInv ==
    ASSUME AttemptsAssumption, IInv, [Next]_vars
    PROVE  IInv'
  <1>1. AuthInv'
    BY AuthStep DEF IInv
  <1>2. FetchInv'
    BY FetchesStep DEF IInv
  <1> QED
    BY <1>1, <1>2, TokensStep, FlagStep, RetryStep, AwaitStep, ToldStep, WireStep DEF IInv

(* The invariant holds throughout.                                         *)
THEOREM Invariance == Spec => []IInv
  <1>1. Init => IInv
    BY InitInv, AttemptsAssumption
  <1>2. IInv /\ [Next]_vars => IInv'
    BY StepInv, AttemptsAssumption
  <1> QED
    BY <1>1, <1>2, PTL DEF Spec

(* Every variable stays in its set, and a user's token is fetched from the *)
(* network by one task at a time (fetchAccessTokenForcingRefresh, run by the *)
(* task queue of the user object).                                         *)
THEOREM TypeCorrect == Spec => []TypeOK
  <1>1. IInv => TypeOK
    <2> SUFFICES ASSUME IInv
                 PROVE  TypeOK
      OBVIOUS
    <2>1. AuthInv /\ FetchInv /\ TokenInv /\ FlagInv
      BY DEF IInv
    <2>2. /\ signIns \in Users /\ currentUser \in 0..signIns /\ minted \in [Users -> Nat]
          /\ events \in 0..MaxEvents
      BY <2>1, AttemptsAssumption DEF AuthInv, Users, AttemptsAssumption
    <2>3. /\ fetches \subseteq [attempt : Nat, forced : BOOLEAN, user : Users,
                                stage : {"asked", "queued", "requested"}]
          /\ \A f, g \in fetches :
               f.user = g.user /\ f.stage = "requested" /\ g.stage = "requested" => f = g
          /\ currentFetchTokenAttempt \in Nat
      BY <2>1 DEF FetchInv, Fetches, Stages
    <2>4. /\ inbox \in Seq([kind : {"changed", "fetched", "failed"}, attempt : Nat,
                            token : Tokens])
          /\ authToken \in Tokens /\ serverToken \in Tokens /\ sent \in Seq(Tokens)
          /\ refused \subseteq Tokens /\ rejected \subseteq refused /\ announced \in Users
      BY <2>1 DEF TokenInv, Messages
    <2> QED
      BY <2>1, <2>2, <2>3, <2>4 DEF TypeOK, FlagInv
  <1> QED
    BY <1>1, Invariance, PTL

(* The assertions of FPersistentConnection and FIRRetryHelper's use: a retry *)
(* is scheduled only when disconnected and with no reason to stay away, and *)
(* the latest fetch is answered only when disconnected or waiting for it.  *)
THEOREM AttemptsMeet == Spec => []AttemptsMeetTheirState
  <1>1. IInv => AttemptsMeetTheirState
    BY LatestIsAwaited DEF IInv, RetryInv, IsChange, AttemptsMeetTheirState
  <1> QED
    BY <1>1, Invariance, PTL

(* The client never waits for nothing: disconnected with no reason to be, a *)
(* retry is scheduled; getting a token, the latest fetch is under way or its *)
(* answer is (tryScheduleReconnect, openNetworkConnectionWithToken).        *)
THEOREM ClientIsNeverIdle == Spec => []NeverIdle
  <1>1. IInv => NeverIdle
    BY DEF IInv, RetryInv, AwaitInv, NeverIdle
  <1> QED
    BY <1>1, Invariance, PTL

(* Once everything is delivered and answered the server has the connection *)
(* for the user who is signed in, unless it was opened with a token fetched *)
(* before a change of user (refreshAuthToken, sendAuthAndRestoreState).     *)
THEOREM ServerKnows == Spec => []ServerKnowsUser
  <1>1. IInv => ServerKnowsUser
    <2> SUFFICES ASSUME IInv, Quiet, ~overtaken
                 PROVE  serverToken.user = currentUser
      BY DEF ServerKnowsUser
    <2>1. connected /\ isUp /\ inbox = <<>> /\ sent = <<>>
      BY DEF Quiet, connected, isUp
    <2>2. authToken = serverToken /\ authToken.user = announced
      BY <2>1 DEF IInv, WireInv
    <2>3. announced = currentUser
      BY <2>1 DEF IInv, ToldInv
    <2> QED
      BY <2>2, <2>3
  <1> QED
    BY <1>1, Invariance, PTL

-----------------------------------------------------------------------------
\* The tokens the client or the server has, has on the wire, or was refused.
Known == {authToken, serverToken} \cup {sent[k] : k \in 1..Len(sent)} \cup rejected

\* Tokens are numbered in the order they are made.
Made(t) == t.number <= minted[t.user]
MintInv ==
    /\ \A u \in Users : u > signIns => minted[u] = 0
    /\ \A f \in fetches : f.user <= signIns
    /\ \A t \in refused : t.number > 0 /\ Made(t)
    /\ \A t \in Known : Made(t)
    /\ \A i \in 1..Len(inbox) : Made(inbox[i].token)

\* A change of token is told before the token comes to the client in any other way.
NewsInv ==
    \A i \in 1..Len(inbox) : IsChange(inbox[i]) /\ inbox[i].token # NoToken =>
        /\ inbox[i].token \notin Known
        /\ \A j \in 1..Len(inbox) : j < i => inbox[j].token # inbox[i].token

\* While the user's newest token is one the client knows to be refused, a new one
\* is about to be forced, or that was lost; and what the latest fetch returns is
\* no such token unless it was lost.
Suspect == Token(currentUser) \in rejected
SuspectInv ==
    /\ forceAuthTokenRefresh => ~shouldReconnect
    /\ Suspect /\ ~forceLost =>
         \/ connectionState = "Disconnected" /\ (scheduledRetry = "forced" \/ forceAuthTokenRefresh)
         \/ connectionState = "GettingToken" /\ forcing
LatestInv ==
    connectionState = "GettingToken" =>
        /\ \A f \in fetches : f.attempt = currentFetchTokenAttempt =>
             /\ f.forced = forcing
             /\ f.stage # "asked" =>
                  /\ Suspect => f.user = currentUser
                  /\ ~f.forced /\ Token(f.user) \in rejected => forceLost
        /\ \A i \in 1..Len(inbox) :
             inbox[i].kind = "fetched" /\ inbox[i].attempt = currentFetchTokenAttempt =>
             /\ inbox[i].token \in rejected => forceLost
             /\ Suspect => inbox[i].token \in rejected

ForceInv == SuspectInv /\ LatestInv /\ RejectedTokenIsReplaced

RInv == MintInv /\ NewsInv /\ ForceInv

(* What a step of Auth does to the numbers: one user's goes up by one, if any. *)
LEMMA Mints ==
    ASSUME AttemptsAssumption, AuthInv, FetchInv, MintInv, AuthAction
    PROVE  /\ signIns' >= signIns
           /\ \A u \in Users : u > signIns' => minted'[u] = 0
           /\ \/ UNCHANGED minted /\ currentUser' \in {0, currentUser}
              \/ \E u \in Users : /\ minted' = [minted EXCEPT ![u] = minted[u] + 1] /\ u # 0
                                  /\ u <= signIns'
                                  /\ currentUser' \in {u, currentUser}
                                  /\ currentUser' # currentUser => minted[u] = 0
  <1>1. CASE signIn
    <2>1. /\ signIns' = signIns + 1 /\ signIns \in Nat /\ currentUser' = signIns + 1
          /\ minted' = [minted EXCEPT ![signIns + 1] = 1] /\ signIns + 1 \in Users
      BY <1>1 DEF signIn, Event, AuthInv, Users, AttemptsAssumption
    <2>2. minted[signIns + 1] = 0 /\ minted \in [Users -> Nat]
      BY <2>1 DEF MintInv, AuthInv
    <2>3. minted' = [minted EXCEPT ![signIns + 1] = minted[signIns + 1] + 1]
      BY <2>1, <2>2
    <2>4. \A u \in Users : u > signIns' => minted'[u] = 0
      BY <2>1, <2>2 DEF MintInv, Users
    <2>5. signIns + 1 # 0 /\ signIns + 1 <= signIns' /\ signIns' >= signIns
      BY <2>1
    <2>6. currentUser' \in {signIns + 1, currentUser}
      BY <2>1
    <2> QED
      BY <2>1, <2>2, <2>3, <2>4, <2>5, <2>6, Zenon
  <1>2. CASE signOut
    BY <1>2 DEF signOut, AuthInv, MintInv
  <1>3. CASE scheduleAutoTokenRefresh
    BY <1>3 DEF scheduleAutoTokenRefresh, auth, AuthInv, MintInv
  <1>4. ASSUME NEW f \in fetches, getTokenForcingRefresh(f) \/ fetchAccessTokenForcingRefresh(f)
        PROVE  signIns' >= signIns /\ UNCHANGED auth
    BY <1>4 DEF getTokenForcingRefresh, fetchAccessTokenForcingRefresh, auth, AuthInv
  <1>5. ASSUME NEW f \in fetches, requestFailed(f)
        PROVE  /\ signIns' >= signIns /\ UNCHANGED <<signIns, minted>>
               /\ currentUser' \in {0, currentUser}
    BY <1>5 DEF requestFailed, AuthInv
  <1>6. ASSUME NEW f \in fetches, requestAccessToken(f)
        PROVE  /\ signIns' >= signIns /\ UNCHANGED <<signIns, currentUser>>
               /\ minted' = [minted EXCEPT ![f.user] = minted[f.user] + 1]
               /\ f.user # 0 /\ f.user \in Users /\ f.user <= signIns'
               /\ \A u \in Users : u > signIns' => minted'[u] = 0
    <2>1. /\ UNCHANGED <<signIns, currentUser>> /\ f.user # 0 /\ f.user \in Users
          /\ minted' = [minted EXCEPT ![f.user] = minted[f.user] + 1] /\ f.user <= signIns
          /\ signIns \in Nat /\ minted \in [Users -> Nat]
      BY <1>6 DEF requestAccessToken, FetchInv, Fetches, MintInv, AuthInv
    <2> QED
      BY <2>1 DEF MintInv, Users
  <1> QED
    BY <1>1, <1>2, <1>3, <1>4, <1>5, <1>6 DEF AuthAction, FetchStep, auth, MintInv

\* The same of a token after a step.
MadeNow(t) == t.number <= minted'[t.user]

(* A token Auth has after its step it had before, or it is a new one.      *)
LEMMA Renewed ==
    ASSUME AttemptsAssumption, AuthInv, AuthInv', FetchInv, MintInv, AuthAction
    PROVE  /\ \A t \in Tokens : Made(t) => MadeNow(t)
           /\ \A u \in Users : /\ Token(u)' = Token(u) \/ Fresh(Token(u)')
                               /\ MadeNow(Token(u)')
           /\ MadeNow(Token(currentUser)')
           /\ \/ Token(currentUser)' = NoToken
              \/ Fresh(Token(currentUser)')
              \/ Token(currentUser)' = Token(currentUser) /\ UNCHANGED currentUser
  <1>0. /\ currentUser \in Users /\ currentUser' \in Users /\ minted \in [Users -> Nat]
        /\ minted[0] = 0 /\ minted' \in [Users -> Nat] /\ minted'[0] = 0 /\ 0 \in Users
    <2>1. currentUser \in Users /\ currentUser' \in Users
      BY TokenOf, NextTokenOf, Zenon
    <2>2. /\ minted \in [Users -> Nat] /\ minted[0] = 0
          /\ minted' \in [Users -> Nat] /\ minted'[0] = 0
      BY Zenon DEF AuthInv
    <2>3. 0 \in Users
      BY UserCount, Zenon DEF AuthInv
    <2> QED
      BY <2>1, <2>2, <2>3, Zenon
  <1>1. \A u \in Users \ {0} : /\ Token(u) = [user |-> u, number |-> minted[u]]
                               /\ Token(u)' = [user |-> u, number |-> minted'[u]]
    BY DEF Token
  <1>2. Token(0) = NoToken /\ Token(0)' = NoToken
    BY DEF Token
  <1>3. \A u \in Users : MadeNow(Token(u)')
    <2>1. MadeNow(NoToken)
      BY <1>0 DEF MadeNow, NoToken
    <2>2. ASSUME NEW u \in Users \ {0}
          PROVE  MadeNow(Token(u)')
      BY <1>0, <1>1 DEF MadeNow
    <2> QED
      BY <1>2, <2>1, <2>2
  <1>4. MadeNow(Token(currentUser)')
    BY <1>0, <1>3 DEF Token
  <1>5. CASE UNCHANGED minted /\ currentUser' \in {0, currentUser}
    <2>1. \A u \in Users : Token(u)' = Token(u)
      BY <1>1, <1>2, <1>5
    <2>2. Token(currentUser)' = NoToken \/
             (Token(currentUser)' = Token(currentUser) /\ UNCHANGED currentUser)
      BY <1>5 DEF Token
    <2>3. \A t \in Tokens : Made(t) => MadeNow(t)
      BY <1>5 DEF Made, MadeNow
    <2> QED
      BY <1>3, <1>4, <2>1, <2>2, <2>3
  <1>6. ASSUME NEW v \in Users, minted' = [minted EXCEPT ![v] = minted[v] + 1], v # 0,
               currentUser' \in {v, currentUser}
        PROVE  /\ \A t \in Tokens : Made(t) => MadeNow(t)
               /\ \A u \in Users : Token(u)' = Token(u) \/ Fresh(Token(u)')
               /\ \/ Token(currentUser)' = NoToken
                  \/ Fresh(Token(currentUser)')
                  \/ Token(currentUser)' = Token(currentUser) /\ UNCHANGED currentUser
    <2>1. ASSUME NEW t \in Tokens, Made(t)
          PROVE  MadeNow(t)
      <3>1. t.user \in Users /\ t.number \in Nat
        BY DEF Tokens
      <3> QED
        BY <1>0, <1>6, <2>1, <3>1 DEF Made, MadeNow
    <2>2. ASSUME NEW u \in Users \ {0}, u # v
          PROVE  Token(u)' = Token(u)
      BY <1>0, <1>1, <1>6, <2>2
    <2>3. Fresh(Token(v)')
      <3>1. Token(v)' = [user |-> v, number |-> minted[v] + 1] /\ minted[v] \in Nat
        BY <1>0, <1>1, <1>6
      <3> QED
        BY <3>1 DEF Fresh
    <2>4. \A u \in Users : Token(u)' = Token(u) \/ Fresh(Token(u)')
      BY <1>2, <2>2, <2>3
    <2>5. CASE currentUser' = v
      <3>1. Token(currentUser)' = Token(v)'
        BY <2>5 DEF Token
      <3> QED
        BY <2>1, <2>3, <2>4, <3>1
    <2>6. CASE currentUser' = currentUser
      <3>1. Token(currentUser)' = Token(currentUser) \/ Fresh(Token(currentUser)')
        BY <1>0, <1>2, <2>2, <2>3, <2>6 DEF Token
      <3> QED
        BY <2>1, <2>4, <2>6, <3>1
    <2> QED
      BY <1>6, <2>5, <2>6
  <1> QED
    BY <1>3, <1>4, <1>5, <1>6, Mints, Zenon

(* The elements of a sequence that was shortened or made longer.           *)
LEMMA Elements ==
    ASSUME NEW S, NEW s \in Seq(S)
    PROVE  /\ s # <<>> => /\ {Tail(s)[k] : k \in 1..Len(Tail(s))} \subseteq {s[k] : k \in 1..Len(s)}
                          /\ Head(s) \in {s[k] : k \in 1..Len(s)}
           /\ \A e \in S : {Append(s, e)[k] : k \in 1..Len(Append(s, e))}
                              \subseteq {s[k] : k \in 1..Len(s)} \cup {e}
  <1>1. ASSUME s # <<>>
        PROVE  /\ {Tail(s)[k] : k \in 1..Len(Tail(s))} \subseteq {s[k] : k \in 1..Len(s)}
               /\ Head(s) \in {s[k] : k \in 1..Len(s)}
    <2>1. /\ Head(s) = s[1] /\ 1 \in 1..Len(s)
          /\ \A i \in 1..Len(Tail(s)) : i + 1 \in 1..Len(s) /\ Tail(s)[i] = s[i + 1]
      BY <1>1, Shortened, Zenon
    <2> QED
      BY <2>1
  <1>2. ASSUME NEW e \in S, NEW k \in 1..Len(Append(s, e))
        PROVE  Append(s, e)[k] \in {s[i] : i \in 1..Len(s)} \cup {e}
    <2>1. CASE k \in 1..Len(s)
      BY <2>1
    <2>2. CASE k \notin 1..Len(s)
      <3>1. Len(Append(s, e)) = Len(s) + 1 /\ Append(s, e)[Len(s) + 1] = e /\ Len(s) \in Nat
        BY Appended
      <3>2. k = Len(s) + 1
        BY <2>2, <3>1
      <3> QED
        BY <3>1, <3>2
    <2> QED
      BY <2>1, <2>2
  <1> QED
    BY <1>1, <1>2

(* The client and the server come to know a token from a message only.     *)
LEMMA KnownStep ==
    ASSUME IInv, [Next]_vars
    PROVE  \/ Known' \subseteq Known \cup {NoToken} /\ (AuthAction \/ UNCHANGED inbox)
           \/ /\ inbox # <<>> /\ inbox' = Tail(inbox)
              /\ Known' \subseteq Known \cup {Head(inbox).token}
  <1>0. sent \in Seq(Tokens) /\ inbox \in Seq(Messages)
    BY DEF IInv, TokenInv
  <1>1. ASSUME UNCHANGED <<authToken, serverToken, sent, rejected>>
        PROVE  Known' = Known
    BY <1>1 DEF Known
  <1>2. CASE AuthAction \/ TokenExpires \/ UNCHANGED vars
    BY <1>1, <1>2, AuthLeaves DEF TokenExpires, vars, client, server, history
  <1>3. CASE open \/ goOnline \/ enteringForeground \/ retry
    BY <1>1, <1>3 DEF open, goOnline, resumeForReason, enteringForeground, retry, server, history
  <1>4. ASSUME authToken' \in {authToken, NoToken}, UNCHANGED inbox,
               rejected' \subseteq Known,
               \/ sent' = <<>> /\ serverToken' = NoToken
               \/ UNCHANGED <<sent, serverToken>>
        PROVE  Known' \subseteq Known \cup {NoToken} /\ UNCHANGED inbox
    BY <1>4 DEF Known
  <1>5. CASE onKill \/ goOffline \/ ConnectionLost
    BY <1>4, <1>5 DEF onKill, goOffline, interruptForReason, ConnectionLost, onDisconnect, history,
                      Known
  <1>6. CASE AuthRejected \/ onAuthRevokedWithStatus
    <2>1. PICK t \in Known : TokenRejected(t)
      BY <1>0, <1>6, Elements DEF AuthRejected, onAuthRevokedWithStatus, Known
    <2> QED
      BY <1>4, <2>1 DEF TokenRejected, onDisconnect, Known
  <1>7. CASE onReady
    <2>1. /\ UNCHANGED <<inbox, authToken, serverToken, rejected>>
          /\ sent' \in {<<>>, <<authToken>>}
      BY <1>7 DEF onReady, server, history
    <2>2. {sent'[k] : k \in 1..Len(sent')} \subseteq {authToken}
      BY <2>1
    <2> QED
      BY <2>1, <2>2 DEF Known
  <1>8. CASE AuthAnswered
    <2>1. /\ UNCHANGED <<inbox, authToken, rejected>> /\ sent # <<>>
          /\ sent' = Tail(sent) /\ serverToken' = Head(sent)
      BY <1>8 DEF AuthAnswered, history
    <2>2. /\ {sent'[k] : k \in 1..Len(sent')} \subseteq {sent[k] : k \in 1..Len(sent)}
          /\ serverToken' \in {sent[k] : k \in 1..Len(sent)}
      BY <1>0, <2>1, Elements
    <2> QED
      BY <2>1, <2>2 DEF Known
  <1>9. CASE openNetworkConnectionWithToken \/ fetchTokenFailed
    <2>1. /\ inbox # <<>> /\ inbox' = Tail(inbox) /\ UNCHANGED <<serverToken, sent, rejected>>
          /\ authToken' \in {authToken, Head(inbox).token}
      BY <1>9 DEF openNetworkConnectionWithToken, fetchTokenFailed, server
    <2> QED
      BY <2>1 DEF Known
  <1>10. CASE refreshAuthToken
    <2>1. /\ inbox # <<>> /\ inbox' = Tail(inbox) /\ UNCHANGED <<serverToken, rejected>>
          /\ authToken' = Head(inbox).token
          /\ sent' \in {sent, Append(sent, Head(inbox).token)}
      BY <1>10 DEF refreshAuthToken, server
    <2>2. Head(inbox).token \in Tokens
      <3>1. Head(inbox) \in Messages
        BY <1>0, <2>1, Shortened, Zenon
      <3> QED
        BY <3>1 DEF Messages
    <2>3. {sent'[k] : k \in 1..Len(sent')}
             \subseteq {sent[k] : k \in 1..Len(sent)} \cup {Head(inbox).token}
      <3>1. CASE sent' = sent
        BY <3>1
      <3>2. CASE sent' = Append(sent, Head(inbox).token)
        <4> DEFINE e == Head(inbox).token
        <4>1. e \in Tokens /\ sent' = Append(sent, e)
          BY <2>2, <3>2
        <4> HIDE DEF e
        <4>2. {Append(sent, e)[k] : k \in 1..Len(Append(sent, e))}
                 \subseteq {sent[k] : k \in 1..Len(sent)} \cup {e}
          BY <1>0, <4>1, Elements
        <4> QED
          BY <4>1, <4>2 DEF e
      <3> QED
        BY <2>1, <3>1, <3>2
    <2> QED
      BY <2>1, <2>3 DEF Known
  <1> QED
    BY <1>2, <1>3, <1>5, <1>6, <1>7, <1>8, <1>9, <1>10, Steps

(* What a step of Auth adds: news of a new token or of none, or an answer. *)
LEMMA Added ==
    ASSUME AttemptsAssumption, AuthInv, AuthInv', FetchInv, MintInv, inbox \in Seq(Messages),
           AuthAction, NEW i \in 1..Len(inbox'), i > Len(inbox)
    PROVE  /\ MadeNow(inbox'[i].token)
           /\ \/ /\ IsChange(inbox'[i]) /\ i = Len(inbox) + 1
                 /\ inbox'[i].token = NoToken \/ Fresh(inbox'[i].token)
              \/ \E f \in fetches : Reply(f, inbox'[i]) /\ fetches' = fetches \ {f}
  <1> DEFINE t == Token(currentUser)'
  <1>1. MadeNow(t) /\ (t = Token(currentUser) \/ t = NoToken \/ Fresh(t))
    BY Renewed, Zenon
  <1>2. Changed(t).token = t /\ IsChange(Changed(t))
    BY DEF Changed, IsChange
  <1>3. CASE i = Len(inbox) + 1 /\ t # Token(currentUser) /\ inbox'[i] = Changed(t)
    <2> HIDE DEF t
    <2> QED
      BY <1>1, <1>2, <1>3
  <1>4. ASSUME NEW f \in fetches, NEW m \in Messages, Reply(f, m), inbox'[i] = m,
               fetches' = fetches \ {f}
        PROVE  MadeNow(inbox'[i].token) /\ Reply(f, inbox'[i])
    <2>1. /\ f.user \in Users /\ minted \in [Users -> Nat] /\ minted'[0] = 0
          /\ Token(f.user) \in Tokens /\ MadeNow(Token(f.user)')
          /\ Token(f.user)' = Token(f.user) \/ Fresh(Token(f.user)')
      BY TokenOf, Renewed DEF FetchInv, Fetches, AuthInv
    <2>2. MadeNow(NoToken)
      BY <2>1 DEF MadeNow, NoToken
    <2>3. CASE m.token = NoToken
      BY <1>4, <2>2, <2>3
    <2>4. CASE m.token = Token(f.user) /\ UNCHANGED auth
      <3>1. Token(f.user)' = Token(f.user)
        BY <2>4 DEF auth, Token
      <3> QED
        BY <1>4, <2>1, <2>4, <3>1, Zenon
    <2>5. CASE m.token = Token(f.user)'
      BY <1>4, <2>1, <2>5
    <2> QED
      BY <1>4, <2>3, <2>4, <2>5 DEF Reply
  <1>5. Posted /\ (FetchRemains \/ FetchEnds)
    BY AuthSide
  <1>6. CASE FetchRemains
    BY <1>3, <1>6 DEF FetchRemains, Adds
  <1>7. CASE FetchEnds
    <2>1. PICK f \in fetches, m \in Messages :
            fetches' = fetches \ {f} /\ Reply(f, m) /\ Adds(IF f.attempt = 0 THEN {} ELSE {m})
      BY <1>7, Zenon DEF FetchEnds
    <2>2. \/ i = Len(inbox) + 1 /\ t # Token(currentUser) /\ inbox'[i] = Changed(t)
          \/ inbox'[i] = m
      BY <2>1 DEF Adds
    <2> QED
      BY <1>3, <1>4, <2>1, <2>2, Zenon
  <1> QED
    BY <1>5, <1>6, <1>7

(* Only Auth makes tokens.                                                 *)
LEMMA OnlyAuthMints ==
    ASSUME [Next]_vars, ~AuthAction
    PROVE  UNCHANGED auth
  <1>1. CASE open \/ goOnline \/ onKill \/ goOffline \/ enteringForeground \/ retry
    BY <1>1 DEF open, goOnline, resumeForReason, onKill, goOffline, interruptForReason,
                enteringForeground, retry
  <1>2. CASE openNetworkConnectionWithToken \/ fetchTokenFailed \/ refreshAuthToken \/ onReady
    BY <1>2 DEF openNetworkConnectionWithToken, fetchTokenFailed, refreshAuthToken, onReady
  <1>3. CASE AuthAnswered \/ ConnectionLost \/ TokenExpires \/ UNCHANGED vars
    BY <1>3 DEF AuthAnswered, ConnectionLost, TokenExpires, vars
  <1>4. CASE AuthRejected \/ onAuthRevokedWithStatus
    BY <1>4 DEF AuthRejected, onAuthRevokedWithStatus, TokenRejected
  <1> QED
    BY <1>1, <1>2, <1>3, <1>4, Steps

(* The fetches belong to users there are.                                  *)
LEMMA FetchUsersStep ==
    ASSUME AttemptsAssumption, IInv, AuthInv', MintInv, [Next]_vars
    PROVE  \A f \in fetches' : f.user <= signIns'
  <1>0. /\ signIns \in Nat /\ currentUser \in Nat /\ currentUser <= signIns
        /\ \A f \in fetches : f.user <= signIns /\ f.user \in Nat
    BY DEF IInv, AuthInv, MintInv, FetchInv, Fetches, Users
  <1>1. CASE AuthAction
    <2>1. signIns' >= signIns /\ signIns' \in Nat
      BY <1>1, Mints DEF IInv, AuthInv
    <2>2. FetchRemains \/ FetchEnds
      BY <1>1, AuthSide DEF IInv, TokenInv
    <2>3. \A f \in fetches' : f.user <= signIns
      BY <1>0, <2>2 DEF FetchRemains, FetchEnds
    <2>4. \A f \in fetches' : f.user \in Nat
      BY FetchesStep DEF IInv, FetchInv, Fetches, Users
    <2> QED
      BY <1>0, <2>1, <2>3, <2>4
  <1>2. CASE retry
    BY <1>0, <1>2 DEF retry, auth
  <1>3. CASE ~AuthAction /\ ~retry
    <2>1. UNCHANGED fetches
      BY <1>3, Steps DEF open, goOnline, resumeForReason, onKill, goOffline, interruptForReason,
                  enteringForeground, openNetworkConnectionWithToken, fetchTokenFailed,
                  refreshAuthToken, onReady, AuthAnswered, ConnectionLost, TokenExpires,
                  AuthRejected, onAuthRevokedWithStatus, TokenRejected, vars
    <2>2. UNCHANGED signIns
      BY <1>3, OnlyAuthMints DEF auth
    <2> QED
      BY <1>0, <2>1, <2>2
  <1> QED
    BY <1>1, <1>2, <1>3

(* The tokens there are stay numbered in the order they are made.          *)
LEMMA MintStep ==
    ASSUME AttemptsAssumption, IInv, AuthInv', MintInv, [Next]_vars
    PROVE  MintInv'
  <1>0. /\ AuthInv /\ FetchInv /\ TokenInv /\ inbox \in Seq(Messages)
        /\ Known \subseteq Tokens /\ refused \subseteq Tokens
        /\ \A i \in 1..Len(inbox) : inbox[i].token \in Tokens
    <2>1. AuthInv /\ FetchInv /\ TokenInv
      BY DEF IInv
    <2>2. Known \subseteq Tokens
      BY <2>1 DEF TokenInv, Known
    <2>3. \A i \in 1..Len(inbox) : inbox[i] \in Messages
      BY <2>1 DEF TokenInv
    <2> QED
      BY <2>1, <2>2, <2>3 DEF TokenInv, Messages
  <1>1. CASE AuthAction
    <2>1. UNCHANGED <<refused, Known>>
      BY <1>1, AuthLeaves DEF client, server, history, Known
    <2>2. \A t \in Tokens : Made(t) => MadeNow(t)
      BY <1>0, <1>1, Renewed, Zenon
    <2>3. \A t \in refused' \cup Known' : MadeNow(t) /\ (t \in refused' => t.number > 0)
      BY <1>0, <2>1, <2>2 DEF MintInv
    <2>4. ASSUME NEW i \in 1..Len(inbox')
          PROVE  MadeNow(inbox'[i].token)
      <3>1. CASE i > Len(inbox)
        BY <1>0, <1>1, <3>1, Added
      <3>2. CASE ~(i > Len(inbox))
        <4>1. Posted
          BY <1>0, <1>1, AuthSide
        <4>2. i \in 1..Len(inbox) /\ inbox'[i] = inbox[i]
          BY <3>2, <4>1 DEF Posted
        <4> QED
          BY <1>0, <2>2, <4>2 DEF MintInv
      <3> QED
        BY <3>1, <3>2
    <2>5. \A u \in Users : u > signIns' => minted'[u] = 0
      BY <1>0, <1>1, Mints
    <2> QED
      BY <2>3, <2>4, <2>5, FetchUsersStep DEF MintInv, Made, MadeNow
  <1>2. CASE ~AuthAction
    <2>1. UNCHANGED <<signIns, minted>>
      BY <1>2, OnlyAuthMints DEF auth
    <2>2. \A i \in 1..Len(inbox') : Made(inbox'[i].token)
      <3>1. CASE UNCHANGED inbox
        BY <3>1 DEF MintInv
      <3>2. CASE inbox # <<>> /\ inbox' = Tail(inbox)
        BY <1>0, <3>2, Shortened DEF MintInv
      <3> QED
        BY <1>2, <3>1, <3>2, KnownStep
    <2>3. \A t \in Known' : Made(t)
      <3>1. Made(NoToken)
        BY <1>0 DEF Made, NoToken, AuthInv
      <3>2. inbox # <<>> => Made(Head(inbox).token)
        BY <1>0, Shortened DEF MintInv
      <3> QED
        BY <1>2, <3>1, <3>2, KnownStep DEF MintInv
    <2>4. \A t \in refused' : t.number > 0 /\ Made(t)
      <3>1. CASE TokenExpires
        <4>1. PICK u \in Users : minted[u] > 0 /\ refused' = refused \cup {Token(u)}
          BY <3>1 DEF TokenExpires
        <4>2. Token(u) = [user |-> u, number |-> minted[u]] /\ minted[u] \in Nat
          BY <1>0, <4>1 DEF Token, AuthInv
        <4>3. Token(u).number > 0 /\ Made(Token(u))
          BY <4>1, <4>2 DEF Made
        <4> QED
          BY <4>1, <4>3 DEF MintInv
      <3>2. CASE ~TokenExpires
        <4>1. UNCHANGED refused
          BY <1>2, <3>2, Steps DEF open, goOnline, resumeForReason, onKill, goOffline, onDisconnect,
               interruptForReason, enteringForeground, retry, openNetworkConnectionWithToken,
               fetchTokenFailed, refreshAuthToken, onReady, AuthAnswered, ConnectionLost,
               AuthRejected, onAuthRevokedWithStatus, TokenRejected, vars, server
        <4> QED
          BY <4>1 DEF MintInv
      <3> QED
        BY <3>1, <3>2
    <2> QED
      BY <2>1, <2>2, <2>3, <2>4, FetchUsersStep DEF MintInv, Made
  <1> QED
    BY <1>1, <1>2

(* News come first.                                                        *)
LEMMA NewsStep ==
    ASSUME AttemptsAssumption, IInv, AuthInv', MintInv, NewsInv, [Next]_vars
    PROVE  NewsInv'
  <1>0. AuthInv /\ FetchInv /\ inbox \in Seq(Messages) /\ Len(inbox) \in Nat
    BY DEF IInv, TokenInv
  <1>1. CASE AuthAction
    <2>1. Known' = Known
      BY <1>1, AuthLeaves DEF client, server, history, Known
    <2>2. /\ \A j \in 1..Len(inbox) : inbox'[j] = inbox[j]
          /\ Len(inbox') \in Nat /\ inbox' \in Seq(Messages)
      BY <1>0, <1>1, AuthSide DEF Posted
    <2> SUFFICES ASSUME NEW i \in 1..Len(inbox'), IsChange(inbox'[i]), inbox'[i].token # NoToken
                 PROVE  /\ inbox'[i].token \notin Known
                        /\ \A j \in 1..Len(inbox') : j < i => inbox'[j].token # inbox'[i].token
      BY <2>1, Zenon DEF NewsInv
    <2>3. CASE i > Len(inbox)
      <3>1. i = Len(inbox) + 1 /\ Fresh(inbox'[i].token)
        BY <1>0, <1>1, <2>3, Added DEF Reply
      <3>2. \A t : Made(t) => t # inbox'[i].token
        <4> DEFINE new == inbox'[i].token
        <4>1. inbox'[i] \in Messages
          BY <2>2
        <4>2. new \in Tokens /\ Fresh(new)
          BY <3>1, <4>1 DEF Messages
        <4> HIDE DEF new
        <4>3. ~Made(new)
          BY <1>0, <4>2 DEF Made, Fresh, Tokens, AuthInv
        <4> QED
          BY <4>3, Zenon DEF new
      <3>3. \A j \in 1..Len(inbox') : j < i => j \in 1..Len(inbox)
        BY <1>0, <2>2, <3>1
      <3> QED
        BY <2>2, <3>2, <3>3 DEF MintInv
    <2>4. CASE ~(i > Len(inbox))
      <3>1. i \in 1..Len(inbox) /\ \A j \in 1..Len(inbox') : j < i => j \in 1..Len(inbox)
        BY <1>0, <2>2, <2>4
      <3> QED
        BY <2>2, <3>1 DEF NewsInv
    <2> QED
      BY <2>3, <2>4
  <1>2. CASE Known' \subseteq Known \cup {NoToken} /\ UNCHANGED inbox
    BY <1>2 DEF NewsInv
  <1>3. CASE /\ inbox # <<>> /\ inbox' = Tail(inbox)
             /\ Known' \subseteq Known \cup {Head(inbox).token}
    <2>1. /\ Head(inbox) = inbox[1] /\ 1 \in 1..Len(inbox) /\ Len(inbox') = Len(inbox) - 1
          /\ \A i \in 1..Len(inbox') : i + 1 \in 1..Len(inbox) /\ inbox'[i] = inbox[i + 1]
      BY <1>0, <1>3, Shortened
    <2> SUFFICES ASSUME NEW i \in 1..Len(inbox'), IsChange(inbox'[i]), inbox'[i].token # NoToken
                 PROVE  /\ inbox'[i].token \notin Known'
                        /\ \A j \in 1..Len(inbox') : j < i => inbox'[j].token # inbox'[i].token
      BY Zenon DEF NewsInv
    <2>2. /\ inbox[i + 1].token \notin Known
          /\ \A j \in 1..Len(inbox) : j < i + 1 => inbox[j].token # inbox[i + 1].token
      BY <2>1 DEF NewsInv
    <2>3. inbox[1].token # inbox[i + 1].token
      BY <2>1, <2>2
    <2>4. \A j \in 1..Len(inbox') : j < i => inbox'[j].token # inbox'[i].token
      BY <2>1, <2>2
    <2> QED
      BY <1>3, <2>1, <2>2, <2>3, <2>4
  <1> QED
    BY <1>1, <1>2, <1>3, KnownStep

(* Nobody is not refused, and what a step of Auth makes is not refused yet. *)
LEMMA NotRefusedYet ==
    ASSUME AttemptsAssumption, IInv, AuthInv', MintInv
    PROVE  /\ NoToken \notin rejected
           /\ \A t \in rejected : ~Fresh(t)
           /\ AuthAction =>
                /\ UNCHANGED rejected
                /\ \A u \in Users : Token(u)' \in rejected => Token(u)' = Token(u)
                /\ Suspect' => Suspect /\ UNCHANGED currentUser
                               /\ Token(currentUser)' = Token(currentUser)
  <1>0. rejected \subseteq refused /\ refused \subseteq Tokens /\ minted \in [Users -> Nat]
    BY DEF IInv, TokenInv, AuthInv
  <1>1. NoToken \notin rejected
    BY <1>0 DEF MintInv, NoToken
  <1>2. ASSUME NEW t \in rejected
        PROVE  ~Fresh(t)
    <2>1. t.user \in Users /\ t.number \in Nat /\ Made(t)
      BY <1>0 DEF Tokens, MintInv
    <2> QED
      BY <1>0, <2>1 DEF Made, Fresh
  <1>3. ASSUME AuthAction
        PROVE  /\ UNCHANGED rejected
               /\ \A u \in Users : Token(u)' \in rejected => Token(u)' = Token(u)
               /\ Suspect' => Suspect /\ UNCHANGED currentUser
                               /\ Token(currentUser)' = Token(currentUser)
    <2>1. UNCHANGED rejected
      BY <1>3, AuthLeaves DEF history
    <2>2. \A u \in Users : Token(u)' \in rejected => Token(u)' = Token(u)
      BY <1>2, <1>3, Renewed, Zenon DEF IInv
    <2>3. \/ Token(currentUser)' = NoToken
          \/ Fresh(Token(currentUser)')
          \/ Token(currentUser)' = Token(currentUser) /\ UNCHANGED currentUser
      BY <1>3, Renewed, Zenon DEF IInv
    <2>4. ASSUME Suspect'
          PROVE  Suspect /\ UNCHANGED currentUser /\ Token(currentUser)' = Token(currentUser)
      <3>1. Token(currentUser)' \in rejected
        BY <2>1, <2>4, Zenon DEF Suspect
      <3> QED
        BY <1>1, <1>2, <2>3, <3>1, Zenon DEF Suspect
    <2> QED
      BY <2>1, <2>2, <2>4
  <1> QED
    BY <1>1, <1>2, <1>3

(* What the latest fetch returns, after a step of Auth.                    *)
LEMMA LatestAuth ==
    ASSUME AttemptsAssumption, IInv, AuthInv', MintInv, ForceInv, AuthAction
    PROVE  LatestInv'
  <1>0. /\ FetchInv /\ inbox \in Seq(Messages) /\ NoToken \notin rejected
        /\ UNCHANGED <<connectionState, currentFetchTokenAttempt, forcing, forceLost, rejected>>
        /\ \A f \in fetches : f.user \in Users
        /\ \A u \in Users : Token(u)' \in rejected => Token(u)' = Token(u)
        /\ \A t \in rejected : ~Fresh(t)
    <2>1. UNCHANGED <<connectionState, currentFetchTokenAttempt, forcing, forceLost, rejected>>
      BY AuthLeaves DEF client, history
    <2>2. \A f \in fetches : f.user \in Users
      BY DEF IInv, FetchInv, Fetches
    <2> QED
      BY <2>1, <2>2, NotRefusedYet DEF IInv, TokenInv
  <1>1. Suspect' => Suspect /\ UNCHANGED currentUser /\ Token(currentUser)' = Token(currentUser)
    BY NotRefusedYet
  <1> SUFFICES ASSUME connectionState = "GettingToken"
               PROVE  LatestInv'
    BY <1>0 DEF LatestInv
  <1>2. currentFetchTokenAttempt > 0 /\ (Suspect /\ ~forceLost => forcing)
    BY DEF IInv, AwaitInv, ForceInv, SuspectInv
  <1>3. Posted /\ (FetchRemains \/ FetchEnds)
    BY <1>0, AuthSide DEF IInv
  <1>4. ASSUME NEW f \in fetches, f.attempt = currentFetchTokenAttempt
        PROVE  /\ f.forced = forcing
               /\ f.stage # "asked" => /\ Suspect' => f.user = currentUser'
                                       /\ ~f.forced /\ Token(f.user)' \in rejected => forceLost
    BY <1>0, <1>1, <1>4 DEF ForceInv, LatestInv
  <1>5. ASSUME NEW f \in fetches', f.attempt = currentFetchTokenAttempt
        PROVE  /\ f.forced = forcing
               /\ f.stage # "asked" => /\ Suspect' => f.user = currentUser'
                                       /\ ~f.forced /\ Token(f.user)' \in rejected => forceLost
    <2>1. CASE f \in fetches
      BY <1>4, <1>5, <2>1
    <2>2. CASE f \notin fetches
      <3>1. PICK old \in fetches :
              /\ f.attempt = old.attempt /\ f.forced = old.forced /\ f.stage # "asked"
              /\ f.user = (IF old.stage = "asked" THEN currentUser ELSE old.user)
              /\ UNCHANGED auth
        <4>1. f.attempt # 0
          BY <1>2, <1>5
        <4>2. FetchRemains
          BY <1>3, <1>5, <2>2 DEF FetchEnds
        <4>3. ASSUME NEW g \in Fetches, g.attempt = 0, fetches' = fetches \cup {g}
              PROVE  FALSE
          BY <1>5, <2>2, <4>1, <4>3
        <4>4. PICK old \in fetches, g \in Fetches :
                /\ g.attempt = old.attempt /\ g.forced = old.forced /\ g.stage # "asked"
                /\ g.user = (IF old.stage = "asked" THEN currentUser ELSE old.user)
                /\ fetches' = (fetches \ {old}) \cup {g} /\ UNCHANGED auth
          BY <1>5, <2>2, <4>2, <4>3, Zenon DEF FetchRemains
        <4>5. f = g
          BY <1>5, <2>2, <4>4
        <4> QED
          BY <4>4, <4>5
      <3>2. CASE old.stage = "asked"
        <4>1. Token(f.user)' = Token(currentUser) /\ f.user = currentUser'
          BY <3>1, <3>2 DEF auth, Token
        <4>2. f.forced = forcing
          BY <1>4, <1>5, <3>1
        <4> QED
          BY <1>2, <4>1, <4>2 DEF Suspect
      <3>3. CASE old.stage # "asked"
        BY <1>4, <1>5, <3>1, <3>3
      <3> QED
        BY <3>2, <3>3
    <2> QED
      BY <2>1, <2>2
  <1>6. ASSUME NEW i \in 1..Len(inbox'), inbox'[i].kind = "fetched",
               inbox'[i].attempt = currentFetchTokenAttempt
        PROVE  /\ inbox'[i].token \in rejected => forceLost
               /\ Suspect' => inbox'[i].token \in rejected
    <2>1. CASE ~(i > Len(inbox))
      <3>1. i \in 1..Len(inbox) /\ inbox'[i] = inbox[i]
        BY <1>3, <2>1 DEF Posted
      <3> QED
        BY <1>1, <1>6, <3>1 DEF ForceInv, LatestInv
    <2>2. CASE i > Len(inbox)
      <3> DEFINE m == inbox'[i]
      <3>1. PICK f \in fetches : Reply(f, m)
        <4>1. ~IsChange(m)
          BY <1>6 DEF IsChange
        <4> QED
          BY <1>0, <2>2, <4>1, Added DEF IInv
      <3>2. m.kind = "fetched" /\ m.attempt = currentFetchTokenAttempt
        BY <1>6
      <3> HIDE DEF m
      <3>3. f.attempt = currentFetchTokenAttempt
        BY <3>1, <3>2 DEF Reply
      <3>4. CASE m.token = NoToken /\ currentUser = 0
        <4>1. ~Suspect
          BY <1>0, <3>4 DEF Suspect, Token
        <4> QED
          BY <1>0, <1>1, <3>4, <4>1 DEF m
      <3>5. CASE f.stage # "asked" /\ ~f.forced /\ m.token = Token(f.user) /\ UNCHANGED auth
        <4>1. Token(f.user)' = Token(f.user)
          BY <3>5 DEF auth, Token
        <4>2. m.token \in rejected => forceLost
          BY <1>4, <3>3, <3>5, <4>1
        <4>3. Suspect' => m.token \in rejected
          <5>1. Suspect' => Suspect /\ f.user = currentUser
            BY <1>1, <1>4, <3>3, <3>5
          <5> QED
            BY <3>5, <5>1 DEF Suspect
        <4> QED
          BY <4>2, <4>3 DEF m
      <3>6. CASE /\ f.stage # "asked" /\ m.token = Token(f.user)' /\ Fresh(m.token)
                 /\ UNCHANGED currentUser
        <4>1. m.token \notin rejected
          BY <1>0, <3>6
        <4>2. ~Suspect'
          <5>1. ASSUME Suspect'
                PROVE  FALSE
            <6>1. f.user = currentUser' /\ Token(currentUser)' \in rejected
              BY <1>0, <1>4, <3>3, <3>6, <5>1 DEF Suspect
            <6>2. Token(f.user)' = Token(currentUser)'
              BY <6>1 DEF Token
            <6> QED
              BY <3>6, <4>1, <6>1, <6>2
          <5> QED
            BY <5>1
        <4> QED
          BY <4>1, <4>2 DEF m
      <3> QED
        BY <3>1, <3>2, <3>4, <3>5, <3>6 DEF Reply
    <2> QED
      BY <2>1, <2>2
  <1> QED
    BY <1>0, <1>5, <1>6 DEF LatestInv

(* A message the client takes was there before.                            *)
LEMMA LatestKept ==
    ASSUME LatestInv, \A i \in 1..Len(inbox') : \E j \in 1..Len(inbox) : inbox'[i] = inbox[j],
           UNCHANGED <<fetches, connectionState, currentFetchTokenAttempt, forcing, rejected,
                       forceLost>>,
           UNCHANGED auth
    PROVE  LatestInv'
  <1>2. Suspect' <=> Suspect
    BY DEF auth, Token, Suspect
  <1>3. \A f \in fetches : Token(f.user)' = Token(f.user)
    BY DEF auth, Token
  <1> SUFFICES ASSUME connectionState = "GettingToken"
               PROVE  LatestInv'
    BY DEF LatestInv
  <1>4. ASSUME NEW f \in fetches, f.attempt = currentFetchTokenAttempt
        PROVE  /\ f.forced = forcing
               /\ f.stage # "asked" => /\ Suspect' => f.user = currentUser'
                                       /\ ~f.forced /\ Token(f.user)' \in rejected => forceLost
    BY <1>2, <1>3, <1>4 DEF LatestInv, auth
  <1>5. ASSUME NEW i \in 1..Len(inbox'), inbox'[i].kind = "fetched",
               inbox'[i].attempt = currentFetchTokenAttempt
        PROVE  /\ inbox'[i].token \in rejected => forceLost
               /\ Suspect' => inbox'[i].token \in rejected
    BY <1>2, <1>5 DEF LatestInv
  <1> QED
    BY <1>4, <1>5 DEF LatestInv

(* What the latest fetch returns, after the other steps.                   *)
LEMMA LatestOther ==
    ASSUME AttemptsAssumption, IInv, ForceInv, [Next]_vars, ~AuthAction
    PROVE  LatestInv'
  <1>0. /\ LatestInv /\ OnceInv /\ FetchInv /\ inbox \in Seq(Messages)
        /\ currentFetchTokenAttempt \in Nat
    BY DEF ForceInv, IInv, TokenInv, FetchInv
  <1>1. UNCHANGED auth
    BY OnlyAuthMints
  <1>2. CASE connectionState' # "GettingToken"
    BY <1>2 DEF LatestInv
  <1>3. ASSUME inbox # <<>>, inbox' = Tail(inbox),
               UNCHANGED <<fetches, connectionState, currentFetchTokenAttempt, forcing, rejected,
                           forceLost>>
        PROVE  LatestInv'
    <2>1. \A i \in 1..Len(inbox') : i + 1 \in 1..Len(inbox) /\ inbox'[i] = inbox[i + 1]
      BY <1>0, <1>3, Shortened
    <2> QED
      BY <1>0, <1>1, <1>3, <2>1, LatestKept
  <1>4. ASSUME UNCHANGED <<fetches, inbox, connectionState, currentFetchTokenAttempt, forcing,
                           rejected, forceLost>>
        PROVE  LatestInv'
    BY <1>0, <1>1, <1>4, LatestKept
  <1>5. CASE openNetworkConnectionWithToken
    BY <1>2, <1>3, <1>5 DEF openNetworkConnectionWithToken
  <1>6. CASE fetchTokenFailed
    BY <1>2, <1>3, <1>6 DEF fetchTokenFailed
  <1>7. CASE refreshAuthToken
    BY <1>3, <1>7 DEF refreshAuthToken
  <1>8. CASE retry
    <2> DEFINE g == [attempt |-> currentFetchTokenAttempt + 1,
                     forced |-> scheduledRetry = "forced", user |-> 0, stage |-> "asked"]
    <2>1. /\ g.attempt = currentFetchTokenAttempt + 1 /\ g.stage = "asked"
          /\ g.forced = (scheduledRetry = "forced")
      OBVIOUS
    <2>2. /\ fetches' = fetches \cup {g} /\ UNCHANGED inbox
          /\ currentFetchTokenAttempt' = currentFetchTokenAttempt + 1
          /\ forcing' = (scheduledRetry = "forced")
      BY <1>8 DEF retry
    <2> HIDE DEF g
    <2>3. \A f \in fetches : f.attempt # currentFetchTokenAttempt + 1
      BY <1>0 DEF OnceInv, FetchInv, Fetches
    <2>4. \A i \in 1..Len(inbox) :
            inbox[i].kind = "fetched" => inbox[i].attempt # currentFetchTokenAttempt + 1
      BY <1>0 DEF OnceInv, IsChange
    <2>5. \A f \in fetches' :
            f.attempt = currentFetchTokenAttempt' => f.forced = forcing' /\ f.stage = "asked"
      BY <2>1, <2>2, <2>3
    <2> QED
      BY <2>2, <2>4, <2>5 DEF LatestInv
  <1>9. CASE open \/ goOnline
    BY <1>4, <1>9 DEF open, goOnline, resumeForReason, history
  <1>10. CASE onKill \/ goOffline \/ enteringForeground \/ ConnectionLost
    BY <1>2, <1>10 DEF onKill, goOffline, interruptForReason, enteringForeground, ConnectionLost,
                       onDisconnect
  <1>11. CASE AuthRejected \/ onAuthRevokedWithStatus
    BY <1>2, <1>11 DEF AuthRejected, onAuthRevokedWithStatus, TokenRejected, onDisconnect
  <1>12. CASE onReady
    BY <1>2, <1>12 DEF onReady
  <1>13. CASE AuthAnswered
    <2>1. connected
      BY <1>13, SentIsConnected DEF AuthAnswered
    <2> QED
      BY <1>2, <1>13, <2>1 DEF AuthAnswered, connected
  <1>14. CASE TokenExpires \/ UNCHANGED vars
    BY <1>4, <1>14 DEF TokenExpires, vars, client, history
  <1> QED
    BY <1>5, <1>6, <1>7, <1>8, <1>9, <1>10, <1>11, <1>12, <1>13, <1>14, Steps

(* The wish for a new token is not forgotten, or that is marked.           *)
LEMMA SuspectStep ==
    ASSUME AttemptsAssumption, IInv, AuthInv', MintInv, ForceInv, [Next]_vars
    PROVE  SuspectInv'
  <1>0. /\ SuspectInv /\ LatestInv /\ RetryInv /\ FlagInv /\ inbox \in Seq(Messages)
    BY DEF ForceInv, IInv, TokenInv
  <1>1. CASE AuthAction
    <2>1. Suspect' => Suspect
      BY <1>1, NotRefusedYet
    <2> QED
      BY <1>0, <1>1, <2>1, AuthLeaves DEF client, history, SuspectInv, shouldReconnect
  <1>2. ASSUME ~AuthAction, UNCHANGED rejected
        PROVE  Suspect' <=> Suspect
    BY <1>2, OnlyAuthMints DEF auth, Token, Suspect
  <1>3. CASE ~AuthAction /\ (open \/ goOnline)
    <2>1. PICK reason \in interruptReasons : resumeForReason(reason)
      BY <1>3 DEF open, goOnline, resumeForReason
    <2>2. /\ connectionState = "Disconnected" /\ scheduledRetry = "none"
          /\ UNCHANGED <<connectionState, rejected, forceLost>>
      BY <1>0, <2>1 DEF resumeForReason, history, RetryInv, shouldReconnect
    <2>3. CASE shouldReconnect'
      BY <1>0, <1>2, <1>3, <2>1, <2>2, <2>3 DEF resumeForReason, tryScheduleReconnect, SuspectInv
    <2>4. CASE ~shouldReconnect'
      BY <1>0, <1>2, <1>3, <2>1, <2>2, <2>4 DEF resumeForReason, SuspectInv
    <2> QED
      BY <2>3, <2>4
  <1>4. CASE ~AuthAction /\ (onKill \/ goOffline)
    <2>1. PICK reason : interruptForReason(reason)
      BY <1>4 DEF onKill, goOffline
    <2>2. ~shouldReconnect' /\ connectionState' = "Disconnected" /\ UNCHANGED rejected
      BY <2>1 DEF interruptForReason, onDisconnect, shouldReconnect
    <2>3. CASE /\ connectionState = "Connecting" \/ connected
               /\ onDisconnect(forceAuthTokenRefresh) /\ UNCHANGED forceLost
      BY <1>0, <1>2, <1>4, <2>2, <2>3 DEF onDisconnect, tryScheduleReconnect, connected, SuspectInv
    <2>4. CASE /\ forceLost' = (forceLost \/ scheduledRetry = "forced"
                                \/ (connectionState = "GettingToken" /\ forcing))
               /\ UNCHANGED forceAuthTokenRefresh
      BY <1>0, <1>2, <1>4, <2>2, <2>4 DEF SuspectInv
    <2> QED
      BY <2>1, <2>3, <2>4 DEF interruptForReason
  <1>5. CASE ~AuthAction /\ enteringForeground
    <2>1. /\ shouldReconnect /\ shouldReconnect' /\ tryScheduleReconnect(forceAuthTokenRefresh)
          /\ forceLost' = (forceLost \/ scheduledRetry = "forced")
          /\ connectionState = "Disconnected" /\ UNCHANGED rejected
      BY <1>5 DEF enteringForeground, shouldReconnect
    <2> QED
      BY <1>0, <1>2, <1>5, <2>1 DEF tryScheduleReconnect, SuspectInv
  <1>6. CASE ~AuthAction /\ retry
    BY <1>0, <1>2, <1>6 DEF retry, SuspectInv, RetryInv, shouldReconnect
  <1>7. CASE ~AuthAction /\ openNetworkConnectionWithToken
    <2>1. UNCHANGED <<rejected, forceAuthTokenRefresh, interruptReasons, scheduledRetry, forcing>>
      BY <1>7 DEF openNetworkConnectionWithToken
    <2>2. CASE UNCHANGED <<connectionState, forceLost>>
      BY <1>0, <1>2, <1>7, <2>1, <2>2 DEF SuspectInv, shouldReconnect
    <2>3. CASE /\ Head(inbox).attempt = currentFetchTokenAttempt
               /\ connectionState = "GettingToken"
               /\ forceLost' = (forceLost /\ Head(inbox).token \in rejected)
      <3>1. inbox # <<>> /\ Head(inbox).kind = "fetched"
        BY <1>7 DEF openNetworkConnectionWithToken
      <3>2. 1 \in 1..Len(inbox) /\ Head(inbox) = inbox[1]
        BY <1>0, <3>1, Shortened, Zenon
      <3>3. Suspect => forceLost'
        BY <1>0, <2>3, <3>1, <3>2 DEF LatestInv
      <3> QED
        BY <1>0, <1>2, <1>7, <2>1, <3>3 DEF SuspectInv, shouldReconnect
    <2> QED
      BY <1>7, <2>2, <2>3 DEF openNetworkConnectionWithToken, LatestAttempt
  <1>8. CASE ~AuthAction /\ fetchTokenFailed
    <2>1. UNCHANGED <<rejected, interruptReasons, forcing>>
      BY <1>8 DEF fetchTokenFailed
    <2>2. CASE UNCHANGED <<connectionState, scheduledRetry, forceAuthTokenRefresh, forceLost>>
      BY <1>0, <1>2, <1>8, <2>1, <2>2 DEF SuspectInv, shouldReconnect
    <2>3. CASE /\ connectionState' = "Disconnected" /\ TryAgain
               /\ forceLost' = (forceLost \/ forcing \/ scheduledRetry = "forced")
      <3>1. shouldReconnect' <=> shouldReconnect
        BY <2>1 DEF shouldReconnect
      <3> QED
        BY <1>0, <1>2, <1>8, <2>1, <2>3, <3>1 DEF TryAgain, tryScheduleReconnect, SuspectInv
    <2> QED
      BY <1>8, <2>2, <2>3 DEF fetchTokenFailed
  <1>9. CASE ~AuthAction /\ (refreshAuthToken \/ TokenExpires \/ UNCHANGED vars)
    <2>1. UNCHANGED <<rejected, forceAuthTokenRefresh, interruptReasons, scheduledRetry, forcing,
                      connectionState, forceLost>>
      BY <1>9 DEF refreshAuthToken, TokenExpires, vars, client, history
    <2> QED
      BY <1>0, <1>2, <1>9, <2>1 DEF SuspectInv, shouldReconnect
  <1>10. CASE ~AuthAction /\ (onReady \/ AuthAnswered)
    <2>1. isUp
      BY <1>10, SentIsConnected DEF onReady, AuthAnswered, isUp
    <2>2. UNCHANGED <<rejected, forceAuthTokenRefresh, interruptReasons, forceLost>>
      BY <1>10 DEF onReady, AuthAnswered, history
    <2> QED
      BY <1>0, <1>2, <1>10, <2>1, <2>2 DEF SuspectInv, isUp, shouldReconnect
  <1>11. CASE AuthRejected \/ onAuthRevokedWithStatus
    <2>1. PICK t : TokenRejected(t)
      BY <1>11 DEF AuthRejected, onAuthRevokedWithStatus
    <2> QED
      BY <2>1 DEF TokenRejected, onDisconnect, NeedsNewToken, tryScheduleReconnect, SuspectInv
  <1>12. CASE ~AuthAction /\ ConnectionLost
    <2>1. /\ isUp /\ connectionState' = "Disconnected" /\ UNCHANGED <<rejected, forceLost>>
          /\ tryScheduleReconnect(forceAuthTokenRefresh)
      BY <1>12 DEF ConnectionLost, onDisconnect, isUp, connected, history
    <2> QED
      BY <1>0, <1>2, <1>12, <2>1 DEF tryScheduleReconnect, SuspectInv, isUp
  <1> QED
    BY <1>1, <1>3, <1>4, <1>5, <1>6, <1>7, <1>8, <1>9, <1>10, <1>11, <1>12, Steps

(* The connection is not opened with a refused token unless it was lost.   *)
LEMMA RejectedStep ==
    ASSUME AttemptsAssumption, IInv, NewsInv, AuthInv', MintInv, ForceInv, [Next]_vars
    PROVE  RejectedTokenIsReplaced'
  <1>0. /\ RejectedTokenIsReplaced /\ LatestInv /\ inbox \in Seq(Messages)
        /\ NoToken \notin rejected
    BY NotRefusedYet DEF ForceInv, IInv, TokenInv
  <1>1. ASSUME UNCHANGED <<connectionState, authToken, rejected, forceLost>>
        PROVE  RejectedTokenIsReplaced'
    BY <1>0, <1>1 DEF RejectedTokenIsReplaced
  <1>2. CASE connectionState' # "Connecting"
    BY <1>2 DEF RejectedTokenIsReplaced
  <1>3. CASE AuthAction \/ TokenExpires \/ UNCHANGED vars
    BY <1>1, <1>3, AuthLeaves DEF TokenExpires, vars, client, history
  <1>4. CASE open \/ goOnline
    BY <1>1, <1>4 DEF open, goOnline, resumeForReason, history
  <1>5. CASE onKill \/ goOffline \/ enteringForeground \/ ConnectionLost \/ retry
    BY <1>2, <1>5 DEF onKill, goOffline, interruptForReason, enteringForeground, ConnectionLost,
                      onDisconnect, retry
  <1>6. CASE AuthRejected \/ onAuthRevokedWithStatus
    BY <1>2, <1>6 DEF AuthRejected, onAuthRevokedWithStatus, TokenRejected, onDisconnect
  <1>7. CASE onReady
    BY <1>2, <1>7 DEF onReady
  <1>8. CASE AuthAnswered
    <2>1. connected
      BY <1>8, SentIsConnected DEF AuthAnswered
    <2> QED
      BY <1>2, <1>8, <2>1 DEF AuthAnswered, connected
  <1>9. CASE fetchTokenFailed
    <2>1. UNCHANGED <<authToken, rejected>>
      BY <1>9 DEF fetchTokenFailed
    <2> QED
      BY <1>1, <1>2, <1>9, <2>1 DEF fetchTokenFailed
  <1>10. CASE openNetworkConnectionWithToken
    <2>1. inbox # <<>> /\ Head(inbox).kind = "fetched" /\ UNCHANGED rejected
      BY <1>10 DEF openNetworkConnectionWithToken
    <2>2. CASE /\ Head(inbox).attempt = currentFetchTokenAttempt
               /\ connectionState = "GettingToken" /\ authToken' = Head(inbox).token
               /\ forceLost' = (forceLost /\ Head(inbox).token \in rejected)
      <3>1. 1 \in 1..Len(inbox) /\ Head(inbox) = inbox[1]
        BY <1>0, <2>1, Shortened, Zenon
      <3>2. Head(inbox).token \in rejected => forceLost
        BY <1>0, <2>1, <2>2, <3>1 DEF LatestInv
      <3> QED
        BY <2>1, <2>2, <3>2 DEF RejectedTokenIsReplaced
    <2>3. CASE UNCHANGED <<connectionState, authToken, forceLost>>
      BY <1>1, <2>1, <2>3
    <2> QED
      BY <1>10, <2>2, <2>3 DEF openNetworkConnectionWithToken, LatestAttempt
  <1>11. CASE refreshAuthToken
    <2>1. /\ inbox # <<>> /\ IsChange(Head(inbox)) /\ authToken' = Head(inbox).token
          /\ UNCHANGED rejected
      BY <1>11 DEF refreshAuthToken, IsChange
    <2>2. 1 \in 1..Len(inbox) /\ Head(inbox) = inbox[1]
      BY <1>0, <2>1, Shortened, Zenon
    <2>3. Head(inbox).token \notin rejected
      BY <1>0, <2>1, <2>2 DEF NewsInv, Known
    <2> QED
      BY <2>1, <2>3 DEF RejectedTokenIsReplaced
  <1> QED
    BY <1>3, <1>4, <1>5, <1>6, <1>7, <1>8, <1>9, <1>10, <1>11, Steps

(* A refused token is replaced: the client does not open a connection with *)
(* a token whose refusal it was told of (forceAuthTokenRefresh, and the    *)
(* forceRefresh of the retry), unless the attempt to force a new one was   *)
(* replaced, cancelled or failed.                                          *)
THEOREM RejectedIsReplaced == Spec => []RejectedTokenIsReplaced
  <1>1. Init => RInv
    <2> SUFFICES ASSUME Init
                 PROVE  RInv
      OBVIOUS
    <2>1. IInv
      BY InitInv, AttemptsAssumption
    <2>2. Known = {NoToken} /\ NoToken.number = 0 /\ NoToken.user = 0
      BY DEF Init, Known, NoToken
    <2>3. MintInv
      BY <2>1, <2>2 DEF Init, MintInv, Made, IInv, AuthInv
    <2>4. NewsInv
      BY DEF Init, NewsInv
    <2>5. SuspectInv
      BY DEF Init, SuspectInv, Suspect
    <2>6. LatestInv /\ RejectedTokenIsReplaced
      BY DEF Init, LatestInv, RejectedTokenIsReplaced
    <2> QED
      BY <2>3, <2>4, <2>5, <2>6 DEF RInv, ForceInv
  <1>2. IInv /\ IInv' /\ RInv /\ [Next]_vars => RInv'
    <2> SUFFICES ASSUME IInv, AuthInv', MintInv, NewsInv, ForceInv, [Next]_vars
                 PROVE  RInv'
      BY DEF RInv, IInv
    <2>1. MintInv' /\ NewsInv'
      BY MintStep, NewsStep, AttemptsAssumption
    <2>2. LatestInv'
      BY LatestAuth, LatestOther, AttemptsAssumption
    <2>3. SuspectInv' /\ RejectedTokenIsReplaced'
      BY SuspectStep, RejectedStep, AttemptsAssumption
    <2> QED
      BY <2>1, <2>2, <2>3 DEF RInv, ForceInv
  <1>3. RInv => RejectedTokenIsReplaced
    BY DEF RInv, ForceInv
  <1> QED
    BY <1>1, <1>2, <1>3, Invariance, PTL DEF Spec
=============================================================================
