--------------------------- MODULE ConnectionAttempts --------------------------
(***************************************************************************)
(* How the database client gets connected, and as whom: FIRRetryHelper and *)
(* the states of FPersistentConnection, the token provider between it and  *)
(* Auth, and the part of Auth that keeps the user's token.                 *)
(*                                                                         *)
(* Three queues work on it: Auth's work queue, the main queue, and the     *)
(* queue of the database.  What Auth tells the client, a change of token or*)
(* the answer to a fetch, goes over the main queue, so it arrives in the   *)
(* order it was told.  Every sign-in is a user object of its own, numbered *)
(* from 1; 0 is nobody.  Delays are left out: a retry fires at any time.   *)
(* The server and the network are external.  goOffline and goOnline belong *)
(* to the client's interface, although the app does not call them.         *)
(***************************************************************************)
EXTENDS Naturals, Sequences

CONSTANT MaxEvents   \* bound: what users, network, server and time do unasked

ASSUME AttemptsAssumption == MaxEvents \in Nat

VARIABLES
    \* Auth
    signIns,        \* how many there were
    currentUser,
    minted,         \* the number of the newest token of each user object
    fetches,        \* the token fetches under way
    inbox,          \* what Auth told the client, on its way
    \* the client
    connectionState,
    interruptReasons,
    scheduledRetry, \* none, or whether it will force a new token
    forceAuthTokenRefresh,
    currentFetchTokenAttempt,
    authToken,
    sent,           \* credentials sent on this connection and not answered
    \* the server
    refused,        \* tokens it no longer accepts
    serverToken,    \* the token by which it knows whose this connection is
    \* history
    events,
    announced,      \* the user the client was last told of
    overtaken,      \* the connection was opened for somebody else than that
    rejected,       \* tokens whose refusal the client was told
    forcing,        \* the latest attempt forces a new token
    forceLost       \* a retry or a fetch that was to force one came to nothing

auth == <<signIns, currentUser, minted>>
client == <<connectionState, interruptReasons, scheduledRetry, forceAuthTokenRefresh,
            currentFetchTokenAttempt, authToken, sent>>
server == <<refused, serverToken>>
history == <<announced, overtaken, rejected, forcing, forceLost>>
vars == <<auth, fetches, inbox, client, server, events, history>>

Users == 0 .. MaxEvents + 1
NoToken == [user |-> 0, number |-> 0]
Token(u) == IF u = 0 THEN NoToken ELSE [user |-> u, number |-> minted[u]]
Changed(t) == [kind |-> "changed", attempt |-> 0, token |-> t]
Fetched(a, t) == [kind |-> "fetched", attempt |-> a, token |-> t]
FetchFailed(a) == [kind |-> "failed", attempt |-> a, token |-> NoToken]

Event == events < MaxEvents /\ events' = events + 1

connected == connectionState \in {"Authenticating", "Connected"}
shouldReconnect == interruptReasons = {}

Init ==
    /\ signIns \in {0, 1}
    /\ currentUser = signIns
    /\ minted = [u \in Users |-> IF u = signIns /\ u > 0 THEN 1 ELSE 0]
    /\ fetches = {}
    /\ inbox = <<>>
    /\ connectionState = "Disconnected"
    /\ interruptReasons = {"waiting_for_open"}
    /\ scheduledRetry = "none"
    /\ forceAuthTokenRefresh = FALSE
    /\ currentFetchTokenAttempt = 0
    /\ authToken = NoToken
    /\ sent = <<>>
    /\ refused = {}
    /\ serverToken = NoToken
    /\ events = 0
    /\ announced = currentUser
    /\ overtaken = FALSE
    /\ rejected = {}
    /\ forcing = FALSE
    /\ forceLost = FALSE

-----------------------------------------------------------------------------
(* Auth, on its work queue.  Whoever is signed in now and the token they   *)
(* have are told if that is a change, before what comes after.  Mutated    *)
(* form: only when somebody is signed in.                                  *)
TellSignedIn(after) ==
    inbox' = (IF Token(currentUser)' \in {Token(currentUser), NoToken} THEN inbox
              ELSE Append(inbox, Changed(Token(currentUser)'))) \o after
possiblyPostAuthStateChangeNotification(after) ==
    inbox' = (IF Token(currentUser)' = Token(currentUser) THEN inbox
              ELSE Append(inbox, Changed(Token(currentUser)'))) \o after

signIn ==
    /\ Event
    /\ signIns' = signIns + 1
    /\ currentUser' = signIns + 1
    /\ minted' = [minted EXCEPT ![signIns + 1] = 1]
    /\ possiblyPostAuthStateChangeNotification(<<>>)
    /\ UNCHANGED <<fetches, client, server, history>>

signOut ==
    /\ currentUser # 0 /\ Event
    /\ currentUser' = 0
    /\ UNCHANGED <<signIns, minted>>
    /\ possiblyPostAuthStateChangeNotification(<<>>)
    /\ UNCHANGED <<fetches, client, server, history>>

(* The token of the current user is about to expire: it is renewed without *)
(* being asked for (attempt 0).                                            *)
scheduleAutoTokenRefresh ==
    /\ currentUser # 0 /\ Event
    /\ fetches' = fetches \cup
           {[attempt |-> 0, forced |-> TRUE, user |-> currentUser, stage |-> "queued"]}
    /\ UNCHANGED <<auth, inbox, client, server, history>>

(* A fetch reaches the work queue: it goes to the queue of the user who is *)
(* signed in at that moment.                                               *)
getTokenForcingRefresh(f) ==
    /\ f.stage = "asked"
    /\ \/ /\ currentUser = 0
          /\ fetches' = fetches \ {f}
          /\ inbox' = Append(inbox, Fetched(f.attempt, NoToken))
       \/ /\ currentUser # 0
          /\ fetches' = (fetches \ {f}) \cup
                            {[f EXCEPT !.user = currentUser, !.stage = "queued"]}
          /\ UNCHANGED inbox
    /\ UNCHANGED <<auth, client, server, events, history>>

(* The tasks of one user object run one after the other.  Mutated form: as *)
(* soon as they come.                                                      *)
RunsAtOnce(f) == f.stage = "queued"
TaskMayRun(f) ==
    /\ f.stage = "queued"
    /\ \A g \in fetches : g.user = f.user =>
           /\ g.stage # "requested"
           /\ g.stage = "queued" /\ g.attempt > 0 => f.attempt <= g.attempt

(* Whether the cached token will do.  Mutated form: also when forced.      *)
CachedAlways(f) == TRUE
MayUseCached(f) == ~f.forced

(* The cached token is returned, or, if forced or it is too old, a new one *)
(* is requested.                                                           *)
fetchAccessTokenForcingRefresh(f) ==
    /\ TaskMayRun(f)
    /\ \/ /\ MayUseCached(f)
          /\ fetches' = fetches \ {f}
          /\ inbox' = IF f.attempt = 0 THEN inbox
                      ELSE Append(inbox, Fetched(f.attempt, Token(f.user)))
       \/ /\ fetches' = (fetches \ {f}) \cup {[f EXCEPT !.stage = "requested"]}
          /\ UNCHANGED inbox
    /\ UNCHANGED <<auth, client, server, events, history>>

(* A new token comes.  It is told if its user is still the current one, and*)
(* returned to whoever asked in any case.                                  *)
requestAccessToken(f) ==
    /\ f.stage = "requested"
    /\ fetches' = fetches \ {f}
    /\ minted' = [minted EXCEPT ![f.user] = @ + 1]
    /\ UNCHANGED <<signIns, currentUser>>
    /\ LET answer == IF f.attempt = 0 THEN <<>>
                     ELSE <<Fetched(f.attempt, Token(f.user)')>>
       IN  possiblyPostAuthStateChangeNotification(answer)
    /\ UNCHANGED <<client, server, events, history>>

(* None comes; if the user is no longer valid, they are signed out.        *)
requestFailed(f) ==
    /\ f.stage = "requested" /\ Event
    /\ fetches' = fetches \ {f}
    /\ UNCHANGED <<signIns, minted>>
    /\ currentUser' \in {currentUser} \cup {u \in {0} : f.user = currentUser}
    /\ possiblyPostAuthStateChangeNotification(
           IF f.attempt = 0 THEN <<>> ELSE <<FetchFailed(f.attempt)>>)
    /\ UNCHANGED <<client, server, history>>

-----------------------------------------------------------------------------
(* The client, on its queue.  A reconnect is scheduled in place of the one *)
(* that was, and takes the wish for a new token along.                     *)
tryScheduleReconnect(force) ==
    IF shouldReconnect'
    THEN /\ scheduledRetry' = IF force THEN "forced" ELSE "plain"
         /\ forceAuthTokenRefresh' = FALSE
    ELSE /\ forceAuthTokenRefresh' = force
         /\ UNCHANGED scheduledRetry

(* The retry fires: a token is asked for.                                  *)
retry ==
    /\ scheduledRetry # "none"
    /\ scheduledRetry' = "none"
    /\ connectionState' = "GettingToken"
    /\ currentFetchTokenAttempt' = currentFetchTokenAttempt + 1
    /\ forcing' = (scheduledRetry = "forced")
    /\ fetches' = fetches \cup
           {[attempt |-> currentFetchTokenAttempt + 1, forced |-> scheduledRetry = "forced",
             user |-> 0, stage |-> "asked"]}
    /\ UNCHANGED <<auth, inbox, interruptReasons, forceAuthTokenRefresh, authToken, sent,
                   server, events, announced, overtaken, rejected, forceLost>>

(* The answer to a fetch counts if it is the latest attempt.  Mutated form:*)
(* any answer counts.                                                      *)
AnyAttempt(a) == TRUE
LatestAttempt(a) == a = currentFetchTokenAttempt

(* A token, or none, was fetched.  The connection is opened, unless it was *)
(* interrupted meanwhile.                                                  *)
openNetworkConnectionWithToken ==
    /\ inbox # <<>> /\ Head(inbox).kind = "fetched"
    /\ inbox' = Tail(inbox)
    /\ LET t == Head(inbox).token
           wanted == LatestAttempt(Head(inbox).attempt) /\ connectionState = "GettingToken"
       IN  \/ /\ wanted
              /\ connectionState' = "Connecting"
              /\ authToken' = t
              /\ overtaken' = (t.user # announced)
              /\ forceLost' = (forceLost /\ t \in rejected)
           \/ ~wanted /\ UNCHANGED <<connectionState, authToken, overtaken, forceLost>>
    /\ UNCHANGED <<auth, fetches, interruptReasons, scheduledRetry, forceAuthTokenRefresh,
                   currentFetchTokenAttempt, sent, server, events, announced, rejected,
                   forcing>>

(* The fetch failed: try again, with what is wished for by now.  Mutated   *)
(* form: it is left at that.                                               *)
GiveUp == UNCHANGED <<scheduledRetry, forceAuthTokenRefresh>>
TryAgain == tryScheduleReconnect(forceAuthTokenRefresh)

fetchTokenFailed ==
    /\ inbox # <<>> /\ Head(inbox).kind = "failed"
    /\ inbox' = Tail(inbox)
    /\ UNCHANGED interruptReasons
    /\ \/ /\ LatestAttempt(Head(inbox).attempt)
          /\ connectionState' = "Disconnected"
          /\ TryAgain
          /\ forceLost' = (forceLost \/ forcing \/ scheduledRetry = "forced")
       \/ /\ ~LatestAttempt(Head(inbox).attempt)
          /\ UNCHANGED <<connectionState, scheduledRetry, forceAuthTokenRefresh, forceLost>>
    /\ UNCHANGED <<auth, fetches, currentFetchTokenAttempt, authToken, sent, server, events,
                   announced, overtaken, rejected, forcing>>

(* Auth's user or token has changed.  Mutated form: a connection that is   *)
(* still authenticating is not told.                                       *)
TellsOnceConnected == connectionState = "Connected"
TellsServer == connected

refreshAuthToken ==
    /\ inbox # <<>> /\ Head(inbox).kind = "changed"
    /\ inbox' = Tail(inbox)
    /\ authToken' = Head(inbox).token
    /\ sent' = IF TellsServer THEN Append(sent, Head(inbox).token) ELSE sent
    /\ announced' = Head(inbox).token.user
    /\ overtaken' = FALSE
    /\ UNCHANGED <<auth, fetches, connectionState, interruptReasons, scheduledRetry,
                   forceAuthTokenRefresh, currentFetchTokenAttempt, server, events, rejected,
                   forcing, forceLost>>

-----------------------------------------------------------------------------
(* The connection.                                                         *)
onReady ==
    /\ connectionState = "Connecting"
    /\ connectionState' = IF authToken = NoToken THEN "Connected" ELSE "Authenticating"
    /\ sent' = IF authToken = NoToken THEN <<>> ELSE <<authToken>>
    /\ UNCHANGED <<auth, fetches, inbox, interruptReasons, scheduledRetry,
                   forceAuthTokenRefresh, currentFetchTokenAttempt, authToken, server, events,
                   history>>

onDisconnect(force) ==
    /\ connectionState' = "Disconnected"
    /\ sent' = <<>>
    /\ serverToken' = NoToken
    /\ tryScheduleReconnect(force)

(* The server takes the next credentials; unauth, NoToken here, has no     *)
(* answer.                                                                 *)
AuthAnswered ==
    /\ sent # <<>> /\ Head(sent) \notin refused
    /\ sent' = Tail(sent)
    /\ serverToken' = Head(sent)
    /\ connectionState' = IF Head(sent) = NoToken THEN connectionState ELSE "Connected"
    /\ UNCHANGED <<auth, fetches, inbox, interruptReasons, scheduledRetry,
                   forceAuthTokenRefresh, currentFetchTokenAttempt, authToken, refused,
                   events, history>>

(* The client learns that a token is no longer accepted.  Mutated form: the*)
(* same token may be fetched again.                                        *)
CachedTokenWillDo == FALSE
NeedsNewToken == TRUE

TokenRejected(t) ==
    /\ authToken' = NoToken
    /\ rejected' = rejected \cup {t}
    /\ UNCHANGED interruptReasons
    /\ onDisconnect(NeedsNewToken)
    /\ UNCHANGED <<auth, fetches, inbox, currentFetchTokenAttempt, refused, events, announced,
                   overtaken, forcing, forceLost>>

AuthRejected == sent # <<>> /\ Head(sent) \in refused /\ TokenRejected(Head(sent))

onAuthRevokedWithStatus ==
    connected /\ serverToken \in refused /\ TokenRejected(serverToken)

(* The connection is lost, or could not be made.                           *)
ConnectionLost ==
    /\ connectionState = "Connecting" \/ connected
    /\ Event
    /\ UNCHANGED interruptReasons
    /\ onDisconnect(forceAuthTokenRefresh)
    /\ UNCHANGED <<auth, fetches, inbox, currentFetchTokenAttempt, authToken, refused, history>>

(* The newest token of somebody expires or is revoked.                     *)
TokenExpires ==
    /\ Event
    /\ \E u \in Users : minted[u] > 0 /\ refused' = refused \cup {Token(u)}
    /\ UNCHANGED <<auth, fetches, inbox, client, serverToken, history>>

(* Not to be connected, for one more reason.                               *)
interruptForReason(reason) ==
    /\ interruptReasons' = interruptReasons \cup {reason}
    /\ \/ /\ connectionState = "Connecting" \/ connected
          /\ onDisconnect(forceAuthTokenRefresh)
          /\ UNCHANGED forceLost
       \/ /\ connectionState \in {"Disconnected", "GettingToken"}
          /\ connectionState' = "Disconnected"
          /\ scheduledRetry' = "none"
          /\ forceLost' = (forceLost \/ scheduledRetry = "forced"
                           \/ (connectionState = "GettingToken" /\ forcing))
          /\ UNCHANGED <<sent, serverToken, forceAuthTokenRefresh>>
    /\ UNCHANGED <<auth, fetches, inbox, currentFetchTokenAttempt, authToken, refused,
                   announced, overtaken, rejected, forcing>>

resumeForReason(reason) ==
    /\ reason \in interruptReasons
    /\ interruptReasons' = interruptReasons \ {reason}
    /\ \/ shouldReconnect' /\ tryScheduleReconnect(forceAuthTokenRefresh)
       \/ ~shouldReconnect' /\ UNCHANGED <<scheduledRetry, forceAuthTokenRefresh>>
    /\ UNCHANGED <<auth, fetches, inbox, connectionState, currentFetchTokenAttempt, authToken,
                   sent, server, events, history>>

open == resumeForReason("waiting_for_open")
onKill == connected /\ Event /\ interruptForReason("server_kill")
goOffline == Event /\ interruptForReason("repo_interrupt")
goOnline == resumeForReason("repo_interrupt")

(* The network can be reached again, or the app comes to the front.        *)
enteringForeground ==
    /\ connectionState = "Disconnected" /\ shouldReconnect
    /\ Event
    /\ UNCHANGED interruptReasons
    /\ tryScheduleReconnect(forceAuthTokenRefresh)
    /\ forceLost' = (forceLost \/ scheduledRetry = "forced")
    /\ UNCHANGED <<auth, fetches, inbox, connectionState, currentFetchTokenAttempt, authToken,
                   sent, server, announced, overtaken, rejected, forcing>>

FetchStep(f) ==
    getTokenForcingRefresh(f) \/ fetchAccessTokenForcingRefresh(f) \/ requestAccessToken(f)

ClientStep ==
    \/ open \/ retry \/ openNetworkConnectionWithToken \/ fetchTokenFailed
    \/ refreshAuthToken \/ onReady \/ AuthAnswered \/ AuthRejected

Next ==
    \/ signIn \/ signOut \/ scheduleAutoTokenRefresh
    \/ \E f \in fetches : FetchStep(f) \/ requestFailed(f)
    \/ ClientStep
    \/ onAuthRevokedWithStatus \/ ConnectionLost \/ TokenExpires
    \/ onKill \/ goOffline \/ goOnline \/ enteringForeground

Spec == Init /\ [][Next]_vars

(* Every queue is worked off, retries fire, and the server answers.        *)
FairSpec == Spec /\ WF_vars(ClientStep) /\ WF_vars(\E f \in fetches : FetchStep(f))

-----------------------------------------------------------------------------
Tokens == [user : Users, number : Nat]

(* Every variable stays in its set, and of the tasks of one user at most   *)
(* one waits for the network.                                              *)
TypeOK ==
    /\ signIns \in Users /\ currentUser \in 0..signIns
    /\ minted \in [Users -> Nat]
    /\ fetches \subseteq [attempt : Nat, forced : BOOLEAN, user : Users,
                          stage : {"asked", "queued", "requested"}]
    /\ \A f, g \in fetches : f.user = g.user /\ f.stage = "requested" /\ g.stage = "requested"
                             => f = g
    /\ inbox \in Seq([kind : {"changed", "fetched", "failed"}, attempt : Nat, token : Tokens])
    /\ connectionState \in {"Disconnected", "GettingToken", "Connecting", "Authenticating",
                            "Connected"}
    /\ interruptReasons \subseteq {"waiting_for_open", "server_kill", "repo_interrupt"}
    /\ scheduledRetry \in {"none", "plain", "forced"}
    /\ forceAuthTokenRefresh \in BOOLEAN
    /\ currentFetchTokenAttempt \in Nat
    /\ authToken \in Tokens /\ serverToken \in Tokens
    /\ sent \in Seq(Tokens)
    /\ refused \subseteq Tokens /\ rejected \subseteq refused
    /\ events \in 0..MaxEvents
    /\ announced \in Users
    /\ overtaken \in BOOLEAN /\ forcing \in BOOLEAN /\ forceLost \in BOOLEAN

(* What the source asserts in four places: a retry is scheduled, and fires,*)
(* only in the disconnected state, a latest fetch is answered only in this *)
(* or the state that waits for it, and no attempt is made while there is a *)
(* reason not to.                                                          *)
AttemptsMeetTheirState ==
    /\ scheduledRetry # "none" => connectionState = "Disconnected" /\ shouldReconnect
    /\ connectionState # "Disconnected" => shouldReconnect
    /\ inbox # <<>> /\ Head(inbox).kind # "changed"
       /\ Head(inbox).attempt = currentFetchTokenAttempt =>
           connectionState \in {"Disconnected", "GettingToken"}

(* The client never ends up waiting for nothing: without a reason to stay  *)
(* away there is a retry scheduled, or the latest fetch is under way, or a *)
(* connection is.                                                          *)
Awaited(a) == \/ \E f \in fetches : f.attempt = a
              \/ \E i \in DOMAIN inbox : inbox[i].kind # "changed" /\ inbox[i].attempt = a
NeverIdle ==
    /\ connectionState = "Disconnected" /\ shouldReconnect => scheduledRetry # "none"
    /\ connectionState = "GettingToken" => Awaited(currentFetchTokenAttempt)

(* Once everything is delivered and answered, the server takes the         *)
(* connection for the user who is signed in, unless the connection was     *)
(* opened with a token fetched before a change of user and delivered after.*)
Quiet == connectionState = "Connected" /\ fetches = {} /\ inbox = <<>> /\ sent = <<>>
ServerKnowsUser == Quiet => serverToken.user = currentUser \/ overtaken

(* A connection is not opened with a token whose refusal the client was    *)
(* told of, unless the attempt to force a new one was replaced, cancelled  *)
(* or failed: then nothing remembers that it had to be forced.             *)
RejectedTokenIsReplaced ==
    connectionState = "Connecting" /\ authToken \in rejected => forceLost

(* As long as nothing keeps it away for good the client gets connected.    *)
KeepsConnecting ==
    <>[]shouldReconnect => []<>(connectionState = "Connected")
=============================================================================
