-------------------------- MODULE PersistentConnection ------------------------
(***************************************************************************)
(* FPersistentConnection, the part of the database client that keeps the   *)
(* app's listens and writes over lost connections.  A write is answered    *)
(* before or after the listens sent ahead of it; while a listen is         *)
(* unanswered the completions of answered writes are held back.            *)
(*                                                                         *)
(* How a connection is attempted is in ConnectionAttempts; here it opens   *)
(* with a token or with none.  Operations the app never calls are left     *)
(* out: transactions, onDisconnect writes, purging, going offline.         *)
(* A Listens element is one call of listen:, so that a query that is       *)
(* listened to again is another element, as it is another object there.    *)
(* External: the server takes the requests of a connection in the order    *)
(* they were sent and answers writes and credentials in that order, listens*)
(* whenever their data is there; what it had not taken is lost with the    *)
(* connection.                                                             *)
(***************************************************************************)
EXTENDS Naturals, Sequences, FiniteSets

CONSTANTS
    Listens,      \* calls of listen:
    Lasting,      \* those neither given up by the app nor refused
    MaxPuts,      \* bound: writes issued
    MaxLosses,    \* bound: connections lost
    MaxRefreshes  \* bound: tokens announced by Auth

ASSUME ConnectionAssumption ==
    /\ IsFiniteSet(Listens)
    /\ Lasting \subseteq Listens
    /\ MaxPuts \in Nat /\ MaxLosses \in Nat /\ MaxRefreshes \in Nat

VARIABLES
    connectionState,
    authToken,            \* there is one
    listens,              \* those wanted
    over,                 \* those no longer wanted
    putCounter,           \* how many writes were issued, numbered from 1
    outstandingPuts,      \* those not answered: the keys of a dictionary
    putsToAck,            \* those answered whose completion is held back
    unackedListensCount,
    \* the open connection
    listenRequests,       \* listens sent and not answered
    requests,             \* writes and credentials sent and not answered
    served,               \* how many of them the server has taken
    \* the server
    verdict,              \* what it last decided about each write
    applied,              \* the writes in the order it stored them
    \* history
    completed,            \* the completions that were called
    losses,
    refreshes

client == <<authToken, listens, over, putCounter, outstandingPuts, putsToAck>>
wire == <<listenRequests, requests, served>>
server == <<verdict, applied>>
vars == <<connectionState, client, unackedListensCount, wire, server, completed,
          losses, refreshes>>

connected == connectionState \in {"Authenticating", "Connected"}
canSendWrites == connectionState = "Connected"

PutRequest(p) == [kind |-> "put", put |-> p]
AuthRequest(kind) == [kind |-> kind, put |-> 0]
IsPut(r) == r.kind = "put"

Init ==
    /\ connectionState = "Disconnected"
    /\ authToken = FALSE
    /\ listens = Lasting
    /\ over = {}
    /\ putCounter = 0
    /\ outstandingPuts = {}
    /\ putsToAck = <<>>
    /\ unackedListensCount = 0
    /\ listenRequests = {}
    /\ requests = <<>>
    /\ served = 0
    /\ verdict = [p \in 1..MaxPuts |-> "none"]
    /\ applied = <<>>
    /\ completed = <<>>
    /\ losses = 0
    /\ refreshes = 0

-----------------------------------------------------------------------------
(* The keys in their order.                                                *)
Sorted(keys) ==
    [i \in 1..Cardinality(keys) |->
        CHOOSE p \in keys : Cardinality({q \in keys : q <= p}) = i]
Backwards(keys) ==
    [i \in 1..Cardinality(keys) |->
        CHOOSE p \in keys : Cardinality({q \in keys : q >= p}) = i]
Resent(keys) == [i \in DOMAIN keys |-> PutRequest(keys[i])]

(* Sending every listen and every open write again.  Mutated forms: the    *)
(* writes newest first; the writes only.                                   *)
NewestFirst(rest) ==
    /\ listenRequests' = listenRequests \cup (listens \X {"restored"})
    /\ unackedListensCount' = unackedListensCount + Cardinality(listens)
    /\ requests' = rest \o Resent(Backwards(outstandingPuts))
PutsOnly(rest) ==
    /\ requests' = rest \o Resent(Sorted(outstandingPuts))
    /\ UNCHANGED <<listenRequests, unackedListensCount>>
restoreState(rest) ==
    /\ listenRequests' = listenRequests \cup (listens \X {"restored"})
    /\ unackedListensCount' = unackedListensCount + Cardinality(listens)
    /\ requests' = rest \o Resent(Sorted(outstandingPuts))

(* The connection is gone, and with it what was on its way; the writes that*)
(* were not answered stay, the completions held back too.  Mutated forms:  *)
(* the listens that were on their way still count; their callbacks stay.   *)
CallbacksKept ==
    /\ connectionState' = "Disconnected"
    /\ requests' = <<>> /\ served' = 0
    /\ unackedListensCount' = 0
    /\ UNCHANGED listenRequests
CountKept ==
    /\ connectionState' = "Disconnected"
    /\ listenRequests' = {} /\ requests' = <<>> /\ served' = 0
    /\ UNCHANGED unackedListensCount
onDisconnect ==
    /\ connectionState' = "Disconnected"
    /\ listenRequests' = {} /\ requests' = <<>> /\ served' = 0
    /\ unackedListensCount' = 0

(* The listens of S are wanted, and sent if there is a connection.         *)
sendListens(S, on) == IF on THEN S \X {"listen"} ELSE {}
Unwanted == Listens \ (listens \cup over)

(* Calling the completions held back.  Mutated form: they are dropped.     *)
Dropped == completed
ackPuts == completed \o putsToAck

-----------------------------------------------------------------------------
(* The app, through the synchronised tree.                                 *)
listen(l) ==
    /\ l \in Unwanted
    /\ listens' = listens \cup {l}
    /\ listenRequests' = listenRequests \cup sendListens({l}, connected)
    /\ unackedListensCount' = IF connected THEN unackedListensCount + 1
                              ELSE unackedListensCount
    /\ UNCHANGED <<connectionState, authToken, over, putCounter, outstandingPuts,
                   putsToAck, requests, served, server, completed, losses, refreshes>>

(* The app gives a listen up, or the server takes it back (onListenRevoked)*)
removeListen(l) ==
    /\ l \in listens \ Lasting
    /\ listens' = listens \ {l}
    /\ over' = over \cup {l}
    /\ UNCHANGED <<connectionState, authToken, putCounter, outstandingPuts, putsToAck,
                   unackedListensCount, wire, server, completed, losses, refreshes>>

(* A write.  Mutated form: sent as soon as there is a connection.          *)
SendsWhenConnected == connected
SendsNow == canSendWrites

putInternal ==
    /\ putCounter < MaxPuts
    /\ putCounter' = putCounter + 1
    /\ outstandingPuts' = outstandingPuts \cup {putCounter + 1}
    /\ requests' = IF SendsNow THEN Append(requests, PutRequest(putCounter + 1))
                   ELSE requests
    /\ UNCHANGED <<connectionState, authToken, listens, over, putsToAck,
                   unackedListensCount, listenRequests, served, server, completed,
                   losses, refreshes>>

(* Auth announces a token, or that there is none.                          *)
refreshAuthToken ==
    /\ refreshes < MaxRefreshes
    /\ refreshes' = refreshes + 1
    /\ authToken' \in BOOLEAN
    /\ requests' = IF connected /\ authToken' THEN Append(requests, AuthRequest("refresh"))
                   ELSE requests
    /\ UNCHANGED <<connectionState, listens, over, putCounter, outstandingPuts, putsToAck,
                   unackedListensCount, listenRequests, served, server, completed, losses>>

-----------------------------------------------------------------------------
(* A connection is opened with the token that was fetched.                 *)
openNetworkConnectionWithToken ==
    /\ connectionState = "Disconnected"
    /\ connectionState' = "Connecting"
    /\ authToken' \in BOOLEAN
    /\ UNCHANGED <<listens, over, putCounter, outstandingPuts, putsToAck,
                   unackedListensCount, wire, server, completed, losses, refreshes>>

(* The handshake is done: credentials first, if there are any.             *)
onReady ==
    /\ connectionState = "Connecting"
    /\ \/ /\ authToken
          /\ connectionState' = "Authenticating"
          /\ requests' = <<AuthRequest("restore")>>
          /\ UNCHANGED <<listenRequests, unackedListensCount>>
       \/ /\ ~authToken
          /\ connectionState' = "Connected"
          /\ restoreState(<<>>)
    /\ UNCHANGED <<client, served, server, completed, losses, refreshes>>

(* The server takes the next request; a write it stores or refuses.        *)
ServerTakesNext ==
    /\ served < Len(requests)
    /\ served' = served + 1
    /\ LET r == requests[served + 1]
       IN  \/ ~IsPut(r) /\ UNCHANGED server
           \/ /\ IsPut(r)
              /\ verdict' = [verdict EXCEPT ![r.put] = "ok"]
              /\ applied' = Append(applied, r.put)
           \/ /\ IsPut(r)
              /\ verdict' = [verdict EXCEPT ![r.put] = "error"]
              /\ UNCHANGED applied
    /\ UNCHANGED <<connectionState, client, unackedListensCount, listenRequests, requests,
                   completed, losses, refreshes>>

(* The credentials are accepted.                                           *)
AuthAnswered ==
    /\ served > 0 /\ ~IsPut(Head(requests))
    /\ connectionState' = "Connected"
    /\ served' = served - 1
    /\ \/ Head(requests).kind = "restore" /\ restoreState(Tail(requests))
       \/ /\ Head(requests).kind = "refresh"
          /\ requests' = Tail(requests)
          /\ UNCHANGED <<listenRequests, unackedListensCount>>
    /\ UNCHANGED <<client, server, completed, losses, refreshes>>

(* They are rejected, or revoked: the connection is closed.                *)
onAuthRevokedWithStatus ==
    /\ connected
    /\ losses < MaxLosses
    /\ losses' = losses + 1
    /\ authToken' = FALSE
    /\ onDisconnect
    /\ UNCHANGED <<listens, over, putCounter, outstandingPuts, putsToAck, server, completed,
                   refreshes>>

(* Whether the completion of an answered write is called at once.          *)
CompletesNow == unackedListensCount = 0

(* The answer to a write.                                                  *)
PutAnswered ==
    /\ served > 0 /\ IsPut(Head(requests))
    /\ requests' = Tail(requests)
    /\ served' = served - 1
    /\ LET p == Head(requests).put
           answer == [put |-> p, status |-> verdict[p]]
       IN  /\ outstandingPuts' = outstandingPuts \ {p}
           /\ \/ /\ CompletesNow
                 /\ completed' = Append(completed, answer)
                 /\ UNCHANGED putsToAck
              \/ /\ ~CompletesNow
                 /\ putsToAck' = Append(putsToAck, answer)
                 /\ UNCHANGED completed
    /\ UNCHANGED <<connectionState, authToken, listens, over, putCounter,
                   unackedListensCount, listenRequests, server, losses, refreshes>>

(* The answer to a listen.  If it is refused, and still wanted, the tree   *)
(* listens to the queries below that it had covered.  The last answer that *)
(* is awaited lets the completions go.                                     *)
ListenAnswered(r) ==
    /\ r \in listenRequests
    /\ \E below \in SUBSET Unwanted :
          /\ \/ below = {} /\ UNCHANGED <<listens, over>>
             \/ /\ r[1] \in listens \ Lasting
                /\ listens' = (listens \ {r[1]}) \cup below
                /\ over' = over \cup {r[1]}
          /\ listenRequests' = (listenRequests \ {r}) \cup sendListens(below, connected)
          /\ unackedListensCount' = unackedListensCount + Cardinality(below) - 1
    /\ \/ /\ unackedListensCount' = 0
          /\ completed' = ackPuts
          /\ putsToAck' = <<>>
       \/ /\ unackedListensCount' # 0
          /\ UNCHANGED <<completed, putsToAck>>
    /\ UNCHANGED <<connectionState, authToken, putCounter, outstandingPuts, requests,
                   served, server, losses, refreshes>>

(* The connection is lost, or could not be made.                           *)
ConnectionLost ==
    /\ connectionState # "Disconnected"
    /\ losses < MaxLosses
    /\ losses' = losses + 1
    /\ onDisconnect
    /\ UNCHANGED <<client, server, completed, refreshes>>

Next ==
    \/ \E l \in Listens : listen(l) \/ removeListen(l)
    \/ putInternal \/ refreshAuthToken
    \/ openNetworkConnectionWithToken \/ onReady
    \/ ServerTakesNext \/ AuthAnswered \/ onAuthRevokedWithStatus
    \/ PutAnswered
    \/ \E r \in listenRequests : ListenAnswered(r)
    \/ ConnectionLost

(* The client keeps reconnecting, and the server answers what it was sent. *)
Fairness ==
    /\ WF_vars(openNetworkConnectionWithToken) /\ WF_vars(onReady)
    /\ WF_vars(ServerTakesNext)
    /\ WF_vars(AuthAnswered) /\ WF_vars(PutAnswered)
    /\ WF_vars(\E r \in listenRequests : ListenAnswered(r))

Spec == Init /\ [][Next]_vars
FairSpec == Spec /\ Fairness

-----------------------------------------------------------------------------
Puts == 1..MaxPuts
Statuses == {"ok", "error"}
Answers == [put : Puts, status : Statuses]

(* Every variable stays in its set.                                        *)
TypeOK ==
    /\ connectionState \in {"Disconnected", "Connecting", "Authenticating", "Connected"}
    /\ authToken \in BOOLEAN
    /\ listens \subseteq Listens /\ over \subseteq Listens
    /\ putCounter \in 0..MaxPuts
    /\ outstandingPuts \subseteq Puts
    /\ putsToAck \in Seq(Answers)
    /\ unackedListensCount \in Nat
    /\ listenRequests \subseteq Listens \X {"listen", "restored"}
    /\ requests \in Seq([kind : {"put", "restore", "refresh"}, put : 0..MaxPuts])
    /\ served \in 0..Len(requests)
    /\ verdict \in [Puts -> {"none"} \cup Statuses]
    /\ applied \in Seq(Puts)
    /\ completed \in Seq(Answers)
    /\ losses \in 0..MaxLosses /\ refreshes \in 0..MaxRefreshes

(* The counter that decides whether completions are held counts exactly    *)
(* the listens whose answer can still arrive, over lost connections,       *)
(* listens sent twice and listens given up: it never wraps below zero and  *)
(* never holds completions for an answer that cannot come.                 *)
CountMatchesRequests == unackedListensCount = Cardinality(listenRequests)

(* On one connection every open write is sent once, oldest first, whether  *)
(* restoreState or putInternal sent it and however often the token changes *)
EachPutIsSentOnce ==
    LET sent == {i \in DOMAIN requests : IsPut(requests[i])}
    IN  /\ {requests[i].put : i \in sent} = IF canSendWrites THEN outstandingPuts ELSE {}
        /\ \A i, j \in sent : i < j => requests[i].put < requests[j].put

(* As long as there is a listen that lasts, the completions are called in  *)
(* the order of the writes, each once, also those held back while the      *)
(* connection was lost.                                                    *)
CompletionsInOrder ==
    Lasting # {} => \A i \in DOMAIN completed : completed[i].put = i

(* The abstract pipe: a write is settled when it leaves outstandingPuts.   *)
Pipe == INSTANCE WritePipe WITH
    issued <- putCounter,
    settled <- putCounter - Cardinality(outstandingPuts),
    results <- [i \in DOMAIN completed |-> completed[i].status]

(* With a lasting listen the client keeps the promise of WritePipe: no     *)
(* write is stored after a later one is settled, and the completions tell  *)
(* the settled verdicts in order.                                          *)
ImplementsWritePipe == Pipe!Spec

(* Every write is completed in the end, if connections stop being lost.    *)
EveryPutCompletes ==
    \A p \in Puts : putCounter >= p ~> \E i \in DOMAIN completed : completed[i].put = p
=============================================================================
