---------------------- MODULE PersistentConnectionProofs ----------------------
(* Proofs about PersistentConnection, for any listens and bounds.           *)
EXTENDS PersistentConnection, FiniteSetTheorems, TLAPS

Requests == [kind : {"put", "restore", "refresh"}, put : 0..MaxPuts]

(* How many writes were answered; they leave outstandingPuts in order.      *)
Answered == Len(completed) + Len(putsToAck)

\* The writes that are open are the youngest.
PutsInv ==
    /\ putCounter \in 0..MaxPuts
    /\ putsToAck \in Seq(Answers) /\ completed \in Seq(Answers)
    /\ Answered <= putCounter
    /\ outstandingPuts = Answered + 1 .. putCounter

\* What is on the wire: credentials to restore with are alone in front while
\* authenticating, open writes are there in order, all of them, once connected.
WireInv ==
    /\ connectionState \in {"Disconnected", "Connecting", "Authenticating", "Connected"}
    /\ requests \in Seq(Requests)
    /\ served \in 0..Len(requests)
    /\ ~connected => requests = <<>>
    /\ connectionState = "Authenticating" => requests # <<>> /\ requests[1].kind = "restore"
    /\ \A i \in 1..Len(requests) :
         requests[i].kind = "restore" => i = 1 /\ connectionState = "Authenticating"
    /\ \A i \in 1..Len(requests) :
         IsPut(requests[i]) => canSendWrites /\ requests[i].put \in outstandingPuts
    /\ \A i, j \in 1..Len(requests) :
         IsPut(requests[i]) /\ IsPut(requests[j]) /\ i < j => requests[i].put < requests[j].put
    /\ canSendWrites => \A p \in outstandingPuts :
         \E i \in 1..Len(requests) : requests[i].kind = "put" /\ requests[i].put = p

\* A listen is sent once on a connection, once more when its state is restored.
ListenInv ==
    /\ listens \subseteq Listens /\ over \subseteq Listens /\ Lasting \subseteq listens
    /\ listenRequests \subseteq Listens \X {"listen", "restored"}
    /\ ~connected => listenRequests = {}
    /\ \A r \in listenRequests : r[1] \in listens \cup over
    /\ ~canSendWrites => \A r \in listenRequests : r[2] = "listen"
    /\ unackedListensCount = Cardinality(listenRequests)

\* The server has decided every write that is answered, or is about to be.
VerdictInv ==
    /\ verdict \in [Puts -> {"none"} \cup Statuses]
    /\ \A p \in 1..Answered : verdict[p] \in Statuses
    /\ \A i \in 1..served : IsPut(requests[i]) => verdict[requests[i].put] \in Statuses

\* With a listen that lasts, nothing is held back without a listen to wait for,
\* and what was held back follows what was completed.
AckInv ==
    Lasting # {} =>
        /\ canSendWrites /\ putsToAck # <<>> => listenRequests # {}
        /\ \A i \in 1..Len(completed) : completed[i].put = i
        /\ \A i \in 1..Len(putsToAck) :
             /\ putsToAck[i].put = Len(completed) + i
             /\ putsToAck[i].status = verdict[Len(completed) + i]

RestInv ==
    /\ authToken \in BOOLEAN
    /\ applied \in Seq(Puts)
    /\ losses \in 0..MaxLosses /\ refreshes \in 0..MaxRefreshes

IInv == PutsInv /\ WireInv /\ ListenInv /\ VerdictInv /\ AckInv /\ RestInv

-----------------------------------------------------------------------------
(* The sequences of the client: a request sent last,                       *)
LEMMA Appended ==
    ASSUME NEW S, NEW s \in Seq(S), NEW e \in S
    PROVE  /\ Append(s, e) \in Seq(S)
           /\ Len(s) \in Nat /\ Len(Append(s, e)) = Len(s) + 1
           /\ \A i \in 1..Len(s) : Append(s, e)[i] = s[i]
           /\ Append(s, e)[Len(s) + 1] = e
           /\ 1..Len(Append(s, e)) = 1..Len(s) \cup {Len(s) + 1}
  OBVIOUS

(* one answered first,                                                     *)
LEMMA Shortened ==
    ASSUME NEW S, NEW s \in Seq(S), s # <<>>
    PROVE  /\ Tail(s) \in Seq(S) /\ Head(s) = s[1] /\ s[1] \in S
           /\ Len(s) \in Nat \ {0} /\ Len(Tail(s)) = Len(s) - 1
           /\ \A i \in 1..Len(Tail(s)) : Tail(s)[i] = s[i + 1] /\ i + 1 \in 1..Len(s)
  OBVIOUS

(* and the completions that were held back behind the others.              *)
LEMMA Joined ==
    ASSUME NEW S, NEW s \in Seq(S), NEW t \in Seq(S)
    PROVE  /\ s \o t \in Seq(S)
           /\ Len(s) \in Nat /\ Len(t) \in Nat /\ Len(s \o t) = Len(s) + Len(t)
           /\ \A i \in 1..Len(s \o t) :
                (s \o t)[i] = IF i <= Len(s) THEN s[i] ELSE t[i - Len(s)]
  OBVIOUS

(* The keys of a dictionary with the numbers a + 1 to b, in order.          *)
LEMMA SortedInterval ==
    ASSUME NEW a \in Nat, NEW b \in Nat, a <= b
    PROVE  /\ Cardinality(a + 1 .. b) = b - a
           /\ Sorted(a + 1 .. b) = [i \in 1..(b - a) |-> a + i]
  <1>1. Cardinality(a + 1 .. b) = b - a
    <2>1. a + 1 \in Int /\ b \in Int
      OBVIOUS
    <2>2. Cardinality(a + 1 .. b) = IF a + 1 > b THEN 0 ELSE b - (a + 1) + 1
      BY <2>1, FS_Interval
    <2> QED
      BY <2>2
  <1>2. ASSUME NEW i \in 1..(b - a)
        PROVE  (CHOOSE p \in a + 1 .. b : Cardinality({q \in a + 1 .. b : q <= p}) = i) = a + i
    <2>1. ASSUME NEW p \in a + 1 .. b
          PROVE  Cardinality({q \in a + 1 .. b : q <= p}) = p - a
      <3>1. {q \in a + 1 .. b : q <= p} = a + 1 .. p
        OBVIOUS
      <3>2. a + 1 \in Int /\ p \in Int /\ ~(a + 1 > p)
        OBVIOUS
      <3>3. Cardinality(a + 1 .. p) = IF a + 1 > p THEN 0 ELSE p - (a + 1) + 1
        BY <3>2, FS_Interval
      <3>4. Cardinality({q \in a + 1 .. b : q <= p}) = Cardinality(a + 1 .. p)
        BY <3>1, Zenon
      <3>5. Cardinality(a + 1 .. p) = p - a
        BY <3>2, <3>3
      <3> QED
        BY <3>4, <3>5, Zenon
    <2>2. a + i \in a + 1 .. b
      OBVIOUS
    <2>3. \A p \in a + 1 .. b : Cardinality({q \in a + 1 .. b : q <= p}) = i <=> p = a + i
      BY <2>1
    <2> QED
      BY <2>2, <2>3
  <1> QED
    BY <1>1, <1>2 DEF Sorted

\* What restoreState sends: behind the credentials, the open writes, oldest
\* first, each once.
Restored(rest, r) ==
    /\ r \in Seq(Requests) /\ Len(rest) <= Len(r)
    /\ \A i \in 1..Len(rest) : r[i] = rest[i]
    /\ \A i \in 1..Len(r) :
         r[i].kind # "restore" /\ (IsPut(r[i]) => r[i].put \in outstandingPuts)
    /\ \A i, j \in 1..Len(r) :
         IsPut(r[i]) /\ IsPut(r[j]) /\ i < j => r[i].put < r[j].put
    /\ \A p \in outstandingPuts :
         \E i \in 1..Len(r) : r[i].kind = "put" /\ r[i].put = p

(* restoreState sends just that.                                            *)
LEMMA RestoredRequests ==
    ASSUME PutsInv, ConnectionAssumption, NEW rest \in Seq(Requests),
           \A i \in 1..Len(rest) : rest[i].kind = "refresh"
    PROVE  Restored(rest, rest \o Resent(Sorted(outstandingPuts)))
  <1> DEFINE t == Resent(Sorted(outstandingPuts))
             r == rest \o t
             a == Answered
             n == putCounter - a
  <1>1. a \in Nat /\ n \in Nat /\ a + n = putCounter /\ putCounter \in 0..MaxPuts
    BY DEF PutsInv, Answered, ConnectionAssumption
  <1>2. outstandingPuts = a + 1 .. putCounter /\ a <= putCounter /\ putCounter \in Nat
    BY <1>1, ConnectionAssumption DEF PutsInv
  <1>3. t = [i \in 1..n |-> PutRequest(a + i)]
    <2> HIDE DEF a
    <2>1. Sorted(outstandingPuts) = [i \in 1..n |-> a + i]
      BY <1>1, <1>2, SortedInterval
    <2> QED
      BY <2>1 DEF Resent
  <1>4. \A i \in 1..n : PutRequest(a + i) \in Requests
    BY <1>1, ConnectionAssumption DEF PutRequest, Requests
  <1> HIDE DEF a, n
  <1>5. t \in Seq(Requests) /\ Len(t) = n
    BY <1>1, <1>3, <1>4
  <1>6. \A i \in 1..n : t[i].kind = "put" /\ t[i].put = a + i
    BY <1>3 DEF PutRequest
  <1> HIDE DEF t
  <1>7. /\ r \in Seq(Requests) /\ Len(rest) \in Nat /\ Len(r) = Len(rest) + n
        /\ \A i \in 1..Len(r) : r[i] = IF i <= Len(rest) THEN rest[i] ELSE t[i - Len(rest)]
    BY <1>5, Joined
  <1> HIDE DEF r
  <1>8. /\ \A i \in 1..Len(rest) : r[i] = rest[i] /\ r[i].kind = "refresh"
        /\ \A i \in 1..Len(r) : i \in 1..Len(rest) \/ i - Len(rest) \in 1..n
        /\ \A i \in 1..Len(r) : i - Len(rest) \in 1..n =>
             r[i].kind = "put" /\ r[i].put = a + (i - Len(rest))
    <2>1. ASSUME NEW i \in 1..Len(r), i <= Len(rest)
          PROVE  r[i] = rest[i]
      BY <1>7, <2>1
    <2>2. ASSUME NEW i \in 1..Len(r), ~(i <= Len(rest))
          PROVE  /\ i - Len(rest) \in 1..n
                 /\ r[i].kind = "put" /\ r[i].put = a + (i - Len(rest))
      <3>1. i - Len(rest) \in 1..n /\ r[i] = t[i - Len(rest)]
        BY <1>1, <1>7, <2>2
      <3> QED
        BY <1>6, <3>1
    <2>3. \A i \in 1..Len(rest) : i \in 1..Len(r) /\ i <= Len(rest)
      BY <1>1, <1>7
    <2>4. \A i \in 1..Len(r) :
            /\ i \in 1..Len(rest) \/ i - Len(rest) \in 1..n
            /\ i - Len(rest) \in 1..n => ~(i <= Len(rest))
      BY <1>1, <1>7
    <2> QED
      BY <2>1, <2>2, <2>3, <2>4
  <1>9. outstandingPuts = a + 1 .. a + n
    BY <1>1, <1>2
  <1>10. \A i \in 1..Len(r) : IsPut(r[i]) => i - Len(rest) \in 1..n
    BY <1>8 DEF IsPut
  <1>11. \A i \in 1..Len(r) :
           r[i].kind # "restore" /\ (IsPut(r[i]) => r[i].put \in outstandingPuts)
    BY <1>1, <1>8, <1>9, <1>10
  <1>12. \A i, j \in 1..Len(r) : IsPut(r[i]) /\ IsPut(r[j]) /\ i < j => r[i].put < r[j].put
    BY <1>1, <1>7, <1>8, <1>10
  <1>13. ASSUME NEW p \in outstandingPuts
         PROVE  \E i \in 1..Len(r) : r[i].kind = "put" /\ r[i].put = p
    <2> DEFINE k == Len(rest) + (p - a)
    <2>1. k \in 1..Len(r) /\ k - Len(rest) \in 1..n /\ a + (k - Len(rest)) = p
      BY <1>1, <1>7, <1>9
    <2> HIDE DEF k
    <2>2. r[k].kind = "put" /\ r[k].put = p
      BY <1>8, <2>1
    <2> QED
      BY <2>1, <2>2
  <1> QED
    <2>1. Restored(rest, r)
      BY <1>1, <1>7, <1>8, <1>11, <1>12, <1>13 DEF Restored
    <2> QED
      BY <2>1 DEF r, t

(* Answers come in the order of the requests, and the oldest open write is  *)
(* the first of those.                                                      *)
LEMMA HeadIsOldest ==
    ASSUME ConnectionAssumption, PutsInv, WireInv, served > 0, IsPut(Head(requests))
    PROVE  /\ canSendWrites /\ requests # <<>> /\ Head(requests) = requests[1]
           /\ 1 \in 1..served
           /\ Head(requests).put = Answered + 1
           /\ Answered + 1 <= putCounter /\ Answered + 1 \in Puts
           /\ outstandingPuts \ {Answered + 1} = Answered + 2 .. putCounter
  <1>1. /\ requests # <<>> /\ Head(requests) = requests[1]
        /\ Len(requests) \in Nat /\ 1 \in 1..Len(requests) /\ 1 \in 1..served
    BY Shortened DEF WireInv
  <1>2. canSendWrites /\ requests[1].put \in outstandingPuts
    BY <1>1 DEF WireInv
  <1>3. /\ Answered \in Nat /\ outstandingPuts = Answered + 1 .. putCounter
        /\ putCounter \in 0..MaxPuts /\ MaxPuts \in Nat
    BY DEF PutsInv, Answered, ConnectionAssumption
  <1> HIDE DEF Answered
  <1>4. Answered + 1 \in outstandingPuts /\ Answered + 1 <= putCounter
    BY <1>2, <1>3
  <1>5. requests[1].put = Answered + 1
    <2>1. PICK i \in 1..Len(requests) :
            requests[i].kind = "put" /\ requests[i].put = Answered + 1
      BY <1>2, <1>4 DEF WireInv
    <2>2. i = 1 \/ 1 < i
      OBVIOUS
    <2>3. 1 < i => requests[1].put < requests[i].put
      BY <1>1, <2>1 DEF WireInv, IsPut
    <2>4. requests[1].put >= Answered + 1
      BY <1>2, <1>3
    <2> QED
      BY <1>2, <1>3, <2>1, <2>2, <2>3, <2>4
  <1>6. Answered + 1 \in Puts
    BY <1>3, <1>4 DEF Puts
  <1>7. outstandingPuts \ {Answered + 1} = Answered + 2 .. putCounter
    BY <1>3
  <1> QED
    BY <1>1, <1>2, <1>4, <1>5, <1>6, <1>7

-----------------------------------------------------------------------------
(* The answer to a put settles the oldest open write, and completes it or   *)
(* holds its completion back.                                               *)
LEMMA OldestIsSettled ==
    ASSUME ConnectionAssumption, PutsInv, WireInv, VerdictInv, PutAnswered
    PROVE  LET answer == [put |-> Answered + 1, status |-> verdict[Answered + 1]] IN
           /\ \/ CompletesNow /\ completed' = Append(completed, answer) /\ putsToAck' = putsToAck
              \/ ~CompletesNow /\ putsToAck' = Append(putsToAck, answer) /\ completed' = completed
           /\ answer \in Answers /\ verdict[Answered + 1] \in Statuses
           /\ putsToAck' \in Seq(Answers) /\ completed' \in Seq(Answers)
           /\ Answered \in Nat /\ Answered' = Answered + 1 /\ Answered + 1 <= putCounter
           /\ outstandingPuts' = Answered + 2 .. putCounter /\ putCounter' = putCounter
  <1> DEFINE answer == [put |-> Answered + 1, status |-> verdict[Answered + 1]]
  <1>1. /\ Answered + 1 \in Puts /\ Answered + 1 <= putCounter
        /\ Head(requests).put = Answered + 1
        /\ outstandingPuts \ {Answered + 1} = Answered + 2 .. putCounter
        /\ 1 \in 1..served /\ Head(requests) = requests[1] /\ IsPut(requests[1])
    BY HeadIsOldest DEF PutAnswered
  <1>2. verdict[Answered + 1] \in Statuses
    BY <1>1 DEF VerdictInv
  <1>3. answer \in Answers
    BY <1>1, <1>2 DEF Answers
  <1>4. /\ outstandingPuts' = outstandingPuts \ {Answered + 1}
        /\ putCounter' = putCounter
        /\ \/ CompletesNow /\ completed' = Append(completed, answer) /\ putsToAck' = putsToAck
           \/ ~CompletesNow /\ putsToAck' = Append(putsToAck, answer) /\ completed' = completed
    BY <1>1 DEF PutAnswered
  <1> HIDE DEF answer
  <1>5. /\ Append(completed, answer) \in Seq(Answers)
        /\ Append(putsToAck, answer) \in Seq(Answers)
        /\ completed \in Seq(Answers) /\ putsToAck \in Seq(Answers)
        /\ Len(Append(completed, answer)) = Len(completed) + 1
        /\ Len(Append(putsToAck, answer)) = Len(putsToAck) + 1
        /\ Len(completed) \in Nat /\ Len(putsToAck) \in Nat
    BY <1>3, Appended DEF PutsInv
  <1>6. /\ putsToAck' \in Seq(Answers) /\ completed' \in Seq(Answers)
        /\ Answered' = Answered + 1 /\ Answered \in Nat
    <2>1. CASE completed' = Append(completed, answer) /\ putsToAck' = putsToAck
      BY <1>5, <2>1 DEF Answered
    <2>2. CASE putsToAck' = Append(putsToAck, answer) /\ completed' = completed
      BY <1>5, <2>2 DEF Answered
    <2> QED
      BY <1>4, <2>1, <2>2
  <1>7. outstandingPuts' = Answered + 2 .. putCounter
    BY <1>1, <1>4
  <1> QED
    BY <1>1, <1>2, <1>3, <1>4, <1>6, <1>7, Zenon DEF answer

(* The answer to a listen changes what is held back and what is completed,  *)
(* not what is answered.                                                    *)
LEMMA HeldAreCompleted ==
    ASSUME PutsInv, NEW r \in listenRequests, ListenAnswered(r)
    PROVE  /\ \/ completed' = completed \o putsToAck /\ putsToAck' = <<>>
                /\ unackedListensCount' = 0
              \/ completed' = completed /\ putsToAck' = putsToAck
                /\ unackedListensCount' # 0
           /\ putsToAck' \in Seq(Answers) /\ completed' \in Seq(Answers)
           /\ Answered' = Answered
           /\ UNCHANGED <<putCounter, outstandingPuts, verdict, requests, served>>
  <1>1. /\ \/ completed' = completed \o putsToAck /\ putsToAck' = <<>>
             /\ unackedListensCount' = 0
           \/ completed' = completed /\ putsToAck' = putsToAck
             /\ unackedListensCount' # 0
        /\ UNCHANGED <<putCounter, outstandingPuts, verdict, requests, served>>
    BY DEF ListenAnswered, ackPuts, server
  <1>2. CASE completed' = completed \o putsToAck /\ putsToAck' = <<>>
    <2>1. /\ completed' \in Seq(Answers)
          /\ Len(completed') = Len(completed) + Len(putsToAck)
      BY <1>2, Joined DEF PutsInv
    <2>2. putsToAck' \in Seq(Answers) /\ Len(putsToAck') = 0
      BY <1>2
    <2>3. Len(completed) \in Nat /\ Len(putsToAck) \in Nat
      BY DEF PutsInv
    <2> QED
      BY <1>1, <2>1, <2>2, <2>3 DEF Answered
  <1>3. CASE completed' = completed /\ putsToAck' = putsToAck
    BY <1>1, <1>3 DEF PutsInv, Answered
  <1> QED
    BY <1>1, <1>2, <1>3

-----------------------------------------------------------------------------
(* putInternal numbers the writes, and each answer takes the oldest out.    *)
LEMMA PutsStep ==
    ASSUME ConnectionAssumption, PutsInv, WireInv, VerdictInv, [Next]_vars
    PROVE  PutsInv'
  <1>1. ASSUME UNCHANGED <<putCounter, outstandingPuts, putsToAck, completed>>
        PROVE  PutsInv'
    BY <1>1 DEF PutsInv, Answered
  <1>2. CASE putInternal
    <2>1. Answered \in Nat /\ putCounter \in 0..MaxPuts /\ MaxPuts \in Nat
      BY DEF PutsInv, Answered, ConnectionAssumption
    <2>2. Answered' = Answered
      BY <1>2 DEF putInternal, Answered
    <2>3. /\ Answered <= putCounter /\ outstandingPuts = Answered + 1 .. putCounter
          /\ putCounter' = putCounter + 1 /\ putCounter < MaxPuts
          /\ outstandingPuts' = outstandingPuts \cup {putCounter + 1}
      BY <1>2 DEF PutsInv, putInternal
    <2>4. /\ putCounter' \in 0..MaxPuts /\ Answered' <= putCounter'
          /\ outstandingPuts' = Answered' + 1 .. putCounter'
      <3> HIDE DEF Answered
      <3> QED
        BY <2>1, <2>2, <2>3
    <2>5. putsToAck' = putsToAck /\ completed' = completed
      BY <1>2 DEF putInternal
    <2> QED
      BY <2>4, <2>5 DEF PutsInv
  <1>3. CASE PutAnswered
    <2>1. /\ putsToAck' \in Seq(Answers) /\ completed' \in Seq(Answers)
          /\ Answered \in Nat /\ Answered' = Answered + 1 /\ Answered + 1 <= putCounter
          /\ outstandingPuts' = Answered + 2 .. putCounter /\ putCounter' = putCounter
      BY <1>3, OldestIsSettled
    <2>2. Answered' <= putCounter' /\ outstandingPuts' = Answered' + 1 .. putCounter'
      <3>1. Answered' + 1 = Answered + 2
        BY <2>1
      <3> HIDE DEF Answered
      <3> QED
        BY <2>1, <3>1
    <2> QED
      BY <2>1, <2>2 DEF PutsInv
  <1>4. ASSUME NEW r \in listenRequests, ListenAnswered(r)
        PROVE  PutsInv'
    <2>1. /\ putsToAck' \in Seq(Answers) /\ completed' \in Seq(Answers)
          /\ Answered' = Answered
          /\ UNCHANGED <<putCounter, outstandingPuts>>
      BY <1>4, HeldAreCompleted
    <2> HIDE DEF Answered
    <2> QED
      BY <2>1 DEF PutsInv
  <1> QED
    BY <1>1, <1>2, <1>3, <1>4
    DEF Next, vars, client, listen, removeListen, refreshAuthToken,
        openNetworkConnectionWithToken, onReady, ServerTakesNext, AuthAnswered,
        onAuthRevokedWithStatus, ConnectionLost

-----------------------------------------------------------------------------
(* One more request is sent.                                                *)
LEMMA RequestSent ==
    ASSUME WireInv, connected, UNCHANGED <<connectionState, served>>,
           NEW r \in Requests, requests' = Append(requests, r),
           r.kind # "restore", outstandingPuts \subseteq outstandingPuts',
           IsPut(r) => /\ canSendWrites /\ r.put \in outstandingPuts'
                       /\ \A p \in outstandingPuts : p < r.put,
           canSendWrites =>
             \A p \in outstandingPuts' : p \in outstandingPuts \/ (r.kind = "put" /\ r.put = p)
    PROVE  WireInv'
  <1> DEFINE n == Len(requests)
  <1>1. /\ requests' \in Seq(Requests) /\ n \in Nat /\ Len(requests') = n + 1
        /\ \A i \in 1..n : requests'[i] = requests[i]
        /\ requests'[n + 1] = r
        /\ 1..Len(requests') = 1..n \cup {n + 1}
    BY Appended DEF WireInv
  <1>2. /\ connectionState' = connectionState /\ served' = served
        /\ served \in 0..n /\ (canSendWrites' <=> canSendWrites) /\ connected'
    BY DEF WireInv, canSendWrites, connected
  <1> HIDE DEF n
  <1>3. served' \in 0..Len(requests')
    BY <1>1, <1>2
  <1>4. connectionState' = "Authenticating" => requests' # <<>> /\ requests'[1].kind = "restore"
    <2>1. connectionState = "Authenticating" =>
            1 \in 1..n /\ requests[1].kind = "restore"
      BY DEF WireInv, n
    <2> QED
      BY <1>1, <1>2, <2>1
  <1>5. \A i \in 1..Len(requests') :
          requests'[i].kind = "restore" => i = 1 /\ connectionState' = "Authenticating"
    BY <1>1, <1>2 DEF WireInv, n
  <1>6. \A i \in 1..Len(requests') :
          IsPut(requests'[i]) => canSendWrites' /\ requests'[i].put \in outstandingPuts'
    BY <1>1, <1>2 DEF WireInv, IsPut, n
  <1>7. ASSUME NEW i \in 1..Len(requests'), NEW j \in 1..Len(requests'),
               IsPut(requests'[i]), IsPut(requests'[j]), i < j
        PROVE  requests'[i].put < requests'[j].put
    <2>1. i \in 1..n /\ (j \in 1..n \/ j = n + 1)
      BY <1>1, <1>7
    <2>2. CASE j \in 1..n
      BY <1>1, <1>7, <2>1, <2>2 DEF WireInv, IsPut, n
    <2>3. CASE j = n + 1
      BY <1>1, <1>7, <2>1, <2>3 DEF WireInv, IsPut, n
    <2> QED
      BY <2>1, <2>2, <2>3
  <1>8. ASSUME canSendWrites', NEW p \in outstandingPuts'
        PROVE  \E i \in 1..Len(requests') : requests'[i].kind = "put" /\ requests'[i].put = p
    <2>1. CASE p \in outstandingPuts
      <3>1. PICK i \in 1..n : requests[i].kind = "put" /\ requests[i].put = p
        BY <1>2, <1>8, <2>1 DEF WireInv, n
      <3> QED
        BY <1>1, <3>1
    <2>2. CASE p \notin outstandingPuts
      BY <1>1, <1>2, <1>8, <2>2
    <2> QED
      BY <2>1, <2>2
  <1> QED
    BY <1>1, <1>2, <1>3, <1>4, <1>5, <1>6, <1>7, <1>8 DEF WireInv

(* The oldest request is answered, and with it its write leaves.            *)
LEMMA RequestAnswered ==
    ASSUME WireInv, canSendWrites, served > 0, requests # <<>>,
           requests' = Tail(requests), served' = served - 1, UNCHANGED connectionState,
           outstandingPuts' = IF IsPut(requests[1]) THEN outstandingPuts \ {requests[1].put}
                              ELSE outstandingPuts
    PROVE  WireInv'
  <1> DEFINE n == Len(requests)
  <1>1. /\ requests' \in Seq(Requests) /\ n \in Nat \ {0} /\ Len(requests') = n - 1
        /\ \A i \in 1..Len(requests') : requests'[i] = requests[i + 1] /\ i + 1 \in 1..n
    BY Shortened DEF WireInv
  <1>2. /\ connectionState' = connectionState /\ connectionState = "Connected"
        /\ served \in 0..n /\ canSendWrites' /\ connected'
    BY DEF WireInv, canSendWrites, connected
  <1> HIDE DEF n
  <1>3. served' \in 0..Len(requests')
    BY <1>1, <1>2
  <1>4. \A i \in 1..Len(requests') : requests'[i].kind # "restore"
    BY <1>1, <1>2 DEF WireInv, n
  <1>5. ASSUME NEW i \in 1..Len(requests'), IsPut(requests'[i])
        PROVE  requests'[i].put \in outstandingPuts'
    <2>1. /\ 1 \in 1..n /\ i + 1 \in 1..n /\ 1 < i + 1
          /\ requests'[i] = requests[i + 1]
      BY <1>1
    <2>2. requests[i + 1].put \in outstandingPuts /\ IsPut(requests[i + 1])
      BY <1>5, <2>1 DEF WireInv, n
    <2>3. IsPut(requests[1]) => requests[1].put < requests[i + 1].put
      BY <2>1, <2>2 DEF WireInv, n
    <2>4. requests[1] \in Requests
      BY <2>1 DEF WireInv, n
    <2>5. IsPut(requests[1]) => requests[1].put # requests[i + 1].put
      BY <2>3, <2>4 DEF Requests
    <2> QED
      BY <2>1, <2>2, <2>5
  <1>6. ASSUME NEW i \in 1..Len(requests'), NEW j \in 1..Len(requests'),
               IsPut(requests'[i]), IsPut(requests'[j]), i < j
        PROVE  requests'[i].put < requests'[j].put
    <2>1. i + 1 \in 1..n /\ j + 1 \in 1..n /\ i + 1 < j + 1
      BY <1>1, <1>6
    <2> QED
      BY <1>1, <1>6, <2>1 DEF WireInv, n
  <1>7. ASSUME NEW p \in outstandingPuts'
        PROVE  \E i \in 1..Len(requests') : requests'[i].kind = "put" /\ requests'[i].put = p
    <2>1. p \in outstandingPuts
      BY <1>7
    <2>2. PICK i \in 1..n : requests[i].kind = "put" /\ requests[i].put = p
      BY <2>1 DEF WireInv, n
    <2>3. i # 1
      BY <1>7, <2>2 DEF IsPut
    <2>4. i - 1 \in 1..Len(requests') /\ (i - 1) + 1 = i
      BY <1>1, <2>3
    <2> QED
      BY <1>1, <2>2, <2>4
  <1> QED
    BY <1>1, <1>2, <1>3, <1>4, <1>5, <1>6, <1>7 DEF WireInv

-----------------------------------------------------------------------------
(* Answers keep the credentials in front, and restoreState fills the wire   *)
(* once they are accepted.                                                  *)
LEMMA WireStep ==
    ASSUME ConnectionAssumption, PutsInv, WireInv, [Next]_vars
    PROVE  WireInv'
  <1>1. ASSUME UNCHANGED <<connectionState, requests, served, outstandingPuts>>
        PROVE  WireInv'
    BY <1>1 DEF WireInv, connected, canSendWrites
  <1>2. CASE putInternal
    <2> DEFINE p == putCounter + 1
    <2>1. /\ p \in 0..MaxPuts /\ outstandingPuts' = outstandingPuts \cup {p}
          /\ \A q \in outstandingPuts : q < p
      BY <1>2 DEF putInternal, PutsInv, ConnectionAssumption, Answered
    <2> HIDE DEF p
    <2>2. PutRequest(p) \in Requests /\ PutRequest(p).kind = "put" /\ PutRequest(p).put = p
      BY <2>1 DEF PutRequest, Requests
    <2>3. CASE canSendWrites
      <3>1. requests' = Append(requests, PutRequest(p)) /\ connected
        BY <1>2, <2>3 DEF putInternal, SendsNow, connected, canSendWrites, p
      <3> QED
        BY <1>2, <2>1, <2>2, <2>3, <3>1, RequestSent DEF putInternal
    <2>4. CASE ~canSendWrites
      BY <1>2, <2>1, <2>4 DEF putInternal, SendsNow, WireInv, connected, canSendWrites
    <2> QED
      BY <2>3, <2>4
  <1>3. CASE refreshAuthToken
    <2> DEFINE r == AuthRequest("refresh")
    <2>1. /\ UNCHANGED <<connectionState, served, outstandingPuts>>
          /\ requests' = requests \/ (connected /\ requests' = Append(requests, r))
      BY <1>3 DEF refreshAuthToken
    <2>2. r \in Requests /\ r.kind = "refresh"
      BY DEF AuthRequest, Requests, ConnectionAssumption
    <2> HIDE DEF r
    <2>3. CASE connected /\ requests' = Append(requests, r)
      BY <2>1, <2>2, <2>3, RequestSent DEF IsPut
    <2> QED
      BY <1>1, <2>1, <2>3
  <1>4. CASE openNetworkConnectionWithToken
    BY <1>4 DEF openNetworkConnectionWithToken, wire, WireInv, connected, canSendWrites
  <1>5. CASE onReady
    <2>1. requests = <<>> /\ served' = 0 /\ outstandingPuts' = outstandingPuts
      BY <1>5 DEF onReady, WireInv, connected, client
    <2>2. CASE /\ connectionState' = "Authenticating"
               /\ requests' = <<AuthRequest("restore")>>
      <3>1. AuthRequest("restore") \in Requests /\ AuthRequest("restore").kind = "restore"
        BY DEF AuthRequest, Requests, ConnectionAssumption
      <3>2. /\ requests' \in Seq(Requests) /\ Len(requests') = 1
            /\ requests'[1].kind = "restore" /\ requests' # <<>>
        BY <2>2, <3>1
      <3> QED
        BY <2>1, <2>2, <3>2 DEF WireInv, connected, canSendWrites, IsPut
    <2>3. CASE connectionState' = "Connected" /\ restoreState(<<>>)
      <3>1. <<>> \in Seq(Requests) /\ \A i \in 1..Len(<<>>) : <<>>[i].kind = "refresh"
        OBVIOUS
      <3>2. requests' = <<>> \o Resent(Sorted(outstandingPuts))
        BY <2>3 DEF restoreState
      <3>3. Restored(<<>>, requests')
        BY <3>1, <3>2, RestoredRequests, Zenon
      <3>4. served' \in 0..Len(requests')
        BY <2>1, <3>3 DEF Restored
      <3> QED
        BY <2>1, <2>3, <3>3, <3>4 DEF Restored, WireInv, connected, canSendWrites
    <2> QED
      BY <1>5, <2>2, <2>3 DEF onReady
  <1>6. CASE ServerTakesNext
    BY <1>6 DEF ServerTakesNext, client, WireInv, connected, canSendWrites
  <1>7. CASE AuthAnswered
    <2>1. /\ requests # <<>> /\ Head(requests) = requests[1] /\ ~IsPut(requests[1])
          /\ Len(requests) \in Nat /\ 1 \in 1..Len(requests)
          /\ Tail(requests) \in Seq(Requests) /\ Len(Tail(requests)) = Len(requests) - 1
          /\ \A i \in 1..Len(Tail(requests)) :
               Tail(requests)[i] = requests[i + 1] /\ i + 1 \in 1..Len(requests)
      BY <1>7, Shortened DEF AuthAnswered, WireInv
    <2>2. CASE requests[1].kind = "restore" /\ restoreState(Tail(requests))
      <3>1. connectionState = "Authenticating"
        BY <2>1, <2>2 DEF WireInv
      <3>2. ASSUME NEW i \in 1..Len(Tail(requests))
            PROVE  Tail(requests)[i].kind = "refresh"
        <4>1. i + 1 \in 1..Len(requests) /\ i + 1 # 1
          BY <2>1
        <4>2. requests[i + 1].kind # "put" /\ requests[i + 1].kind # "restore"
          BY <3>1, <4>1 DEF WireInv, IsPut, canSendWrites
        <4>3. requests[i + 1] \in Requests
          BY <4>1 DEF WireInv
        <4> QED
          BY <2>1, <4>2, <4>3 DEF Requests
      <3>3. requests' = Tail(requests) \o Resent(Sorted(outstandingPuts))
        BY <2>2 DEF restoreState
      <3>4. /\ connectionState' = "Connected" /\ served' = served - 1 /\ served > 0
            /\ served \in 0..Len(requests) /\ outstandingPuts' = outstandingPuts
        BY <1>7 DEF AuthAnswered, WireInv, client
      <3>5. Restored(Tail(requests), requests')
        BY <2>1, <3>2, <3>3, RestoredRequests
      <3>6. served' \in 0..Len(requests')
        BY <2>1, <3>4, <3>5 DEF Restored
      <3> QED
        BY <3>4, <3>5, <3>6 DEF Restored, WireInv, connected, canSendWrites
    <2>3. CASE requests[1].kind = "refresh" /\ requests' = Tail(requests)
      <3>1. connected /\ connectionState # "Authenticating"
        BY <2>1, <2>3 DEF WireInv
      <3>2. canSendWrites /\ UNCHANGED <<connectionState, outstandingPuts>>
        BY <1>7, <3>1 DEF AuthAnswered, client, connected, canSendWrites
      <3> QED
        BY <1>7, <2>1, <2>3, <3>2, RequestAnswered DEF AuthAnswered
    <2> QED
      BY <1>7, <2>1, <2>2, <2>3 DEF AuthAnswered
  <1>8. ASSUME onDisconnect, UNCHANGED outstandingPuts
        PROVE  WireInv'
    BY <1>8 DEF onDisconnect, WireInv, connected, canSendWrites
  <1>9. CASE PutAnswered
    <2>1. /\ canSendWrites /\ requests # <<>> /\ Head(requests) = requests[1]
      BY <1>9, HeadIsOldest DEF PutAnswered
    <2> QED
      BY <1>9, <2>1, RequestAnswered DEF PutAnswered
  <1> QED
    BY <1>1, <1>2, <1>3, <1>4, <1>5, <1>6, <1>7, <1>8, <1>9
    DEF Next, vars, client, wire, listen, removeListen, ListenAnswered,
        onAuthRevokedWithStatus, ConnectionLost

-----------------------------------------------------------------------------
(* Counting the listens that restoreState sends.                            *)
LEMMA PairsCount ==
    ASSUME NEW S, IsFiniteSet(S), NEW k
    PROVE  IsFiniteSet(S \X {k}) /\ Cardinality(S \X {k}) = Cardinality(S)
  <1>1. IsFiniteSet({k}) /\ Cardinality({k}) = 1
    BY FS_Singleton
  <1>2. /\ IsFiniteSet(S \X {k})
        /\ Cardinality(S \X {k}) = Cardinality(S) * Cardinality({k})
    BY <1>1, FS_Product
  <1>3. Cardinality(S) \in Nat
    BY FS_CardinalityType
  <1> QED
    BY <1>1, <1>2, <1>3

(* Counting listens sent with those that were sent before.                  *)
LEMMA DisjointCount ==
    ASSUME NEW S, NEW T, IsFiniteSet(S), IsFiniteSet(T), S \cap T = {}
    PROVE  /\ IsFiniteSet(S \cup T)
           /\ Cardinality(S) \in Nat /\ Cardinality(T) \in Nat
           /\ Cardinality(S \cup T) = Cardinality(S) + Cardinality(T)
  <1>1. /\ Cardinality(S) \in Nat /\ Cardinality(T) \in Nat
        /\ Cardinality(S \cap T) = 0
    BY FS_CardinalityType, FS_EmptySet
  <1>2. /\ IsFiniteSet(S \cup T)
        /\ Cardinality(S \cup T) = Cardinality(S) + Cardinality(T) - Cardinality(S \cap T)
    BY FS_Union
  <1> QED
    BY <1>1, <1>2

(* One listen less is awaited.                                              *)
LEMMA OneLess ==
    ASSUME NEW S, IsFiniteSet(S), NEW x \in S
    PROVE  /\ IsFiniteSet(S \ {x}) /\ Cardinality(S) \in Nat
           /\ Cardinality(S \ {x}) = Cardinality(S) - 1
  <1>1. Cardinality(S) \in Nat
    BY FS_CardinalityType
  <1>2. /\ IsFiniteSet(S \ {x})
        /\ Cardinality(S \ {x}) = IF x \in S THEN Cardinality(S) - 1 ELSE Cardinality(S)
    BY FS_RemoveElement
  <1> QED
    BY <1>1, <1>2

(* No listen is awaited exactly when the count is zero.                     *)
LEMMA RequestsCount ==
    ASSUME ConnectionAssumption, NEW S \in SUBSET (Listens \X {"listen", "restored"})
    PROVE  IsFiniteSet(S) /\ Cardinality(S) \in Nat /\ (Cardinality(S) = 0 <=> S = {})
  <1>1. IsFiniteSet({"listen", "restored"})
    <2>0. IsFiniteSet({"listen"})
      BY FS_Singleton
    <2>1. IsFiniteSet({"listen"} \cup {"restored"})
      BY <2>0, FS_AddElement
    <2>2. {"listen"} \cup {"restored"} = {"listen", "restored"}
      OBVIOUS
    <2> QED
      BY <2>1, <2>2
  <1>2. IsFiniteSet(Listens \X {"listen", "restored"})
    BY <1>1, FS_Product DEF ConnectionAssumption
  <1>3. IsFiniteSet(S)
    BY <1>2, FS_Subset
  <1> QED
    BY <1>3, FS_CardinalityType, FS_EmptySet

(* The same of the listens that are awaited in a state.                     *)
LEMMA ListensAreFinite ==
    ASSUME ConnectionAssumption, ListenInv
    PROVE  /\ IsFiniteSet(listens) /\ IsFiniteSet(listenRequests)
           /\ unackedListensCount \in Nat
           /\ unackedListensCount = 0 <=> listenRequests = {}
  <1>1. IsFiniteSet(listens)
    BY FS_Subset DEF ListenInv, ConnectionAssumption
  <1> QED
    BY <1>1, RequestsCount DEF ListenInv

(* restoreState sends every listen that is wanted, none of them twice.      *)
LEMMA RestoredListens ==
    ASSUME ConnectionAssumption, ListenInv, ~canSendWrites, connectionState' = "Connected",
           UNCHANGED <<listens, over>>,
           listenRequests' = listenRequests \cup (listens \X {"restored"}),
           unackedListensCount' = unackedListensCount + Cardinality(listens)
    PROVE  ListenInv'
  <1> DEFINE R == listens \X {"restored"}
  <1>1. IsFiniteSet(R) /\ Cardinality(R) = Cardinality(listens)
    BY ListensAreFinite, PairsCount
  <1>2. listenRequests \cap R = {}
    BY DEF ListenInv
  <1>3. Cardinality(listenRequests') = Cardinality(listenRequests) + Cardinality(R)
    BY <1>1, <1>2, ListensAreFinite, DisjointCount
  <1>4. unackedListensCount' = Cardinality(listenRequests')
    BY <1>1, <1>3 DEF ListenInv
  <1>5. listens' = listens /\ over' = over /\ connected' /\ canSendWrites'
    BY DEF connected, canSendWrites
  <1>6. /\ listenRequests' \subseteq Listens \X {"listen", "restored"}
        /\ \A r \in listenRequests' : r[1] \in listens' \cup over'
    BY <1>5 DEF ListenInv
  <1> QED
    BY <1>4, <1>5, <1>6 DEF ListenInv

(* A listen counts from its sending to its answer or the loss of the        *)
(* connection.                                                              *)
LEMMA ListenStep ==
    ASSUME ConnectionAssumption, PutsInv, WireInv, ListenInv, [Next]_vars
    PROVE  ListenInv'
  <1>1. ASSUME UNCHANGED <<connectionState, listens, over, listenRequests,
                           unackedListensCount>>
        PROVE  ListenInv'
    BY <1>1 DEF ListenInv, connected, canSendWrites
  <1>2. ASSUME NEW l \in Listens, listen(l)
        PROVE  ListenInv'
    <2>1. /\ l \notin listens /\ l \notin over
          /\ listens' = listens \cup {l} /\ over' = over
          /\ connectionState' = connectionState
      BY <1>2 DEF listen, Unwanted
    <2>2. <<l, "listen">> \notin listenRequests
      BY <2>1 DEF ListenInv
    <2>3. CASE connected
      <3>1. /\ listenRequests' = listenRequests \cup {<<l, "listen">>}
            /\ unackedListensCount' = unackedListensCount + 1
        BY <1>2, <2>3 DEF listen, sendListens
      <3>2. unackedListensCount' = Cardinality(listenRequests')
        BY <2>2, <3>1, ListensAreFinite, FS_AddElement DEF ListenInv
      <3> QED
        BY <2>1, <2>3, <3>1, <3>2 DEF ListenInv, connected, canSendWrites
    <2>4. CASE ~connected
      <3>1. listenRequests' = listenRequests /\ unackedListensCount' = unackedListensCount
        BY <1>2, <2>4 DEF listen, sendListens
      <3> QED
        BY <2>1, <3>1 DEF ListenInv, connected, canSendWrites
    <2> QED
      BY <2>3, <2>4
  <1>3. ASSUME NEW l \in Listens, removeListen(l)
        PROVE  ListenInv'
    <2>1. /\ UNCHANGED <<connectionState, listenRequests, unackedListensCount>>
          /\ l \in Listens \ Lasting /\ listens' = listens \ {l} /\ over' = over \cup {l}
      BY <1>3 DEF removeListen, wire
    <2> QED
      BY <2>1 DEF ListenInv, connected, canSendWrites
  <1>4. CASE openNetworkConnectionWithToken
    BY <1>4 DEF openNetworkConnectionWithToken, wire, ListenInv, connected, canSendWrites
  <1>5. CASE onReady
    <2>1. CASE UNCHANGED <<listenRequests, unackedListensCount>> /\ connectionState' = "Authenticating"
      BY <1>5, <2>1 DEF onReady, client, ListenInv, connected, canSendWrites
    <2>2. CASE restoreState(<<>>) /\ connectionState' = "Connected"
      BY <1>5, <2>2, RestoredListens DEF onReady, restoreState, client, canSendWrites
    <2> QED
      BY <1>5, <2>1, <2>2 DEF onReady
  <1>6. CASE AuthAnswered
    <2>1. requests # <<>> /\ Head(requests) = requests[1] /\ 1 \in 1..Len(requests)
      BY <1>6, Shortened DEF AuthAnswered, WireInv
    <2>2. CASE requests[1].kind = "restore" /\ restoreState(Tail(requests))
      <3>1. ~canSendWrites
        BY <2>1, <2>2 DEF WireInv, canSendWrites
      <3> QED
        BY <1>6, <2>2, <3>1, RestoredListens DEF AuthAnswered, restoreState, client
    <2>3. CASE requests[1].kind = "refresh" /\ UNCHANGED <<listenRequests, unackedListensCount>>
      <3>1. connectionState = "Connected"
        BY <2>1, <2>3 DEF WireInv, connected
      <3> QED
        BY <1>1, <1>6, <2>3, <3>1 DEF AuthAnswered, client
    <2> QED
      BY <1>6, <2>1, <2>2, <2>3 DEF AuthAnswered
  <1>7. ASSUME onDisconnect, UNCHANGED <<listens, over>>
        PROVE  ListenInv'
    BY <1>7, FS_EmptySet DEF onDisconnect, ListenInv, connected, canSendWrites
  <1>8. ASSUME NEW r \in listenRequests, ListenAnswered(r)
        PROVE  ListenInv'
    <2>1. PICK below \in SUBSET Unwanted :
            /\ \/ below = {} /\ UNCHANGED <<listens, over>>
               \/ /\ r[1] \in listens \ Lasting
                  /\ listens' = (listens \ {r[1]}) \cup below
                  /\ over' = over \cup {r[1]}
            /\ listenRequests' = (listenRequests \ {r}) \cup sendListens(below, connected)
            /\ unackedListensCount' = unackedListensCount + Cardinality(below) - 1
      BY <1>8 DEF ListenAnswered
    <2> DEFINE B == below \X {"listen"}
    <2>2. connected /\ sendListens(below, connected) = B
      BY <1>8 DEF ListenInv, sendListens
    <2>3. IsFiniteSet(below)
      BY FS_Subset DEF Unwanted, ConnectionAssumption
    <2>4. IsFiniteSet(B) /\ Cardinality(B) = Cardinality(below) /\ Cardinality(B) \in Nat
      <3>1. IsFiniteSet(B) /\ Cardinality(B) = Cardinality(below)
        BY <2>3, PairsCount
      <3> QED
        BY <3>1, FS_CardinalityType
    <2>5. (listenRequests \ {r}) \cap B = {}
      BY DEF ListenInv, Unwanted
    <2>6. /\ IsFiniteSet(listenRequests \ {r})
          /\ Cardinality(listenRequests \ {r}) = Cardinality(listenRequests) - 1
          /\ Cardinality(listenRequests) \in Nat
      <3>1. IsFiniteSet(listenRequests)
        BY ListensAreFinite
      <3> QED
        BY <3>1, OneLess
    <2>7. Cardinality(listenRequests') = Cardinality(listenRequests) - 1 + Cardinality(B)
      <3> DEFINE others == listenRequests \ {r}
      <3>1. listenRequests' = others \cup B
        BY <2>1, <2>2
      <3>2. /\ IsFiniteSet(others) /\ IsFiniteSet(B) /\ others \cap B = {}
            /\ Cardinality(others) = Cardinality(listenRequests) - 1
        BY <2>4, <2>5, <2>6
      <3> HIDE DEF others, B
      <3>3. Cardinality(others \cup B) = Cardinality(others) + Cardinality(B)
        BY <3>2, DisjointCount
      <3> QED
        BY <3>1, <3>2, <3>3
    <2>8. unackedListensCount' = Cardinality(listenRequests')
      BY <2>1, <2>4, <2>6, <2>7 DEF ListenInv
    <2>9. listens' \cup over' = listens \cup over \cup below
      BY <2>1
    <2>10. /\ listens' \subseteq Listens /\ over' \subseteq Listens /\ Lasting \subseteq listens'
      BY <2>1 DEF ListenInv, Unwanted
    <2>11. /\ listenRequests' \subseteq Listens \X {"listen", "restored"}
           /\ \A q \in listenRequests' : q[1] \in listens' \cup over'
           /\ \A q \in listenRequests' : q \in listenRequests \/ q[2] = "listen"
      BY <2>1, <2>2, <2>9 DEF ListenInv, Unwanted
    <2>12. connectionState' = connectionState
      BY <1>8 DEF ListenAnswered
    <2> QED
      BY <2>2, <2>8, <2>10, <2>11, <2>12 DEF ListenInv, connected, canSendWrites
  <1> QED
    BY <1>1, <1>2, <1>3, <1>4, <1>5, <1>6, <1>7, <1>8
    DEF Next, vars, client, wire, putInternal, refreshAuthToken, ServerTakesNext, PutAnswered,
        onAuthRevokedWithStatus, ConnectionLost

-----------------------------------------------------------------------------
(* The server decides what it takes, and only what was decided is answered. *)
LEMMA VerdictStep ==
    ASSUME ConnectionAssumption, PutsInv, WireInv, VerdictInv, [Next]_vars
    PROVE  VerdictInv'
  <1>0. served \in Nat /\ 1..served \subseteq 1..Len(requests) /\ Answered \in Nat
    BY DEF WireInv, PutsInv, Answered
  <1>1. ASSUME UNCHANGED <<verdict, served, putsToAck, completed>>,
               \A i \in 1..served : requests'[i] = requests[i]
        PROVE  VerdictInv'
    BY <1>1 DEF VerdictInv, Answered
  <1>2. ASSUME NEW r \in Requests, requests' = requests \/ requests' = Append(requests, r)
        PROVE  \A i \in 1..served : requests'[i] = requests[i]
    BY <1>0, <1>2, Appended DEF WireInv
  <1>3. CASE putInternal
    <2>1. PutRequest(putCounter + 1) \in Requests
      BY <1>3 DEF putInternal, PutRequest, Requests, PutsInv, ConnectionAssumption
    <2> QED
      BY <1>1, <1>2, <1>3, <2>1 DEF putInternal, server
  <1>4. CASE refreshAuthToken
    <2>1. AuthRequest("refresh") \in Requests
      BY DEF AuthRequest, Requests, ConnectionAssumption
    <2> QED
      BY <1>1, <1>2, <1>4, <2>1 DEF refreshAuthToken, server
  <1>5. CASE onReady
    <2>1. served = 0
      BY <1>5 DEF onReady, WireInv, connected
    <2> QED
      BY <1>1, <1>5, <2>1 DEF onReady, client, server
  <1>6. CASE ServerTakesNext
    <2> DEFINE r == requests[served + 1]
    <2>1. /\ served' = served + 1 /\ served + 1 \in 1..Len(requests) /\ r \in Requests
          /\ UNCHANGED <<requests, completed, putsToAck>>
      BY <1>0, <1>6 DEF ServerTakesNext, WireInv, client
    <2>2. 1..served' = 1..served \cup {served'}
      BY <1>0, <2>1
    <2>3. CASE ~IsPut(r)
      BY <1>6, <2>1, <2>2, <2>3 DEF ServerTakesNext, VerdictInv, Answered, server
    <2>4. CASE IsPut(r)
      <3>1. PICK v \in Statuses : verdict' = [verdict EXCEPT ![r.put] = v]
        BY <1>6, <2>4 DEF ServerTakesNext, Statuses
      <3>2. r.put \in Puts
        BY <2>1, <2>4 DEF WireInv, PutsInv, Puts, Answered
      <3>3. verdict' \in [Puts -> {"none"} \cup Statuses] /\ verdict'[r.put] \in Statuses
        BY <3>1, <3>2 DEF VerdictInv
      <3>4. \A p \in Puts : verdict[p] \in Statuses => verdict'[p] \in Statuses
        BY <3>1, <3>2 DEF VerdictInv
      <3>5. 1..Answered \subseteq Puts
        BY DEF PutsInv, Puts, Answered, ConnectionAssumption
      <3>6. \A i \in 1..served : IsPut(requests[i]) => requests[i].put \in Puts
        BY <1>0 DEF WireInv, PutsInv, Puts, Answered
      <3>7. \A p \in 1..Answered : verdict'[p] \in Statuses
        BY <3>4, <3>5 DEF VerdictInv
      <3>8. \A i \in 1..served' :
              IsPut(requests[i]) => verdict'[requests[i].put] \in Statuses
        BY <2>1, <2>2, <3>3, <3>4, <3>6 DEF VerdictInv
      <3> QED
        BY <2>1, <3>3, <3>7, <3>8 DEF VerdictInv, Answered
    <2> QED
      BY <2>3, <2>4
  <1>7. ASSUME served > 0, served' = served - 1, UNCHANGED verdict,
               \A i \in 1..served' : requests'[i] = requests[i + 1],
               \A p \in 1..Answered' : verdict[p] \in Statuses
        PROVE  VerdictInv'
    <2>1. \A i \in 1..served' : i + 1 \in 1..served
      BY <1>0, <1>7
    <2> QED
      BY <1>7, <2>1 DEF VerdictInv
  <1>8. requests # <<>> =>
          /\ Tail(requests) \in Seq(Requests)
          /\ served > 0 => \A i \in 1..(served - 1) :
               i \in 1..Len(Tail(requests)) /\ Tail(requests)[i] = requests[i + 1]
    BY Shortened DEF WireInv
  <1>9. CASE AuthAnswered
    <2>1. requests # <<>> /\ served > 0 /\ served' = served - 1 /\ UNCHANGED <<verdict, completed, putsToAck>>
      BY <1>9 DEF AuthAnswered, WireInv, server, client
    <2>2. CASE requests' = Tail(requests)
      BY <1>7, <1>8, <2>1, <2>2 DEF VerdictInv, Answered
    <2>3. CASE requests[1].kind = "restore" /\ restoreState(Tail(requests))
      <3>1. Resent(Sorted(outstandingPuts)) \in Seq(Requests)
        <4>1. PICK a \in Nat, b \in Nat :
                /\ a <= b /\ b <= MaxPuts /\ outstandingPuts = a + 1 .. b
          BY DEF PutsInv, Answered, ConnectionAssumption
        <4>2. Sorted(outstandingPuts) = [i \in 1..(b - a) |-> a + i]
          BY <4>1, SortedInterval
        <4>3. Resent(Sorted(outstandingPuts)) = [i \in 1..(b - a) |-> PutRequest(a + i)]
          BY <4>2 DEF Resent
        <4>4. \A i \in 1..(b - a) : PutRequest(a + i) \in Requests
          BY <4>1 DEF PutRequest, Requests, ConnectionAssumption
        <4> DEFINE n == b - a
        <4>5. n \in Nat
          BY <4>1
        <4> HIDE DEF n
        <4>6. [i \in 1..n |-> PutRequest(a + i)] \in Seq(Requests)
          BY <4>4, <4>5 DEF n
        <4> QED
          BY <4>3, <4>6 DEF n
      <3>2. \A i \in 1..Len(Tail(requests)) : requests'[i] = Tail(requests)[i]
        BY <1>8, <2>1, <2>3, <3>1, Joined DEF restoreState
      <3> QED
        BY <1>7, <1>8, <2>1, <3>2 DEF VerdictInv, Answered
    <2> QED
      BY <1>9, <2>1, <2>2, <2>3, Shortened DEF AuthAnswered, WireInv
  <1>10. ASSUME onDisconnect, UNCHANGED <<verdict, completed, putsToAck>>
         PROVE  VerdictInv'
    BY <1>10 DEF onDisconnect, VerdictInv, Answered
  <1>11. CASE PutAnswered
    <2>1. requests # <<>> /\ served > 0 /\ served' = served - 1
          /\ requests' = Tail(requests) /\ UNCHANGED verdict
      BY <1>11 DEF PutAnswered, WireInv, server
    <2>2. Answered' = Answered + 1 /\ verdict[Answered + 1] \in Statuses
      BY <1>11, OldestIsSettled
    <2>3. \A p \in 1..Answered' : verdict[p] \in Statuses
      <3>1. \A p \in 1..Answered : verdict[p] \in Statuses
        BY DEF VerdictInv
      <3> HIDE DEF Answered
      <3> QED
        BY <1>0, <2>2, <3>1
    <2> QED
      BY <1>7, <1>8, <2>1, <2>3
  <1>12. ASSUME NEW r \in listenRequests, ListenAnswered(r)
         PROVE  VerdictInv'
    <2>1. Answered' = Answered /\ UNCHANGED <<verdict, requests, served>>
      BY <1>12, HeldAreCompleted
    <2> QED
      BY <2>1 DEF VerdictInv
  <1> QED
    BY <1>1, <1>3, <1>4, <1>5, <1>6, <1>9, <1>10, <1>11, <1>12
    DEF Next, vars, client, wire, server, listen, removeListen, openNetworkConnectionWithToken,
        onAuthRevokedWithStatus, ConnectionLost

-----------------------------------------------------------------------------
(* While a listen lasts, completions wait only for listens that will be     *)
(* answered, and go in order.                                               *)
LEMMA AckStep ==
    ASSUME ConnectionAssumption, PutsInv, WireInv, ListenInv, ListenInv', VerdictInv, AckInv,
           [Next]_vars
    PROVE  AckInv'
  <1> DEFINE Held == canSendWrites /\ putsToAck # <<>> => listenRequests # {}
             Told == /\ \A i \in 1..Len(completed) : completed[i].put = i
                     /\ \A i \in 1..Len(putsToAck) :
                          /\ putsToAck[i].put = Len(completed) + i
                          /\ putsToAck[i].status = verdict[Len(completed) + i]
  <1> SUFFICES ASSUME Lasting # {}
               PROVE  Held' /\ Told'
    BY DEF AckInv
  <1>1. Held /\ Told
    BY DEF AckInv
  <1>2. ASSUME UNCHANGED <<completed, putsToAck, verdict>>
        PROVE  Told'
    BY <1>1, <1>2
  <1>3. ASSUME UNCHANGED <<connectionState, putsToAck>>, listenRequests \subseteq listenRequests'
        PROVE  Held'
    BY <1>1, <1>3 DEF canSendWrites
  <1>4. ASSUME listenRequests' = listenRequests \cup (listens \X {"restored"})
        PROVE  Held'
    <2>1. PICK l \in listens : TRUE
      BY DEF ListenInv
    <2>2. <<l, "restored">> \in listenRequests'
      BY <1>4
    <2> QED
      BY <2>2
  <1> HIDE DEF Held, Told
  <1>5. ASSUME NEW l \in Listens, listen(l)
        PROVE  Held' /\ Told'
    BY <1>2, <1>3, <1>5 DEF listen, server
  <1>6. ASSUME NEW l \in Listens, removeListen(l)
        PROVE  Held' /\ Told'
    BY <1>2, <1>3, <1>6 DEF removeListen, wire, server
  <1>7. CASE putInternal \/ refreshAuthToken
    BY <1>2, <1>3, <1>7 DEF putInternal, refreshAuthToken, server
  <1>8. CASE openNetworkConnectionWithToken
    <2>1. Told'
      BY <1>2, <1>8 DEF openNetworkConnectionWithToken, server
    <2> QED
      BY <1>8, <2>1 DEF openNetworkConnectionWithToken, canSendWrites, Held
  <1>9. CASE onReady
    <2>1. Told'
      BY <1>2, <1>9 DEF onReady, client, server
    <2>2. CASE connectionState' = "Authenticating"
      BY <2>1, <2>2 DEF canSendWrites, Held
    <2>3. CASE restoreState(<<>>)
      BY <1>4, <2>1, <2>3 DEF restoreState
    <2> QED
      BY <1>9, <2>2, <2>3 DEF onReady
  <1>10. CASE ServerTakesNext
    <2>1. Held'
      BY <1>3, <1>10 DEF ServerTakesNext, client
    <2>2. CASE UNCHANGED verdict
      BY <1>2, <1>10, <2>1, <2>2 DEF ServerTakesNext, client
    <2>3. CASE verdict' # verdict
      <3>1. /\ served + 1 \in 1..Len(requests) /\ UNCHANGED <<completed, putsToAck>>
            /\ IsPut(requests[served + 1])
            /\ \E v \in Statuses :
                 verdict' = [verdict EXCEPT ![requests[served + 1].put] = v]
        BY <1>10, <2>3 DEF ServerTakesNext, WireInv, client, server, Statuses
      <3>2. requests[served + 1].put \in outstandingPuts
        BY <3>1 DEF WireInv
      <3>3. ASSUME NEW i \in 1..Len(putsToAck)
            PROVE  verdict'[Len(completed) + i] = verdict[Len(completed) + i]
        <4>1. Len(completed) + i \in 1..Answered
          BY DEF PutsInv, Answered
        <4>2. Len(completed) + i # requests[served + 1].put
          BY <3>2, <4>1 DEF PutsInv, Answered
        <4> QED
          BY <3>1, <4>2 DEF VerdictInv
      <3> QED
        BY <1>1, <2>1, <3>1, <3>3 DEF Told
    <2> QED
      BY <2>2, <2>3
  <1>11. CASE AuthAnswered
    <2>1. Told'
      BY <1>2, <1>11 DEF AuthAnswered, client, server
    <2>2. CASE restoreState(Tail(requests))
      BY <1>4, <2>1, <2>2 DEF restoreState
    <2>3. CASE requests[1].kind = "refresh" /\ UNCHANGED listenRequests
      <3>1. 1 \in 1..Len(requests) /\ requests # <<>>
        BY <1>11 DEF AuthAnswered, WireInv
      <3>2. connectionState = "Connected"
        BY <2>3, <3>1 DEF WireInv, connected
      <3> QED
        BY <1>3, <1>11, <2>1, <2>3, <3>2 DEF AuthAnswered, client
    <2> QED
      BY <1>11, <2>2, <2>3, Shortened DEF AuthAnswered, WireInv
  <1>12. ASSUME onDisconnect, UNCHANGED <<completed, putsToAck, verdict>>
         PROVE  Held' /\ Told'
    <2>1. Told'
      BY <1>2, <1>12
    <2> QED
      BY <1>12, <2>1 DEF onDisconnect, canSendWrites, Held
  <1>13. CASE PutAnswered
    <2> DEFINE answer == [put |-> Answered + 1, status |-> verdict[Answered + 1]]
    <2>1. /\ \/ CompletesNow /\ completed' = Append(completed, answer) /\ putsToAck' = putsToAck
             \/ ~CompletesNow /\ putsToAck' = Append(putsToAck, answer) /\ completed' = completed
          /\ answer \in Answers
      BY <1>13, OldestIsSettled
    <2>2. answer.put = Answered + 1 /\ answer.status = verdict[Answered + 1]
      OBVIOUS
    <2>3. /\ canSendWrites
          /\ UNCHANGED <<connectionState, listenRequests, verdict>>
          /\ CompletesNow <=> listenRequests = {}
      BY <1>13, HeadIsOldest, ListensAreFinite DEF PutAnswered, server, CompletesNow
    <2>4. Len(completed) \in Nat /\ Len(putsToAck) \in Nat
      BY DEF PutsInv
    <2> HIDE DEF answer
    <2>5. CASE CompletesNow /\ completed' = Append(completed, answer) /\ putsToAck' = putsToAck
      <3>1. putsToAck = <<>> /\ Len(putsToAck) = 0 /\ answer.put = Len(completed) + 1
        BY <1>1, <2>2, <2>3, <2>4, <2>5 DEF Answered, Held
      <3>2. /\ Len(completed') = Len(completed) + 1
            /\ \A i \in 1..Len(completed) : completed'[i] = completed[i]
            /\ completed'[Len(completed) + 1] = answer
            /\ 1..Len(completed') = 1..Len(completed) \cup {Len(completed) + 1}
        BY <2>1, <2>5, Appended DEF PutsInv
      <3> QED
        BY <1>1, <2>5, <3>1, <3>2 DEF Held, Told
    <2>6. CASE ~CompletesNow /\ putsToAck' = Append(putsToAck, answer) /\ completed' = completed
      <3>1. /\ Len(putsToAck') = Len(putsToAck) + 1
            /\ \A i \in 1..Len(putsToAck) : putsToAck'[i] = putsToAck[i]
            /\ putsToAck'[Len(putsToAck) + 1] = answer
            /\ 1..Len(putsToAck') = 1..Len(putsToAck) \cup {Len(putsToAck) + 1}
        BY <2>1, <2>6, Appended DEF PutsInv
      <3>2. Answered + 1 = Len(completed) + (Len(putsToAck) + 1)
        BY <2>4 DEF Answered
      <3>3. Told'
        BY <1>1, <2>2, <2>3, <2>6, <3>1, <3>2 DEF Told
      <3> QED
        BY <2>3, <2>6, <3>3 DEF Held
    <2> QED
      BY <2>1, <2>5, <2>6
  <1>14. ASSUME NEW r \in listenRequests, ListenAnswered(r)
         PROVE  Held' /\ Told'
    <2>1. /\ \/ completed' = completed \o putsToAck /\ putsToAck' = <<>>
               /\ unackedListensCount' = 0
             \/ completed' = completed /\ putsToAck' = putsToAck
               /\ unackedListensCount' # 0
          /\ UNCHANGED verdict
      BY <1>14, HeldAreCompleted
    <2>2. CASE completed' = completed \o putsToAck /\ putsToAck' = <<>>
      <3>1. /\ Len(completed) \in Nat /\ Len(putsToAck) \in Nat
            /\ Len(completed') = Len(completed) + Len(putsToAck)
            /\ \A i \in 1..Len(completed') :
                 completed'[i] = IF i <= Len(completed) THEN completed[i]
                                 ELSE putsToAck[i - Len(completed)]
        BY <2>2, Joined DEF PutsInv
      <3>2. ASSUME NEW i \in 1..Len(completed')
            PROVE  completed'[i].put = i
        <4>1. CASE i <= Len(completed)
          BY <1>1, <3>1, <4>1 DEF Told
        <4>2. CASE ~(i <= Len(completed))
          <5>1. i - Len(completed) \in 1..Len(putsToAck)
            BY <3>1, <4>2
          <5>2. putsToAck[i - Len(completed)].put = Len(completed) + (i - Len(completed))
            BY <1>1, <5>1 DEF Told
          <5> QED
            BY <3>1, <4>2, <5>2
        <4> QED
          BY <4>1, <4>2
      <3> QED
        BY <2>2, <3>2 DEF Held, Told
    <2>3. CASE /\ completed' = completed /\ putsToAck' = putsToAck
               /\ unackedListensCount' # 0
      <3>1. listenRequests' # {}
        BY <2>3, FS_EmptySet DEF ListenInv
      <3> QED
        BY <1>2, <2>1, <2>3, <3>1 DEF Held
    <2> QED
      BY <2>1, <2>2, <2>3
  <1>15. CASE UNCHANGED vars
    BY <1>2, <1>3, <1>15 DEF vars, client, wire, server
  <1> QED
    BY <1>5, <1>6, <1>7, <1>8, <1>9, <1>10, <1>11, <1>12, <1>13, <1>14, <1>15
    DEF Next, client, wire, server, onAuthRevokedWithStatus, ConnectionLost

-----------------------------------------------------------------------------
(* The token, what the server stored, and the counters of the bounds.       *)
LEMMA RestStep ==
    ASSUME ConnectionAssumption, PutsInv, WireInv, RestInv, [Next]_vars
    PROVE  RestInv'
  <1>1. CASE ServerTakesNext
    <2>1. ASSUME IsPut(requests[served + 1])
          PROVE  requests[served + 1].put \in Puts
      <3>1. served + 1 \in 1..Len(requests)
        BY <1>1 DEF ServerTakesNext, WireInv
      <3> QED
        BY <2>1, <3>1 DEF WireInv, PutsInv, Puts, Answered
    <2>2. applied' \in Seq(Puts)
      BY <1>1, <2>1, Appended DEF ServerTakesNext, server, RestInv
    <2> QED
      BY <1>1, <2>2 DEF ServerTakesNext, client, RestInv
  <1>2. CASE refreshAuthToken
    BY <1>2 DEF refreshAuthToken, server, RestInv, ConnectionAssumption
  <1>3. CASE onAuthRevokedWithStatus
    <2>1. authToken' \in BOOLEAN
      BY <1>3, Zenon DEF onAuthRevokedWithStatus
    <2>2. applied' = applied /\ refreshes' = refreshes /\ losses' \in 0..MaxLosses
      BY <1>3 DEF onAuthRevokedWithStatus, server, RestInv, ConnectionAssumption
    <2> QED
      BY <2>1, <2>2 DEF RestInv
  <1>4. CASE ConnectionLost
    BY <1>4 DEF ConnectionLost, client, server, RestInv, ConnectionAssumption
  <1> QED
    BY <1>1, <1>2, <1>3, <1>4
    DEF Next, vars, client, server, RestInv, listen, removeListen, putInternal,
        openNetworkConnectionWithToken, onReady, AuthAnswered, PutAnswered, ListenAnswered

(* The invariant holds in every state of the client and its server.         *)
THEOREM Invariance == Spec => []IInv
  <1>1. Init => IInv
    <2> SUFFICES ASSUME Init
                 PROVE  IInv
      OBVIOUS
    <2>1. PutsInv
      BY ConnectionAssumption DEF Init, PutsInv, Answered
    <2>2. WireInv
      BY DEF Init, WireInv, connected, canSendWrites
    <2>3. ListenInv
      BY ConnectionAssumption, FS_EmptySet DEF Init, ListenInv, ConnectionAssumption
    <2>4. VerdictInv
      <3>1. Answered = 0 /\ served = 0
        BY DEF Init, Answered
      <3>2. verdict \in [Puts -> {"none"} \cup Statuses]
        BY DEF Init, Puts
      <3> QED
        BY <3>1, <3>2 DEF VerdictInv
    <2>5. AckInv
      BY DEF Init, AckInv
    <2>6. RestInv
      <3>1. authToken \in BOOLEAN
        BY Zenon DEF Init
      <3>2. applied \in Seq(Puts) /\ losses \in 0..MaxLosses /\ refreshes \in 0..MaxRefreshes
        BY ConnectionAssumption DEF Init, ConnectionAssumption
      <3> QED
        BY <3>1, <3>2 DEF RestInv
    <2> QED
      BY <2>1, <2>2, <2>3, <2>4, <2>5, <2>6 DEF IInv
  <1>2. IInv /\ [Next]_vars => IInv'
    BY ConnectionAssumption, PutsStep, WireStep, ListenStep, VerdictStep, AckStep, RestStep
    DEF IInv
  <1> QED
    BY <1>1, <1>2, PTL DEF Spec

(* The types: the counter of listens never wraps, an answer always has a    *)
(* verdict.                                                                 *)
THEOREM TypeCorrect == Spec => []TypeOK
  <1>1. IInv => TypeOK
    <2> SUFFICES ASSUME IInv
                 PROVE  TypeOK
      OBVIOUS
    <2>1. unackedListensCount \in Nat
      BY ConnectionAssumption, ListensAreFinite DEF IInv
    <2>2. outstandingPuts \subseteq Puts
      BY ConnectionAssumption DEF IInv, PutsInv, Answered, Puts, ConnectionAssumption
    <2> QED
      BY <2>1, <2>2
      DEF IInv, PutsInv, WireInv, ListenInv, VerdictInv, RestInv, TypeOK, Requests
  <1> QED
    BY <1>1, Invariance, PTL

(* sendListen, its callback and onDisconnect keep unackedListensCount equal *)
(* to the number of listens whose answer can still arrive.                  *)
THEOREM CountIsRight == Spec => []CountMatchesRequests
  <1>1. IInv => CountMatchesRequests
    BY DEF IInv, ListenInv, CountMatchesRequests
  <1> QED
    BY <1>1, Invariance, PTL

(* putInternal and restoreState between them send every open write once on  *)
(* a connection, in order.                                                  *)
THEOREM PutsAreSentOnce == Spec => []EachPutIsSentOnce
  <1>1. IInv => EachPutIsSentOnce
    <2> SUFFICES ASSUME IInv
                 PROVE  EachPutIsSentOnce
      OBVIOUS
    <2>1. DOMAIN requests = 1..Len(requests)
      BY DEF IInv, WireInv
    <2>2. \A i \in 1..Len(requests) :
            IsPut(requests[i]) => canSendWrites /\ requests[i].put \in outstandingPuts
      BY DEF IInv, WireInv
    <2>3. canSendWrites => \A p \in outstandingPuts :
            \E i \in 1..Len(requests) : IsPut(requests[i]) /\ requests[i].put = p
      BY DEF IInv, WireInv, IsPut
    <2>4. \A i, j \in 1..Len(requests) :
            IsPut(requests[i]) /\ IsPut(requests[j]) /\ i < j => requests[i].put < requests[j].put
      BY DEF IInv, WireInv
    <2> QED
      BY <2>1, <2>2, <2>3, <2>4 DEF EachPutIsSentOnce
  <1> QED
    BY <1>1, Invariance, PTL

(* While a listen lasts, sendPut's callback and ackPuts call the completions*)
(* in the order of the writes, each once.                                   *)
THEOREM CompletionsAreInOrder == Spec => []CompletionsInOrder
  <1>1. IInv => CompletionsInOrder
    BY DEF IInv, PutsInv, AckInv, CompletionsInOrder
  <1> QED
    BY <1>1, Invariance, PTL

-----------------------------------------------------------------------------
(* Every write before one that the server takes has been decided.           *)
LEMMA EarlierAreDecided ==
    ASSUME ConnectionAssumption, PutsInv, WireInv, VerdictInv, served < Len(requests),
           IsPut(requests[served + 1])
    PROVE  LET p == requests[served + 1].put IN
           p \in Answered + 1 .. putCounter /\ \A q \in 1 .. p - 1 : verdict[q] \in Statuses
  <1> DEFINE p == requests[served + 1].put
  <1>1. /\ served + 1 \in 1..Len(requests) /\ served \in Nat
        /\ canSendWrites /\ p \in Answered + 1 .. putCounter
        /\ Answered \in Nat /\ putCounter \in Nat
    BY DEF WireInv, PutsInv, Answered, ConnectionAssumption
  <1>2. ASSUME NEW q \in 1 .. p - 1
        PROVE  verdict[q] \in Statuses
    <2>1. CASE q \in 1..Answered
      BY <2>1 DEF VerdictInv
    <2>2. CASE q \notin 1..Answered
      <3>1. q \in outstandingPuts /\ q < p
        <4> HIDE DEF p, Answered
        <4> QED
          BY <1>1, <2>2 DEF PutsInv
      <3>2. PICK i \in 1..Len(requests) : requests[i].kind = "put" /\ requests[i].put = q
        BY <1>1, <3>1 DEF WireInv
      <3>3. served + 1 < i => p < q
        BY <1>1, <3>2 DEF WireInv, IsPut
      <3>4. i # served + 1
        BY <3>1, <3>2
      <3>5. i \in 1..served
        <4> HIDE DEF p
        <4> QED
          BY <1>1, <3>1, <3>3, <3>4
      <3> QED
        BY <3>2, <3>5 DEF VerdictInv, IsPut
    <2> QED
      BY <2>1, <2>2
  <1> QED
    BY <1>1, <1>2

(* How many writes are settled, from the size of the dictionary.            *)
LEMMA SettledCount ==
    ASSUME NEW a \in Nat, NEW b \in Nat, a <= b
    PROVE  b - Cardinality(a + 1 .. b) = a
  <1>1. Cardinality(a + 1 .. b) = b - a
    BY SortedInterval
  <1> QED
    BY <1>1

(* One step of the client and the server is a step of the pipe.             *)
LEMMA PipeStep ==
    ASSUME Lasting # {}, ConnectionAssumption, IInv, IInv', [Next]_vars
    PROVE  Pipe!Next \/ UNCHANGED Pipe!pipe
  <1> DEFINE settled == putCounter - Cardinality(outstandingPuts)
             results == [i \in DOMAIN completed |-> completed[i].status]
  <1>1. /\ settled = Answered /\ settled' = Answered'
        /\ Answered \in Nat /\ Answered <= putCounter /\ putCounter \in 0..MaxPuts
    <2>1. /\ Answered \in Nat /\ Answered' \in Nat /\ MaxPuts \in Nat
          /\ Answered <= putCounter /\ Answered' <= putCounter'
          /\ putCounter \in 0..MaxPuts /\ putCounter' \in 0..MaxPuts
          /\ outstandingPuts = Answered + 1 .. putCounter
          /\ outstandingPuts' = Answered' + 1 .. putCounter'
      BY DEF IInv, PutsInv, Answered, ConnectionAssumption
    <2> HIDE DEF Answered
    <2> QED
      BY <2>1, SettledCount
  <1>2. /\ completed \in Seq(Answers) /\ putsToAck \in Seq(Answers)
        /\ Len(completed) \in Nat /\ Len(putsToAck) \in Nat
        /\ Answered = Len(completed) + Len(putsToAck)
    BY DEF IInv, PutsInv, Answered
  <1>3. /\ results = [i \in 1..Len(completed) |-> completed[i].status]
        /\ Len(results) = Len(completed)
    BY <1>2 DEF Answers
  <1> HIDE DEF settled, results, Answered
  <1>4. ASSUME UNCHANGED <<putCounter, outstandingPuts, completed, verdict, applied>>
        PROVE  UNCHANGED Pipe!pipe
    BY <1>4 DEF Pipe!pipe
  <1>5. ASSUME NEW last \in 0..MaxPuts, NEW done \in 0..MaxPuts,
               last \in {settled, settled + 1},
               last > settled => last <= putCounter /\ verdict[last] \in Statuses,
               done \in Len(completed)..last, settled' = last,
               results' = [p \in 1..done |-> IF p <= Len(completed) THEN completed[p].status
                                             ELSE verdict[p]],
               UNCHANGED <<putCounter, verdict, applied>>
        PROVE  Pipe!Next
    <2>1. results' = [p \in 1..done |-> IF p <= Len(results) THEN results[p] ELSE verdict[p]]
      BY <1>2, <1>3, <1>5
    <2>2. last > settled => verdict[last] # "none"
      BY <1>5 DEF Statuses
    <2>3. Pipe!Settle(last, done)
      BY <1>3, <1>5, <2>1, <2>2 DEF Pipe!Settle, settled, results
    <2> QED
      BY <1>5, <2>3 DEF Pipe!Next
  <1>6. CASE putInternal
    <2>1. Answered' = Answered
      BY <1>6 DEF putInternal, Answered
    <2>2. settled' = settled
      BY <1>1, <2>1
    <2>3. Pipe!Issue
      BY <1>6, <2>2 DEF putInternal, Pipe!Issue, server, settled
    <2> QED
      BY <2>3 DEF Pipe!Next
  <1>7. CASE ServerTakesNext
    <2> DEFINE p == requests[served + 1].put
    <2>0. UNCHANGED <<putCounter, outstandingPuts, completed>>
      BY <1>7 DEF ServerTakesNext, client
    <2>1. CASE ~IsPut(requests[served + 1])
      BY <1>4, <1>7, <2>0, <2>1 DEF ServerTakesNext, server
    <2>2. CASE IsPut(requests[served + 1])
      <3>1. p \in Answered + 1 .. putCounter /\ \A q \in 1 .. p - 1 : verdict[q] \in Statuses
        BY <1>7, <2>2, EarlierAreDecided DEF ServerTakesNext, IInv
      <3>2. p \in settled + 1 .. putCounter /\ p \in 1..MaxPuts
        BY <1>1, <3>1
      <3>3. \A q \in 1 .. p - 1 : verdict[q] # "none"
        BY <3>1 DEF Statuses
      <3>4. \/ /\ verdict' = [verdict EXCEPT ![p] = "ok"]
               /\ applied' = Append(applied, p)
            \/ /\ verdict' = [verdict EXCEPT ![p] = "error"]
               /\ UNCHANGED applied
        BY <1>7, <2>2 DEF ServerTakesNext
      <3> HIDE DEF p
      <3>5. Pipe!Decide(p)
        BY <2>0, <3>2, <3>3, <3>4 DEF Pipe!Decide, settled
      <3> QED
        BY <3>2, <3>5 DEF Pipe!Next
    <2> QED
      BY <2>1, <2>2
  <1>8. CASE PutAnswered
    <2> DEFINE last == Answered + 1
               answer == [put |-> last, status |-> verdict[last]]
    <2>1. /\ \/ CompletesNow /\ completed' = Append(completed, answer) /\ putsToAck' = putsToAck
             \/ ~CompletesNow /\ putsToAck' = Append(putsToAck, answer) /\ completed' = completed
          /\ answer \in Answers /\ verdict[last] \in Statuses
          /\ Answered' = last /\ last <= putCounter /\ putCounter' = putCounter
      BY <1>8, OldestIsSettled DEF IInv
    <2>2. answer.status = verdict[last]
      OBVIOUS
    <2>3. /\ UNCHANGED <<verdict, applied>>
          /\ settled' = last /\ last = settled + 1 /\ last \in 0..MaxPuts
      BY <1>1, <1>8, <2>1 DEF PutAnswered, server
    <2> HIDE DEF answer, last
    <2>4. CASE CompletesNow /\ completed' = Append(completed, answer)
      <3>1. canSendWrites /\ listenRequests = {}
        BY <1>8, <2>4, HeadIsOldest, ListensAreFinite DEF PutAnswered, CompletesNow, IInv
      <3>2. putsToAck = <<>>
        BY <3>1 DEF IInv, AckInv
      <3>3. last = Len(completed) + 1
        BY <1>2, <3>2 DEF last
      <3>4. /\ completed' \in Seq(Answers) /\ Len(completed') = Len(completed) + 1
            /\ \A i \in 1..Len(completed) : completed'[i] = completed[i]
            /\ completed'[Len(completed) + 1] = answer
        BY <1>2, <2>1, <2>4, Appended
      <3>5. results' = [i \in 1..last |-> completed'[i].status]
        BY <3>3, <3>4 DEF results
      <3>6. results' = [q \in 1..last |-> IF q <= Len(completed) THEN completed[q].status
                                          ELSE verdict[q]]
        BY <1>2, <2>2, <3>3, <3>4, <3>5
      <3>7. last \in Len(completed)..last
        BY <1>2, <3>3
      <3> QED
        BY <1>5, <2>1, <2>3, <3>6, <3>7
    <2>5. CASE completed' = completed
      <3>1. results' = results
        BY <2>5 DEF results
      <3>2. results' = [q \in 1..Len(completed) |-> IF q <= Len(completed) THEN completed[q].status
                                                    ELSE verdict[q]]
        BY <1>2, <1>3, <3>1
      <3>3. Len(completed) \in Len(completed)..last /\ Len(completed) \in 0..MaxPuts
        BY <1>1, <1>2 DEF last
      <3> QED
        BY <1>5, <2>1, <2>3, <3>2, <3>3
    <2> QED
      BY <2>1, <2>4, <2>5
  <1>9. ASSUME NEW r \in listenRequests, ListenAnswered(r)
        PROVE  Pipe!Next \/ UNCHANGED Pipe!pipe
    <2>1. /\ \/ completed' = completed \o putsToAck
             \/ completed' = completed
          /\ Answered' = Answered
          /\ UNCHANGED <<putCounter, outstandingPuts, verdict>>
      BY <1>9, HeldAreCompleted DEF IInv
    <2>2. UNCHANGED applied
      BY <1>9 DEF ListenAnswered, server
    <2>3. CASE completed' = completed
      BY <1>4, <2>1, <2>2, <2>3
    <2>4. CASE completed' = completed \o putsToAck
      <3>1. /\ completed' \in Seq(Answers) /\ Len(completed') = Answered
            /\ \A i \in 1..Answered :
                 completed'[i] = IF i <= Len(completed) THEN completed[i]
                                 ELSE putsToAck[i - Len(completed)]
        BY <1>2, <2>4, Joined
      <3>2. ASSUME NEW i \in 1..Answered, ~(i <= Len(completed))
            PROVE  putsToAck[i - Len(completed)].status = verdict[i]
        <4>1. i - Len(completed) \in 1..Len(putsToAck) /\ Len(completed) + (i - Len(completed)) = i
          BY <1>2, <3>2
        <4>2. putsToAck[i - Len(completed)].status = verdict[Len(completed) + (i - Len(completed))]
          BY <4>1 DEF IInv, AckInv
        <4> QED
          BY <4>1, <4>2
      <3>3. results' = [i \in 1..Answered |-> completed'[i].status]
        BY <3>1 DEF results
      <3>4. results' = [i \in 1..Answered |-> IF i <= Len(completed) THEN completed[i].status
                                              ELSE verdict[i]]
        BY <3>1, <3>2, <3>3
      <3>5. /\ Answered \in 0..MaxPuts /\ Answered \in Len(completed)..Answered
            /\ settled' = Answered /\ Answered \in {settled, settled + 1} /\ ~(Answered > settled)
        BY <1>1, <1>2, <2>1
      <3> QED
        BY <1>5, <2>1, <2>2, <3>4, <3>5
    <2> QED
      BY <2>1, <2>3, <2>4
  <1> QED
    BY <1>4, <1>6, <1>7, <1>8, <1>9
    DEF Next, vars, client, server, listen, removeListen, refreshAuthToken,
        openNetworkConnectionWithToken, onReady, AuthAnswered, onAuthRevokedWithStatus,
        ConnectionLost

(* Writes are settled in the order they were issued, none is stored after a *)
(* later one was settled, and as long as a listen lasts their completions   *)
(* tell what the server settled on, in order (putInternal, restoreState,    *)
(* sendPut, ackPuts).                                                       *)
THEOREM ConnectionIsWritePipe ==
    ASSUME Lasting # {}
    PROVE  Spec => ImplementsWritePipe
  <1>1. Init => Pipe!Init
    BY ConnectionAssumption, FS_EmptySet DEF Init, Pipe!Init, ConnectionAssumption
  <1>2. IInv /\ IInv' /\ [Next]_vars => Pipe!Next \/ UNCHANGED Pipe!pipe
    BY ConnectionAssumption, PipeStep
  <1> QED
    BY <1>1, <1>2, Invariance, PTL DEF Spec, ImplementsWritePipe, Pipe!Spec

-----------------------------------------------------------------------------
(* An answer that was given stays true, listen or no listen: what a         *)
(* completion is called with is what the server made of the write, and the  *)
(* server will not make anything else of it.                                *)

\* Answers, held back or not, of answered writes, with their verdicts.
Tell(answers) ==
    \A i \in 1..Len(answers) :
        answers[i].put \in 1..Answered /\ answers[i].status = verdict[answers[i].put]
ToldInv == Tell(completed) /\ Tell(putsToAck)

\* No verdict of an answered write changes.
VerdictsStay == \A p \in 1..Answered : verdict'[p] = verdict[p]
\* No verdict that a completion was called with changes.
CompletedStay == \A i \in DOMAIN completed : verdict'[completed[i].put] = verdict[completed[i].put]

(* A write that is sent again was not answered, so it is only open writes   *)
(* that the server decides again.                                           *)
LEMMA AnsweredVerdictsStay ==
    ASSUME ConnectionAssumption, PutsInv, WireInv, VerdictInv, [Next]_vars
    PROVE  VerdictsStay
  <1>1. CASE ServerTakesNext
    <2> DEFINE r == requests[served + 1]
    <2>1. CASE ~IsPut(r)
      BY <1>1, <2>1 DEF ServerTakesNext, server, VerdictsStay
    <2>2. CASE IsPut(r)
      <3>1. r.put \in Answered + 1 .. putCounter
        BY <1>1, <2>2, EarlierAreDecided DEF ServerTakesNext
      <3>2. \E v \in Statuses : verdict' = [verdict EXCEPT ![r.put] = v]
        BY <1>1, <2>2 DEF ServerTakesNext, Statuses
      <3>3. Answered \in Nat /\ putCounter \in Nat
        BY DEF PutsInv, Answered, ConnectionAssumption
      <3>4. 1..Answered \subseteq Puts
        BY DEF PutsInv, Puts, Answered, ConnectionAssumption
      <3>5. verdict \in [Puts -> {"none"} \cup Statuses]
        BY DEF VerdictInv
      <3> HIDE DEF r, Answered
      <3>6. \A p \in 1..Answered : p # r.put /\ p \in Puts
        BY <3>1, <3>3, <3>4
      <3> QED
        BY <3>2, <3>5, <3>6 DEF VerdictsStay
    <2> QED
      BY <2>1, <2>2
  <1>2. CASE UNCHANGED verdict
    BY <1>2 DEF VerdictsStay
  <1>3. ASSUME NEW r \in listenRequests, ListenAnswered(r)
        PROVE  UNCHANGED verdict
    BY <1>3 DEF ListenAnswered, server
  <1> QED
    BY <1>1, <1>2, <1>3
    DEF Next, vars, client, wire, server, listen, removeListen, putInternal, refreshAuthToken,
        openNetworkConnectionWithToken, onReady, AuthAnswered, onAuthRevokedWithStatus,
        PutAnswered, ConnectionLost

(* An answer carries the verdict from the moment it is sent, through        *)
(* putsToAck, to the completion.                                            *)
LEMMA ToldStep ==
    ASSUME ConnectionAssumption, PutsInv, WireInv, VerdictInv, ToldInv, [Next]_vars
    PROVE  ToldInv'
  <1>0. Answered \in Nat /\ completed \in Seq(Answers) /\ putsToAck \in Seq(Answers)
    BY DEF PutsInv, Answered
  <1>1. VerdictsStay
    BY AnsweredVerdictsStay
  <1>2. ASSUME UNCHANGED <<completed, putsToAck>>
        PROVE  ToldInv'
    <2>1. Answered' = Answered
      BY <1>2 DEF Answered
    <2> HIDE DEF Answered
    <2> QED
      BY <1>1, <1>2, <2>1 DEF ToldInv, Tell, VerdictsStay
  <1>3. CASE PutAnswered
    <2> DEFINE answer == [put |-> Answered + 1, status |-> verdict[Answered + 1]]
    <2>1. /\ \/ completed' = Append(completed, answer) /\ putsToAck' = putsToAck
             \/ putsToAck' = Append(putsToAck, answer) /\ completed' = completed
          /\ answer \in Answers /\ Answered' = Answered + 1
      BY <1>3, OldestIsSettled
    <2>2. UNCHANGED verdict
      BY <1>3 DEF PutAnswered, server
    <2>3. answer.put = Answered + 1 /\ answer.status = verdict[Answered + 1]
      OBVIOUS
    <2> HIDE DEF answer, Answered
    <2>4. ASSUME NEW s \in Seq(Answers), Tell(s)
          PROVE  /\ \A i \in 1..Len(s) :
                      s[i].put \in 1..Answered' /\ s[i].status = verdict'[s[i].put]
                 /\ \A i \in 1..Len(Append(s, answer)) :
                      /\ Append(s, answer)[i].put \in 1..Answered'
                      /\ Append(s, answer)[i].status = verdict'[Append(s, answer)[i].put]
      <3>1. \A i \in 1..Len(s) :
              s[i].put \in 1..Answered' /\ s[i].status = verdict'[s[i].put]
        BY <1>0, <2>1, <2>2, <2>4 DEF Tell
      <3>2. /\ \A i \in 1..Len(s) : Append(s, answer)[i] = s[i]
            /\ Append(s, answer)[Len(s) + 1] = answer
            /\ 1..Len(Append(s, answer)) = 1..Len(s) \cup {Len(s) + 1}
        BY <2>1, Appended
      <3>3. answer.put \in 1..Answered' /\ answer.status = verdict'[answer.put]
        BY <1>0, <2>1, <2>2, <2>3
      <3> QED
        BY <3>1, <3>2, <3>3
    <2>5. CASE completed' = Append(completed, answer) /\ putsToAck' = putsToAck
      BY <1>0, <2>4, <2>5, Zenon DEF ToldInv, Tell
    <2>6. CASE putsToAck' = Append(putsToAck, answer) /\ completed' = completed
      BY <1>0, <2>4, <2>6, Zenon DEF ToldInv, Tell
    <2> QED
      BY <2>1, <2>5, <2>6
  <1>4. ASSUME NEW r \in listenRequests, ListenAnswered(r)
        PROVE  ToldInv'
    <2>1. /\ \/ completed' = completed \o putsToAck /\ putsToAck' = <<>>
             \/ completed' = completed /\ putsToAck' = putsToAck
          /\ Answered' = Answered /\ UNCHANGED verdict
      BY <1>4, HeldAreCompleted
    <2>2. CASE completed' = completed \o putsToAck /\ putsToAck' = <<>>
      <3>1. /\ Len(completed) \in Nat /\ Len(putsToAck) \in Nat
            /\ Len(completed \o putsToAck) = Len(completed) + Len(putsToAck)
            /\ \A i \in 1..Len(completed \o putsToAck) :
                 (completed \o putsToAck)[i]
                   = IF i <= Len(completed) THEN completed[i] ELSE putsToAck[i - Len(completed)]
        BY <1>0, Joined
      <3> HIDE DEF Answered
      <3>2. Tell(completed)'
        <4>1. SUFFICES ASSUME NEW i \in 1..Len(completed \o putsToAck)
                       PROVE  /\ (completed \o putsToAck)[i].put \in 1..Answered
                              /\ (completed \o putsToAck)[i].status
                                   = verdict[(completed \o putsToAck)[i].put]
          BY <2>1, <2>2 DEF Tell
        <4>2. CASE i <= Len(completed)
          BY <3>1, <4>2 DEF ToldInv, Tell
        <4>3. CASE ~(i <= Len(completed))
          <5>1. i - Len(completed) \in 1..Len(putsToAck)
            BY <3>1, <4>3
          <5> QED
            BY <3>1, <4>3, <5>1 DEF ToldInv, Tell
        <4> QED
          BY <4>2, <4>3
      <3>3. Tell(putsToAck)'
        BY <2>2 DEF Tell
      <3> QED
        BY <3>2, <3>3 DEF ToldInv
    <2>3. CASE completed' = completed /\ putsToAck' = putsToAck
      BY <1>2, <2>3
    <2> QED
      BY <2>1, <2>2, <2>3
  <1> QED
    BY <1>2, <1>3, <1>4
    DEF Next, vars, client, wire, server, listen, removeListen, putInternal, refreshAuthToken,
        openNetworkConnectionWithToken, onReady, ServerTakesNext, AuthAnswered,
        onAuthRevokedWithStatus, ConnectionLost

(* sendPut's callback and ackPuts call a completion with what the server    *)
(* has decided about its write, however late, and also when no listen lasts.*)
THEOREM CompletionsTellVerdicts == Spec => []ToldInv
  <1>1. Init => ToldInv
    BY DEF Init, ToldInv, Tell
  <1>2. IInv /\ ToldInv /\ [Next]_vars => ToldInv'
    BY ConnectionAssumption, ToldStep DEF IInv
  <1> QED
    BY <1>1, <1>2, Invariance, PTL DEF Spec

(* What restoreState sends again was never answered: a write whose          *)
(* completion was called is not decided again, so the app may rely on it.   *)
THEOREM CompletedWritesAreFinal == Spec => [][CompletedStay]_vars
  <1>1. IInv /\ ToldInv /\ [Next]_vars => CompletedStay
    <2> SUFFICES ASSUME IInv, ToldInv, [Next]_vars
                 PROVE  CompletedStay
      OBVIOUS
    <2>1. VerdictsStay
      BY ConnectionAssumption, AnsweredVerdictsStay DEF IInv
    <2>2. DOMAIN completed = 1..Len(completed)
      BY DEF IInv, PutsInv
    <2> HIDE DEF Answered
    <2> QED
      BY <2>1, <2>2 DEF ToldInv, Tell, VerdictsStay, CompletedStay
  <1> QED
    BY <1>1, Invariance, CompletionsTellVerdicts, PTL DEF Spec

-----------------------------------------------------------------------------
\* The stages of getting connected, from the credentials on the wire to those
\* the server took.
At(state) == connectionState = state
Loses == ConnectionLost \/ onAuthRevokedWithStatus

(* Without a loss the stages follow each other, and a connection on which  *)
(* writes can be sent stays one: nothing but the answer to the credentials *)
(* it is restored with comes between.                                      *)
LEMMA ConnectionStep ==
    ASSUME WireInv, [Next]_vars, ~Loses
    PROVE  /\ At("Disconnected") => At("Disconnected")' \/ At("Connecting")'
           /\ At("Connecting") => \/ At("Connecting")' \/ At("Connected")'
                                  \/ At("Authenticating")'
           /\ At("Authenticating") => At("Authenticating")' \/ At("Connected")'
           /\ At("Connected") => At("Connected")'
           /\ At("Authenticating") /\ served > 0 =>
                (At("Authenticating") /\ served > 0)' \/ At("Connected")'
  <1> USE DEF At
  <1>0. served \in Nat
    BY DEF WireInv
  <1>1. ASSUME \/ \E l \in Listens : listen(l) \/ removeListen(l)
               \/ putInternal \/ refreshAuthToken
               \/ \E r \in listenRequests : ListenAnswered(r)
               \/ UNCHANGED vars
        PROVE  connectionState' = connectionState /\ served' = served
    BY <1>1 DEF listen, removeListen, putInternal, refreshAuthToken, ListenAnswered, wire, vars
  <1>2. ASSUME openNetworkConnectionWithToken
        PROVE  At("Disconnected") /\ At("Connecting")'
    BY <1>2 DEF openNetworkConnectionWithToken
  <1>3. ASSUME onReady
        PROVE  At("Connecting") /\ (At("Authenticating")' \/ At("Connected")')
    BY <1>3 DEF onReady
  <1>4. ASSUME ServerTakesNext
        PROVE  connectionState' = connectionState /\ served' = served + 1
    BY <1>4 DEF ServerTakesNext
  <1>5. ASSUME AuthAnswered
        PROVE  At("Connected")' /\ requests # <<>>
    BY <1>5 DEF AuthAnswered, WireInv
  <1>6. ASSUME PutAnswered
        PROVE  connectionState' = connectionState /\ ~At("Authenticating")
    <2>1. connectionState' = connectionState /\ served > 0 /\ IsPut(Head(requests))
      BY <1>6 DEF PutAnswered
    <2>2. requests \in Seq(Requests) /\ (requests # <<>> => Head(requests) = requests[1])
      BY DEF WireInv
    <2>3. At("Authenticating") => requests # <<>> /\ requests[1].kind = "restore"
      BY DEF WireInv
    <2> QED
      BY <2>1, <2>2, <2>3 DEF IsPut
  <1>7. ~connected => requests = <<>>
    BY DEF WireInv
  <1>8. connected <=> At("Authenticating") \/ At("Connected")
    BY DEF connected
  <1> QED
    BY <1>0, <1>1, <1>2, <1>3, <1>4, <1>5, <1>6, <1>7, <1>8 DEF Next, Loses

\* The weak fairness of the steps that connect, with the guard of each in the
\* place of ENABLED, and a connection that is not lost for ever again.
CredentialsAnswerable == served > 0 /\ ~IsPut(Head(requests))
Opens == []<>~At("Disconnected") \/ []<><<openNetworkConnectionWithToken>>_vars
GetsReady == []<>~At("Connecting") \/ []<><<onReady>>_vars
Takes == []<>~(served < Len(requests)) \/ []<><<ServerTakesNext>>_vars
AnswersCredentials == []<>~CredentialsAnswerable \/ []<><<AuthAnswered>>_vars
KeptInTheEnd == <>[][~Loses]_vars
Reconnects == KeptInTheEnd /\ Opens /\ GetsReady /\ Takes /\ AnswersCredentials

(* A client whose connection is not lost for ever again gets to where its  *)
(* writes are sent, and stays there: opening, the handshake and the        *)
(* credentials each end, whatever the app writes, listens to and refreshes *)
(* meanwhile.                                                              *)
THEOREM ClientConnects == Spec /\ Reconnects => <>[]canSendWrites
  <1> DEFINE Taken == At("Authenticating") /\ served > 0
  <1>1. WireInv => \/ At("Disconnected") \/ At("Connecting") \/ At("Authenticating")
                   \/ At("Connected")
    BY DEF WireInv, At
  <1>2. WireInv /\ [Next]_vars /\ ~Loses
          => /\ At("Disconnected") => At("Disconnected")' \/ At("Connecting")'
             /\ At("Connecting") => \/ At("Connecting")' \/ At("Connected")'
                                    \/ At("Authenticating")'
             /\ At("Authenticating") => At("Authenticating")' \/ At("Connected")'
             /\ At("Connected") => At("Connected")'
             /\ Taken => Taken' \/ At("Connected")'
    BY ConnectionStep
  <1>3. <<openNetworkConnectionWithToken>>_vars => ~At("Disconnected")'
    BY DEF openNetworkConnectionWithToken, At
  <1>4. <<onReady>>_vars => ~At("Connecting")'
    BY DEF onReady, At
  <1>5. WireInv /\ At("Authenticating") /\ ~Taken => served < Len(requests)
    <2> SUFFICES ASSUME WireInv, At("Authenticating"), ~Taken
                 PROVE  served < Len(requests)
      OBVIOUS
    <2>1. requests \in Seq(Requests) /\ requests # <<>> /\ served \in 0..Len(requests)
      BY DEF WireInv, At
    <2>2. Len(requests) \in Nat /\ Len(requests) > 0
      BY <2>1
    <2> QED
      BY <2>1, <2>2
  <1>6. WireInv /\ <<ServerTakesNext>>_vars /\ At("Authenticating") => Taken'
    BY DEF WireInv, ServerTakesNext, At
  <1>7. WireInv /\ Taken => CredentialsAnswerable
    <2> SUFFICES ASSUME WireInv, Taken
                 PROVE  CredentialsAnswerable
      OBVIOUS
    <2>1. requests \in Seq(Requests) /\ requests # <<>> /\ requests[1].kind = "restore"
      BY DEF WireInv, At
    <2> QED
      BY <2>1 DEF CredentialsAnswerable, IsPut
  <1>8. <<AuthAnswered>>_vars => At("Connected")'
    BY DEF AuthAnswered, At
  <1>9. At("Connected") <=> canSendWrites
    BY DEF At, canSendWrites
  <1>10. IInv => WireInv
    BY DEF IInv
  <1>11. UNCHANGED vars => /\ At("Disconnected")' <=> At("Disconnected")
                           /\ At("Connecting")' <=> At("Connecting")
                           /\ At("Authenticating")' <=> At("Authenticating")
                           /\ At("Connected")' <=> At("Connected")
                           /\ Taken' <=> Taken
    BY DEF vars, wire, At
  <1>12. Taken => At("Authenticating")
    OBVIOUS
  <1>13. /\ ~(At("Disconnected") /\ (At("Connecting") \/ At("Connected")))
         /\ ~(At("Connecting") /\ (At("Authenticating") \/ At("Connected")))
         /\ ~(At("Authenticating") /\ At("Connected"))
    BY DEF At
  <1> HIDE DEF Taken
  <1> QED
    BY <1>1, <1>2, <1>3, <1>4, <1>5, <1>6, <1>7, <1>8, <1>9, <1>10, <1>11, <1>12, <1>13,
       Invariance, PTL
    DEF Spec, Reconnects, KeptInTheEnd, Opens, GetsReady, Takes, AnswersCredentials
=============================================================================
