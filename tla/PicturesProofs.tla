---------------------------- MODULE PicturesProofs ----------------------------
(* Proofs about Pictures, for any requests, cells, users and rows.          *)
EXTENDS Pictures, TLAPS

\* A load that has left the cache query.
Begun(k) == load[k] \in {"waiting", "shown", "failed", "cancelled"}

\* Load k has a handler in o, or on its way from o to the main queue.
Joined(k, o) == k \in callbackBlocks[o] \/ k \in answer[o].to

\* Only loads that have begun have handlers and operations, of one user each;
\* and a cell in use is configured.
TypeInv ==
    /\ TypeOK
    /\ \A o, k \in Requests : Joined(k, o) => Begun(k) /\ Begun(o) /\ user[k] = user[o]
    /\ \A u \in Users : URLOperations[u] # NoRequest =>
         Begun(URLOperations[u]) /\ user[URLOperations[u]] = u
    /\ \A k \in Requests : address[k] # "none" => configured[cell[k]] # NoRequest

LEMMA TypeInit == Init => TypeInv
  BY PicturesAssumption
  DEF Init, TypeInv, TypeOK, LoadStages, OperationStages, Results, NoAnswer, Joined

(* What sd_cancelImageLoadOperationWithKey drops is the load of the image  *)
(* view itself: the others of an operation that is cancelled are gone.     *)
LEMMA DroppedIsCurrent ==
    ASSUME NEW c \in Cells PROVE Dropped(c) \subseteq {current[c]} \cap Requests
  BY DEF Dropped, ShouldCancel, sd_imageLoadOperationForKey

\* The operations that cancelling the load of c cancels too.
Gone(c) ==
    {o \in Requests : callbackBlocks[o] = {current[c]} /\ current[c] # NoRequest}

\* Setting the picture of request k in cell c, the load starting in a stage.
ImageIsSet(k, c, stage) ==
    /\ c = cell[k] /\ user[k] \in Users
    /\ address[k] = "asked" /\ load[k] = "none"
    /\ address' = [address EXCEPT ![k] = "received"]
    /\ imageURL' = [imageURL EXCEPT ![c] = user[k]]
    /\ cancelled' = cancelled \cup ({current[c]} \ {NoRequest})
    /\ stopped' = stopped \cup Gone(c)
    /\ operation' = [o \in Requests |-> IF o \in Gone(c) /\ operation[o] = "executing"
                                        THEN "finished" ELSE operation[o]]
    /\ callbackBlocks' = [o \in Requests |-> callbackBlocks[o] \ Dropped(c)]
    /\ load' = [j \in Requests |-> IF j = k THEN stage
                                   ELSE IF j \in Dropped(c) THEN "cancelled"
                                   ELSE load[j]]
    /\ image' = [image EXCEPT ![c] = IF stage = "shown" THEN user[k] ELSE NoUser]
    /\ current' = [current EXCEPT ![c] =
                     IF stage \in {"reading", "missing"} THEN k ELSE NoRequest]
    /\ overtaken' = IF configured[c] # k /\ address[configured[c]] = "received"
                    THEN overtaken \cup {configured[c]} ELSE overtaken
    /\ UNCHANGED <<configured, cell, user, stored, failedURLs, joinedLate,
                   URLOperations, answer>>

(* The step of sd_setImage, with the operations it calls expanded.         *)
LEMMA SetImage ==
    ASSUME TypeOK, NEW k \in Requests, sd_setImage(k)
    PROVE  \E c \in Cells, stage \in {"failed", "shown", "reading", "missing"} :
             ImageIsSet(k, c, stage)
  <1> DEFINE c == cell[k]
  <1> DEFINE gone == {o \in Requests : \E j \in sd_imageLoadOperationForKey(c) :
                                         ShouldCancel(o, j)}
  <1>1. gone = Gone(c)
    BY DEF Gone, sd_imageLoadOperationForKey, ShouldCancel
  <1>2. /\ address[k] = "asked"
        /\ address' = [address EXCEPT ![k] = "received"]
        /\ imageURL' = [imageURL EXCEPT ![c] = user[k]]
        /\ sd_cancelImageLoadOperationWithKey(c)
        /\ \E stage \in loadImageWithURL(user[k]) :
             /\ load' = [j \in Requests |-> IF j = k THEN stage
                                            ELSE IF j \in Dropped(c) THEN "cancelled"
                                            ELSE load[j]]
             /\ image' = [image EXCEPT ![c] = IF stage = "shown" THEN user[k]
                                              ELSE NoUser]
             /\ current' = [current EXCEPT ![c] =
                              IF stage \in {"reading", "missing"} THEN k ELSE NoRequest]
        /\ overtaken' = IF configured[c] # k /\ address[configured[c]] = "received"
                        THEN overtaken \cup {configured[c]} ELSE overtaken
        /\ UNCHANGED <<configured, cell, user, stored, failedURLs, joinedLate>>
    BY Zenon DEF sd_setImage
  <1>3. c \in Cells /\ user[k] \in Users /\ load[k] = "none"
    BY <1>2 DEF TypeOK, LoadStages
  <1>4. loadImageWithURL(user[k]) \subseteq {"failed", "shown", "reading", "missing"}
    BY DEF loadImageWithURL
  <1>5. /\ cancelled' = cancelled \cup sd_imageLoadOperationForKey(c)
        /\ stopped' = stopped \cup gone
        /\ operation' = [o \in Requests |-> IF o \in gone THEN StateWhenCancelled(o)
                                            ELSE operation[o]]
        /\ callbackBlocks' = [o \in Requests |-> callbackBlocks[o] \ Dropped(c)]
        /\ UNCHANGED <<URLOperations, answer>>
    BY <1>2 DEF sd_cancelImageLoadOperationWithKey
  <1>6. operation' = [o \in Requests |->
                        IF o \in Gone(c) /\ operation[o] = "executing"
                        THEN "finished" ELSE operation[o]]
    BY <1>1, <1>5 DEF StateWhenCancelled
  <1>7. PICK stage \in {"failed", "shown", "reading", "missing"} :
             /\ load' = [j \in Requests |-> IF j = k THEN stage
                                            ELSE IF j \in Dropped(c) THEN "cancelled"
                                            ELSE load[j]]
             /\ image' = [image EXCEPT ![c] = IF stage = "shown" THEN user[k]
                                              ELSE NoUser]
             /\ current' = [current EXCEPT ![c] =
                              IF stage \in {"reading", "missing"} THEN k ELSE NoRequest]
    BY <1>2, <1>4
  <1>8. ImageIsSet(k, c, stage)
    BY <1>1, <1>2, <1>3, <1>5, <1>6, <1>7 DEF ImageIsSet, sd_imageLoadOperationForKey
  <1> QED
    BY <1>3, <1>8

\* The picture of k is read from the disk and set.
ImageIsRead(k) ==
    /\ load[k] = "reading" /\ k \notin cancelled /\ cell[k] \in Cells
    /\ load' = [load EXCEPT ![k] = "shown"]
    /\ image' = [image EXCEPT ![cell[k]] = user[k]]
    /\ current' = [current EXCEPT ![cell[k]] = NoRequest]
    /\ UNCHANGED <<tableVars, imageURL, cancelled, stored, failedURLs,
                   downloadVars, historyVars>>

\* k joins operation o.
LoadJoins(k, o) ==
    /\ load[k] = "missing" /\ user[k] \in Users /\ o = URLOperations[user[k]]
    /\ operation[o] \notin {"finished", "removed"} /\ o \notin stopped
    /\ load' = [load EXCEPT ![k] = "waiting"]
    /\ callbackBlocks' = [callbackBlocks EXCEPT ![o] = @ \cup {k}]
    /\ joinedLate' = IF operation[o] = "collected" THEN joinedLate \cup {k}
                     ELSE joinedLate
    /\ UNCHANGED <<tableVars, viewVars, cancelled, stored, failedURLs,
                   URLOperations, operation, stopped, answer, overtaken>>

\* k starts an operation.
DownloadIsStarted(k) ==
    /\ load[k] = "missing" /\ user[k] \in Users
    /\ load' = [load EXCEPT ![k] = "waiting"]
    /\ URLOperations' = [URLOperations EXCEPT ![user[k]] = k]
    /\ operation' = [operation EXCEPT ![k] = "queued"]
    /\ callbackBlocks' = [callbackBlocks EXCEPT ![k] = {k}]
    /\ UNCHANGED <<tableVars, viewVars, cancelled, stored, failedURLs, stopped,
                   answer, historyVars>>

(* The step of queryCacheOperationForKey, case by case.                    *)
LEMMA Query ==
    ASSUME TypeOK, NEW k \in Requests, queryCacheOperationForKey(k)
    PROVE  \/ ImageIsRead(k)
           \/ \E o \in Requests : LoadJoins(k, o)
           \/ DownloadIsStarted(k)
  <1> USE DEF tableVars, viewVars, managerVars, downloadVars, historyVars
  <1> DEFINE o == URLOperations[user[k]]
  <1>1. load[k] # "none" => cell[k] \in Cells /\ user[k] \in Users
    BY DEF TypeOK
  <1>2. CASE load[k] = "reading"
    BY <1>1, <1>2 DEF queryCacheOperationForKey, ImageIsRead
  <1>3. CASE load[k] = "missing" /\ Reusable(o)
    <2>1. o \in Requests
      BY <1>1, <1>3 DEF Reusable, TypeOK
    <2>2. LoadJoins(k, o)
      BY <1>1, <1>3
      DEF queryCacheOperationForKey, downloadImageWithURL, LoadJoins, Reusable
    <2> QED
      BY <2>1, <2>2
  <1>4. CASE load[k] = "missing" /\ ~Reusable(o)
    BY <1>1, <1>4
    DEF queryCacheOperationForKey, downloadImageWithURL, DownloadIsStarted
  <1> QED
    BY <1>2, <1>3, <1>4 DEF queryCacheOperationForKey

\* Operation k calls back: the loads that wait for it end.
LoadsAreAnswered(k) ==
    LET wanted == answer[k].to \ cancelled
        success == answer[k].result = "image"
    IN
    /\ answer[k].to # {}
    /\ answer' = [answer EXCEPT ![k] = NoAnswer]
    /\ load' = [j \in Requests |->
                  IF j \in wanted THEN IF success THEN "shown" ELSE "failed"
                  ELSE IF j \in answer[k].to THEN "cancelled" ELSE load[j]]
    /\ image' = [c \in Cells |-> IF c \in {cell[j] : j \in wanted} /\ success
                                 THEN user[k] ELSE image[c]]
    /\ current' = [c \in Cells |-> IF current[c] \in wanted THEN NoRequest
                                   ELSE current[c]]
    /\ stored' \in {stored, stored \cup {user[k]}}
    /\ failedURLs' \in {failedURLs, failedURLs \cup {user[k]}}
    /\ UNCHANGED <<tableVars, imageURL, cancelled, URLOperations, operation,
                   stopped, callbackBlocks, historyVars>>

LEMMA Complete ==
    ASSUME NEW k \in Requests, completed(k) PROVE LoadsAreAnswered(k)
  BY DEF completed, StillWanted, LoadsAreAnswered

(* Every variable of the pictures stays in its set.                        *)
LEMMA TypeStep == TypeInv /\ [Next]_vars => TypeInv'
  <1> SUFFICES ASSUME TypeInv, [Next]_vars PROVE TypeInv'
    OBVIOUS
  <1>0. NoRequest \notin Requests
    BY PicturesAssumption
  <1> USE DEF TypeInv, Joined, Begun, TypeOK, LoadStages, OperationStages, Results,
              tableVars, viewVars,
              managerVars, downloadVars, historyVars
  <1>1. ASSUME NEW k \in Requests, NEW c \in Cells, NEW u \in Users, configure(k, c, u) PROVE TypeInv'
    BY <1>0, <1>1 DEF configure
  <1>2. ASSUME NEW k \in Requests, AddressFailed(k) PROVE TypeInv'
    BY <1>2 DEF AddressFailed
  <1>3. ASSUME NEW k \in Requests, sd_setImage(k) PROVE TypeInv'
    <2>1. PICK c \in Cells, stage \in {"failed", "shown", "reading", "missing"} :
             ImageIsSet(k, c, stage)
      BY <1>3, SetImage
    <2>2. \A j \in Dropped(c) : j \in Requests /\ Begun(j)
      BY DEF Dropped
    <2>a. /\ load' = [j \in Requests |-> IF j = k THEN stage
                                          ELSE IF j \in Dropped(c) THEN "cancelled"
                                          ELSE load[j]]
          /\ address' = [address EXCEPT ![k] = "received"]
      BY <2>1 DEF ImageIsSet
    <2>b. /\ address \in [Requests -> {"none", "asked", "received", "failed"}]
          /\ load \in [Requests -> LoadStages]
          /\ \A j \in Requests : load[j] # "none" <=> address[j] = "received"
      OBVIOUS
    <2>3. load' \in [Requests -> LoadStages]
      BY <2>a
    <2>4. ASSUME NEW j \in Requests
          PROVE  load'[j] # "none" <=> address'[j] = "received"
      <3> HIDE DEF TypeInv, TypeOK, Joined, LoadStages, OperationStages
      <3>1. CASE j = k
        BY <2>a, <2>b, <3>1
      <3>2. CASE j # k /\ j \in Dropped(c)
        BY <2>a, <2>b, <2>2, <3>2
      <3>3. CASE j # k /\ j \notin Dropped(c)
        BY <2>a, <2>b, <3>3
      <3> QED
        BY <3>1, <3>2, <3>3
    <2>5. \A o, j \in Requests : Joined(j, o)' => Begun(j)' /\ Begun(o)' /\ user[j] = user[o]
      BY <2>1, <2>2 DEF ImageIsSet
    <2>6. /\ address' \in [Requests -> {"none", "asked", "received", "failed"}]
          /\ imageURL' \in [Cells -> Users \cup {NoUser}]
          /\ image' \in [Cells -> Users \cup {NoUser}]
          /\ current' \in [Cells -> Requests \cup {NoRequest}]
          /\ overtaken' \subseteq Requests
      BY <2>1 DEF ImageIsSet
    <2>7. /\ operation' \in [Requests -> OperationStages]
          /\ \A o \in Requests : operation'[o] # "none" => user[o] \in Users
          /\ stopped' \subseteq Requests
          /\ callbackBlocks' \in [Requests -> SUBSET Requests]
          /\ cancelled' \subseteq Requests
      BY <2>1 DEF ImageIsSet, Gone
    <2> QED
      BY <2>1, <2>3, <2>4, <2>5, <2>6, <2>7 DEF ImageIsSet
  <1>4. ASSUME NEW k \in Requests, QueryCancelled(k) PROVE TypeInv'
    BY <1>4 DEF QueryCancelled
  <1>5. ASSUME NEW k \in Requests, queryCacheOperationForKey(k) PROVE TypeInv'
    <2>1. CASE ImageIsRead(k)
      BY <2>1 DEF ImageIsRead
    <2>2. ASSUME NEW o \in Requests, LoadJoins(k, o) PROVE TypeInv'
      BY <1>0, <2>2 DEF LoadJoins
    <2>3. CASE DownloadIsStarted(k)
      BY <2>3 DEF DownloadIsStarted
    <2> QED
      BY <1>5, <2>1, <2>2, <2>3, Query
  <1>6. ASSUME NEW k \in Requests, start(k) PROVE TypeInv'
    BY <1>6 DEF start
  <1>7. ASSUME NEW k \in Requests, didCompleteWithData(k) PROVE TypeInv'
    BY <1>7 DEF didCompleteWithData
  <1>8. ASSUME NEW k \in Requests, didCompleteWithError(k) PROVE TypeInv'
    BY <1>8 DEF didCompleteWithError, callCompletionBlocks, callbacksForKey
  <1>9. ASSUME NEW k \in Requests, decodeImageData(k) PROVE TypeInv'
    BY <1>9 DEF decodeImageData, callCompletionBlocks, callbacksForKey
  <1>10. ASSUME NEW k \in Requests, done(k) PROVE TypeInv'
    BY <1>10 DEF done
  <1>11. ASSUME NEW k \in Requests, completionBlock(k) PROVE TypeInv'
    BY <1>11 DEF completionBlock
  <1>12. ASSUME NEW k \in Requests, completed(k) PROVE TypeInv'
    <2>1. LoadsAreAnswered(k)
      BY <1>12, Complete
    <2>2. user[k] \in Users
      <3>1. PICK j \in Requests : j \in answer[k].to
        BY <2>1 DEF LoadsAreAnswered
      <3> QED
        BY <3>1
    <2>3. answer' \in [Requests -> [to : SUBSET Requests, result : Results]]
      BY <2>1 DEF LoadsAreAnswered, NoAnswer
    <2>4. load' \in [Requests -> LoadStages]
      BY <2>1 DEF LoadsAreAnswered
    <2>5. \A j \in Requests : /\ Begun(j) => Begun(j)'
                              /\ load'[j] = "none" <=> load[j] = "none"
      BY <2>1 DEF LoadsAreAnswered
    <2>6. /\ image' \in [Cells -> Users \cup {NoUser}]
          /\ current' \in [Cells -> Requests \cup {NoRequest}]
          /\ stored' \subseteq Users /\ failedURLs' \subseteq Users
      BY <2>1, <2>2 DEF LoadsAreAnswered
    <2>7. UNCHANGED <<tableVars, imageURL, cancelled, URLOperations, operation,
                      stopped, callbackBlocks, historyVars>>
      BY <2>1 DEF LoadsAreAnswered
    <2>8. TypeOK'
      BY <2>3, <2>4, <2>5, <2>6, <2>7
    <2>9. ASSUME NEW o \in Requests, NEW j \in Requests, Joined(j, o)'
          PROVE  Begun(j)' /\ Begun(o)' /\ user'[j] = user'[o]
      <3>1. Joined(j, o)
        BY <2>1, <2>9 DEF LoadsAreAnswered, NoAnswer
      <3>2. Begun(j) /\ Begun(o) /\ user[j] = user[o]
        BY <3>1
      <3> QED
        BY <2>5, <2>7, <3>2
    <2>10. ASSUME NEW u \in Users, URLOperations'[u] # NoRequest
           PROVE  Begun(URLOperations[u])' /\ user'[URLOperations'[u]] = u
      <3>1. URLOperations[u] \in Requests /\ Begun(URLOperations[u])
        BY <2>7, <2>10
      <3> QED
        BY <2>5, <2>7, <2>10, <3>1
    <2> QED
      BY <2>7, <2>8, <2>9, <2>10
  <1>13. CASE UNCHANGED vars
    BY <1>13 DEF vars
  <1> QED
    BY <1>1, <1>2, <1>3, <1>4, <1>5, <1>6, <1>7, <1>8, 
       <1>9, <1>10, <1>11, <1>12, <1>13
    DEF Next, Answered, Queried, Transferred, Finishing

-----------------------------------------------------------------------------
\* An operation that has yet to collect its handlers.
Open(o) == operation[o] \in {"queued", "executing", "decoding"}

\* An operation belongs to a load that has begun, keeps no handlers once it is
\* cancelled, and has called no handlers before it collected them.
OperationInv ==
    /\ \A o \in Requests : operation[o] # "none" => Begun(o)
    /\ \A o \in Requests :
         o \in stopped \/ callbackBlocks[o] # {} => operation[o] # "none"
    /\ \A o \in stopped : callbackBlocks[o] = {}
    /\ \A o \in Requests :
         answer[o].to # {} => operation[o] \in {"collected", "finished", "removed"}
    /\ \A u \in Users :
         URLOperations[u] # NoRequest => operation[URLOperations[u]] # "none"

LEMMA OperationStep == TypeInv /\ OperationInv /\ [Next]_vars => OperationInv'
  <1> SUFFICES ASSUME TypeInv, OperationInv, [Next]_vars PROVE OperationInv'
    OBVIOUS
  <1>0. TypeOK
    BY DEF TypeInv
  <1> USE DEF OperationInv, TypeOK, Begun, OperationStages, Results, NoAnswer,
              tableVars, viewVars, managerVars, downloadVars, historyVars
  <1>1. ASSUME NEW k \in Requests, NEW c \in Cells, NEW u \in Users, configure(k, c, u)
        PROVE  OperationInv'
    BY <1>0, <1>1 DEF configure
  <1>2. ASSUME NEW k \in Requests, AddressFailed(k) PROVE OperationInv'
    BY <1>0, <1>2 DEF AddressFailed
  <1>3. ASSUME NEW k \in Requests, sd_setImage(k) PROVE OperationInv'
    <2>1. PICK c \in Cells, stage \in {"failed", "shown", "reading", "missing"} :
             ImageIsSet(k, c, stage)
      BY <1>0, <1>3, SetImage
    <2>2. \A o \in Gone(c) : callbackBlocks[o] \subseteq Dropped(c) /\ operation[o] # "none"
      BY <1>0
      DEF Gone, Dropped, sd_imageLoadOperationForKey, ShouldCancel
    <2>3. \A j \in Requests : Begun(j) => Begun(j)'
      BY <1>0, <2>1 DEF ImageIsSet
    <2>4. \A o \in Requests : /\ operation'[o] # "none" <=> operation[o] # "none"
                              /\ operation[o] \in {"collected", "finished", "removed"} =>
                                  operation'[o] = operation[o]
                              /\ callbackBlocks'[o] \subseteq callbackBlocks[o]
                              /\ o \in Gone(c) => callbackBlocks'[o] = {}
      BY <1>0, <2>1, <2>2 DEF ImageIsSet
    <2>5. stopped' = stopped \cup Gone(c) /\ UNCHANGED <<URLOperations, answer>>
      BY <2>1 DEF ImageIsSet
    <2>6. stopped' \subseteq Requests
      BY <1>0, <2>5 DEF Gone
    <2>7. \A o \in Requests : answer[o].to # {} =>
            operation'[o] \in {"collected", "finished", "removed"}
      BY <2>4
    <2>8. \A u \in Users : URLOperations[u] # NoRequest =>
            operation'[URLOperations[u]] # "none"
      BY <1>0, <2>4
    <2>9. \A o \in stopped' : callbackBlocks'[o] = {} /\ operation'[o] # "none"
      BY <1>0, <2>2, <2>4, <2>5, <2>6
    <2>10. \A o \in Requests : /\ operation'[o] # "none" => Begun(o)'
                               /\ callbackBlocks'[o] # {} => operation'[o] # "none"
      BY <1>0, <2>3, <2>4
    <2> QED
      BY <2>5, <2>7, <2>8, <2>9, <2>10
  <1>4. ASSUME NEW k \in Requests, QueryCancelled(k) PROVE OperationInv'
    BY <1>0, <1>4 DEF QueryCancelled
  <1>5. ASSUME NEW k \in Requests, queryCacheOperationForKey(k) PROVE OperationInv'
    <2>1. CASE ImageIsRead(k)
      BY <1>0, <2>1 DEF ImageIsRead
    <2>2. ASSUME NEW o \in Requests, LoadJoins(k, o) PROVE OperationInv'
      <3>1. operation[o] # "none" /\ o \notin stopped
        BY <1>0, <2>2, PicturesAssumption DEF LoadJoins
      <3> QED
        BY <1>0, <2>2, <3>1 DEF LoadJoins
    <2>3. CASE DownloadIsStarted(k)
      <3>1. operation \in [Requests -> OperationStages] /\ user[k] \in Users
        BY <1>0, <2>3 DEF DownloadIsStarted
      <3>2. k \notin stopped
        BY <1>0, <2>3 DEF DownloadIsStarted
      <3>3. \A o \in Requests : operation'[o] = IF o = k THEN "queued" ELSE operation[o]
        BY <3>1, <2>3 DEF DownloadIsStarted
      <3>4. /\ \A o \in Requests : Begun(o) => Begun(o)'
            /\ Begun(k)'
        BY <1>0, <2>3 DEF DownloadIsStarted
      <3>5. \A o \in Requests :
               callbackBlocks'[o] = IF o = k THEN {k} ELSE callbackBlocks[o]
        BY <1>0, <2>3 DEF DownloadIsStarted
      <3>6. \A u \in Users : URLOperations'[u] = IF u = user[k] THEN k ELSE URLOperations[u]
        BY <1>0, <2>3, <3>1 DEF DownloadIsStarted
      <3>7. UNCHANGED <<stopped, answer>>
        BY <2>3 DEF DownloadIsStarted
      <3>8. answer[k].to = {}
        BY <1>0, <2>3 DEF DownloadIsStarted
      <3>9. stopped \subseteq Requests /\ URLOperations \in [Users -> Requests \cup {NoRequest}]
        BY <1>0
      <3> HIDE DEF TypeOK, Begun, OperationStages, NoAnswer, Results
      <3>10. \A o \in Requests :
               /\ operation'[o] # "none" => Begun(o)'
               /\ o \in stopped' \/ callbackBlocks'[o] # {} => operation'[o] # "none"
        BY <3>3, <3>4, <3>5, <3>7
      <3>11. \A o \in stopped' : callbackBlocks'[o] = {}
        BY <3>2, <3>5, <3>7, <3>9
      <3>12. \A o \in Requests : answer'[o].to # {} =>
                operation'[o] \in {"collected", "finished", "removed"}
        BY <3>3, <3>7, <3>8
      <3>13. \A u \in Users : URLOperations'[u] # NoRequest =>
                operation'[URLOperations'[u]] # "none"
        BY <3>3, <3>6, <3>9
      <3> QED
        BY <3>10, <3>11, <3>12, <3>13
    <2>4. ImageIsRead(k) \/ (\E o \in Requests : LoadJoins(k, o)) \/ DownloadIsStarted(k)
      BY <1>0, <1>5, Query
    <2> HIDE DEF OperationInv, TypeOK
    <2> QED
      BY <2>1, <2>2, <2>3, <2>4
  <1>6. ASSUME NEW k \in Requests, start(k) PROVE OperationInv'
    BY <1>0, <1>6 DEF start
  <1>7. ASSUME NEW k \in Requests, didCompleteWithData(k) PROVE OperationInv'
    BY <1>0, <1>7 DEF didCompleteWithData
  <1>8. ASSUME NEW k \in Requests, didCompleteWithError(k) PROVE OperationInv'
    BY <1>0, <1>8 DEF didCompleteWithError, callCompletionBlocks
  <1>9. ASSUME NEW k \in Requests, decodeImageData(k) PROVE OperationInv'
    BY <1>0, <1>9 DEF decodeImageData, callCompletionBlocks
  <1>10. ASSUME NEW k \in Requests, done(k) PROVE OperationInv'
    BY <1>0, <1>10 DEF done
  <1>11. ASSUME NEW k \in Requests, completionBlock(k) PROVE OperationInv'
    BY <1>0, <1>11 DEF completionBlock
  <1>12. ASSUME NEW k \in Requests, completed(k) PROVE OperationInv'
    <2>0. LoadsAreAnswered(k)
      BY <1>12, Complete
    <2>1. \A j \in Requests : Begun(j) => Begun(j)'
      BY <1>0, <2>0 DEF LoadsAreAnswered
    <2>a. answer' = [answer EXCEPT ![k] = NoAnswer]
      BY <2>0 DEF LoadsAreAnswered
    <2>2. \A o \in Requests : answer'[o].to # {} => answer[o].to # {}
      BY <1>0, <2>a
    <2>3. UNCHANGED <<operation, stopped, callbackBlocks, URLOperations>>
      BY <1>12, Complete DEF LoadsAreAnswered
    <2> HIDE DEF Begun, TypeOK, NoAnswer, OperationStages
    <2> QED
      BY <2>1, <2>2, <2>3
  <1>13. CASE UNCHANGED vars
    BY <1>13 DEF vars
  <1> QED
    BY <1>1, <1>2, <1>3, <1>4, <1>5, <1>6, <1>7, <1>8,
       <1>9, <1>10, <1>11, <1>12, <1>13
    DEF Next, Answered, Queried, Transferred, Finishing

-----------------------------------------------------------------------------
\* A load has at most one handler, and waits until it is called or dropped.
HandlerInv ==
    /\ \A o, p, k \in Requests : Joined(k, o) /\ Joined(k, p) => o = p
    /\ \A o, k \in Requests :
         k \in answer[o].to /\ k \notin cancelled => load[k] = "waiting"
    /\ \A o, k \in Requests :
         k \in callbackBlocks[o] /\ k \notin cancelled /\ Open(o) => load[k] = "waiting"

LEMMA HandlerStep ==
    TypeInv /\ OperationInv /\ HandlerInv /\ [Next]_vars => HandlerInv'
  <1> SUFFICES ASSUME TypeInv, OperationInv, HandlerInv, [Next]_vars
               PROVE  HandlerInv'
    OBVIOUS
  <1>0. /\ TypeOK
        /\ \A o, k \in Requests : Joined(k, o) => Begun(k)
        /\ \A o \in Requests : Open(o) => answer[o].to = {}
    BY DEF TypeInv, OperationInv, Open
  <1> USE DEF HandlerInv, TypeOK, Joined, Open, OperationStages, Results, NoAnswer,
              tableVars, viewVars, managerVars, downloadVars, historyVars
  <1>1. ASSUME NEW k \in Requests, NEW c \in Cells, NEW u \in Users, configure(k, c, u)
        PROVE  HandlerInv'
    BY <1>0, <1>1 DEF configure
  <1>2. ASSUME NEW k \in Requests, AddressFailed(k) PROVE HandlerInv'
    BY <1>0, <1>2 DEF AddressFailed
  <1>3. ASSUME NEW k \in Requests, sd_setImage(k) PROVE HandlerInv'
    <2>1. PICK c \in Cells, stage \in {"failed", "shown", "reading", "missing"} :
             ImageIsSet(k, c, stage)
      BY <1>0, <1>3, SetImage
    <2>2. \A j \in Requests : j \notin cancelled' /\ Begun(j) => load'[j] = load[j]
      BY <1>0, <2>1, DroppedIsCurrent, PicturesAssumption DEF ImageIsSet, Begun
    <2>3. \A o \in Requests : /\ callbackBlocks'[o] \subseteq callbackBlocks[o]
                              /\ Open(o)' => Open(o)
      BY <1>0, <2>1 DEF ImageIsSet
    <2>4. cancelled \subseteq cancelled' /\ answer' = answer
      BY <2>1 DEF ImageIsSet
    <2> QED
      BY <1>0, <2>2, <2>3, <2>4
  <1>4. ASSUME NEW k \in Requests, QueryCancelled(k) PROVE HandlerInv'
    BY <1>0, <1>4 DEF QueryCancelled
  <1>5. ASSUME NEW k \in Requests, queryCacheOperationForKey(k) PROVE HandlerInv'
    <2>1. CASE ImageIsRead(k)
      BY <1>0, <2>1 DEF ImageIsRead, Begun
    <2>2. ASSUME NEW o \in Requests, LoadJoins(k, o) PROVE HandlerInv'
      <3>1. ~Begun(k)
        BY <2>2 DEF LoadJoins, Begun
      <3>2. \A p \in Requests : ~Joined(k, p)
        BY <1>0, <3>1
      <3> QED
        BY <1>0, <2>2, <3>2 DEF LoadJoins
    <2>3. CASE DownloadIsStarted(k)
      <3>1. ~Begun(k)
        BY <2>3 DEF DownloadIsStarted, Begun
      <3>2. \A p \in Requests : ~Joined(k, p)
        BY <1>0, <3>1
      <3>3. callbackBlocks[k] = {} /\ answer[k].to = {}
        BY <3>1 DEF OperationInv
      <3> QED
        BY <1>0, <2>3, <3>2, <3>3 DEF DownloadIsStarted
    <2> QED
      BY <1>0, <1>5, <2>1, <2>2, <2>3, Query
  <1>6. ASSUME NEW k \in Requests, start(k) PROVE HandlerInv'
    BY <1>0, <1>6 DEF start
  <1>7. ASSUME NEW k \in Requests, didCompleteWithData(k) PROVE HandlerInv'
    BY <1>0, <1>7 DEF didCompleteWithData
  <1>8. ASSUME NEW k \in Requests, NEW result \in Results, Open(k),
               callCompletionBlocks(k, result)
        PROVE  HandlerInv'
    BY <1>0, <1>8 DEF callCompletionBlocks, callbacksForKey
  <1>9. ASSUME NEW k \in Requests, didCompleteWithError(k) \/ decodeImageData(k)
        PROVE  HandlerInv'
    BY <1>8, <1>9 DEF didCompleteWithError, decodeImageData
  <1>10. ASSUME NEW k \in Requests, done(k) PROVE HandlerInv'
    BY <1>0, <1>10 DEF done
  <1>11. ASSUME NEW k \in Requests, completionBlock(k) PROVE HandlerInv'
    BY <1>0, <1>11 DEF completionBlock
  <1>12. ASSUME NEW k \in Requests, completed(k) PROVE HandlerInv'
    <2>1. LoadsAreAnswered(k)
      BY <1>12, Complete
    <2>2. UNCHANGED <<cancelled, operation, callbackBlocks>>
      BY <2>1 DEF LoadsAreAnswered
    <2>3. \A o \in Requests : answer'[o].to = IF o = k THEN {} ELSE answer[o].to
      BY <1>0, <2>1 DEF LoadsAreAnswered
    <2>4. \A j \in Requests : j \notin answer[k].to => load'[j] = load[j]
      BY <1>0, <2>1 DEF LoadsAreAnswered
    <2>5. ~Open(k)
      BY <1>0, <2>1 DEF LoadsAreAnswered
    <2> QED
      BY <1>0, <2>2, <2>3, <2>4, <2>5
  <1>13. CASE UNCHANGED vars
    BY <1>13 DEF vars
  <1> QED
    BY <1>1, <1>2, <1>3, <1>4, <1>5, <1>6, <1>7, <1>9,
       <1>10, <1>11, <1>12, <1>13
    DEF Next, Answered, Queried, Transferred, Finishing

-----------------------------------------------------------------------------
\* A load that may still set a picture.
Live(k) == load[k] \in {"reading", "missing", "waiting"} /\ k \notin cancelled

\* It is the load its image view has, for the picture the view is to show.
ViewInv ==
    /\ SupersededLoadsShowNothing
    /\ \A k \in Requests :
         Live(k) => current[cell[k]] = k /\ imageURL[cell[k]] = user[k]

LEMMA ViewStep ==
    TypeInv /\ HandlerInv /\ ViewInv /\ [Next]_vars => ViewInv'
  <1> SUFFICES ASSUME TypeInv, HandlerInv, ViewInv, [Next]_vars
               PROVE  ViewInv'
    OBVIOUS
  <1>0. TypeOK
    BY DEF TypeInv
  <1> USE DEF ViewInv, SupersededLoadsShowNothing, TypeOK, Live,
              tableVars, viewVars, managerVars, downloadVars, historyVars
  <1>1. ASSUME NEW k \in Requests, NEW c \in Cells, NEW u \in Users, configure(k, c, u)
        PROVE  ViewInv'
    <2>1. UNCHANGED <<image, imageURL, current, load, cancelled>> /\ load[k] = "none"
      BY <1>0, <1>1 DEF configure
    <2>2. \A j \in Requests : j # k => cell'[j] = cell[j] /\ user'[j] = user[j]
      BY <1>0, <1>1 DEF configure
    <2> QED
      BY <2>1, <2>2
  <1>2. ASSUME NEW k \in Requests, AddressFailed(k) PROVE ViewInv'
    BY <1>0, <1>2 DEF AddressFailed
  <1>3. ASSUME NEW k \in Requests, sd_setImage(k) PROVE ViewInv'
    <2>1. PICK c \in Cells, stage \in {"failed", "shown", "reading", "missing"} :
             ImageIsSet(k, c, stage)
      BY <1>0, <1>3, SetImage
    <2>2. \A d \in Cells : image'[d] \in {NoUser, imageURL'[d]}
      BY <1>0, <2>1 DEF ImageIsSet
    <2>3. ASSUME NEW j \in Requests, Live(j)'
          PROVE  current'[cell[j]] = j /\ imageURL'[cell[j]] = user[j]
      <3>1. CASE j = k
        BY <1>0, <2>1, <2>3, <3>1 DEF ImageIsSet
      <3>2. CASE j # k
        <4>1. Live(j) /\ j # current[c]
          BY <1>0, <2>1, <2>3, <3>2, PicturesAssumption DEF ImageIsSet
        <4>2. cell[j] # c
          BY <4>1
        <4> QED
          BY <1>0, <2>1, <4>1, <4>2 DEF ImageIsSet
      <3> QED
        BY <3>1, <3>2
    <2> QED
      BY <2>1, <2>2, <2>3 DEF ImageIsSet
  <1>4. ASSUME NEW k \in Requests, QueryCancelled(k) PROVE ViewInv'
    BY <1>0, <1>4 DEF QueryCancelled
  <1>5. ASSUME NEW k \in Requests, queryCacheOperationForKey(k) PROVE ViewInv'
    <2>1. CASE ImageIsRead(k)
      BY <1>0, <2>1 DEF ImageIsRead
    <2>2. ASSUME NEW o \in Requests, LoadJoins(k, o) PROVE ViewInv'
      BY <1>0, <2>2 DEF LoadJoins
    <2>3. CASE DownloadIsStarted(k)
      BY <1>0, <2>3 DEF DownloadIsStarted
    <2> QED
      BY <1>0, <1>5, <2>1, <2>2, <2>3, Query
  <1>6. ASSUME NEW k \in Requests,
               start(k) \/ Transferred(k) \/ Finishing(k)
        PROVE  ViewInv'
    BY <1>0, <1>6
    DEF start, Transferred, Finishing, didCompleteWithData, didCompleteWithError,
        decodeImageData, callCompletionBlocks, done, completionBlock
  <1>7. ASSUME NEW k \in Requests, completed(k) PROVE ViewInv'
    <2>1. LoadsAreAnswered(k)
      BY <1>7, Complete
    <2> DEFINE wanted == answer[k].to \ cancelled
    <2>2. \A j \in wanted : j \in Requests /\ Live(j) /\ user[j] = user[k]
      <3>1. ASSUME NEW j \in wanted PROVE j \in Requests /\ Live(j) /\ user[j] = user[k]
        <4>1. j \in Requests
          BY <1>0
        <4>2. Joined(j, k)
          BY DEF Joined
        <4> QED
          BY <4>1, <4>2 DEF TypeInv, HandlerInv
      <3> QED
        BY <3>1
    <2>3. \A d \in Cells : image'[d] \in {NoUser, imageURL[d]}
      BY <1>0, <2>1, <2>2 DEF LoadsAreAnswered
    <2>4. ASSUME NEW j \in Requests, Live(j)' PROVE current'[cell[j]] = j
      <3>1. j \notin wanted /\ Live(j)
        BY <1>0, <2>1, <2>4 DEF LoadsAreAnswered
      <3>2. cell[j] \in Cells /\ current[cell[j]] = j
        BY <1>0, <3>1
      <3> QED
        BY <2>1, <3>1, <3>2 DEF LoadsAreAnswered
    <2>5. \A j \in Requests : Live(j)' => Live(j)
      BY <1>0, <2>1 DEF LoadsAreAnswered
    <2>6. UNCHANGED <<cell, imageURL, user>>
      BY <2>1 DEF LoadsAreAnswered
    <2> QED
      BY <2>3, <2>4, <2>5, <2>6
  <1>8. CASE UNCHANGED vars
    BY <1>8 DEF vars
  <1> QED
    BY <1>1, <1>2, <1>3, <1>4, <1>5, <1>6, <1>7, <1>8
    DEF Next, Answered, Queried

\* The row of a cell, and what its image view is to show.
TableInv ==
    \A c \in Cells : configured[c] # NoRequest =>
        /\ cell[configured[c]] = c
        /\ address[configured[c]] # "none"
        /\ address[configured[c]] = "received" /\ configured[c] \notin overtaken =>
             imageURL[c] = user[configured[c]]

LEMMA TableStep == TypeInv /\ TableInv /\ [Next]_vars => TableInv'
  <1> SUFFICES ASSUME TypeInv, TableInv, [Next]_vars PROVE TableInv'
    OBVIOUS
  <1>0. /\ TypeOK
        /\ NoRequest \notin Requests
        /\ \A k \in Requests : address[k] # "none" => configured[cell[k]] # NoRequest
    BY PicturesAssumption DEF TypeInv
  <1> USE DEF TableInv, TypeOK,
              tableVars, viewVars, managerVars, downloadVars, historyVars
  <1>1. ASSUME NEW k \in Requests, NEW c \in Cells, NEW u \in Users, configure(k, c, u)
        PROVE  TableInv'
    <2>1. address[k] = "none" /\ UNCHANGED <<imageURL, overtaken>>
      BY <1>1 DEF configure
    <2>2. \A j \in Requests \ {k} : /\ address'[j] = address[j]
                                    /\ cell'[j] = cell[j] /\ user'[j] = user[j]
      BY <1>0, <1>1 DEF configure
    <2>3. configured'[c] = k /\ cell'[k] = c /\ address'[k] = "asked"
      BY <1>0, <1>1 DEF configure
    <2>4. ASSUME NEW d \in Cells \ {c}, configured[d] # NoRequest
          PROVE  configured'[d] = configured[d] /\ configured[d] \in Requests \ {k}
      BY <1>0, <1>1, <2>1, <2>4 DEF configure
    <2>5. \A d \in Cells \ {c} : configured'[d] = configured[d]
      BY <1>0, <1>1 DEF configure
    <2> QED
      BY <2>1, <2>2, <2>3, <2>4, <2>5
  <1>2. ASSUME NEW k \in Requests, AddressFailed(k) PROVE TableInv'
    BY <1>0, <1>2 DEF AddressFailed
  <1>3. ASSUME NEW k \in Requests, sd_setImage(k) PROVE TableInv'
    <2>1. PICK c \in Cells, stage \in {"failed", "shown", "reading", "missing"} :
             ImageIsSet(k, c, stage)
      BY <1>0, <1>3, SetImage
    <2>2. /\ c = cell[k] /\ address[k] = "asked" /\ configured[c] # NoRequest
          /\ UNCHANGED <<configured, cell, user>>
          /\ overtaken \subseteq overtaken'
          /\ configured[c] # k /\ address[configured[c]] = "received" =>
               configured[c] \in overtaken'
      BY <1>0, <2>1 DEF ImageIsSet
    <2>3. /\ \A j \in Requests \ {k} : address'[j] = address[j]
          /\ address'[k] = "received"
          /\ imageURL'[c] = user[k]
          /\ \A d \in Cells \ {c} : imageURL'[d] = imageURL[d]
      BY <1>0, <2>1 DEF ImageIsSet
    <2> QED
      BY <1>0, <2>2, <2>3
  <1>4. ASSUME NEW k \in Requests,
               Queried(k) \/ start(k) \/ Transferred(k) \/ Finishing(k) \/ completed(k)
        PROVE  UNCHANGED <<configured, cell, user, address, imageURL, overtaken>>
    BY <1>4
    DEF Queried, QueryCancelled, queryCacheOperationForKey, start, Transferred,
        Finishing, didCompleteWithData, didCompleteWithError, decodeImageData,
        callCompletionBlocks, done, completionBlock, completed
  <1>5. CASE UNCHANGED vars
    BY <1>5 DEF vars
  <1> QED
    BY <1>1, <1>2, <1>3, <1>4, <1>5 DEF Next, Answered

-----------------------------------------------------------------------------
\* A load that waits, and joined in time, will be answered.
WaitInv ==
    \A k \in Requests : load[k] = "waiting" /\ k \notin cancelled /\ k \notin joinedLate =>
        \E o \in Requests : k \in answer[o].to \/ (k \in callbackBlocks[o] /\ Open(o))

LEMMA WaitStep ==
    TypeInv /\ OperationInv /\ WaitInv /\ [Next]_vars => WaitInv'
  <1> SUFFICES ASSUME TypeInv, OperationInv, WaitInv, [Next]_vars,
                      NEW j \in Requests, load'[j] = "waiting", j \notin cancelled',
                      j \notin joinedLate'
               PROVE  \E o \in Requests : \/ j \in answer'[o].to
                                          \/ j \in callbackBlocks'[o] /\ Open(o)'
    BY DEF WaitInv, Open
  <1> DEFINE Goal == \E o \in Requests : \/ j \in answer'[o].to
                                         \/ j \in callbackBlocks'[o] /\ Open(o)'
  <1>0. /\ TypeOK
        /\ \A o \in stopped : callbackBlocks[o] = {}
        /\ \A o \in Requests : Open(o) => answer[o].to = {}
    BY DEF TypeInv, OperationInv, Open
  <1> USE DEF TypeOK, Open, OperationStages, NoAnswer,
              tableVars, viewVars, managerVars, downloadVars, historyVars
  \* Most steps leave a load that waited with whoever was to answer it.
  <1>a. ASSUME load[j] = "waiting", j \notin cancelled, j \notin joinedLate,
               \A o \in Requests :
                 /\ j \in answer[o].to => j \in answer'[o].to
                 /\ j \in callbackBlocks[o] /\ Open(o) =>
                      j \in answer'[o].to \/ (j \in callbackBlocks'[o] /\ Open(o)')
        PROVE  Goal
    BY <1>a DEF WaitInv
  <1>1. ASSUME NEW k \in Requests, NEW c \in Cells, NEW u \in Users, configure(k, c, u)
        PROVE  Goal
    BY <1>0, <1>1, <1>a DEF configure
  <1>2. ASSUME NEW k \in Requests, AddressFailed(k) PROVE Goal
    BY <1>0, <1>2, <1>a DEF AddressFailed
  <1>3. ASSUME NEW k \in Requests, sd_setImage(k) PROVE Goal
    <2>1. PICK c \in Cells, stage \in {"failed", "shown", "reading", "missing"} :
             ImageIsSet(k, c, stage)
      BY <1>0, <1>3, SetImage
    <2>2. load[j] = "waiting" /\ j \notin Dropped(c)
      BY <1>0, <2>1 DEF ImageIsSet
    <2>3. j \notin cancelled /\ j \notin joinedLate /\ answer' = answer
      BY <2>1 DEF ImageIsSet
    <2>4. ASSUME NEW o \in Requests, j \in callbackBlocks[o], Open(o)
          PROVE  j \in callbackBlocks'[o] /\ Open(o)'
      <3>1. o \notin Gone(c)
        BY <1>0, <2>2, <2>4
        DEF Gone, Dropped, sd_imageLoadOperationForKey, ShouldCancel
      <3> QED
        BY <1>0, <2>1, <2>2, <2>4, <3>1 DEF ImageIsSet
    <2> QED
      BY <1>a, <2>2, <2>3, <2>4
  <1>4. ASSUME NEW k \in Requests, QueryCancelled(k) PROVE Goal
    BY <1>0, <1>4, <1>a DEF QueryCancelled
  <1>5. ASSUME NEW k \in Requests, queryCacheOperationForKey(k) PROVE Goal
    <2>1. CASE ImageIsRead(k)
      BY <1>0, <1>a, <2>1 DEF ImageIsRead
    <2>2. ASSUME NEW o \in Requests, LoadJoins(k, o) PROVE Goal
      <3>1. CASE j = k
        <4>1. operation[o] \notin {"none", "collected"}
          BY <1>0, <2>2, <3>1, PicturesAssumption DEF LoadJoins, OperationInv
        <4>2. Open(o)' /\ j \in callbackBlocks'[o]
          BY <1>0, <2>2, <3>1, <4>1 DEF LoadJoins
        <4> QED
          BY <4>2
      <3>2. CASE j # k
        BY <1>0, <1>a, <2>2, <3>2 DEF LoadJoins
      <3> QED
        BY <3>1, <3>2
    <2>3. CASE DownloadIsStarted(k)
      <3>1. callbackBlocks[k] = {} /\ operation[k] = "none"
        BY <2>3 DEF DownloadIsStarted, OperationInv, Begun
      <3>2. CASE j = k
        BY <1>0, <2>3, <3>2 DEF DownloadIsStarted
      <3>3. CASE j # k
        BY <1>0, <1>a, <2>3, <3>1, <3>3 DEF DownloadIsStarted
      <3> QED
        BY <3>2, <3>3
    <2> QED
      BY <1>0, <1>5, <2>1, <2>2, <2>3, Query
  <1>6. ASSUME NEW k \in Requests, start(k) PROVE Goal
    BY <1>0, <1>6, <1>a DEF start
  <1>7. ASSUME NEW k \in Requests, didCompleteWithData(k) PROVE Goal
    BY <1>0, <1>7, <1>a DEF didCompleteWithData
  <1>8. ASSUME NEW k \in Requests, NEW result \in Results, Open(k),
               callCompletionBlocks(k, result)
        PROVE  Goal
    BY <1>0, <1>8, <1>a DEF callCompletionBlocks, callbacksForKey
  <1>9. ASSUME NEW k \in Requests, didCompleteWithError(k) \/ decodeImageData(k)
        PROVE  Goal
    BY <1>8, <1>9 DEF didCompleteWithError, decodeImageData, Results
  <1>10. ASSUME NEW k \in Requests, done(k) PROVE Goal
    BY <1>0, <1>10, <1>a DEF done
  <1>11. ASSUME NEW k \in Requests, completionBlock(k) PROVE Goal
    BY <1>0, <1>11, <1>a DEF completionBlock
  <1>12. ASSUME NEW k \in Requests, completed(k) PROVE Goal
    <2>1. /\ answer' = [answer EXCEPT ![k] = NoAnswer]
          /\ load' = [i \in Requests |->
                       IF i \in answer[k].to \ cancelled
                       THEN IF answer[k].result = "image" THEN "shown" ELSE "failed"
                       ELSE IF i \in answer[k].to THEN "cancelled" ELSE load[i]]
          /\ UNCHANGED <<cancelled, joinedLate, operation, callbackBlocks>>
      BY <1>12, Complete DEF LoadsAreAnswered
    <2>2. j \notin answer[k].to /\ load[j] = "waiting"
      BY <2>1
    <2>3. \A o \in Requests : j \in answer[o].to => j \in answer'[o].to
      BY <1>0, <2>1, <2>2
    <2> QED
      BY <1>a, <2>1, <2>2, <2>3
  <1>13. CASE UNCHANGED vars
    BY <1>13, <1>a DEF vars
  <1> QED
    BY <1>1, <1>2, <1>3, <1>4, <1>5, <1>6, <1>7, <1>9,
       <1>10, <1>11, <1>12, <1>13
    DEF Next, Answered, Queried, Transferred, Finishing

LEMMA CancelledStep ==
    TypeOK /\ OnlyCancelledLoadsAreCancelled /\ [Next]_vars =>
        OnlyCancelledLoadsAreCancelled'
  <1> SUFFICES ASSUME TypeOK, OnlyCancelledLoadsAreCancelled, [Next]_vars
               PROVE  OnlyCancelledLoadsAreCancelled'
    OBVIOUS
  <1> USE DEF OnlyCancelledLoadsAreCancelled, TypeOK,
              tableVars, viewVars, managerVars, downloadVars, historyVars
  <1>1. ASSUME NEW k \in Requests, sd_setImage(k)
        PROVE  OnlyCancelledLoadsAreCancelled'
    <2>1. PICK c \in Cells, stage \in {"failed", "shown", "reading", "missing"} :
             ImageIsSet(k, c, stage)
      BY <1>1, SetImage
    <2>2. \A j \in Requests : j \in Dropped(c) => j \in {current[c]} \ {NoRequest}
      BY DroppedIsCurrent, PicturesAssumption
    <2>3. /\ cancelled' = cancelled \cup ({current[c]} \ {NoRequest})
          /\ load' = [j \in Requests |-> IF j = k THEN stage
                                         ELSE IF j \in Dropped(c) THEN "cancelled"
                                         ELSE load[j]]
      BY <2>1 DEF ImageIsSet
    <2>4. \A j \in Requests : load[j] = "cancelled" => j \in cancelled
      OBVIOUS
    <2> HIDE DEF TypeOK
    <2> QED
      BY <2>2, <2>3, <2>4
  <1>2. ASSUME NEW k \in Requests, queryCacheOperationForKey(k)
        PROVE  OnlyCancelledLoadsAreCancelled'
    <2>1. ImageIsRead(k) \/ (\E o \in Requests : LoadJoins(k, o)) \/ DownloadIsStarted(k)
      BY <1>2, Query
    <2>2. /\ load' = [load EXCEPT ![k] = "shown"] \/ load' = [load EXCEPT ![k] = "waiting"]
          /\ UNCHANGED cancelled
      BY <2>1 DEF ImageIsRead, LoadJoins, DownloadIsStarted
    <2> QED
      BY <2>2
  <1>3. ASSUME NEW k \in Requests, completed(k)
        PROVE  OnlyCancelledLoadsAreCancelled'
    <2>1. /\ cancelled' = cancelled
          /\ \A j \in Requests :
               load'[j] = IF j \in answer[k].to \ cancelled
                          THEN IF answer[k].result = "image" THEN "shown" ELSE "failed"
                          ELSE IF j \in answer[k].to THEN "cancelled" ELSE load[j]
      <3> HIDE DEF TypeOK, OnlyCancelledLoadsAreCancelled
      <3> QED
        BY <1>3, Complete DEF LoadsAreAnswered
    <2>2. \A j \in Requests : load[j] = "cancelled" => j \in cancelled
      OBVIOUS
    <2> HIDE DEF TypeOK
    <2> QED
      BY <2>1, <2>2
  <1>4. ASSUME NEW k \in Requests, QueryCancelled(k)
        PROVE  OnlyCancelledLoadsAreCancelled'
    BY <1>4 DEF QueryCancelled
  <1>5. ASSUME NEW k \in Requests,
               \/ \E c \in Cells, u \in Users : configure(k, c, u)
               \/ AddressFailed(k) \/ start(k) \/ Transferred(k) \/ Finishing(k)
        PROVE  UNCHANGED <<load, cancelled>>
    BY <1>5
    DEF configure, AddressFailed, start, Transferred, Finishing,
        didCompleteWithData, didCompleteWithError, decodeImageData,
        callCompletionBlocks, done, completionBlock
  <1>6. CASE UNCHANGED vars
    BY <1>6 DEF vars
  <1> QED
    BY <1>1, <1>2, <1>3, <1>4, <1>5, <1>6 DEF Next, Answered, Queried

-----------------------------------------------------------------------------
\* The inductive invariant.
IInv ==
    /\ TypeInv /\ OperationInv /\ HandlerInv /\ ViewInv /\ TableInv /\ WaitInv
    /\ OnlyCancelledLoadsAreCancelled

(* It holds in every state the screen, its cells and their loads can reach. *)
THEOREM Invariance == Spec => []IInv
  <1>1. Init => IInv
    <2>1. Init => OperationInv /\ HandlerInv /\ WaitInv
      BY DEF Init, OperationInv, HandlerInv, WaitInv, NoAnswer, Joined
    <2>2. Init => ViewInv /\ TableInv /\ OnlyCancelledLoadsAreCancelled
      BY DEF Init, ViewInv, SupersededLoadsShowNothing, TableInv, Live,
             OnlyCancelledLoadsAreCancelled
    <2> QED
      BY <2>1, <2>2, TypeInit DEF IInv
  <1>2. IInv /\ [Next]_vars => IInv'
    <2>1. TypeInv => TypeOK
      BY DEF TypeInv
    <2> QED
      BY <2>1, TypeStep, OperationStep, HandlerStep, ViewStep, TableStep, WaitStep,
         CancelledStep
      DEF IInv
  <1> QED
    BY <1>1, <1>2, PTL DEF Spec

(* A load that was superseded in its image view never sets the picture:    *)
(* what may still set one is the load the view has.                        *)
THEOREM SupersededLoadsAreHarmless == Spec => []SupersededLoadsShowNothing
  <1>1. IInv => SupersededLoadsShowNothing
    BY DEF IInv, ViewInv
  <1> QED
    BY <1>1, Invariance, PTL

(* A row shows the picture of another user only while its own address is   *)
(* missing, or after an older row's address came last.                     *)
THEOREM WrongPicturesWereOvertaken == Spec => []WrongPictureNeedsOvertaking
  <1>1. IInv => WrongPictureNeedsOvertaking
    BY DEF IInv, ViewInv, SupersededLoadsShowNothing, TableInv,
           WrongPictureNeedsOvertaking
  <1> QED
    BY <1>1, Invariance, PTL

(* A load is called back as cancelled only if it was cancelled itself,     *)
(* never because another load of its download was.                         *)
THEOREM CancelsAreOwn == Spec => []OnlyCancelledLoadsAreCancelled
  <1>1. IInv => OnlyCancelledLoadsAreCancelled
    BY DEF IInv
  <1> QED
    BY <1>1, Invariance, PTL

(* A load waits in vain only if it joined a download between the           *)
(* collecting of its handlers and its end.                                 *)
THEOREM OnlyLateLoadsAreForgotten == Spec => []ForgottenLoadsJoinedLate
  <1>1. IInv => ForgottenLoadsJoinedLate
    BY DEF IInv, WaitInv, ForgottenLoadsJoinedLate, Forgotten, Open
  <1> QED
    BY <1>1, Invariance, PTL

(* Type correctness of the pictures.                                       *)
THEOREM TypeCorrect == Spec => []TypeOK
  <1>1. IInv => TypeOK
    BY DEF IInv, TypeInv
  <1> QED
    BY <1>1, Invariance, PTL
-----------------------------------------------------------------------------
(* Downloads in the end.                                                   *)
Moves == {<<"none", "queued">>, <<"queued", "executing">>, <<"queued", "finished">>,
          <<"executing", "decoding">>, <<"executing", "collected">>,
          <<"executing", "finished">>, <<"decoding", "collected">>,
          <<"collected", "finished">>, <<"finished", "removed">>}

LEMMA MoveStep ==
    ASSUME TypeInv, OperationInv, [Next]_vars, NEW o \in Requests
    PROVE  operation'[o] = operation[o] \/ <<operation[o], operation'[o]>> \in Moves
  <1> DEFINE Goal == operation'[o] = operation[o] \/ <<operation[o], operation'[o]>> \in Moves
  <1>0. TypeOK /\ operation \in [Requests -> OperationStages]
    BY DEF TypeInv, TypeOK
  <1> USE DEF Moves, downloadVars
  <1>1. ASSUME NEW k \in Requests, sd_setImage(k) PROVE Goal
    <2>1. PICK c \in Cells, stage \in {"failed", "shown", "reading", "missing"} :
             ImageIsSet(k, c, stage)
      BY <1>0, <1>1, SetImage
    <2>2. operation' = [p \in Requests |-> IF p \in Gone(c) /\ operation[p] = "executing"
                                           THEN "finished" ELSE operation[p]]
      BY <2>1 DEF ImageIsSet
    <2> QED
      BY <2>2
  <1>2. ASSUME NEW k \in Requests, queryCacheOperationForKey(k) PROVE Goal
    <2>1. CASE DownloadIsStarted(k)
      <3>1. load[k] = "missing" /\ operation' = [operation EXCEPT ![k] = "queued"]
        BY <2>1 DEF DownloadIsStarted
      <3>2. operation[k] = "none"
        BY <3>1 DEF OperationInv, Begun
      <3> QED
        BY <1>0, <3>1, <3>2
    <2>2. CASE ImageIsRead(k) \/ \E p \in Requests : LoadJoins(k, p)
      BY <2>2 DEF ImageIsRead, LoadJoins
    <2> HIDE DEF Goal
    <2>3. ImageIsRead(k) \/ (\E p \in Requests : LoadJoins(k, p)) \/ DownloadIsStarted(k)
      BY <1>0, <1>2, Query
    <2> QED
      BY <2>1, <2>2, <2>3
  <1>3. ASSUME NEW k \in Requests, start(k) PROVE Goal
    BY <1>0, <1>3 DEF start
  <1>4. ASSUME NEW k \in Requests, Transferred(k) PROVE Goal
    BY <1>0, <1>4 DEF Transferred, didCompleteWithData, didCompleteWithError,
                      callCompletionBlocks
  <1>5. ASSUME NEW k \in Requests, Finishing(k) PROVE Goal
    BY <1>0, <1>5 DEF Finishing, decodeImageData, done, completionBlock,
                      callCompletionBlocks
  <1>6. ASSUME NEW k \in Requests, completed(k) PROVE Goal
    BY <1>6, Complete DEF LoadsAreAnswered
  <1>7. ASSUME NEW k \in Requests, \/ \E c \in Cells, u \in Users : configure(k, c, u)
                                   \/ AddressFailed(k) \/ QueryCancelled(k)
        PROVE  Goal
    BY <1>7 DEF configure, AddressFailed, QueryCancelled
  <1>8. ASSUME UNCHANGED vars PROVE Goal
    BY <1>8 DEF vars
  <1> HIDE DEF Goal
  <1>9. Goal
    BY <1>1, <1>2, <1>3, <1>4, <1>5, <1>6, <1>7, <1>8 DEF Next, Answered, Queried
  <1> QED
    BY <1>9 DEF Goal

(* An operation goes through its stages once, however often loads join it, *)
(* leave it and are cancelled: it is never started again, calls its        *)
(* handlers at most once, and only a running one is cut short.             *)
OperationsGoForward ==
    \A o \in Requests :
        operation'[o] = operation[o] \/ <<operation[o], operation'[o]>> \in Moves

(* In every behaviour, the downloader starts, collects, finishes and       *)
(* removes an operation at most once, whatever is cancelled meanwhile.     *)
THEOREM OperationsRunOnce == Spec => [][OperationsGoForward]_vars
  <1>1. IInv /\ [Next]_vars => OperationsGoForward
    BY MoveStep DEF IInv, OperationsGoForward
  <1> QED
    BY <1>1, Invariance, PTL DEF Spec

(* An operation that was cancelled does not wait for its task.             *)
NoStoppedTask == \A o \in Requests : operation[o] = "executing" => o \notin stopped

LEMMA StoppedStep == TypeInv /\ NoStoppedTask /\ [Next]_vars => NoStoppedTask'
  <1> SUFFICES ASSUME TypeInv, NoStoppedTask, [Next]_vars,
                      NEW o \in Requests, operation'[o] = "executing"
               PROVE  o \notin stopped'
    BY DEF NoStoppedTask
  <1>0. TypeOK /\ operation \in [Requests -> OperationStages]
        /\ (operation[o] = "executing" => o \notin stopped)
    BY DEF TypeInv, TypeOK, NoStoppedTask
  <1> USE DEF downloadVars
  <1>1. ASSUME NEW k \in Requests, sd_setImage(k) PROVE o \notin stopped'
    <2>1. PICK c \in Cells, stage \in {"failed", "shown", "reading", "missing"} :
             ImageIsSet(k, c, stage)
      BY <1>0, <1>1, SetImage
    <2>2. /\ stopped' = stopped \cup Gone(c)
          /\ operation' = [p \in Requests |-> IF p \in Gone(c) /\ operation[p] = "executing"
                                              THEN "finished" ELSE operation[p]]
      BY <2>1 DEF ImageIsSet
    <2> QED
      BY <1>0, <2>2
  <1>2. ASSUME NEW k \in Requests, queryCacheOperationForKey(k) PROVE o \notin stopped'
    BY <1>0, <1>2, Query DEF ImageIsRead, LoadJoins, DownloadIsStarted
  <1>3. ASSUME NEW k \in Requests, start(k) PROVE o \notin stopped'
    BY <1>0, <1>3 DEF start
  <1>4. ASSUME NEW k \in Requests, Transferred(k) PROVE o \notin stopped'
    BY <1>0, <1>4 DEF Transferred, didCompleteWithData, didCompleteWithError,
                      callCompletionBlocks
  <1>5. ASSUME NEW k \in Requests, Finishing(k) PROVE o \notin stopped'
    BY <1>0, <1>5 DEF Finishing, decodeImageData, done, completionBlock,
                      callCompletionBlocks
  <1>6. ASSUME NEW k \in Requests, completed(k) PROVE o \notin stopped'
    BY <1>0, <1>6, Complete DEF LoadsAreAnswered
  <1>7. ASSUME NEW k \in Requests, \/ \E c \in Cells, u \in Users : configure(k, c, u)
                                   \/ AddressFailed(k) \/ QueryCancelled(k)
        PROVE  o \notin stopped'
    BY <1>0, <1>7 DEF configure, AddressFailed, QueryCancelled
  <1>8. ASSUME UNCHANGED vars PROVE o \notin stopped'
    BY <1>0, <1>8 DEF vars
  <1> QED
    BY <1>1, <1>2, <1>3, <1>4, <1>5, <1>6, <1>7, <1>8 DEF Next, Answered, Queried

LEMMA StoppedHolds == Spec => []NoStoppedTask
  <1>1. Init => NoStoppedTask
    BY DEF Init, NoStoppedTask
  <1>2. IInv => TypeInv
    BY DEF IInv
  <1> QED
    BY <1>1, <1>2, StoppedStep, Invariance, PTL DEF Spec

(* The weak fairness of the steps of an operation, with the guard of each  *)
(* in the place of ENABLED.                                                *)
HasTask(o) == operation[o] = "executing" /\ o \notin stopped
IsFinishing(o) == operation[o] \in {"decoding", "collected", "finished"}
TasksEnd(o) == []<>~HasTask(o) \/ []<><<Transferred(o)>>_vars
Finishes(o) == []<>~IsFinishing(o) \/ []<><<Finishing(o)>>_vars
CallsBack(o) == []<>~(answer[o].to # {}) \/ []<><<completed(o)>>_vars
DownloadsGoOn == \A o \in Requests : TasksEnd(o) /\ Finishes(o) /\ CallsBack(o)

Occupies(o) == operation[o] \in {"executing", "decoding", "collected"}
GivesItsPlaceBack(o) == Occupies(o) ~> operation[o] = "removed"

LEMMA PlaceGivenBack ==
    ASSUME NEW o \in Requests
    PROVE  Spec /\ TasksEnd(o) /\ Finishes(o) => GivesItsPlaceBack(o)
  <1> DEFINE At(stage) == operation[o] = stage
  <1>1. IInv /\ [Next]_vars
          => /\ At("executing") => \/ At("executing")' \/ At("decoding")'
                                   \/ At("collected")' \/ At("finished")'
             /\ At("decoding") => At("decoding")' \/ At("collected")'
             /\ At("collected") => At("collected")' \/ At("finished")'
             /\ At("finished") => At("finished")' \/ At("removed")'
    <2> SUFFICES ASSUME IInv, [Next]_vars
                 PROVE  /\ At("executing") => \/ At("executing")' \/ At("decoding")'
                                              \/ At("collected")' \/ At("finished")'
                        /\ At("decoding") => At("decoding")' \/ At("collected")'
                        /\ At("collected") => At("collected")' \/ At("finished")'
                        /\ At("finished") => At("finished")' \/ At("removed")'
      OBVIOUS
    <2>1. operation'[o] = operation[o] \/ <<operation[o], operation'[o]>> \in Moves
      BY MoveStep DEF IInv
    <2> QED
      BY <2>1 DEF Moves
  <1>2. NoStoppedTask /\ At("executing") => HasTask(o)
    BY DEF NoStoppedTask, HasTask
  <1>3. At("decoding") \/ At("collected") \/ At("finished") => IsFinishing(o)
    BY DEF IsFinishing
  <1>4. IInv /\ <<Transferred(o)>>_vars => ~At("executing")'
    BY DEF IInv, TypeInv, TypeOK, Transferred, didCompleteWithData, didCompleteWithError,
           callCompletionBlocks
  <1>5. IInv /\ <<Finishing(o)>>_vars
          => /\ At("decoding") => ~At("decoding")'
             /\ At("collected") => ~At("collected")'
             /\ At("finished") => ~At("finished")'
    BY DEF IInv, TypeInv, TypeOK, Finishing, decodeImageData, done, completionBlock,
           callCompletionBlocks
  <1>6. /\ At("executing") => ~At("decoding") /\ ~At("collected") /\ ~At("finished")
        /\ At("decoding") => ~At("collected") /\ ~At("finished")
        /\ At("collected") => ~At("finished")
        /\ At("removed") => ~At("finished")
    OBVIOUS
  <1>7. Occupies(o) => At("executing") \/ At("decoding") \/ At("collected")
    BY DEF Occupies
  <1>8. At("removed") => operation[o] = "removed"
    OBVIOUS
  <1> QED
    BY <1>1, <1>2, <1>3, <1>4, <1>5, <1>6, <1>7, <1>8, Invariance, StoppedHolds, PTL
    DEF Spec, TasksEnd, Finishes, GivesItsPlaceBack

(* No download keeps its place in the queue for ever: not one whose loads  *)
(* were cancelled while it ran, whose task does not call back any more.    *)
PlacesAreGivenBack == \A o \in Requests : GivesItsPlaceBack(o)

(* The queue gets its places back as long as the tasks of the session end, *)
(* and operations finish and are removed, whenever they can.               *)
THEOREM DownloadsGiveTheirPlaceBack == Spec /\ DownloadsGoOn => PlacesAreGivenBack
  BY PlaceGivenBack DEF DownloadsGoOn, PlacesAreGivenBack

\* Load k waits in an operation that has not collected, or is to be called.
WaitsIn(k, o) == k \in callbackBlocks[o] /\ Open(o)
IsToBeCalled(k, o) == k \in answer[o].to
LoadEnded(k) == load[k] \in {"shown", "failed", "cancelled"}

(* A load in an operation stays there until it is collected with it, and   *)
(* then until it is called, or its end is a cancel.                        *)
LEMMA AnswerStep ==
    ASSUME TypeInv, OperationInv, [Next]_vars, NEW o \in Requests, NEW j \in Requests
    PROVE  /\ WaitsIn(j, o) => WaitsIn(j, o)' \/ IsToBeCalled(j, o)' \/ LoadEnded(j)'
           /\ IsToBeCalled(j, o) => IsToBeCalled(j, o)' \/ LoadEnded(j)'
           /\ IsToBeCalled(j, o) /\ completed(o) => LoadEnded(j)'
  <1> DEFINE Goal == /\ WaitsIn(j, o) => \/ WaitsIn(j, o)' \/ IsToBeCalled(j, o)'
                                         \/ LoadEnded(j)'
                     /\ IsToBeCalled(j, o) => IsToBeCalled(j, o)' \/ LoadEnded(j)'
  <1>0. /\ TypeOK
        /\ operation \in [Requests -> OperationStages]
        /\ callbackBlocks \in [Requests -> SUBSET Requests]
        /\ answer \in [Requests -> [to : SUBSET Requests, result : Results]]
        /\ load \in [Requests -> LoadStages]
        /\ Open(o) => answer[o].to = {}
        /\ answer[o].to # {} => ~Open(o)
    BY DEF TypeInv, TypeOK, OperationInv, Open
  <1> USE DEF downloadVars, managerVars
  <1>1. ASSUME NEW k \in Requests, sd_setImage(k) PROVE Goal
    <2>1. PICK c \in Cells, stage \in {"failed", "shown", "reading", "missing"} :
             ImageIsSet(k, c, stage)
      BY <1>0, <1>1, SetImage
    <2>2. /\ load[k] = "none" /\ answer' = answer
          /\ operation' = [p \in Requests |-> IF p \in Gone(c) /\ operation[p] = "executing"
                                              THEN "finished" ELSE operation[p]]
          /\ callbackBlocks' = [p \in Requests |-> callbackBlocks[p] \ Dropped(c)]
          /\ load' = [i \in Requests |-> IF i = k THEN stage
                                         ELSE IF i \in Dropped(c) THEN "cancelled"
                                         ELSE load[i]]
      BY <2>1 DEF ImageIsSet
    <2>3. WaitsIn(j, o) => j # k
      BY <2>2 DEF WaitsIn, TypeInv, Joined, Begun
    <2>4. j \in callbackBlocks[o] /\ o \in Gone(c) => j \in Dropped(c)
      BY DEF Gone, Dropped, sd_imageLoadOperationForKey, ShouldCancel
    <2>5. WaitsIn(j, o) => WaitsIn(j, o)' \/ load'[j] = "cancelled"
      BY <1>0, <2>2, <2>3, <2>4 DEF WaitsIn, Open
    <2>6. IsToBeCalled(j, o) => IsToBeCalled(j, o)'
      BY <2>2 DEF IsToBeCalled
    <2> QED
      BY <2>5, <2>6 DEF LoadEnded
  <1>2. ASSUME NEW k \in Requests, queryCacheOperationForKey(k) PROVE Goal
    <2>1. /\ answer' = answer
          /\ \/ callbackBlocks' = callbackBlocks /\ operation' = operation
             \/ \E p \in Requests : operation' = operation
                  /\ callbackBlocks' = [callbackBlocks EXCEPT ![p] = @ \cup {k}]
             \/ /\ load[k] = "missing"
                /\ operation' = [operation EXCEPT ![k] = "queued"]
                /\ callbackBlocks' = [callbackBlocks EXCEPT ![k] = {k}]
      BY <1>0, <1>2, Query DEF ImageIsRead, LoadJoins, DownloadIsStarted
    <2>2. load[k] = "missing" => callbackBlocks[k] = {}
      BY DEF OperationInv, Begun
    <2> QED
      BY <1>0, <2>1, <2>2 DEF WaitsIn, IsToBeCalled, Open
  <1>3. ASSUME NEW k \in Requests, start(k) PROVE Goal
    <2>1. k \in stopped => callbackBlocks[k] = {}
      BY DEF OperationInv
    <2> QED
      BY <1>0, <1>3, <2>1 DEF start, WaitsIn, IsToBeCalled, Open
  <1>4. ASSUME NEW k \in Requests, NEW result \in Results, Open(k),
               callCompletionBlocks(k, result)
        PROVE  Goal
    BY <1>0, <1>4 DEF callCompletionBlocks, callbacksForKey, WaitsIn, IsToBeCalled, Open
  <1>5. ASSUME NEW k \in Requests, didCompleteWithData(k) PROVE Goal
    BY <1>0, <1>5 DEF didCompleteWithData, WaitsIn, IsToBeCalled, Open
  <1>6. ASSUME NEW k \in Requests, didCompleteWithError(k) \/ decodeImageData(k) PROVE Goal
    BY <1>4, <1>6 DEF didCompleteWithError, decodeImageData, Results, Open
  <1>7. ASSUME NEW k \in Requests, done(k) \/ completionBlock(k) PROVE Goal
    BY <1>0, <1>7 DEF done, completionBlock, WaitsIn, IsToBeCalled, Open
  <1>8. ASSUME NEW k \in Requests, completed(k)
        PROVE  Goal /\ (k = o /\ IsToBeCalled(j, o) => LoadEnded(j)')
    <2>1. /\ operation' = operation /\ callbackBlocks' = callbackBlocks
          /\ answer' = [answer EXCEPT ![k] = NoAnswer]
          /\ load' = [i \in Requests |->
                       IF i \in answer[k].to \ cancelled
                       THEN IF answer[k].result = "image" THEN "shown" ELSE "failed"
                       ELSE IF i \in answer[k].to THEN "cancelled" ELSE load[i]]
      BY <1>8, Complete DEF LoadsAreAnswered
    <2>2. WaitsIn(j, o) => WaitsIn(j, o)'
      BY <2>1 DEF WaitsIn, Open
    <2>3. j \in answer[k].to => LoadEnded(j)'
      BY <2>1 DEF LoadEnded
    <2>4. k # o => answer'[o] = answer[o]
      BY <1>0, <2>1
    <2> QED
      BY <2>2, <2>3, <2>4 DEF IsToBeCalled
  <1>9. ASSUME NEW k \in Requests, \/ \E c \in Cells, u \in Users : configure(k, c, u)
                                   \/ AddressFailed(k) \/ QueryCancelled(k)
        PROVE  Goal
    BY <1>9 DEF configure, AddressFailed, QueryCancelled, WaitsIn, IsToBeCalled, Open
  <1>10. ASSUME UNCHANGED vars PROVE Goal
    BY <1>10 DEF vars, WaitsIn, IsToBeCalled, Open
  <1> HIDE DEF Goal
  <1>11. Goal
    BY <1>1, <1>2, <1>3, <1>5, <1>6, <1>7, <1>8, <1>9, <1>10
    DEF Next, Answered, Queried, Transferred, Finishing
  <1>12. completed(o) => (IsToBeCalled(j, o) => LoadEnded(j)')
    BY <1>8
  <1> QED
    BY <1>11, <1>12 DEF Goal

RunsFor(k, o) == k \in callbackBlocks[o] /\ operation[o] \in {"executing", "decoding"}
AnswersLoad(o, k) == RunsFor(k, o) ~> LoadEnded(k)

LEMMA LoadAnswered ==
    ASSUME NEW o \in Requests, NEW k \in Requests
    PROVE  Spec /\ TasksEnd(o) /\ Finishes(o) /\ CallsBack(o) => AnswersLoad(o, k)
  <1>1. IInv /\ [Next]_vars
          => /\ WaitsIn(k, o) => WaitsIn(k, o)' \/ IsToBeCalled(k, o)' \/ LoadEnded(k)'
             /\ IsToBeCalled(k, o) => IsToBeCalled(k, o)' \/ LoadEnded(k)'
    BY AnswerStep DEF IInv
  <1>2. IInv /\ [Next]_vars /\ <<completed(o)>>_vars => (IsToBeCalled(k, o) => LoadEnded(k)')
    BY AnswerStep DEF IInv
  <1>3. IsToBeCalled(k, o) => answer[o].to # {}
    BY DEF IsToBeCalled
  <1>4. RunsFor(k, o) => WaitsIn(k, o) /\ Occupies(o)
    BY DEF RunsFor, WaitsIn, Open, Occupies
  <1>5. WaitsIn(k, o) => ~(operation[o] = "removed")
    BY DEF WaitsIn, Open
  <1>6. Spec /\ TasksEnd(o) /\ Finishes(o) => GivesItsPlaceBack(o)
    BY PlaceGivenBack
  <1>7. Spec /\ CallsBack(o) => (IsToBeCalled(k, o) ~> LoadEnded(k))
    BY <1>1, <1>2, <1>3, Invariance, PTL DEF Spec, CallsBack
  <1> QED
    BY <1>1, <1>4, <1>5, <1>6, <1>7, Invariance, PTL
    DEF Spec, AnswersLoad, GivesItsPlaceBack

(* Every load whose download has been started by the queue ends: with its  *)
(* picture, an error, or its own cancel; whoever else shares the download  *)
(* or leaves it.                                                           *)
StartedLoadsEnd == \A o, k \in Requests : AnswersLoad(o, k)

(* The loads of a started operation are answered as long as its task ends, *)
(* it finishes, and its completion blocks are called, whenever they can.   *)
THEOREM DownloadsAnswerTheirLoads == Spec /\ DownloadsGoOn => StartedLoadsEnd
  BY LoadAnswered DEF DownloadsGoOn, StartedLoadsEnd
=============================================================================
