------------------------- MODULE ConversationsProofs -------------------------
(* Proofs about Conversations, for any accounts, devices and sends.         *)
EXTENDS Conversations, TLAPS

(* Outstanding puts of a device have different numbers, and the server has *)
(* decided about a prefix of them.                                         *)
PutsOrdered ==
    \A s, t \in Sends :
        /\ DeviceOf[s] = DeviceOf[t] /\ s # t
        /\ pc[s] \in {"listing", "storing"}
        /\ pc[t] \in {"listing", "storing"}
        => /\ putNumber[s] # putNumber[t]
           /\ putNumber[s] < putNumber[t] /\ wire[t] # "pending"
                => wire[s] # "pending"

(* The second put of a send follows the acknowledgement of the first.      *)
EntryFirst ==
    /\ \A s \in Sends : pc[s] = "listing" /\ wire[s] = "applied" => s \in listed
    /\ \A s \in Sends : pc[s] = "storing" \/ late[s] = "storing" => s \in listed
    /\ \A s \in confirmed : pc[s] \in {"storing", "sent", "failed", "lost"}
    /\ MessageFollowsEntry

(* Before its own put, a send without rivals sees only puts of its device. *)
LoneBeforePut ==
    \A s, t \in Sends :
        /\ s # t /\ User(s) = User(t) /\ rivals[s] = {}
        /\ pc[s] \in {"reading", "read"} /\ Active(t)
        => DeviceOf[t] = DeviceOf[s] /\ pc[t] = "listing"

(* While its put is outstanding, every other active send of the account is *)
(* on the same device, and is ahead of it or has read its entry.           *)
LoneListing ==
    \A s, t \in Sends :
        /\ s # t /\ User(s) = User(t) /\ rivals[s] = {}
        /\ pc[s] = "listing" /\ Active(t)
        => /\ DeviceOf[t] = DeviceOf[s]
           /\ \/ pc[t] = "listing" /\ putNumber[t] < putNumber[s]
              \/ pc[t] \in {"read", "listing"} /\ s \in base[t].conversations

(* Its entry is in the list from the moment the server applied the put.    *)
LoneApplied ==
    \A s \in Sends :
        /\ rivals[s] = {}
        /\ \/ pc[s] = "listing" /\ wire[s] = "applied"
           \/ s \in confirmed
        => s \in node[User(s)].conversations

(* Once it is acknowledged, no write to come of the account misses it.     *)
LoneConfirmed ==
    \A s \in confirmed, t \in Sends :
        /\ User(s) = User(t) /\ rivals[s] = {}
        /\ pc[t] \in {"read", "listing"}
        => s \in base[t].conversations

(* A late put of the account meets no send without rivals under way, and   *)
(* writes what such a send has had acknowledged.                           *)
LoneLate ==
    \A s, t \in Sends :
        /\ s # t /\ User(s) = User(t) /\ rivals[s] = {}
        /\ late[t] = "listing"
        => ~Active(s) /\ (s \in confirmed => s \in base[t].conversations)

LoneInv == LoneBeforePut /\ LoneListing /\ LoneApplied /\ LoneConfirmed /\ LoneLate

-----------------------------------------------------------------------------
(* Helpers of the actions stay in their sets.                              *)
LEMMA UserType ==
    ASSUME NEW s \in Sends PROVE DeviceOf[s] \in Devices /\ User(s) \in Users
  BY ConstantsAssumption DEF User, Users

LEMMA ConversationIdType ==
    ASSUME TypeOK, NEW s \in Sends PROVE conversationId(s) \in ConversationIds
  BY UserType, ConstantsAssumption
  DEF conversationId, createRandomEMessageId, ConversationIds, Users, TypeOK

LEMMA UserNodeType ==
    TypeOK => \A s \in Sends : /\ userNode(s) \in UserNodes
                               /\ userNode(s).conversations \subseteq Sends
  BY DEF userNode, UserNodes, TypeOK

(* The numbering part of TypeOK, spelled out per send.                     *)
LEMMA Numbered ==
    ASSUME TypeOK, NEW s \in Sends, pc[s] \in {"listing", "storing"}
    PROVE  putNumber[s] < putCounter[DeviceOf[s]]
  BY UserType DEF TypeOK, Outstanding, On

LEMMA TypeInit == Init => TypeOK
  BY ConstantsAssumption
  DEF Init, TypeOK, UserNodes, Stages, WireStates, LatePuts, Outstanding, On

(* A late put is nobody's business on the devices.                         *)
LEMMA LateKeeps ==
    ASSUME NEW s \in Sends, TakeLate(s)
    PROVE  /\ UNCHANGED <<ahead, pc, stamp, base, wire, putNumber>>
           /\ UNCHANGED <<link, putCounter, cache, shown, clock, faults>>
           /\ UNCHANGED <<confirmed, rivals>>
           /\ late' = [late EXCEPT ![s] = "none"]
  BY DEF TakeLate, LateApplied, LateDropped, sendVars, deviceVars, envVars, historyVars

(* Every variable stays in its set in every step of the chat database.     *)
LEMMA TypeStep == TypeOK /\ [Next]_vars => TypeOK'
  <1> SUFFICES ASSUME TypeOK, [Next]_vars PROVE TypeOK'
    OBVIOUS
  <1>0. \A s \in Sends : /\ userNode(s) \in UserNodes
                         /\ userNode(s).conversations \subseteq Sends
    BY UserNodeType
  <1>00. \A s \in Sends : conversationId(s) \in ConversationIds
    BY ConversationIdType
  <1> USE ConstantsAssumption
  <1> USE DEF TypeOK, Stages, WireStates, LatePuts, serverVars, sendVars,
              deviceVars, envVars, historyVars, Outstanding, On
  <1>1. ASSUME NEW s \in Sends, didPressSendButton(s) PROVE TypeOK'
    <2>1. pc' \in [Sends -> Stages] /\ base' \in [Sends -> UserNodes]
      <3>1. CASE \E t \in Sends : /\ pc' = [pc EXCEPT ![s] = "read"]
                                  /\ base' = [base EXCEPT ![s] = userNode(t)]
        BY <3>1, <1>0
      <3>2. CASE pc' = [pc EXCEPT ![s] = "reading"] /\ UNCHANGED base
        BY <3>2
      <3> QED
        BY <1>1, <3>1, <3>2 DEF didPressSendButton, observeSingleEvent
    <2>2. rivals' \in [Sends -> SUBSET Sends]
      BY <1>1 DEF didPressSendButton, Rivals
    <2>3. \A d \in Devices : Outstanding(d)' \subseteq Outstanding(d)
      BY <1>1 DEF didPressSendButton, observeSingleEvent
    <2>4. UNCHANGED <<late, ahead>> /\ \A t \in Sends : pc[t] = "lost" => pc'[t] = "lost"
      BY <1>1 DEF didPressSendButton, observeSingleEvent
    <2>5. /\ UNCHANGED <<putNumber, putCounter>> /\ stamp' \in [Sends -> 0..MaxClock]
          /\ UNCHANGED <<node, message, wire, link, cache, shown, clock, faults>>
          /\ UNCHANGED <<listed, confirmed>>
      BY <1>1 DEF didPressSendButton
    <2>6. /\ \A d \in Devices : \A t \in Outstanding(d)' : putNumber'[t] < putCounter'[d]
          /\ \A t \in Sends : late'[t] # "none" => pc'[t] = "lost"
      BY <2>3, <2>4, <2>5
    <2> QED
      BY <2>1, <2>2, <2>4, <2>5, <2>6
  <1>2. ASSUME NEW s \in Sends, ServerApplies(s) PROVE TypeOK'
    <2>1. node' \in [Users -> UserNodes]
      BY <1>2, <1>0 DEF ServerApplies, Store
    <2>2. message' \in [ConversationIds -> Sends \cup {NoSend}]
      BY <1>2, <1>00 DEF ServerApplies, Store
    <2> QED
      BY <1>2, <2>1, <2>2 DEF ServerApplies, Store
  <1>3. ASSUME NEW s \in Sends, ServerRejects(s) PROVE TypeOK'
    BY <1>3, UserType DEF ServerRejects, NextOnWire
  <1>4. ASSUME NEW s \in Sends, UserNotFound(s) PROVE TypeOK'
    BY <1>4, UserType DEF UserNotFound
  <1>5. ASSUME NEW s \in Sends, createNewConversation(s) PROVE TypeOK'
    <2>1. /\ pc' \in [Sends -> Stages] /\ base' \in [Sends -> UserNodes]
          /\ wire' \in [Sends -> WireStates] /\ shown' \in [Devices -> SUBSET Sends]
      BY <1>5, <1>0, UserType DEF createNewConversation, put
    <2>2. /\ putNumber' \in [Sends -> Nat] /\ putCounter' \in [Devices -> Nat]
          /\ \A d \in Devices : \A t \in Outstanding(d)' : putNumber'[t] < putCounter'[d]
      BY <1>5, UserType DEF createNewConversation, put, Awaiting
    <2>3. UNCHANGED <<late, ahead>> /\ \A t \in Sends : pc[t] = "lost" => pc'[t] = "lost"
      BY <1>5 DEF createNewConversation, Awaiting
    <2> QED
      BY <1>5, <2>1, <2>2, <2>3 DEF createNewConversation
  <1>6. ASSUME NEW s \in Sends, finishCreateConversation(s) PROVE TypeOK'
    <2>1. /\ pc' \in [Sends -> Stages] /\ wire' \in [Sends -> WireStates]
          /\ confirmed' \subseteq Sends
      BY <1>6, UserType DEF finishCreateConversation, put
    <2>2. cache' \in [Devices -> SUBSET Sends] /\ shown' \in [Devices -> SUBSET Sends]
      BY <1>6, UserType
      DEF finishCreateConversation, RowsWithout, startListinigForConversation,
          UserNodes
    <2>3. /\ putNumber' \in [Sends -> Nat] /\ putCounter' \in [Devices -> Nat]
          /\ \A d \in Devices : \A t \in Outstanding(d)' : putNumber'[t] < putCounter'[d]
      BY <1>6, UserType DEF finishCreateConversation, OldestAnswered, put
    <2>4. UNCHANGED <<late, ahead>> /\ \A t \in Sends : pc[t] = "lost" => pc'[t] = "lost"
      BY <1>6 DEF finishCreateConversation
    <2> QED
      BY <1>6, <2>1, <2>2, <2>3, <2>4 DEF finishCreateConversation
  <1>7. ASSUME NEW s \in Sends, MessageSent(s) PROVE TypeOK'
    BY <1>7, UserType DEF MessageSent, OldestAnswered
  <1>8. ASSUME NEW s \in Sends, MessageFailed(s) PROVE TypeOK'
    BY <1>8, UserType DEF MessageFailed, OldestAnswered, RowsWithout, startListinigForConversation
  <1>9. ASSUME NEW d \in Devices, ReadAnswered(d) PROVE TypeOK'
    BY <1>9 DEF Users, ReadAnswered, Awaiting
  <1>10. ASSUME NEW d \in Devices, ReadDenied(d) PROVE TypeOK'
    BY <1>10 DEF ReadDenied, Awaiting
  <1>11. ASSUME NEW d \in Devices, getAllConversation(d) PROVE TypeOK'
    <2>1. node[AccountOf[d]].conversations \subseteq Sends
      <3>1. AccountOf[d] \in Users /\ node \in [Users -> UserNodes]
        BY DEF Users
      <3> HIDE DEF TypeOK
      <3> QED
        BY <3>1 DEF UserNodes
    <2>2. cache' \in [Devices -> SUBSET Sends] /\ shown' \in [Devices -> SUBSET Sends]
      BY <1>11, <2>1 DEF getAllConversation, startListinigForConversation
    <2>3. UNCHANGED <<pc, late, ahead, putNumber, putCounter>>
      BY <1>11 DEF getAllConversation
    <2> QED
      BY <1>11, <2>2, <2>3 DEF getAllConversation
  <1>12. ASSUME NEW d \in Devices, restoreState(d) PROVE TypeOK'
    BY <1>12 DEF restoreState
  <1>13. ASSUME NEW d \in Devices, onDisconnect(d) PROVE TypeOK'
    BY <1>13 DEF onDisconnect
  <1>14. ASSUME NEW d \in Devices, Crash(d) PROVE TypeOK'
    <2>1. /\ late' \in [Sends -> LatePuts] /\ ahead' \in [Sends -> SUBSET Sends]
          /\ \A s \in Sends : late'[s] # "none" => pc'[s] = "lost"
      BY <1>14 DEF Crash
    <2> QED
      BY <1>14, <2>1 DEF Crash
  <1>15. ASSUME NEW d \in Devices, Restart(d) PROVE TypeOK'
    BY <1>15 DEF Restart
  <1>16. CASE Tick
    BY <1>16 DEF Tick
  <1>17. CASE UNCHANGED vars
    BY <1>17 DEF vars
  <1>18. ASSUME NEW s \in Sends, TakeLate(s) PROVE TypeOK'
    <2>0. \/ node' = [node EXCEPT ![User(s)] = userNode(s)] \/ node' = node
      BY <1>18 DEF TakeLate, LateApplied, LateDropped, Store
    <2>00. \/ message' = [message EXCEPT ![conversationId(s)] = s] \/ message' = message
      BY <1>18 DEF TakeLate, LateApplied, LateDropped, Store
    <2>1. node' \in [Users -> UserNodes]
      BY <1>0, <2>0
    <2>2. message' \in [ConversationIds -> Sends \cup {NoSend}]
      BY <1>00, <2>00
    <2>3. late' = [late EXCEPT ![s] = "none"] /\ listed' \subseteq Sends
      BY <1>18 DEF TakeLate, LateApplied, LateDropped, Store
    <2> QED
      BY <1>18, <2>1, <2>2, <2>3, LateKeeps
  <1> QED
    BY <1>1, <1>2, <1>3, <1>4, <1>5, <1>6, <1>7, <1>8, <1>9, <1>10, <1>11, <1>12, <1>13, <1>14, <1>15, <1>16, <1>17, <1>18 DEF Next, Answer, Serve, AnswerRead

(* Type correctness of the chat database.                                  *)
THEOREM TypeCorrect == Spec => []TypeOK
  BY TypeInit, TypeStep, PTL DEF Spec

-----------------------------------------------------------------------------
(* The order of the puts.  A new put has the greatest number of its device *)
(* and the server decides about the least undecided one.                   *)
LEMMA PutsOrderedStep ==
    TypeOK /\ PutsOrdered /\ [Next]_vars => PutsOrdered'
  <1> SUFFICES ASSUME TypeOK, PutsOrdered, [Next]_vars PROVE PutsOrdered'
    OBVIOUS
  <1> USE ConstantsAssumption
  <1>0. /\ pc \in [Sends -> Stages] /\ putNumber \in [Sends -> Nat]
        /\ wire \in [Sends -> WireStates] /\ putCounter \in [Devices -> Nat]
        /\ \A t \in Sends : pc[t] \in {"listing", "storing"} =>
             putNumber[t] < putCounter[DeviceOf[t]]
    BY Numbered DEF TypeOK
  <1> USE DEF PutsOrdered, serverVars, sendVars, deviceVars, envVars, historyVars
  <1>1. ASSUME NEW s \in Sends, didPressSendButton(s) PROVE PutsOrdered'
    BY <1>0, <1>1 DEF didPressSendButton, observeSingleEvent
  <1>2. ASSUME NEW s \in Sends, Serve(s) PROVE PutsOrdered'
    BY <1>0, <1>2 DEF Serve, ServerApplies, ServerRejects, NextOnWire,
                      Outstanding, On
  <1>3. ASSUME NEW s \in Sends, UserNotFound(s) PROVE PutsOrdered'
    BY <1>0, <1>3 DEF UserNotFound
  <1>4. ASSUME NEW s \in Sends, createNewConversation(s) PROVE PutsOrdered'
    BY <1>0, <1>4, UserType DEF createNewConversation, put, Awaiting, On
  <1>5. ASSUME NEW s \in Sends, finishCreateConversation(s) PROVE PutsOrdered'
    BY <1>0, <1>5, UserType DEF finishCreateConversation, OldestAnswered, put
  <1>6. ASSUME NEW s \in Sends, MessageSent(s) \/ MessageFailed(s)
        PROVE  PutsOrdered'
    BY <1>0, <1>6 DEF MessageSent, MessageFailed
  <1>7. ASSUME NEW d \in Devices, AnswerRead(d) PROVE PutsOrdered'
    BY <1>0, <1>7 DEF AnswerRead, ReadAnswered, ReadDenied, Awaiting, On
  <1>8. ASSUME NEW d \in Devices,
               getAllConversation(d) \/ restoreState(d) \/ Restart(d)
        PROVE  PutsOrdered'
    BY <1>8 DEF getAllConversation, restoreState, Restart
  <1>9. ASSUME NEW d \in Devices, onDisconnect(d) PROVE PutsOrdered'
    <2> PICK acked \in putsToAck(d) :
            wire' = [s \in Sends |->
                       IF s \in Outstanding(d) \ acked THEN "pending" ELSE wire[s]]
      BY <1>9 DEF onDisconnect
    <2>1. /\ acked \subseteq {s \in Outstanding(d) : wire[s] # "pending"}
          /\ \A s \in acked, t \in Outstanding(d) : putNumber[t] < putNumber[s] => t \in acked
      BY DEF putsToAck
    <2>2. UNCHANGED <<pc, putNumber>>
      BY <1>9 DEF onDisconnect
    <2> QED
      BY <1>0, <2>1, <2>2 DEF Outstanding, On
  <1>10. ASSUME NEW d \in Devices, Crash(d) PROVE PutsOrdered'
    BY <1>0, <1>10 DEF Crash, Outstanding, On
  <1>11. CASE Tick \/ UNCHANGED vars
    BY <1>11 DEF Tick, vars
  <1>12. ASSUME NEW s \in Sends, TakeLate(s) PROVE PutsOrdered'
    BY <1>12, LateKeeps
  <1> QED
    BY <1>1, <1>2, <1>3, <1>4, <1>5, <1>6, <1>7, <1>8, <1>9, <1>10, <1>11, <1>12
    DEF Next, Answer

(* A message is stored only after its list entry was acknowledged.         *)
LEMMA EntryFirstStep ==
    TypeOK /\ EntryFirst /\ [Next]_vars => EntryFirst'
  <1> SUFFICES ASSUME TypeOK, EntryFirst, [Next]_vars PROVE EntryFirst'
    OBVIOUS
  <1> USE ConstantsAssumption
  <1>0. /\ pc \in [Sends -> Stages] /\ confirmed \subseteq Sends
        /\ listed \subseteq Sends /\ wire \in [Sends -> WireStates]
        /\ message \in [ConversationIds -> Sends \cup {NoSend}]
    BY DEF TypeOK
  <1>00. late \in [Sends -> LatePuts]
    BY DEF TypeOK
  <1> USE DEF EntryFirst, MessageFollowsEntry, serverVars, sendVars, deviceVars,
              envVars, historyVars, Outstanding, On, Awaiting, Active
  <1>1. ASSUME NEW s \in Sends, didPressSendButton(s) PROVE EntryFirst'
    BY <1>0, <1>1 DEF didPressSendButton, observeSingleEvent
  <1>2. ASSUME NEW s \in Sends, Serve(s) PROVE EntryFirst'
    BY <1>0, <1>2 DEF Serve, ServerApplies, ServerRejects, Store
  <1>3. ASSUME NEW s \in Sends, UserNotFound(s) PROVE EntryFirst'
    BY <1>0, <1>3 DEF UserNotFound
  <1>4. ASSUME NEW s \in Sends, createNewConversation(s) PROVE EntryFirst'
    BY <1>0, <1>4 DEF createNewConversation, put
  <1>5. ASSUME NEW s \in Sends, finishCreateConversation(s) PROVE EntryFirst'
    BY <1>0, <1>5 DEF finishCreateConversation, OldestAnswered, put
  <1>6. ASSUME NEW s \in Sends, MessageSent(s) \/ MessageFailed(s)
        PROVE  EntryFirst'
    BY <1>0, <1>6 DEF MessageSent, MessageFailed, OldestAnswered
  <1>7. ASSUME NEW d \in Devices, AnswerRead(d) PROVE EntryFirst'
    BY <1>0, <1>7 DEF AnswerRead, ReadAnswered, ReadDenied
  <1>8. ASSUME NEW d \in Devices,
               \/ getAllConversation(d) \/ restoreState(d) \/ Restart(d)
               \/ onDisconnect(d)
        PROVE  EntryFirst'
    BY <1>8 DEF getAllConversation, restoreState, Restart, onDisconnect
  <1>9. ASSUME NEW d \in Devices, Crash(d) PROVE EntryFirst'
    BY <1>0, <1>00, <1>9 DEF Crash
  <1>10. CASE Tick \/ UNCHANGED vars
    BY <1>10 DEF Tick, vars
  <1>11. ASSUME NEW s \in Sends, TakeLate(s) PROVE EntryFirst'
    BY <1>0, <1>00, <1>11, LateKeeps DEF TakeLate, LateApplied, LateDropped, Store
  <1> QED
    BY <1>1, <1>2, <1>3, <1>4, <1>5, <1>6, <1>7, <1>8, <1>9, <1>10, <1>11
    DEF Next, Answer

(* finishCreateConversation never gets ahead of the list entry.            *)
THEOREM MessagesFollowEntries == Spec => []MessageFollowsEntry
  <1>1. Init => TypeOK /\ EntryFirst
    BY TypeInit, ConstantsAssumption DEF Init, EntryFirst, MessageFollowsEntry
  <1>2. TypeOK /\ EntryFirst /\ [Next]_vars => TypeOK' /\ EntryFirst'
    BY TypeStep, EntryFirstStep
  <1>3. EntryFirst => MessageFollowsEntry
    BY DEF EntryFirst
  <1> QED
    BY <1>1, <1>2, <1>3, PTL DEF Spec

-----------------------------------------------------------------------------
(* Sends that run alone.  The steps that only end sends or move no chain   *)
(* of the account keep LoneInv because it speaks of active sends only.     *)
LEMMA LoneKept ==
    ASSUME TypeOK, LoneInv,
           UNCHANGED <<node, base, rivals, putNumber, confirmed>>,
           \A t \in Sends : \/ pc'[t] = pc[t]
                            \/ pc'[t] \in {"sent", "failed", "denied", "lost"},
           \A t \in Sends : wire'[t] = "applied" => wire[t] = "applied",
           \A t \in Sends : late'[t] = "listing" =>
               \/ late[t] = "listing"
               \/ /\ pc[t] = "listing"
                  /\ \A s \in Sends : DeviceOf[s] = DeviceOf[t] => ~Active(s)'
    PROVE  LoneInv'
  <1>1. LoneBeforePut'
    BY DEF LoneInv, LoneBeforePut, Active, User
  <1>2. LoneListing'
    BY DEF LoneInv, LoneListing, Active, User
  <1>3. LoneApplied'
    BY DEF LoneInv, LoneApplied, User
  <1>4. LoneConfirmed'
    BY DEF TypeOK, LoneInv, LoneConfirmed, User
  <1>5. LoneLate'
    <2> SUFFICES ASSUME NEW s \in Sends, NEW t \in Sends, s # t, User(s) = User(t),
                        rivals[s] = {}, late'[t] = "listing"
                 PROVE  ~Active(s)' /\ (s \in confirmed => s \in base[t].conversations)
      BY DEF LoneLate, User
    <2>1. CASE late[t] = "listing"
      BY <2>1 DEF LoneInv, LoneLate, Active
    <2>2. CASE /\ pc[t] = "listing"
               /\ \A r \in Sends : DeviceOf[r] = DeviceOf[t] => ~Active(r)'
      BY <2>2 DEF LoneInv, LoneBeforePut, LoneListing, LoneConfirmed, Active
    <2> QED
      BY <2>1, <2>2
  <1> QED
    BY <1>1, <1>2, <1>3, <1>4, <1>5 DEF LoneInv

(* A new press: it is a rival of everything it can miss or be missed by.   *)
LEMMA LonePress ==
    ASSUME TypeOK, LoneInv, EntryFirst,
           NEW s \in Sends, didPressSendButton(s)
    PROVE  LoneInv'
  <1> USE ConstantsAssumption
  <1>0. /\ pc \in [Sends -> Stages] /\ rivals \in [Sends -> SUBSET Sends]
        /\ base \in [Sends -> UserNodes] /\ putNumber \in [Sends -> Nat]
    BY DEF TypeOK
  <1>1. /\ pc[s] = "idle" /\ s \notin confirmed
        /\ \A t \in Sends \ {s} : pc'[t] = pc[t] /\ base'[t] = base[t]
        /\ UNCHANGED <<node, late, wire, putNumber, confirmed>>
    BY <1>0 DEF didPressSendButton, observeSingleEvent, EntryFirst, serverVars
  <1>2. \/ /\ pc'[s] = "reading"
           /\ Listing(DeviceOf[s]) = {}
        \/ /\ pc'[s] = "read"
           /\ \E t \in Sends : Shadows(t, DeviceOf[s]) /\ base'[s] = userNode(t)
    BY <1>0 DEF didPressSendButton, observeSingleEvent
  <1>3. \A x \in Sends \ {s} : rivals'[x] = {} =>
          rivals[x] = {} /\ x \notin Rivals(s)
    BY <1>0 DEF didPressSendButton
  <1>4. rivals'[s] = Rivals(s)
    BY <1>0 DEF didPressSendButton
  <1>5. \A x \in Sends \ {s} : x \notin Rivals(s) /\ User(x) = User(s) /\ Active(x)
          => DeviceOf[x] = DeviceOf[s] /\ pc[x] = "listing"
    BY DEF Rivals
  <1>50. \A x \in Sends \ {s} : late[x] = "listing" /\ User(x) = User(s) => x \in Rivals(s)
    BY DEF Rivals
  <1>6. ASSUME NEW x \in Sends \ {s}, rivals[x] = {}, User(x) = User(s),
               \/ DeviceOf[x] = DeviceOf[s] /\ pc[x] = "listing"
               \/ x \in confirmed,
               pc'[s] = "read"
        PROVE  x \in base'[s].conversations
    <2> PICK t \in Sends : Shadows(t, DeviceOf[s]) /\ base'[s] = userNode(t)
      BY <1>2, <1>6
    <2>1. /\ DeviceOf[t] = DeviceOf[s] /\ pc[t] = "listing" /\ User(t) = User(s)
          /\ \A r \in Sends : DeviceOf[r] = DeviceOf[s] /\ pc[r] = "listing"
               => putNumber[r] <= putNumber[t]
          /\ base'[s].conversations = base[t].conversations \cup {t}
      BY DEF Shadows, Listing, On, User, userNode
    <2>2. CASE x = t
      BY <2>1, <2>2
    <2>3. CASE x # t /\ pc[x] = "listing" /\ DeviceOf[x] = DeviceOf[s]
      BY <1>0, <1>6, <2>1, <2>3 DEF LoneInv, LoneListing, Active
    <2>4. CASE x # t /\ x \in confirmed
      BY <1>6, <2>1, <2>4 DEF LoneInv, LoneConfirmed
    <2> QED
      BY <1>6, <2>2, <2>3, <2>4
  <1>7. LoneBeforePut'
    BY <1>0, <1>1, <1>2, <1>3, <1>4, <1>5
    DEF LoneInv, LoneBeforePut, Active, User, Listing, On
  <1>8. LoneListing'
    <2> SUFFICES ASSUME NEW x \in Sends, NEW t \in Sends, x # t,
                        User(x) = User(t), rivals'[x] = {},
                        pc'[x] = "listing", Active(t)'
                 PROVE  /\ DeviceOf[t] = DeviceOf[x]
                        /\ \/ pc'[t] = "listing" /\ putNumber[t] < putNumber[x]
                           \/ /\ pc'[t] \in {"read", "listing"}
                              /\ x \in base'[t].conversations
      BY <1>1 DEF LoneListing, User
    <2>1. x # s /\ pc[x] = "listing" /\ rivals[x] = {} /\ x \notin Rivals(s)
      BY <1>1, <1>2, <1>3
    <2>2. CASE t = s
      <3>1. DeviceOf[x] = DeviceOf[s]
        BY <1>5, <2>1, <2>2 DEF Active
      <3>2. pc'[s] = "read"
        BY <1>2, <2>1, <3>1 DEF Listing, On
      <3> QED
        BY <1>6, <2>1, <2>2, <3>1, <3>2
    <2>3. CASE t # s
      BY <1>1, <2>1, <2>3 DEF LoneInv, LoneListing, Active
    <2> QED
      BY <2>2, <2>3
  <1>9. LoneApplied'
    BY <1>0, <1>1, <1>2, <1>3 DEF LoneInv, LoneApplied, User
  <1>10. LoneConfirmed'
    <2> SUFFICES ASSUME NEW x \in Sends, x \in confirmed, NEW t \in Sends,
                        User(x) = User(t), rivals'[x] = {},
                        pc'[t] \in {"read", "listing"}
                 PROVE  x \in base'[t].conversations
      BY <1>0, <1>1 DEF LoneConfirmed, User, TypeOK
    <2> x # s /\ rivals[x] = {}
      BY <1>1, <1>3
    <2>1. CASE t = s
      BY <1>2, <1>6, <2>1
    <2>2. CASE t # s
      BY <1>1, <2>2 DEF LoneInv, LoneConfirmed
    <2> QED
      BY <2>1, <2>2
  <1>11. LoneLate'
    <2>1. late[s] # "listing"
      BY <1>1 DEF TypeOK
    <2> QED
      BY <1>1, <1>3, <1>4, <1>50, <2>1 DEF LoneInv, LoneLate, Active, User
  <1> QED
    BY <1>7, <1>8, <1>9, <1>10, <1>11 DEF LoneInv

(* A snapshot from the server holds every entry that must not be missed.   *)
LEMMA LoneRead ==
    ASSUME TypeOK, LoneInv, NEW d \in Devices, ReadAnswered(d)
    PROVE  LoneInv'
  <1>0. pc \in [Sends -> Stages] /\ base \in [Sends -> UserNodes]
    BY DEF TypeOK
  <1>1. /\ \A t \in Sends : t \in Awaiting(d) =>
             /\ pc[t] = "reading" /\ pc'[t] = "read"
             /\ base'[t] = node[User(t)]
        /\ \A t \in Sends : t \notin Awaiting(d) =>
             pc'[t] = pc[t] /\ base'[t] = base[t]
        /\ UNCHANGED <<node, late, wire, putNumber, confirmed, rivals>>
    BY DEF ReadAnswered, Awaiting, On, User, serverVars, historyVars
  <1>2. LoneBeforePut'
    BY <1>1 DEF LoneInv, LoneBeforePut, Active, User
  <1>3. LoneListing'
    BY <1>1 DEF LoneInv, LoneListing, Active, User
  <1>4. LoneApplied'
    BY <1>1 DEF LoneInv, LoneApplied, User
  <1>5. LoneConfirmed'
    BY <1>0, <1>1 DEF LoneInv, LoneConfirmed, LoneApplied, User, TypeOK
  <1>6. LoneLate'
    <2>1. \A t \in Sends : late[t] = "listing" => base'[t] = base[t]
      BY <1>1 DEF TypeOK
    <2> QED
      BY <1>1, <2>1 DEF LoneInv, LoneLate, Active, User
  <1> QED
    BY <1>2, <1>3, <1>4, <1>5, <1>6 DEF LoneInv

(* The put of s is the last of its device, and whoever was waiting there   *)
(* receives what it writes.                                                *)
LEMMA LonePut ==
    ASSUME TypeOK, LoneInv, NEW s \in Sends, createNewConversation(s)
    PROVE  LoneInv'
  <1> DEFINE waiting == Awaiting(DeviceOf[s])
  <1>0. /\ pc \in [Sends -> Stages] /\ base \in [Sends -> UserNodes]
        /\ putNumber \in [Sends -> Nat] /\ wire \in [Sends -> WireStates]
        /\ putCounter \in [Devices -> Nat] /\ confirmed \subseteq Sends
    BY DEF TypeOK
  <1>1. /\ pc[s] = "read" /\ pc'[s] = "listing" /\ base'[s] = base[s]
        /\ wire'[s] = "pending" /\ putNumber'[s] = putCounter[DeviceOf[s]]
        /\ s \notin waiting
        /\ UNCHANGED <<node, late, confirmed, rivals>>
    BY <1>0 DEF createNewConversation, put, Awaiting, serverVars, historyVars
  <1>2. \A t \in Sends : t \in waiting =>
          /\ User(t) = User(s) /\ DeviceOf[t] = DeviceOf[s]
          /\ pc[t] = "reading" /\ pc'[t] = "read"
          /\ base'[t].conversations = base[s].conversations \cup {s}
    BY <1>0, <1>1 DEF createNewConversation, Awaiting, On, User, userNode
  <1>3. \A t \in Sends : t \notin waiting /\ t # s =>
          /\ pc'[t] = pc[t] /\ base'[t] = base[t]
    BY <1>0 DEF createNewConversation
  <1>4. \A t \in Sends : t # s =>
          putNumber'[t] = putNumber[t] /\ wire'[t] = wire[t]
    BY <1>0 DEF createNewConversation, put
  <1> HIDE DEF waiting
  <1>5. LoneBeforePut'
    BY <1>1, <1>2, <1>3 DEF LoneInv, LoneBeforePut, Active, User
  <1>6. LoneListing'
    <2> SUFFICES ASSUME NEW x \in Sends, NEW t \in Sends, x # t,
                        User(x) = User(t), rivals[x] = {},
                        pc'[x] = "listing", Active(t)'
                 PROVE  /\ DeviceOf[t] = DeviceOf[x]
                        /\ \/ pc'[t] = "listing" /\ putNumber'[t] < putNumber'[x]
                           \/ /\ pc'[t] \in {"read", "listing"}
                              /\ x \in base'[t].conversations
      BY <1>1 DEF LoneListing, User
    <2>1. CASE x = s
      <3>1. t \notin waiting /\ Active(t)
        BY <1>1, <1>2, <1>3, <2>1 DEF LoneInv, LoneBeforePut, Active
      <3>2. DeviceOf[t] = DeviceOf[s] /\ pc[t] = "listing"
        BY <1>1, <2>1, <3>1 DEF LoneInv, LoneBeforePut
      <3> QED
        BY <1>1, <1>3, <1>4, <2>1, <3>1, <3>2, Numbered
    <2>2. CASE x # s
      <3>1. pc[x] = "listing" /\ x \notin waiting
        BY <1>2, <1>3, <2>2
      <3>2. t \notin waiting
        BY <1>2, <2>2, <3>1 DEF LoneInv, LoneListing, Active
      <3>3. CASE t = s
        BY <1>1, <2>2, <3>1, <3>3 DEF LoneInv, LoneListing, Active
      <3>4. CASE t # s
        BY <1>3, <1>4, <2>2, <3>1, <3>2, <3>4 DEF LoneInv, LoneListing, Active
      <3> QED
        BY <3>3, <3>4
    <2> QED
      BY <2>1, <2>2
  <1>7. LoneApplied'
    BY <1>0, <1>1, <1>2, <1>3, <1>4 DEF LoneInv, LoneApplied, User
  <1>8. LoneConfirmed'
    BY <1>0, <1>1, <1>2, <1>3 DEF LoneInv, LoneConfirmed, User
  <1>9. LoneLate'
    <2>1. \A t \in Sends : late[t] = "listing" => base'[t] = base[t]
      BY <1>1, <1>2, <1>3 DEF TypeOK
    <2> QED
      BY <1>1, <1>2, <1>3, <2>1 DEF LoneInv, LoneLate, Active, User
  <1> QED
    BY <1>5, <1>6, <1>7, <1>8, <1>9 DEF LoneInv

(* The server applies a put of the account: what it overwrites is in it.   *)
LEMMA LoneServed ==
    ASSUME TypeOK, PutsOrdered, LoneInv, NEW s \in Sends, ServerApplies(s)
    PROVE  LoneInv'
  <1> USE ConstantsAssumption
  <1>0. /\ node \in [Users -> UserNodes] /\ wire \in [Sends -> WireStates]
        /\ putNumber \in [Sends -> Nat] /\ confirmed \subseteq Sends
    BY DEF TypeOK
  <1>1. /\ wire[s] = "pending"
        /\ \A t \in Sends : t # s => wire'[t] = wire[t]
        /\ UNCHANGED <<late, pc, base, putNumber, confirmed, rivals>>
    BY <1>0 DEF ServerApplies, NextOnWire, historyVars
  <1>2. CASE pc[s] = "storing"
    <2>1. node' = node
      BY <1>2 DEF ServerApplies, Store
    <2>2. LoneBeforePut' /\ LoneListing' /\ LoneConfirmed' /\ LoneLate'
      BY <1>1, <2>1
      DEF LoneInv, LoneBeforePut, LoneListing, LoneConfirmed, LoneLate, Active, User
    <2>3. LoneApplied'
      BY <1>1, <1>2, <2>1 DEF LoneInv, LoneApplied, User
    <2> QED
      BY <2>2, <2>3 DEF LoneInv
  <1>3. CASE pc[s] = "listing"
    <2>1. /\ node'[User(s)].conversations = base[s].conversations \cup {s}
          /\ \A u \in Users : u # User(s) => node'[u] = node[u]
      BY <1>0, <1>3, UserType DEF ServerApplies, Store, userNode
    <2>2. LoneBeforePut' /\ LoneListing' /\ LoneConfirmed' /\ LoneLate'
      BY <1>1
      DEF LoneInv, LoneBeforePut, LoneListing, LoneConfirmed, LoneLate, Active, User
    <2>3. ASSUME NEW x \in Sends, rivals[x] = {}, x # s,
                 \/ pc[x] = "listing" /\ wire[x] = "applied"
                 \/ x \in confirmed
          PROVE  x \in node'[User(x)].conversations
      <3>1. x \in node[User(x)].conversations
        BY <2>3 DEF LoneInv, LoneApplied
      <3>2. CASE User(x) # User(s)
        BY <2>1, <3>1, <3>2, UserType
      <3>3. CASE User(x) = User(s) /\ x \in confirmed
        BY <1>3, <2>1, <2>3, <3>3 DEF LoneInv, LoneConfirmed
      <3>4. CASE User(x) = User(s) /\ pc[x] = "listing" /\ wire[x] = "applied"
        <4>1. \/ DeviceOf[s] = DeviceOf[x] /\ putNumber[s] < putNumber[x]
              \/ x \in base[s].conversations
          BY <1>3, <2>3, <3>4 DEF LoneInv, LoneListing, Active
        <4>2. ~(DeviceOf[s] = DeviceOf[x] /\ putNumber[s] < putNumber[x])
          BY <1>1, <1>3, <2>3, <3>4 DEF PutsOrdered
        <4> QED
          BY <2>1, <3>4, <4>1, <4>2
      <3> QED
        BY <2>3, <3>2, <3>3, <3>4
    <2>4. LoneApplied'
      BY <1>1, <2>1, <2>3 DEF LoneApplied, User
    <2> QED
      BY <2>2, <2>4 DEF LoneInv
  <1> QED
    BY <1>2, <1>3 DEF ServerApplies, Store

(* A late put of the account: what it overwrites is in it.                 *)
LEMMA LoneLateServed ==
    ASSUME TypeOK, EntryFirst, LoneInv, NEW s \in Sends, TakeLate(s)
    PROVE  LoneInv'
  <1> USE ConstantsAssumption
  <1>0. /\ node \in [Users -> UserNodes] /\ late \in [Sends -> LatePuts]
        /\ confirmed \subseteq Sends
    BY DEF TypeOK
  <1>1. /\ UNCHANGED <<pc, base, wire, putNumber, confirmed, rivals>>
        /\ \A t \in Sends : late'[t] = "listing" => late[t] = "listing"
    BY <1>0, LateKeeps
  <1>2. LoneBeforePut' /\ LoneListing' /\ LoneConfirmed' /\ LoneLate'
    BY <1>1
    DEF LoneInv, LoneBeforePut, LoneListing, LoneConfirmed, LoneLate, Active, User
  <1>3. CASE late[s] = "listing" /\ node' # node
    <2>1. /\ node'[User(s)].conversations = base[s].conversations \cup {s}
          /\ \A u \in Users : u # User(s) => node'[u] = node[u]
      BY <1>0, <1>3, UserType DEF TakeLate, LateApplied, LateDropped, Store, userNode
    <2>2. ASSUME NEW x \in Sends, rivals[x] = {},
                 \/ pc[x] = "listing" /\ wire[x] = "applied"
                 \/ x \in confirmed
          PROVE  x \in node'[User(x)].conversations
      <3>1. x \in node[User(x)].conversations
        BY <2>2 DEF LoneInv, LoneApplied
      <3>2. CASE User(x) # User(s)
        BY <2>1, <3>1, <3>2, UserType
      <3>3. CASE User(x) = User(s) /\ x # s
        BY <1>3, <2>1, <2>2, <3>3 DEF LoneInv, LoneLate, Active
      <3> QED
        BY <2>1, <3>2, <3>3
    <2>3. LoneApplied'
      BY <1>1, <2>2 DEF LoneApplied, User
    <2> QED
      BY <1>2, <2>3 DEF LoneInv
  <1>4. CASE node' = node
    <2>1. LoneApplied'
      BY <1>1, <1>4 DEF LoneInv, LoneApplied, User
    <2> QED
      BY <1>2, <2>1 DEF LoneInv
  <1>5. late[s] = "listing" \/ node' = node
    BY DEF TakeLate, LateApplied, LateDropped, Store
  <1> QED
    BY <1>3, <1>4, <1>5

(* The acknowledgement: nothing older is outstanding, so every write to    *)
(* come has read the entry.                                                *)
LEMMA LoneAcknowledged ==
    ASSUME TypeOK, LoneInv, NEW s \in Sends, finishCreateConversation(s)
    PROVE  LoneInv'
  <1>0. /\ pc \in [Sends -> Stages] /\ wire \in [Sends -> WireStates]
        /\ putNumber \in [Sends -> Nat] /\ confirmed \subseteq Sends
    BY DEF TypeOK
  <1>1. /\ pc[s] = "listing" /\ pc'[s] = "storing" /\ wire[s] = "applied"
        /\ confirmed' = confirmed \cup {s}
        /\ \A t \in Sends : DeviceOf[t] = DeviceOf[s] /\ pc[t] = "listing"
             => putNumber[s] <= putNumber[t]
        /\ \A t \in Sends : t # s =>
             pc'[t] = pc[t] /\ wire'[t] = wire[t] /\ putNumber'[t] = putNumber[t]
        /\ UNCHANGED <<node, late, base, rivals>>
    BY <1>0 DEF finishCreateConversation, OldestAnswered, put, Outstanding, On,
                serverVars
  <1>2. LoneBeforePut'
    BY <1>1 DEF LoneInv, LoneBeforePut, Active, User
  <1>3. LoneListing'
    BY <1>1 DEF LoneInv, LoneListing, Active, User
  <1>4. LoneApplied'
    BY <1>1 DEF LoneInv, LoneApplied, User
  <1>5. LoneConfirmed'
    <2>1. ASSUME NEW t \in Sends, t # s, User(t) = User(s), rivals[s] = {},
                 pc[t] \in {"read", "listing"}
          PROVE  s \in base[t].conversations
      BY <1>0, <1>1, <2>1 DEF LoneInv, LoneListing, Active
    <2> QED
      BY <1>0, <1>1, <2>1 DEF LoneInv, LoneConfirmed, User
  <1>6. LoneLate'
    BY <1>1 DEF LoneInv, LoneLate, Active, User
  <1> QED
    BY <1>2, <1>3, <1>4, <1>5, <1>6 DEF LoneInv

LEMMA LoneStep ==
    TypeOK /\ PutsOrdered /\ EntryFirst /\ LoneInv /\ [Next]_vars => LoneInv'
  <1> SUFFICES ASSUME TypeOK, PutsOrdered, EntryFirst, LoneInv, [Next]_vars
               PROVE  LoneInv'
    OBVIOUS
  <1> USE DEF serverVars, sendVars, deviceVars, envVars, historyVars
  <1>0. pc \in [Sends -> Stages] /\ wire \in [Sends -> WireStates]
    BY DEF TypeOK
  <1>1. ASSUME NEW s \in Sends, Answer(s) PROVE LoneInv'
    <2>1. CASE UserNotFound(s) \/ MessageSent(s) \/ MessageFailed(s)
      <3> UNCHANGED <<node, late, base, rivals, putNumber, confirmed, wire>>
        BY <2>1 DEF UserNotFound, MessageSent, MessageFailed
      <3> \A t \in Sends : pc'[t] = pc[t] \/ pc'[t] \in {"sent", "failed"}
        BY <1>0, <2>1 DEF UserNotFound, MessageSent, MessageFailed
      <3> QED
        BY LoneKept
    <2> QED
      BY <1>1, <2>1, LonePut, LoneAcknowledged DEF Answer
  <1>2. ASSUME NEW s \in Sends, Serve(s) PROVE LoneInv'
    <2>1. CASE ServerRejects(s)
      <3> UNCHANGED <<node, late, base, rivals, putNumber, confirmed, pc>>
        BY <2>1 DEF ServerRejects
      <3> \A t \in Sends : wire'[t] = "applied" => wire[t] = "applied"
        BY <1>0, <2>1 DEF ServerRejects
      <3> QED
        BY LoneKept
    <2> QED
      BY <1>2, <2>1, LoneServed DEF Serve
  <1>3. ASSUME NEW d \in Devices, AnswerRead(d) PROVE LoneInv'
    <2>1. CASE ReadDenied(d)
      <3> UNCHANGED <<node, late, base, rivals, putNumber, confirmed, wire>>
        BY <2>1 DEF ReadDenied
      <3> \A t \in Sends : pc'[t] = pc[t] \/ pc'[t] = "denied"
        BY <2>1 DEF ReadDenied
      <3> QED
        BY LoneKept
    <2> QED
      BY <1>3, <2>1, LoneRead DEF AnswerRead
  <1>4. ASSUME NEW d \in Devices, onDisconnect(d) \/ Crash(d) PROVE LoneInv'
    <2> UNCHANGED <<node, base, rivals, putNumber, confirmed>>
      BY <1>4 DEF onDisconnect, Crash
    <2> \A t \in Sends : pc'[t] = pc[t] \/ pc'[t] = "lost"
      BY <1>4 DEF onDisconnect, Crash
    <2> \A t \in Sends : wire'[t] = "applied" => wire[t] = "applied"
      BY <1>4 DEF onDisconnect, Crash
    <2>1. CASE onDisconnect(d)
      <3> UNCHANGED late
        BY <2>1 DEF onDisconnect
      <3> QED
        BY LoneKept
    <2>2. CASE Crash(d)
      <3>1. \A s \in Sends : DeviceOf[s] = d => ~Active(s)'
        BY <1>0, <2>2 DEF Crash, Outstanding, On, Active
      <3>2. \A t \in Sends : late'[t] = "listing" =>
              late[t] = "listing" \/ (DeviceOf[t] = d /\ pc[t] = "listing")
        BY <2>2 DEF Crash, Outstanding, On
      <3>3. \A t \in Sends : late'[t] = "listing" =>
              \/ late[t] = "listing"
              \/ /\ pc[t] = "listing"
                 /\ \A s \in Sends : DeviceOf[s] = DeviceOf[t] => ~Active(s)'
        BY <3>1, <3>2
      <3> QED
        BY <3>3, LoneKept
    <2> QED
      BY <1>4, <2>1, <2>2
  <1>5. CASE \/ \E d \in Devices : getAllConversation(d) \/ restoreState(d) \/ Restart(d)
             \/ Tick
             \/ UNCHANGED vars
    <2> UNCHANGED <<node, late, base, rivals, putNumber, confirmed, pc, wire>>
      BY <1>5 DEF getAllConversation, restoreState, Restart, Tick, vars
    <2> QED
      BY LoneKept
  <1> QED
    BY <1>1, <1>2, <1>3, <1>4, <1>5, LonePress, LoneLateServed DEF Next

(* An acknowledged entry whose send ran alone is never lost.               *)
THEOREM LoneEntriesAreKept == Spec => []LoneEntryIsKept
  <1> DEFINE IInv == TypeOK /\ PutsOrdered /\ EntryFirst /\ LoneInv
  <1>1. Init => IInv
    <2>1. Init => PutsOrdered /\ EntryFirst
      BY ConstantsAssumption
      DEF Init, PutsOrdered, EntryFirst, MessageFollowsEntry
    <2>2. Init => LoneInv
      BY DEF Init, LoneInv, LoneBeforePut, LoneListing, LoneApplied,
             LoneConfirmed, LoneLate
    <2> QED
      BY <2>1, <2>2, TypeInit
  <1>2. IInv /\ [Next]_vars => IInv'
    BY TypeStep, PutsOrderedStep, EntryFirstStep, LoneStep
  <1>3. IInv => LoneEntryIsKept
    BY DEF TypeOK, LoneInv, LoneApplied, LoneEntryIsKept
  <1> QED
    BY <1>1, <1>2, <1>3, PTL DEF Spec

-----------------------------------------------------------------------------
(* Stored messages.  From the server's decision on, the message is where   *)
(* its identifier points, or a send with the same identifier replaced it.  *)
StoredAt(s) ==
    \/ message[conversationId(s)] = s
    \/ \E t \in Sends \ {s} : /\ pc[t] # "idle"
                              /\ conversationId(t) = conversationId(s)
                              /\ message[conversationId(s)] = t

StoredInv ==
    \A s \in Sends :
        \/ pc[s] = "sent"
        \/ pc[s] = "storing" /\ wire[s] = "applied"
        => StoredAt(s)

LEMMA StoredKept ==
    ASSUME TypeOK, StoredInv, UNCHANGED <<message, stamp>>,
           \A t \in Sends : pc[t] # "idle" => pc'[t] # "idle",
           \A t \in Sends :
             \/ pc'[t] = "sent"
             \/ pc'[t] = "storing" /\ wire'[t] = "applied"
             => \/ pc[t] = "sent"
                \/ pc[t] = "storing" /\ wire[t] = "applied"
    PROVE  StoredInv'
  BY DEF StoredInv, StoredAt, conversationId, createRandomEMessageId, User

LEMMA StoredStep == TypeOK /\ StoredInv /\ [Next]_vars => StoredInv'
  <1> SUFFICES ASSUME TypeOK, StoredInv, [Next]_vars PROVE StoredInv'
    OBVIOUS
  <1> USE DEF serverVars, sendVars, deviceVars, envVars, historyVars
  <1>0. /\ pc \in [Sends -> Stages] /\ wire \in [Sends -> WireStates]
        /\ message \in [ConversationIds -> Sends \cup {NoSend}]
        /\ stamp \in [Sends -> 0..MaxClock]
    BY DEF TypeOK
  <1>1. ASSUME NEW s \in Sends, didPressSendButton(s) PROVE StoredInv'
    <2>1. /\ pc[s] = "idle" /\ pc'[s] \in {"reading", "read"}
          /\ \A t \in Sends : t # s => pc'[t] = pc[t] /\ stamp'[t] = stamp[t]
          /\ UNCHANGED <<message, wire>>
      BY <1>0, <1>1 DEF didPressSendButton, observeSingleEvent
    <2>2. \A t \in Sends : t # s => conversationId(t)' = conversationId(t)
      BY <2>1 DEF conversationId, createRandomEMessageId, User
    <2> QED
      BY <2>1, <2>2 DEF StoredInv, StoredAt
  <1>2. ASSUME NEW s \in Sends, ServerApplies(s) PROVE StoredInv'
    <2>1. /\ \A t \in Sends : conversationId(t)' = conversationId(t)
          /\ UNCHANGED pc /\ \A t \in Sends : t # s => wire'[t] = wire[t]
      BY <1>0, <1>2 DEF ServerApplies, conversationId, createRandomEMessageId, User
    <2>2. CASE pc[s] = "listing"
      BY <1>2, <2>1, <2>2 DEF ServerApplies, Store, StoredInv, StoredAt
    <2>3. CASE pc[s] = "storing"
      <3>1. /\ message'[conversationId(s)] = s
            /\ \A c \in ConversationIds :
                 c # conversationId(s) => message'[c] = message[c]
        BY <1>0, <1>2, <2>3, ConversationIdType DEF ServerApplies, Store
      <3>2. ASSUME NEW t \in Sends, t # s,
                   \/ pc[t] = "sent"
                   \/ pc[t] = "storing" /\ wire[t] = "applied"
            PROVE  StoredAt(t)'
        <4>1. CASE conversationId(t) = conversationId(s)
          BY <2>1, <2>3, <3>1, <3>2, <4>1 DEF StoredAt
        <4>2. CASE conversationId(t) # conversationId(s)
          BY <2>1, <3>1, <3>2, <4>2, ConversationIdType DEF StoredInv, StoredAt
        <4> QED
          BY <4>1, <4>2
      <3> QED
        BY <2>1, <3>1, <3>2 DEF StoredInv, StoredAt
    <2> QED
      BY <1>2, <2>2, <2>3 DEF ServerApplies, Store
  <1>3. ASSUME NEW s \in Sends, ServerRejects(s) \/ Answer(s) PROVE StoredInv'
    <2>1. UNCHANGED <<message, stamp>>
      BY <1>3 DEF ServerRejects, Answer, UserNotFound, createNewConversation,
                  finishCreateConversation, MessageSent, MessageFailed
    <2>2. CASE ServerRejects(s)
      BY <1>0, <2>1, <2>2, StoredKept DEF ServerRejects
    <2>3. CASE createNewConversation(s)
      <3>1. \A t \in Sends : /\ pc[t] # "idle" => pc'[t] # "idle"
                             /\ pc'[t] \in {"sent", "storing"} =>
                                  pc'[t] = pc[t] /\ wire'[t] = wire[t]
        BY <1>0, <2>3 DEF createNewConversation, put
      <3> QED
        BY <2>1, <3>1, StoredKept
    <2>4. CASE finishCreateConversation(s)
      <3>1. \A t \in Sends : /\ pc[t] # "idle" => pc'[t] # "idle"
                             /\ t # s => pc'[t] = pc[t] /\ wire'[t] = wire[t]
        BY <1>0, <2>4 DEF finishCreateConversation, put
      <3>2. pc'[s] = "storing" /\ wire'[s] = "pending"
        BY <1>0, <2>4 DEF finishCreateConversation, put
      <3> QED
        BY <2>1, <3>1, <3>2, StoredKept
    <2>5. CASE MessageSent(s)
      BY <1>0, <2>1, <2>5, StoredKept DEF MessageSent, OldestAnswered
    <2>6. CASE UserNotFound(s) \/ MessageFailed(s)
      BY <1>0, <2>1, <2>6, StoredKept DEF UserNotFound, MessageFailed
    <2> QED
      BY <1>3, <2>2, <2>3, <2>4, <2>5, <2>6 DEF Answer
  <1>4. ASSUME NEW d \in Devices,
               \/ AnswerRead(d) \/ getAllConversation(d) \/ restoreState(d)
               \/ onDisconnect(d) \/ Crash(d) \/ Restart(d)
        PROVE  StoredInv'
    <2>1. UNCHANGED <<message, stamp>>
      BY <1>4 DEF AnswerRead, ReadAnswered, ReadDenied, getAllConversation,
                  restoreState, onDisconnect, Crash, Restart
    <2>2. \A t \in Sends : pc'[t] = pc[t] \/ pc'[t] \in {"read", "denied", "lost"}
      BY <1>0, <1>4 DEF AnswerRead, ReadAnswered, ReadDenied, getAllConversation,
                        restoreState, onDisconnect, Crash, Restart
    <2>3. \A t \in Sends : wire'[t] = "applied" => wire[t] = "applied"
      BY <1>0, <1>4 DEF AnswerRead, ReadAnswered, ReadDenied, getAllConversation,
                        restoreState, onDisconnect, Crash, Restart
    <2> QED
      BY <2>1, <2>2, <2>3, StoredKept
  <1>5. CASE Tick \/ UNCHANGED vars
    <2> UNCHANGED <<message, stamp, pc, wire>>
      BY <1>5 DEF Tick, vars
    <2> QED
      BY StoredKept
  <1>6. ASSUME NEW s \in Sends, TakeLate(s) PROVE StoredInv'
    <2>1. /\ \A t \in Sends : conversationId(t)' = conversationId(t)
          /\ UNCHANGED <<pc, wire, stamp>>
      BY <1>6, LateKeeps DEF conversationId, createRandomEMessageId, User
    <2>2. CASE message' = message
      BY <2>1, <2>2, StoredKept
    <2>3. CASE message' = [message EXCEPT ![conversationId(s)] = s] /\ late[s] # "none"
      <3>1. /\ message'[conversationId(s)] = s /\ pc[s] = "lost"
            /\ \A c \in ConversationIds :
                 c # conversationId(s) => message'[c] = message[c]
        BY <1>0, <2>3, ConversationIdType DEF TypeOK
      <3>2. ASSUME NEW t \in Sends, t # s,
                   \/ pc[t] = "sent"
                   \/ pc[t] = "storing" /\ wire[t] = "applied"
            PROVE  StoredAt(t)'
        <4>1. CASE conversationId(t) = conversationId(s)
          BY <2>1, <3>1, <3>2, <4>1 DEF StoredAt
        <4>2. CASE conversationId(t) # conversationId(s)
          BY <2>1, <3>1, <3>2, <4>2, ConversationIdType DEF StoredInv, StoredAt
        <4> QED
          BY <4>1, <4>2
      <3> QED
        BY <2>1, <3>1, <3>2 DEF StoredInv, StoredAt
    <2> QED
      BY <1>6, <2>2, <2>3 DEF TakeLate, LateApplied, LateDropped, Store, NextLate
  <1> QED
    BY <1>1, <1>2, <1>3, <1>4, <1>5, <1>6 DEF Next, Serve

(* completion(true) means that the message is stored.                      *)
THEOREM SentMessagesAreStored == Spec => []SentMessageIsStored
  <1>1. Init => TypeOK /\ StoredInv
    BY TypeInit, ConstantsAssumption DEF Init, StoredInv
  <1>2. TypeOK /\ StoredInv /\ [Next]_vars => TypeOK' /\ StoredInv'
    BY TypeStep, StoredStep
  <1>3. StoredInv => SentMessageIsStored
    BY DEF StoredInv, StoredAt, SentMessageIsStored
  <1> QED
    BY <1>1, <1>2, <1>3, PTL DEF Spec

-----------------------------------------------------------------------------
(* Every step of the sends of a user is one of SharedList, or none.        *)
LEMMA ListStep ==
    ASSUME TypeOK, [Next]_vars, NEW u \in Users
    PROVE  ListOf(u)!Next \/ UNCHANGED ListOf(u)!sharedList
  <1> DEFINE W == SendsOf(u)
  <1> DEFINE copy == [s \in W |-> base[s].conversations]
  <1> DEFINE held == [s \in W |-> IF \/ pc[s] \in {"read", "listing"}
                                     \/ late[s] = "listing" THEN "holding"
                                  ELSE IF pc[s] \in {"idle", "reading"} THEN "out"
                                  ELSE "ended"]
  <1>0. \A s \in W : s \in Sends /\ User(s) = u
    BY DEF SendsOf
  <1>00. \A s \in Sends : late[s] # "none" => pc[s] = "lost"
    BY DEF TypeOK
  <1>a. ASSUME held' = held, copy' = copy, node'[u] = node[u]
        PROVE  UNCHANGED ListOf(u)!sharedList
    BY <1>a DEF ListOf!sharedList
  <1>b. ASSUME NEW some \in SUBSET W, node'[u] = node[u], copy' = copy,
               \A s \in W : held'[s] = IF s \in some THEN "ended" ELSE held[s]
        PROVE  ListOf(u)!Next
    <2>1. ListOf(u)!Leave(some)
      BY <1>b DEF ListOf!Leave
    <2> QED
      BY <2>1 DEF ListOf!Next
  <1>c. ASSUME UNCHANGED <<pc, late, base, node>> PROVE UNCHANGED ListOf(u)!sharedList
    BY <1>a, <1>c
  <1>d. ASSUME NEW them \in SUBSET SendsOf(u), NEW value \in ListOf(u)!Readable,
               ListOf(u)!Take(them, value)
        PROVE  ListOf(u)!Next
    <2> HIDE DEF W, held, copy
    <2> QED
      BY <1>d, Zenon DEF ListOf!Next
  <1>e. ASSUME NEW them \in SUBSET W, NEW value \in ListOf(u)!Readable,
               node' = node, \A w \in them : held[w] = "out",
               \A w \in W : held'[w] = IF w \in them THEN "holding" ELSE held[w],
               \A w \in W : copy'[w] = IF w \in them THEN value ELSE copy[w]
        PROVE  ListOf(u)!Next
    <2>1. ListOf(u)!Take(them, value)
      BY <1>e DEF ListOf!Take
    <2> QED
      BY <1>d, <1>e, <2>1
  <1> USE DEF TypeOK, UserNodes, Stages, serverVars, sendVars, deviceVars, envVars,
              historyVars
  <1>1. ASSUME NEW s \in Sends, didPressSendButton(s)
        PROVE  ListOf(u)!Next \/ UNCHANGED ListOf(u)!sharedList
    <2>0. UNCHANGED <<node, late>> /\ pc[s] = "idle" /\ observeSingleEvent(s)
      BY <1>1 DEF didPressSendButton
    <2>1. CASE s \in W
      <3>1. ASSUME NEW t \in Sends, Shadows(t, DeviceOf[s]),
                   pc' = [pc EXCEPT ![s] = "read"],
                   base' = [base EXCEPT ![s] = userNode(t)]
            PROVE  ListOf(u)!Next
        <4>1. t \in W /\ held[t] = "holding"
          BY <1>0, <2>1, <3>1 DEF Shadows, Listing, On, SendsOf, User
        <4>2. \A w \in W : held'[w] = IF w \in {s} THEN "holding" ELSE held[w]
          BY <1>0, <2>0, <3>1
        <4>3. \A w \in W : copy'[w] = IF w \in {s} THEN copy[t] \cup {t} ELSE copy[w]
          BY <1>0, <3>1, <4>1 DEF userNode
        <4>4. held[s] = "out" /\ {s} \in SUBSET W
          BY <1>00, <2>0, <2>1
        <4>5. copy[t] \cup {t} \in ListOf(u)!Readable
          BY <4>1 DEF ListOf!Readable, ListOf!Holding
        <4>6. \A w \in {s} : held[w] = "out"
          BY <4>4
        <4>7. PICK them \in SUBSET W, value \in ListOf(u)!Readable :
                them = {s} /\ value = copy[t] \cup {t}
          BY <4>4, <4>5
        <4>8. /\ \A w \in them : held[w] = "out"
              /\ \A w \in W : held'[w] = IF w \in them THEN "holding" ELSE held[w]
              /\ \A w \in W : copy'[w] = IF w \in them THEN value ELSE copy[w]
          BY <4>2, <4>3, <4>6, <4>7
        <4> HIDE DEF W, held, copy, TypeOK
        <4> QED
          BY <1>e, <2>0, <4>8
      <3>2. CASE pc' = [pc EXCEPT ![s] = "reading"] /\ UNCHANGED base
        BY <1>0, <1>a, <2>0, <3>2
      <3> QED
        BY <2>0, <3>1, <3>2 DEF observeSingleEvent
    <2>2. CASE s \notin W
      <3>1. \A w \in W : pc'[w] = pc[w] /\ base'[w] = base[w]
        BY <1>0, <2>0, <2>2 DEF observeSingleEvent
      <3> QED
        BY <1>a, <2>0, <3>1
    <2> QED
      BY <2>1, <2>2
  <1>2. ASSUME NEW d \in Devices, ReadAnswered(d)
        PROVE  ListOf(u)!Next \/ UNCHANGED ListOf(u)!sharedList
    <2>0. UNCHANGED <<node, late>>
      BY <1>2 DEF ReadAnswered
    <2>1. CASE AccountOf[d] = u
      <3> DEFINE some == Awaiting(d)
      <3>1. some \in SUBSET W /\ \A s \in some : held[s] = "out"
        BY <1>00, <2>1 DEF Awaiting, On, SendsOf, User
      <3>2. \A w \in W : held'[w] = IF w \in some THEN "holding" ELSE held[w]
        BY <1>0, <1>2, <2>0 DEF ReadAnswered
      <3>3. node[u].conversations \in ListOf(u)!Readable
        BY DEF ListOf!Readable
      <3>4. PICK value : value = node[u].conversations
        OBVIOUS
      <3>5. PICK them : them = some
        OBVIOUS
      <3>6. value \in ListOf(u)!Readable
        BY <3>3, <3>4, Zenon
      <3>7. them \in SUBSET W /\ \A w \in them : held[w] = "out"
        BY <3>1, <3>5
      <3>8. \A w \in W : held'[w] = IF w \in them THEN "holding" ELSE held[w]
        BY <3>2, <3>5
      <3>9. \A w \in W : copy'[w] = IF w \in them THEN value ELSE copy[w]
        BY <1>0, <1>2, <2>1, <3>4, <3>5 DEF ReadAnswered
      <3> HIDE DEF some, W, held, copy, TypeOK
      <3> QED
        BY <1>e, <2>0, <3>6, <3>7, <3>8, <3>9
    <2>2. CASE AccountOf[d] # u
      <3>1. \A w \in W : w \notin Awaiting(d)
        BY <1>0, <2>2 DEF Awaiting, On, User
      <3>2. \A w \in W : pc'[w] = pc[w] /\ base'[w] = base[w]
        BY <1>0, <1>2, <3>1 DEF ReadAnswered
      <3> QED
        BY <1>a, <2>0, <3>2
    <2> QED
      BY <2>1, <2>2
  <1>3. ASSUME NEW some \in SUBSET Sends, UNCHANGED <<node, late, base>>,
               \A s \in Sends \ some : pc'[s] = pc[s],
               \A s \in some : pc[s] # "lost",
               \A s \in some : pc'[s] \in {"storing", "sent", "failed", "denied", "lost"}
        PROVE  ListOf(u)!Next
    <2>1. \A w \in W : held'[w] = IF w \in some \cap W THEN "ended" ELSE held[w]
      BY <1>0, <1>00, <1>3
    <2>2. some \cap W \in SUBSET W /\ copy' = copy
      BY <1>3
    <2> HIDE DEF W, held, copy
    <2> QED
      BY <1>3, <1>b, <2>1, <2>2
  <1>4. ASSUME NEW s \in Sends,
               \/ UserNotFound(s) \/ finishCreateConversation(s)
               \/ MessageSent(s) \/ MessageFailed(s)
        PROVE  ListOf(u)!Next
    <2>1. /\ UNCHANGED <<node, late, base>> /\ pc[s] # "lost"
          /\ \E stage \in {"storing", "sent", "failed"} : pc' = [pc EXCEPT ![s] = stage]
      BY <1>4
      DEF UserNotFound, finishCreateConversation, MessageSent, MessageFailed,
          OldestAnswered, Outstanding
    <2>2. {s} \in SUBSET Sends
      OBVIOUS
    <2>3. /\ pc'[s] \in {"storing", "sent", "failed"}
          /\ \A w \in Sends \ {s} : pc'[w] = pc[w]
      BY <2>1
    <2>4. PICK some \in SUBSET Sends : some = {s}
      BY <2>2
    <2>5. /\ \A w \in Sends \ some : pc'[w] = pc[w]
          /\ \A w \in some : pc[w] # "lost" /\ pc'[w] \in {"storing", "sent", "failed"}
      BY <2>1, <2>3, <2>4
    <2> HIDE DEF W, held, copy, TypeOK
    <2> QED
      BY <1>3, <2>1, <2>5
  <1>5. ASSUME NEW d \in Devices, ReadDenied(d) \/ Crash(d) PROVE ListOf(u)!Next
    <2>1. CASE ReadDenied(d)
      BY <1>3, <2>1 DEF ReadDenied, Awaiting, On
    <2>2. CASE Crash(d)
      <3> DEFINE dying == {s \in Sends : s \in Outstanding(d) \/ (DeviceOf[s] = d /\ Active(s))}
                 some == {s \in dying \cap W : late'[s] # "listing"}
      <3>1. /\ pc' = [s \in Sends |-> IF s \in dying THEN "lost" ELSE pc[s]]
            /\ UNCHANGED <<node, base>>
        BY <2>2 DEF Crash
      <3>2. /\ \A s \in dying : pc[s] # "lost"
            /\ \A s \in Sends \ dying : late'[s] = late[s]
            /\ \A s \in dying : late'[s] = "listing" => pc[s] = "listing"
        BY <1>00, <2>2 DEF Crash, Outstanding, On, Active
      <3>3. \A w \in W : held'[w] = IF w \in some THEN "ended" ELSE held[w]
        BY <1>0, <1>00, <3>1, <3>2
      <3>4. copy' = copy /\ node'[u] = node[u] /\ some \in SUBSET W
        BY <3>1
      <3> HIDE DEF dying, some, W, held, copy
      <3> QED
        BY <1>b, <3>3, <3>4
    <2> QED
      BY <1>5, <2>1, <2>2
  <1>6. ASSUME NEW s \in Sends, createNewConversation(s)
        PROVE  ListOf(u)!Next \/ UNCHANGED ListOf(u)!sharedList
    <2> DEFINE some == Awaiting(DeviceOf[s])
    <2>0. UNCHANGED <<node, late>> /\ pc[s] = "read"
      BY <1>6 DEF createNewConversation
    <2>1. \A t \in Sends :
            /\ pc'[t] = IF t = s THEN "listing"
                        ELSE IF t \in some THEN "read" ELSE pc[t]
            /\ base'[t] = IF t \in some THEN userNode(s) ELSE base[t]
      BY <1>6 DEF createNewConversation
    <2>2. CASE s \in W
      <3>1. held[s] = "holding"
        BY <2>0, <2>2
      <3>2. some \in SUBSET W /\ \A t \in some : held[t] = "out"
        BY <1>0, <1>00, <2>2 DEF Awaiting, On, SendsOf, User
      <3>3. \A w \in W : held'[w] = IF w \in some THEN "holding" ELSE held[w]
        BY <1>0, <2>0, <2>1 DEF Awaiting
      <3>4. copy[s] \cup {s} \in ListOf(u)!Readable
        BY <2>2, <3>1 DEF ListOf!Readable, ListOf!Holding
      <3>5. PICK value : value = copy[s] \cup {s}
        OBVIOUS
      <3>6. PICK them : them = some
        OBVIOUS
      <3>7. value \in ListOf(u)!Readable
        BY <3>4, <3>5, Zenon
      <3>8. them \in SUBSET W /\ \A w \in them : held[w] = "out"
        BY <3>2, <3>6
      <3>9. \A w \in W : held'[w] = IF w \in them THEN "holding" ELSE held[w]
        BY <3>3, <3>6
      <3>10. \A w \in W : copy'[w] = IF w \in them THEN value ELSE copy[w]
        <4>1. userNode(s).conversations = value
          BY <2>2, <3>5 DEF userNode
        <4>2. \A w \in W : /\ copy'[w] = base'[w].conversations
                           /\ copy[w] = base[w].conversations
          OBVIOUS
        <4> QED
          BY <1>0, <2>1, <3>6, <4>1, <4>2
      <3> HIDE DEF some, W, held, copy, TypeOK
      <3> QED
        BY <1>e, <2>0, <3>7, <3>8, <3>9, <3>10
    <2>3. CASE s \notin W
      <3>1. \A w \in W : w # s /\ w \notin some
        BY <1>0, <2>3 DEF Awaiting, On, SendsOf, User
      <3>2. \A w \in W : pc'[w] = pc[w] /\ base'[w] = base[w]
        BY <1>0, <2>1, <3>1
      <3> QED
        BY <1>a, <2>0, <3>2
    <2> QED
      BY <2>2, <2>3
  <1>7. ASSUME NEW s \in Sends, ServerApplies(s)
        PROVE  ListOf(u)!Next \/ UNCHANGED ListOf(u)!sharedList
    <2>0. UNCHANGED <<pc, late, base>>
      BY <1>7 DEF ServerApplies
    <2>1. CASE s \in W /\ pc[s] = "listing"
      <3>1. s \in ListOf(u)!Holding
        BY <2>1 DEF ListOf!Holding
      <3>2. node'[u].conversations = copy[s] \cup {s}
        BY <1>0, <1>7, <2>1 DEF ServerApplies, Store, userNode
      <3>3. held' = held /\ copy' = copy
        BY <2>0
      <3>4. ListOf(u)!Write(s)
        BY <3>1, <3>2, <3>3 DEF ListOf!Write
      <3> QED
        BY <2>1, <3>4 DEF ListOf!Next
    <2>2. CASE ~(s \in W /\ pc[s] = "listing")
      <3>1. node'[u] = node[u]
        BY <1>7, <2>2 DEF ServerApplies, Store, SendsOf
      <3> QED
        BY <1>a, <2>0, <3>1
    <2> QED
      BY <2>1, <2>2
  <1>8. ASSUME NEW s \in Sends, TakeLate(s)
        PROVE  ListOf(u)!Next \/ UNCHANGED ListOf(u)!sharedList
    <2>0. UNCHANGED <<pc, base>> /\ late' = [late EXCEPT ![s] = "none"]
      BY <1>8, LateKeeps
    <2>1. CASE s \in W /\ late[s] = "listing"
      <3>1. held[s] = "holding" /\ s \in ListOf(u)!Holding
        BY <2>1 DEF ListOf!Holding
      <3>2. \A w \in W : held'[w] = IF w \in {s} THEN "ended" ELSE held[w]
        BY <1>0, <1>00, <2>0, <2>1
      <3>3. copy' = copy /\ {s} \in SUBSET W
        BY <2>0, <2>1
      <3>4. CASE LateApplied(s)
        <4>1. node'[u].conversations = copy[s] \cup {s}
          BY <1>0, <2>1, <3>4 DEF LateApplied, Store, userNode
        <4>2. held' = [held EXCEPT ![s] = "ended"]
          <5> HIDE DEF W
          <5>1. held' = [w \in W |-> held'[w]] /\ held = [w \in W |-> held[w]]
            OBVIOUS
          <5> HIDE DEF held
          <5> QED
            BY <3>2, <5>1
        <4>3. held' \in {held, [held EXCEPT ![s] = "ended"]}
          BY <4>2
        <4>4. ListOf(u)!Write(s)
          BY <3>1, <3>3, <4>1, <4>3 DEF ListOf!Write
        <4> QED
          BY <2>1, <4>4 DEF ListOf!Next
      <3>5. CASE LateDropped(s)
        <4>1. node'[u] = node[u]
          BY <3>5 DEF LateDropped
        <4> HIDE DEF W, held, copy
        <4> QED
          BY <1>b, <3>2, <3>3, <4>1
      <3> QED
        BY <1>8, <3>4, <3>5 DEF TakeLate
    <2>2. CASE ~(s \in W /\ late[s] = "listing")
      <3>1. node'[u] = node[u]
        BY <1>8, <2>2 DEF TakeLate, LateApplied, LateDropped, Store, SendsOf
      <3>2. \A w \in W : late'[w] = "listing" <=> late[w] = "listing"
        BY <1>0, <2>0, <2>2
      <3>3. held' = held /\ copy' = copy
        BY <2>0, <3>2
      <3> QED
        BY <1>a, <3>1, <3>3
    <2> QED
      BY <2>1, <2>2
  <1>9. ASSUME NEW s \in Sends, ServerRejects(s) PROVE UNCHANGED <<pc, late, base, node>>
    BY <1>9 DEF ServerRejects
  <1>10. ASSUME NEW d \in Devices,
               getAllConversation(d) \/ restoreState(d) \/ onDisconnect(d) \/ Restart(d)
        PROVE  UNCHANGED <<pc, late, base, node>>
    BY <1>10 DEF getAllConversation, restoreState, onDisconnect, Restart
  <1>11. CASE Tick \/ UNCHANGED vars
    BY <1>11, <1>c DEF Tick, vars
  <1> QED
    BY <1>1, <1>2, <1>4, <1>5, <1>6, <1>7, <1>8, <1>9, <1>10, <1>11, <1>c
    DEF Next, Serve, Answer, AnswerRead

(* The conversations of every user are used as a shared list is: no write  *)
(* of one reaches the server before its read or after its answer, and one  *)
(* at most after the death of its app.                                     *)
THEOREM ConversationsAreSharedLists == Spec => ImplementsSharedList
  <1>1. Init => \A u \in Users : ListOf(u)!Init
    BY DEF Init, SendsOf, ListOf!Init
  <1>2. TypeOK /\ [Next]_vars =>
          \A u \in Users : [ListOf(u)!Next]_(ListOf(u)!sharedList)
    BY ListStep
  <1> QED
    BY TypeInit, TypeStep, <1>1, <1>2, PTL DEF Spec, ImplementsSharedList
-----------------------------------------------------------------------------
(* The rows of the conversations screen.                                   *)
RowsOf(d) ==
    /\ \A t \in Listing(d) : Shadows(t, d) => shown[d] = userNode(t).conversations
    /\ Listing(d) = {} => cache[d] \in {{}, shown[d]}

(* A step that leaves a device its pending writes, its rows and its list.  *)
LEMMA RowsKept ==
    ASSUME NEW d \in Devices, RowsOf(d),
           shown'[d] = shown[d], cache'[d] = cache[d],
           \A t \in On(d) : pc'[t] = "listing" <=> pc[t] = "listing",
           \A t \in Listing(d) : base'[t] = base[t] /\ putNumber'[t] = putNumber[t]
    PROVE  RowsOf(d)'
  <1>1. Listing(d)' = Listing(d)
    BY DEF Listing, On
  <1>2. \A t \in Listing(d) : Shadows(t, d)' => Shadows(t, d)
    BY <1>1 DEF Shadows
  <1>3. \A t \in Listing(d) : userNode(t)' = userNode(t)
    BY DEF userNode
  <1> QED
    BY <1>1, <1>2, <1>3 DEF RowsOf

(* The oldest pending write of a device is answered.                       *)
LEMMA RowsAnswered ==
    ASSUME TypeOK, NEW s \in Sends, NEW d \in Devices, d = DeviceOf[s],
           RowsOf(d), pc[s] = "listing",
           \A t \in Outstanding(d) : putNumber[s] <= putNumber[t],
           pc'[s] # "listing", \A t \in Sends \ {s} : pc'[t] = pc[t],
           \A t \in Sends \ {s} : base'[t] = base[t] /\ putNumber'[t] = putNumber[t],
           shown'[d] = RowsWithout(s, cache'[d])
    PROVE  RowsOf(d)'
  <1>1. /\ Listing(d)' = Listing(d) \ {s} /\ s \in Listing(d)
        /\ Listing(d) \subseteq Outstanding(d)
    BY DEF Listing, Outstanding, On
  <1>2. CASE Listing(d) \ {s} = {}
    <2>1. shown'[d] = startListinigForConversation(cache'[d], shown[d])
      BY <1>2 DEF RowsWithout
    <2>2. cache'[d] \in {{}, shown'[d]}
      BY <2>1 DEF startListinigForConversation
    <2> QED
      BY <1>1, <1>2, <2>2 DEF RowsOf
  <1>3. CASE Listing(d) \ {s} # {}
    <2>1. shown'[d] = shown[d]
      BY <1>3 DEF RowsWithout
    <2>2. ASSUME NEW t \in Listing(d)', Shadows(t, d)' PROVE Shadows(t, d)
      <3>1. t \in Listing(d) \ {s} /\ \A r \in Listing(d) \ {s} : putNumber[r] <= putNumber[t]
        BY <1>1, <2>2 DEF Shadows, Listing, On
      <3>2. putNumber[s] <= putNumber[t]
        BY <1>1, <3>1
      <3> QED
        BY <1>1, <3>1, <3>2 DEF Shadows
    <2>3. \A t \in Listing(d)' : t \in Listing(d) /\ userNode(t)' = userNode(t)
      BY <1>1 DEF userNode, Listing, On
    <2> QED
      BY <1>1, <1>3, <2>1, <2>2, <2>3 DEF RowsOf
  <1> QED
    BY <1>2, <1>3

LEMMA RowsStep == TypeOK /\ RowsFollow /\ [Next]_vars => RowsFollow'
  <1> SUFFICES ASSUME TypeOK, RowsFollow, [Next]_vars, NEW d \in Devices PROVE RowsOf(d)'
    BY DEF RowsFollow, RowsOf
  <1>0. /\ pc \in [Sends -> Stages] /\ putNumber \in [Sends -> Nat]
        /\ base \in [Sends -> UserNodes] /\ putCounter \in [Devices -> Nat]
        /\ shown \in [Devices -> SUBSET Sends] /\ cache \in [Devices -> SUBSET Sends]
    BY DEF TypeOK
  <1>00. RowsOf(d)
    BY DEF RowsFollow, RowsOf
  <1> USE DEF serverVars, sendVars, deviceVars, envVars, historyVars
  <1>1. ASSUME NEW s \in Sends, didPressSendButton(s) PROVE RowsOf(d)'
    BY <1>0, <1>00, <1>1, RowsKept DEF didPressSendButton, observeSingleEvent, Listing, On
  <1>2. ASSUME NEW s \in Sends, Serve(s) \/ UserNotFound(s) \/ MessageSent(s)
        PROVE  RowsOf(d)'
    BY <1>0, <1>00, <1>2, RowsKept
    DEF Serve, ServerApplies, ServerRejects, UserNotFound, MessageSent, Listing, On
  <1>11. ASSUME NEW s \in Sends, TakeLate(s) PROVE RowsOf(d)'
    BY <1>00, <1>11, LateKeeps, RowsKept DEF Listing, On
  <1>3. ASSUME NEW s \in Sends, createNewConversation(s) PROVE RowsOf(d)'
    <2>1. CASE DeviceOf[s] = d
      <3>1. /\ pc' = [t \in Sends |-> IF t = s THEN "listing"
                                      ELSE IF t \in Awaiting(d) THEN "read" ELSE pc[t]]
            /\ putNumber' = [putNumber EXCEPT ![s] = putCounter[d]]
            /\ shown' = [shown EXCEPT ![d] = userNode(s).conversations]
            /\ s \notin Awaiting(d) /\ base'[s] = base[s]
        BY <1>0, <1>3, <2>1 DEF createNewConversation, put, Awaiting
      <3>2. s \in Listing(d)' /\ putNumber'[s] = putCounter[d]
        BY <1>0, <2>1, <3>1 DEF Listing, On
      <3>3. \A t \in Listing(d)' \ {s} : putNumber'[t] < putCounter[d]
        BY <1>0, <3>1, Numbered DEF Listing, On
      <3>4. \A t \in Listing(d)' : Shadows(t, d)' => t = s
        BY <1>0, <3>1, <3>2, <3>3 DEF Shadows, Listing, On
      <3>5. shown'[d] = userNode(s)'.conversations
        BY <1>0, <3>1 DEF userNode
      <3> QED
        BY <3>2, <3>4, <3>5 DEF RowsOf
    <2>2. CASE DeviceOf[s] # d
      <3>1. /\ shown'[d] = shown[d] /\ cache'[d] = cache[d]
            /\ \A t \in On(d) : pc'[t] = pc[t] /\ base'[t] = base[t]
                                /\ putNumber'[t] = putNumber[t]
        BY <1>0, <1>3, <2>2 DEF createNewConversation, put, Awaiting, On
      <3> QED
        BY <1>00, <3>1, RowsKept DEF Listing
    <2> QED
      BY <2>1, <2>2
  <1>4. ASSUME NEW s \in Sends, finishCreateConversation(s) PROVE RowsOf(d)'
    <2>1. CASE DeviceOf[s] = d
      <3>1. /\ pc[s] = "listing" /\ pc' = [pc EXCEPT ![s] = "storing"]
            /\ base' = base /\ putNumber' = [putNumber EXCEPT ![s] = putCounter[d]]
            /\ \A t \in Outstanding(d) : putNumber[s] <= putNumber[t]
        BY <1>4, <2>1 DEF finishCreateConversation, OldestAnswered, put
      <3>2. shown'[d] = RowsWithout(s, cache'[d])
        BY <1>0, <1>4, <2>1 DEF finishCreateConversation
      <3> QED
        BY <1>0, <1>00, <2>1, <3>1, <3>2, RowsAnswered
    <2>2. CASE DeviceOf[s] # d
      <3>1. /\ shown'[d] = shown[d] /\ cache'[d] = cache[d]
            /\ \A t \in On(d) : pc'[t] = pc[t] /\ base'[t] = base[t]
                                /\ putNumber'[t] = putNumber[t]
        BY <1>0, <1>4, <2>2 DEF finishCreateConversation, put, On
      <3> QED
        BY <1>00, <3>1, RowsKept DEF Listing
    <2> QED
      BY <2>1, <2>2
  <1>5. ASSUME NEW s \in Sends, MessageFailed(s) PROVE RowsOf(d)'
    <2>1. CASE DeviceOf[s] = d /\ pc[s] = "listing"
      <3>1. /\ pc' = [pc EXCEPT ![s] = "failed"] /\ UNCHANGED <<base, putNumber, cache>>
            /\ \A t \in Outstanding(d) : putNumber[s] <= putNumber[t]
        BY <1>5, <2>1 DEF MessageFailed, OldestAnswered
      <3>2. shown'[d] = RowsWithout(s, cache'[d])
        BY <1>0, <1>5, <2>1, <3>1 DEF MessageFailed
      <3> QED
        BY <1>0, <1>00, <2>1, <3>1, <3>2, RowsAnswered
    <2>2. CASE ~(DeviceOf[s] = d /\ pc[s] = "listing")
      <3>1. /\ shown'[d] = shown[d] /\ cache'[d] = cache[d]
            /\ \A t \in On(d) : /\ pc'[t] = "listing" <=> pc[t] = "listing"
                                /\ base'[t] = base[t] /\ putNumber'[t] = putNumber[t]
        BY <1>0, <1>5, <2>2 DEF MessageFailed, On
      <3> QED
        BY <1>00, <3>1, RowsKept DEF Listing
    <2> QED
      BY <2>1, <2>2
  <1>6. ASSUME NEW e \in Devices, AnswerRead(e) PROVE RowsOf(d)'
    BY <1>0, <1>00, <1>6, RowsKept
    DEF AnswerRead, ReadAnswered, ReadDenied, Awaiting, Listing, On
  <1>7. ASSUME NEW e \in Devices, getAllConversation(e) PROVE RowsOf(d)'
    <2>1. CASE e = d /\ Listing(d) = {}
      <3>1. Listing(d)' = {}
        BY <1>7, <2>1 DEF getAllConversation, Listing, On
      <3>2. shown'[d] = startListinigForConversation(cache'[d], shown[d])
        BY <1>0, <1>7, <2>1 DEF getAllConversation
      <3> QED
        BY <3>1, <3>2 DEF RowsOf, startListinigForConversation
    <2>2. CASE e = d /\ Listing(d) # {}
      <3>1. Listing(d)' = Listing(d) /\ shown'[d] = shown[d]
        BY <1>0, <1>7, <2>2 DEF getAllConversation, Listing, On
      <3>2. \A t \in Listing(d) : Shadows(t, d)' = Shadows(t, d) /\ userNode(t)' = userNode(t)
        BY <1>7, <3>1 DEF getAllConversation, Shadows, userNode
      <3> QED
        BY <1>00, <2>2, <3>1, <3>2 DEF RowsOf
    <2>3. CASE e # d
      BY <1>0, <1>00, <1>7, <2>3, RowsKept DEF getAllConversation, Listing, On
    <2> QED
      BY <2>1, <2>2, <2>3
  <1>8. ASSUME NEW e \in Devices, restoreState(e) \/ onDisconnect(e) \/ Restart(e)
        PROVE  RowsOf(d)'
    BY <1>00, <1>8, RowsKept DEF restoreState, onDisconnect, Restart
  <1>9. ASSUME NEW e \in Devices, Crash(e) PROVE RowsOf(d)'
    <2>1. CASE e = d
      <3>1. Listing(d)' = {}
        BY <1>0, <1>9, <2>1 DEF Crash, Listing, Outstanding, On
      <3>2. cache'[d] = {}
        BY <1>0, <1>9, <2>1 DEF Crash
      <3> QED
        BY <3>1, <3>2 DEF RowsOf
    <2>2. CASE e # d
      <3>1. /\ shown'[d] = shown[d] /\ cache'[d] = cache[d]
            /\ base' = base /\ putNumber' = putNumber
            /\ \A t \in On(d) : pc'[t] = pc[t]
        BY <1>0, <1>9, <2>2 DEF Crash, Outstanding, On
      <3> QED
        BY <1>00, <3>1, RowsKept
    <2> QED
      BY <2>1, <2>2
  <1>10. CASE Tick \/ UNCHANGED vars
    BY <1>00, <1>10, RowsKept DEF Tick, vars
  <1> QED
    BY <1>1, <1>2, <1>3, <1>4, <1>5, <1>6, <1>7, <1>8, <1>9, <1>10, <1>11 DEF Next, Answer

(* The rows follow the listener, through acknowledgements and refusals.    *)
THEOREM RowsAlwaysFollow == Spec => []RowsFollow
  <1>1. Init => RowsFollow
    BY ConstantsAssumption DEF Init, RowsFollow, Listing, On
  <1> QED
    BY <1>1, RowsStep, TypeCorrect, PTL DEF Spec
-----------------------------------------------------------------------------
(* The rows in the end.                                                    *)
StoredList(d) == node[AccountOf[d]].conversations
Connecting(d) == link[d] = "disconnected"
Behind(d) == Online(d) /\ cache[d] # StoredList(d)

(* The weak fairness of the two steps of a device that its rows need, with *)
(* the guard of each in the place of ENABLED.                              *)
Reconnects(d) == []<>~Connecting(d) \/ []<><<restoreState(d)>>_vars
Listens(d) == []<>~Behind(d) \/ []<><<getAllConversation(d)>>_vars

(* Things are quiet: the stored list stays, the device neither dies nor    *)
(* loses its connection, and none of its writes of the list is pending.    *)
Undisturbed(d) == StoredList(d)' = StoredList(d) /\ ~onDisconnect(d) /\ ~Crash(d)
GetsQuiet(d) == <>[][Undisturbed(d)]_vars /\ <>[](Listing(d) = {})

Current(d) == cache[d] = StoredList(d)
RowsConvergeOn(d) == <>[](\/ link[d] = "dead"
                          \/ node[AccountOf[d]].conversations \in {{}, shown[d]})

(* A connection is made and kept.                                          *)
LEMMA LinkStep ==
    ASSUME TypeOK, [Next]_vars, NEW d \in Devices, Undisturbed(d)
    PROVE  /\ ~Running(d) => ~Running(d)' \/ Connecting(d)'
           /\ Connecting(d) => Connecting(d)' \/ Online(d)'
           /\ Online(d) => Online(d)'
           /\ restoreState(d) => Online(d)'
  <1> USE DEF TypeOK, Running, Connecting, Online, serverVars, sendVars, deviceVars, envVars,
              historyVars
  <1>1. ASSUME NEW s \in Sends, didPressSendButton(s) \/ Serve(s) \/ Answer(s)
        PROVE  link' = link
    BY <1>1 DEF didPressSendButton, Serve, ServerApplies, ServerRejects, Answer, UserNotFound,
       createNewConversation, finishCreateConversation, MessageSent, MessageFailed
  <1>2. ASSUME NEW e \in Devices, AnswerRead(e) \/ getAllConversation(e)
        PROVE  link' = link
    BY <1>2 DEF AnswerRead, ReadAnswered, ReadDenied, getAllConversation
  <1>3. ASSUME NEW e \in Devices, restoreState(e) \/ onDisconnect(e) \/ Crash(e) \/ Restart(e)
        PROVE  /\ e # d => link'[d] = link[d]
               /\ e = d => \/ link[d] = "dead" /\ link'[d] = "disconnected"
                           \/ link[d] = "disconnected" /\ link'[d] = "connected"
    BY <1>3 DEF restoreState, onDisconnect, Crash, Restart, Undisturbed
  <1>4. restoreState(d) => link'[d] = "connected"
    BY DEF restoreState
  <1>5. CASE link' = link
    BY <1>4, <1>5
  <1>6. CASE Tick \/ UNCHANGED vars
    BY <1>5, <1>6 DEF Tick, vars
  <1>7. ASSUME NEW s \in Sends, TakeLate(s) PROVE link' = link
    BY <1>7, LateKeeps
  <1> QED
    BY <1>1, <1>2, <1>3, <1>4, <1>5, <1>6, <1>7 DEF Next

(* A list that is the stored one stays so, and the listener makes it so.   *)
LEMMA CurrentStep ==
    ASSUME TypeOK, [Next]_vars, NEW d \in Devices, Undisturbed(d)
    PROVE  /\ Current(d) => Current(d)'
           /\ getAllConversation(d) => Current(d)'
  <1> USE DEF TypeOK, Current, StoredList, serverVars, sendVars, deviceVars, envVars,
              historyVars
  <1>0. StoredList(d)' = StoredList(d)
    BY DEF Undisturbed
  <1>1. ASSUME NEW s \in Sends, \/ didPressSendButton(s) \/ Serve(s) \/ UserNotFound(s)
                                \/ createNewConversation(s) \/ MessageSent(s)
                                \/ MessageFailed(s)
        PROVE  cache' = cache
    BY <1>1 DEF didPressSendButton, Serve, ServerApplies, ServerRejects, UserNotFound,
       createNewConversation, MessageSent, MessageFailed
  <1>2. ASSUME NEW s \in Sends, finishCreateConversation(s)
        PROVE  cache'[d] \in {cache[d], StoredList(d)}
    BY <1>2 DEF finishCreateConversation, User
  <1>3. ASSUME NEW e \in Devices, getAllConversation(e)
        PROVE  cache'[d] = IF e = d THEN StoredList(d) ELSE cache[d]
    BY <1>3 DEF getAllConversation
  <1>4. ASSUME NEW e \in Devices, \/ AnswerRead(e) \/ restoreState(e) \/ onDisconnect(e)
                                  \/ Restart(e)
        PROVE  cache' = cache
    BY <1>4 DEF AnswerRead, ReadAnswered, ReadDenied, restoreState, onDisconnect, Restart
  <1>5. ASSUME NEW e \in Devices, Crash(e) PROVE cache'[d] = cache[d]
    BY <1>5 DEF Crash, Undisturbed
  <1>6. ASSUME Tick \/ UNCHANGED vars PROVE cache' = cache
    BY <1>6 DEF Tick, vars
  <1>7. getAllConversation(d) => cache'[d] = StoredList(d)
    BY <1>3
  <1>70. ASSUME NEW s \in Sends, TakeLate(s) PROVE cache' = cache
    BY <1>70, LateKeeps
  <1>8. cache'[d] \in {cache[d], StoredList(d)}
    BY <1>1, <1>2, <1>3, <1>4, <1>5, <1>6, <1>70 DEF Next, Answer
  <1> QED
    BY <1>0, <1>7, <1>8

(* Once things are quiet the rows are the stored list, if it is not empty. *)
THEOREM RowsConvergeOnceQuiet ==
    Spec /\ (\A d \in Devices : Reconnects(d) /\ Listens(d) /\ GetsQuiet(d)) => RowsConverge
  <1> SUFFICES ASSUME NEW d \in Devices
               PROVE  Spec /\ (\A e \in Devices : Reconnects(e) /\ Listens(e) /\ GetsQuiet(e))
                        => RowsConvergeOn(d)
    BY DEF RowsConverge, RowsConvergeOn
  <1>1. (\A e \in Devices : Reconnects(e) /\ Listens(e) /\ GetsQuiet(e))
          => Reconnects(d) /\ Listens(d) /\ GetsQuiet(d)
    OBVIOUS
  <1>2. TypeOK /\ [Next]_vars /\ Undisturbed(d)
          => /\ ~Running(d) => ~Running(d)' \/ Connecting(d)'
             /\ Connecting(d) => Connecting(d)' \/ Online(d)'
             /\ Online(d) => Online(d)'
             /\ restoreState(d) => Online(d)'
    BY LinkStep
  <1>3. TypeOK /\ [Next]_vars /\ Undisturbed(d)
          => /\ Current(d) => Current(d)'
             /\ getAllConversation(d) => Current(d)'
    BY CurrentStep
  <1>4. UNCHANGED vars => /\ Running(d)' <=> Running(d)
                          /\ Connecting(d)' <=> Connecting(d)
                          /\ Online(d)' <=> Online(d)
                          /\ Current(d)' <=> Current(d)
    BY DEF vars, serverVars, deviceVars, Running, Connecting, Online, Current, StoredList
  <1>5. TypeOK => Online(d) \/ Connecting(d) \/ ~Running(d)
    BY DEF TypeOK, Online, Connecting, Running
  <1>6. Online(d) => ~Connecting(d) /\ Running(d)
    BY DEF Online, Connecting, Running
  <1>7. Online(d) /\ ~Behind(d) => Current(d)
    BY DEF Behind, Current
  <1>8. RowsFollow /\ Listing(d) = {} /\ Current(d)
          => node[AccountOf[d]].conversations \in {{}, shown[d]}
    BY DEF RowsFollow, Current, StoredList
  <1>9. ~Running(d) => link[d] = "dead"
    BY DEF Running
  <1>10. Spec /\ Reconnects(d) /\ GetsQuiet(d) => <>[]~Running(d) \/ <>[]Online(d)
    BY <1>2, <1>4, <1>5, <1>6, TypeCorrect, PTL DEF Spec, Reconnects, GetsQuiet
  <1>11. Spec /\ Listens(d) /\ GetsQuiet(d) /\ <>[]Online(d) => <>[]Current(d)
    BY <1>3, <1>4, <1>7, TypeCorrect, PTL DEF Spec, Listens, GetsQuiet
  <1> QED
    BY <1>1, <1>8, <1>9, <1>10, <1>11, RowsAlwaysFollow, PTL DEF RowsConvergeOn, GetsQuiet
-----------------------------------------------------------------------------
(* Sends in the end.  A chain goes through its stages forward only.        *)
Working(s) == pc[s] \in {"reading", "read", "listing", "storing"}
Writing(s) == pc[s] \in {"listing", "storing"}
Ended == {"sent", "failed", "denied", "lost"}
After(stage) == Ended \cup (IF stage = "reading" THEN {"read"}
                            ELSE IF stage = "read" THEN {"listing"}
                            ELSE IF stage = "listing" THEN {"storing"} ELSE {})

\* The writes of the device that the server takes, and answers, before that of s.
Ahead(s) == {t \in Outstanding(DeviceOf[s]) : putNumber[t] < putNumber[s]}
Oldest(s) == Writing(s) /\ Ahead(s) = {}

(* A chain under way stays where it is or goes on; its write keeps its     *)
(* number, and a new write gets the number the counter of its device has.  *)
LEMMA SendStep ==
    ASSUME TypeOK, [Next]_vars, NEW s \in Sends
    PROVE  /\ Working(s) => pc'[s] \in {pc[s]} \cup After(pc[s])
           /\ Writing(s)' => putNumber'[s] = IF pc'[s] = pc[s] THEN putNumber[s]
                                             ELSE putCounter[DeviceOf[s]]
  <1> DEFINE Goal == /\ Working(s) => pc'[s] \in {pc[s]} \cup After(pc[s])
                     /\ Writing(s)' => putNumber'[s] = IF pc'[s] = pc[s] THEN putNumber[s]
                                                       ELSE putCounter[DeviceOf[s]]
  <1>0. pc \in [Sends -> Stages] /\ putNumber \in [Sends -> Nat]
    BY DEF TypeOK
  <1> USE DEF Working, Writing, After, Ended
  <1>1. ASSUME NEW r \in Sends, didPressSendButton(r) PROVE Goal
    <2>1. PICK stage \in {"read", "reading"} : pc' = [pc EXCEPT ![r] = stage]
      BY <1>1 DEF didPressSendButton, observeSingleEvent
    <2>2. pc[r] = "idle" /\ putNumber' = putNumber
      BY <1>1 DEF didPressSendButton
    <2> QED
      BY <1>0, <2>1, <2>2
  <1>2. ASSUME NEW r \in Sends, Serve(r) PROVE Goal
    BY <1>2 DEF Serve, ServerApplies, ServerRejects
  <1>3. ASSUME NEW r \in Sends, UserNotFound(r) PROVE Goal
    BY <1>0, <1>3 DEF UserNotFound
  <1>4. ASSUME NEW r \in Sends, createNewConversation(r) PROVE Goal
    BY <1>0, <1>4 DEF createNewConversation, put, Awaiting
  <1>5. ASSUME NEW r \in Sends, finishCreateConversation(r) PROVE Goal
    BY <1>0, <1>5 DEF finishCreateConversation, put
  <1>6. ASSUME NEW r \in Sends, MessageSent(r) PROVE Goal
    BY <1>0, <1>6 DEF MessageSent
  <1>7. ASSUME NEW r \in Sends, MessageFailed(r) PROVE Goal
    <2>1. pc[r] \in {"listing", "storing"}
      BY <1>7 DEF MessageFailed, OldestAnswered, Outstanding
    <2> QED
      BY <1>0, <1>7, <2>1 DEF MessageFailed
  <1>8. ASSUME NEW e \in Devices, AnswerRead(e) PROVE Goal
    BY <1>0, <1>8 DEF AnswerRead, ReadAnswered, ReadDenied, Awaiting
  <1>9. ASSUME NEW e \in Devices, Crash(e) PROVE Goal
    BY <1>0, <1>9 DEF Crash
  <1>10. ASSUME NEW e \in Devices, \/ getAllConversation(e) \/ restoreState(e)
                                   \/ onDisconnect(e) \/ Restart(e)
         PROVE  Goal
    BY <1>10 DEF getAllConversation, restoreState, onDisconnect, Restart, sendVars
  <1>11. ASSUME Tick \/ UNCHANGED vars PROVE Goal
    BY <1>11 DEF Tick, vars, sendVars
  <1>13. ASSUME NEW r \in Sends, TakeLate(r) PROVE Goal
    BY <1>13, LateKeeps
  <1> HIDE DEF Goal
  <1>12. Goal
    BY <1>1, <1>2, <1>3, <1>4, <1>5, <1>6, <1>7, <1>8, <1>9, <1>10, <1>11, <1>13
    DEF Next, Answer
  <1> QED
    BY <1>12 DEF Goal

(* While a write waits, nobody gets ahead of it, and one that was leaves   *)
(* for good once its stage is over: its next write is behind.              *)
LEMMA AheadStep ==
    ASSUME TypeOK, [Next]_vars, NEW s \in Sends, Writing(s), pc'[s] = pc[s]
    PROVE  \A t \in Sends : t \in Ahead(s)' => t \in Ahead(s) /\ pc'[t] = pc[t]
  <1> SUFFICES ASSUME NEW t \in Sends, t \in Ahead(s)'
               PROVE  t \in Ahead(s) /\ pc'[t] = pc[t]
    OBVIOUS
  <1>1. putNumber'[s] = putNumber[s]
    BY SendStep DEF Writing
  <1>2. /\ DeviceOf[t] = DeviceOf[s] /\ Writing(t)'
        /\ putNumber'[t] < putNumber'[s]
    BY DEF Ahead, Outstanding, On, Writing
  <1>3. putNumber'[t] = IF pc'[t] = pc[t] THEN putNumber[t] ELSE putCounter[DeviceOf[t]]
    BY <1>2, SendStep
  <1>4. putNumber[s] < putCounter[DeviceOf[s]]
    BY Numbered DEF Writing
  <1>5. putNumber[s] \in Nat /\ putCounter[DeviceOf[s]] \in Nat
    BY UserType DEF TypeOK
  <1>6. pc'[t] = pc[t]
    BY <1>1, <1>2, <1>3, <1>4, <1>5
  <1> QED
    BY <1>1, <1>2, <1>3, <1>6 DEF Ahead, Outstanding, On, Writing

(* Nothing overtakes a write: as long as it waits for its answer, those    *)
(* ahead of it in the queue of its device only become fewer.               *)
NothingOvertakes ==
    \A s \in Sends : Writing(s) /\ pc'[s] = pc[s] => Ahead(s)' \subseteq Ahead(s)

(* A write waits only for those put before it: the client numbers its puts *)
(* upwards and resends them in the order of their numbers.                 *)
THEOREM WritesKeepTheirPlace == Spec => [][NothingOvertakes]_vars
  <1>1. TypeOK /\ [Next]_vars => NothingOvertakes
    BY AheadStep DEF NothingOvertakes, Ahead, Outstanding, On
  <1> QED
    BY <1>1, TypeCorrect, PTL DEF Spec

\* A chain under way is that of an app that runs.
WorkingRuns == \A s \in Sends : Working(s) => Running(DeviceOf[s])

LEMMA WorkingStep == TypeOK /\ WorkingRuns /\ [Next]_vars => WorkingRuns'
  <1> SUFFICES ASSUME TypeOK, WorkingRuns, [Next]_vars, NEW s \in Sends, Working(s)'
               PROVE  link'[DeviceOf[s]] # "dead"
    BY DEF WorkingRuns, Running
  <1> DEFINE d == DeviceOf[s]
  <1>0. /\ pc \in [Sends -> Stages] /\ d \in Devices
        /\ link \in [Devices -> {"connected", "disconnected", "dead"}]
        /\ Working(s) => link[d] # "dead"
    BY UserType DEF TypeOK, WorkingRuns, Running
  <1> USE DEF Working
  <1>1. ASSUME NEW r \in Sends, didPressSendButton(r) PROVE link'[d] # "dead"
    <2>1. /\ link' = link /\ link[DeviceOf[r]] # "dead"
          /\ \A t \in Sends \ {r} : pc'[t] = pc[t]
      BY <1>0, <1>1 DEF didPressSendButton, observeSingleEvent, deviceVars, Running
    <2> QED
      BY <1>0, <2>1
  <1>2. ASSUME NEW r \in Sends, \/ Serve(r) \/ UserNotFound(r) \/ finishCreateConversation(r)
                                \/ MessageSent(r) \/ MessageFailed(r)
        PROVE  link'[d] # "dead"
    <2>1. link' = link /\ \A t \in Sends \ {r} : pc'[t] = pc[t]
      BY <1>0, <1>2
      DEF Serve, ServerApplies, ServerRejects, UserNotFound, finishCreateConversation,
          MessageSent, MessageFailed, deviceVars
    <2>2. \/ pc'[r] = pc[r] \/ pc[r] \in {"read", "listing", "storing"}
      BY <1>0, <1>2
      DEF Serve, ServerApplies, ServerRejects, UserNotFound, finishCreateConversation,
          MessageSent, MessageFailed, OldestAnswered, Outstanding
    <2> QED
      BY <1>0, <2>1, <2>2
  <1>3. ASSUME NEW r \in Sends, createNewConversation(r) PROVE link'[d] # "dead"
    <2>1. link' = link /\ (Working(s)' => Working(s))
      BY <1>0, <1>3 DEF createNewConversation, Awaiting
    <2> QED
      BY <1>0, <2>1
  <1>4. ASSUME NEW e \in Devices, AnswerRead(e) \/ getAllConversation(e)
        PROVE  link'[d] # "dead"
    <2>1. link' = link /\ (Working(s)' => Working(s))
      BY <1>0, <1>4
      DEF AnswerRead, ReadAnswered, ReadDenied, getAllConversation, Awaiting, deviceVars,
          sendVars
    <2> QED
      BY <1>0, <2>1
  <1>5. ASSUME NEW e \in Devices, restoreState(e) \/ onDisconnect(e) \/ Restart(e)
        PROVE  link'[d] # "dead"
    BY <1>0, <1>5 DEF restoreState, onDisconnect, Restart, sendVars
  <1>6. ASSUME NEW e \in Devices, Crash(e) PROVE link'[d] # "dead"
    <2>1. /\ link' = [link EXCEPT ![e] = "dead"]
          /\ d = e => ~Working(s)'
          /\ Working(s)' => Working(s)
      BY <1>0, <1>6 DEF Crash, Outstanding, On, Active
    <2> QED
      BY <1>0, <2>1
  <1>7. ASSUME Tick \/ UNCHANGED vars PROVE link'[d] # "dead"
    BY <1>0, <1>7 DEF Tick, vars, sendVars, deviceVars
  <1>9. ASSUME NEW r \in Sends, TakeLate(r) PROVE link'[d] # "dead"
    BY <1>0, <1>9, LateKeeps
  <1> HIDE DEF d, Working
  <1>8. link'[d] # "dead"
    BY <1>1, <1>2, <1>3, <1>4, <1>5, <1>6, <1>7, <1>9 DEF Next, Answer
  <1> QED
    BY <1>8 DEF d

LEMMA WorkingHolds == Spec => []WorkingRuns
  <1>1. Init => WorkingRuns
    BY DEF Init, WorkingRuns, Working
  <1> QED
    BY <1>1, WorkingStep, TypeCorrect, PTL DEF Spec

(* A connection stays until it drops or the app dies.                      *)
LEMMA ConnectionStays ==
    ASSUME TypeOK, [Next]_vars, NEW d \in Devices, ~onDisconnect(d), Online(d)
    PROVE  Online(d)' \/ ~Running(d)'
  <1> USE DEF TypeOK, Running, Online
  <1>1. ASSUME NEW s \in Sends, didPressSendButton(s) \/ Serve(s) \/ Answer(s)
        PROVE  link' = link
    BY <1>1 DEF didPressSendButton, Serve, ServerApplies, ServerRejects, Answer, UserNotFound,
       createNewConversation, finishCreateConversation, MessageSent, MessageFailed, deviceVars
  <1>2. ASSUME NEW e \in Devices, AnswerRead(e) \/ getAllConversation(e)
        PROVE  link' = link
    BY <1>2 DEF AnswerRead, ReadAnswered, ReadDenied, getAllConversation, deviceVars
  <1>3. ASSUME NEW e \in Devices, restoreState(e) \/ onDisconnect(e) \/ Crash(e) \/ Restart(e)
        PROVE  link'[d] \in {"connected", "dead"}
    BY <1>3 DEF restoreState, onDisconnect, Crash, Restart
  <1>4. ASSUME Tick \/ UNCHANGED vars PROVE link' = link
    BY <1>4 DEF Tick, vars, deviceVars
  <1>5. ASSUME NEW s \in Sends, TakeLate(s) PROVE link' = link
    BY <1>5, LateKeeps
  <1> QED
    BY <1>1, <1>2, <1>3, <1>4, <1>5 DEF Next

(* What the server decided about a write stays decided on a connection     *)
(* that is kept.                                                           *)
LEMMA VerdictStep ==
    ASSUME TypeOK, [Next]_vars, NEW s \in Sends, ~onDisconnect(DeviceOf[s]),
           Writing(s), pc'[s] = pc[s], wire[s] # "pending"
    PROVE  wire'[s] # "pending"
  <1>0. wire \in [Sends -> WireStates] /\ pc \in [Sends -> Stages]
    BY DEF TypeOK
  <1> USE DEF Writing
  <1>1. ASSUME NEW r \in Sends, Serve(r) PROVE wire'[s] # "pending"
    BY <1>0, <1>1 DEF Serve, ServerApplies, ServerRejects
  <1>2. ASSUME NEW r \in Sends, createNewConversation(r) PROVE wire'[s] # "pending"
    BY <1>0, <1>2 DEF createNewConversation, put
  <1>3. ASSUME NEW r \in Sends, finishCreateConversation(r) PROVE wire'[s] # "pending"
    BY <1>0, <1>3 DEF finishCreateConversation, put
  <1>4. ASSUME NEW r \in Sends, \/ didPressSendButton(r) \/ UserNotFound(r)
                                \/ MessageSent(r) \/ MessageFailed(r)
        PROVE  wire'[s] # "pending"
    BY <1>4 DEF didPressSendButton, UserNotFound, MessageSent, MessageFailed
  <1>5. ASSUME NEW e \in Devices, onDisconnect(e) PROVE wire'[s] # "pending"
    <2>1. PICK acked \in putsToAck(e) :
             wire' = [r \in Sends |-> IF r \in Outstanding(e) \ acked THEN "pending"
                                     ELSE wire[r]]
      BY <1>5, Zenon DEF onDisconnect
    <2>2. s \notin Outstanding(e)
      BY <1>5 DEF Outstanding, On
    <2> QED
      BY <2>1, <2>2
  <1>6. ASSUME NEW e \in Devices, \/ AnswerRead(e) \/ getAllConversation(e)
                                  \/ restoreState(e) \/ Crash(e) \/ Restart(e)
        PROVE  wire'[s] # "pending"
    BY <1>6 DEF AnswerRead, ReadAnswered, ReadDenied, getAllConversation, restoreState,
       Crash, Restart, sendVars
  <1>7. ASSUME Tick \/ UNCHANGED vars PROVE wire'[s] # "pending"
    BY <1>7 DEF Tick, vars, sendVars
  <1>8. ASSUME NEW r \in Sends, TakeLate(r) PROVE wire'[s] # "pending"
    BY <1>8, LateKeeps
  <1> QED
    BY <1>1, <1>2, <1>3, <1>4, <1>5, <1>6, <1>7, <1>8 DEF Next, Answer

(* The weak fairness of the other steps a send needs, again with the guard *)
(* of each in the place of ENABLED, and a connection that is not lost for  *)
(* ever again.                                                             *)
Answerable(s) ==
    pc[s] = "read" \/ (Oldest(s) /\ Online(DeviceOf[s]) /\ wire[s] # "pending")
ReadWaits(d) == Online(d) /\ Awaiting(d) # {}
Serves(s) == []<>~NextOnWire(s) \/ []<><<Serve(s)>>_vars
Answers(s) == []<>~Answerable(s) \/ []<><<Answer(s)>>_vars
AnswersReads(d) == []<>~ReadWaits(d) \/ []<><<AnswerRead(d)>>_vars
KeptInTheEnd(d) == <>[][~onDisconnect(d)]_vars

Served(s) == /\ KeptInTheEnd(DeviceOf[s]) /\ Reconnects(DeviceOf[s])
             /\ AnswersReads(DeviceOf[s]) /\ Serves(s) /\ Answers(s)
Undisturbedly == /\ \A d \in Devices : KeptInTheEnd(d) /\ Reconnects(d) /\ AnswersReads(d)
                 /\ \A s \in Sends : Serves(s) /\ Answers(s)

StageEnds(s, stage) == pc[s] = stage ~> pc[s] \in After(stage)
StageConnects(s, stage) ==
    pc[s] = stage ~> [](pc[s] = stage /\ Online(DeviceOf[s])) \/ pc[s] \in After(stage)
FrontEnds(s, stage) == pc[s] = stage /\ Oldest(s) ~> pc[s] \in After(stage)

WorkStages == {"reading", "read", "listing", "storing"}

LEMMA AfterIsElsewhere ==
    ASSUME NEW s, NEW stage \in WorkStages
    PROVE  pc[s] \in After(stage) => ~(pc[s] = stage)
  BY DEF WorkStages, After, Ended

(* A stage gets the connection, and keeps it, or it ends.                  *)
LEMMA Connects ==
    ASSUME NEW s \in Sends, NEW stage \in WorkStages
    PROVE  Spec /\ Served(s) => StageConnects(s, stage)
  <1> DEFINE d == DeviceOf[s]
  <1>0. d \in Devices
    BY UserType
  <1>1. TypeOK /\ [Next]_vars /\ pc[s] = stage => (pc[s] = stage)' \/ (pc[s] \in After(stage))'
    BY SendStep DEF Working, WorkStages
  <1>2. WorkingRuns /\ pc[s] = stage => Running(d)
    BY DEF WorkingRuns, Working, WorkStages
  <1>3. TypeOK /\ [Next]_vars /\ ~onDisconnect(d) /\ Online(d) => Online(d)' \/ ~Running(d)'
    BY <1>0, ConnectionStays
  <1>4. TypeOK => Online(d) \/ Connecting(d) \/ ~Running(d)
    BY <1>0 DEF TypeOK, Online, Connecting, Running
  <1>5. TypeOK /\ <<restoreState(d)>>_vars => Online(d)'
    BY <1>0 DEF TypeOK, restoreState, Online
  <1>6. UNCHANGED vars => (Online(d)' <=> Online(d)) /\ ((pc[s] = stage)' <=> (pc[s] = stage))
    BY DEF vars, deviceVars, sendVars, Online
  <1> QED
    BY <1>1, <1>2, <1>3, <1>4, <1>5, <1>6, TypeCorrect, WorkingHolds, PTL
    DEF StageConnects, Served, KeptInTheEnd, Reconnects, Spec

(* A read is answered or refused, and its callback runs.                   *)
LEMMA ReadEnds ==
    ASSUME NEW s \in Sends
    PROVE  Spec /\ Served(s) => StageEnds(s, "reading") /\ StageEnds(s, "read")
  <1> DEFINE d == DeviceOf[s]
  <1>1. TypeOK /\ [Next]_vars /\ pc[s] = "reading"
          => (pc[s] = "reading")' \/ (pc[s] \in After("reading"))'
    BY SendStep DEF Working
  <1>2. TypeOK /\ [Next]_vars /\ pc[s] = "read"
          => (pc[s] = "read")' \/ (pc[s] \in After("read"))'
    BY SendStep DEF Working
  <1>3. pc[s] = "reading" /\ Online(d) => ReadWaits(d)
    BY DEF ReadWaits, Awaiting, On
  <1>4. TypeOK /\ <<AnswerRead(d)>>_vars /\ pc[s] = "reading" => (pc[s] \in After("reading"))'
    BY DEF TypeOK, AnswerRead, ReadAnswered, ReadDenied, Awaiting, On, After, Ended
  <1>5. pc[s] = "read" => Answerable(s)
    BY DEF Answerable
  <1>6. TypeOK /\ <<Answer(s)>>_vars /\ pc[s] = "read" => (pc[s] \in After("read"))'
    BY DEF TypeOK, Answer, UserNotFound, createNewConversation, finishCreateConversation,
           MessageSent, MessageFailed, OldestAnswered, Outstanding, After, Ended
  <1>7. pc[s] \in After("reading") => ~(pc[s] = "reading")
    BY DEF After, Ended
  <1>8. Spec /\ Served(s) => StageConnects(s, "reading")
    BY Connects DEF WorkStages
  <1> QED
    BY <1>1, <1>2, <1>3, <1>4, <1>5, <1>6, <1>7, <1>8, TypeCorrect, PTL
    DEF StageEnds, StageConnects, Served, AnswersReads, Answers, Spec

(* The oldest write of a device is decided about and answered.             *)
LEMMA OldestEnds ==
    ASSUME NEW s \in Sends, NEW stage \in {"listing", "storing"}
    PROVE  Spec /\ Served(s) => FrontEnds(s, stage)
  <1> DEFINE d == DeviceOf[s]
             InFront == pc[s] = stage /\ Oldest(s)
             Decided == wire[s] # "pending"
  <1>1. TypeOK /\ [Next]_vars /\ InFront => InFront' \/ (pc[s] \in After(stage))'
    <2> SUFFICES ASSUME TypeOK, [Next]_vars, InFront
                 PROVE  InFront' \/ pc'[s] \in After(stage)
      OBVIOUS
    <2>1. CASE pc'[s] = pc[s]
      <3>1. Ahead(s)' = {}
        BY <2>1, AheadStep DEF Oldest, Ahead, Outstanding, On
      <3> QED
        BY <2>1, <3>1 DEF Oldest, Writing
    <2>2. CASE pc'[s] # pc[s]
      BY <2>2, SendStep DEF Working
    <2> QED
      BY <2>1, <2>2
  <1>2. TypeOK /\ [Next]_vars /\ ~onDisconnect(d) /\ InFront /\ Decided
          => Decided' \/ (pc[s] \in After(stage))'
    <2> SUFFICES ASSUME TypeOK, [Next]_vars, ~onDisconnect(d), InFront, Decided
                 PROVE  wire'[s] # "pending" \/ pc'[s] \in After(stage)
      OBVIOUS
    <2>1. CASE pc'[s] = pc[s]
      BY <2>1, VerdictStep DEF Oldest
    <2>2. CASE pc'[s] # pc[s]
      BY <2>2, SendStep DEF Working
    <2> QED
      BY <2>1, <2>2
  <1>3. InFront /\ Online(d) /\ ~Decided => NextOnWire(s)
    BY DEF Oldest, NextOnWire, Ahead, Outstanding, On
  <1>4. TypeOK /\ <<Serve(s)>>_vars => Decided'
    BY DEF TypeOK, Serve, ServerApplies, ServerRejects
  <1>5. InFront /\ Online(d) /\ Decided => Answerable(s)
    BY DEF Answerable
  <1>6. TypeOK /\ <<Answer(s)>>_vars /\ InFront => (pc[s] \in After(stage))'
    BY DEF TypeOK, Answer, UserNotFound, createNewConversation, finishCreateConversation,
           MessageSent, MessageFailed, After, Ended
  <1>7. pc[s] \in After(stage) => ~(pc[s] = stage)
    BY AfterIsElsewhere DEF WorkStages
  <1>8. Spec /\ Served(s) => StageConnects(s, stage)
    BY Connects DEF WorkStages
  <1>9. UNCHANGED vars => /\ InFront' <=> InFront
                          /\ Decided' <=> Decided
    BY DEF vars, sendVars, Oldest, Writing, Ahead, Outstanding, On
  <1>10. InFront => pc[s] = stage
    OBVIOUS
  <1> HIDE DEF InFront, Decided
  <1>11. Spec /\ Served(s) => (InFront ~> pc[s] \in After(stage))
    BY <1>1, <1>2, <1>3, <1>4, <1>5, <1>6, <1>7, <1>8, <1>9, <1>10, TypeCorrect, PTL
    DEF StageConnects, Served, KeptInTheEnd, Serves, Answers, Spec
  <1> QED
    BY <1>11 DEF FrontEnds, InFront

(* The oldest write of a device is answered.                               *)
OldestIsAnswered ==
    \A s \in Sends : FrontEnds(s, "listing") /\ FrontEnds(s, "storing")

LEMMA EachIsServed ==
    ASSUME NEW s \in Sends PROVE Undisturbedly => Served(s)
  BY UserType DEF Undisturbedly, Served

(* However many writes wait on a device, the one in front is answered, or  *)
(* the app dies: as long as connections are not lost for ever again and    *)
(* the server and the callbacks go on.                                     *)
THEOREM OldestWritesAreAnswered == Spec /\ Undisturbedly => OldestIsAnswered
  BY OldestEnds, EachIsServed, Zenon DEF OldestIsAnswered

\* No device presses Send on a new chat more than twice.
AtMostTwoSendsOnADevice ==
    \A s \in Sends : \E t \in Sends :
        \A r \in Sends : DeviceOf[r] = DeviceOf[s] => r \in {s, t}

(* The write behind the front one gets to the front, or is already over.   *)
LEMMA SecondEnds ==
    ASSUME NEW s \in Sends, NEW t \in Sends,
           \A r \in Sends : DeviceOf[r] = DeviceOf[s] => r \in {s, t},
           NEW stage \in {"listing", "storing"}
    PROVE  Spec /\ Served(s) /\ Served(t) => StageEnds(s, stage)
  <1> DEFINE InFront == pc[s] = stage /\ Oldest(s)
             Second == pc[s] = stage /\ t \in Ahead(s)
             Lists == Second /\ pc[t] = "listing"
             Stores == Second /\ pc[t] = "storing"
  <1>1. TypeOK => \A r \in Ahead(s) : r = t
    BY DEF TypeOK, Ahead, Outstanding, On
  <1>2. TypeOK /\ t \in Ahead(s) => Oldest(t)
    <2> SUFFICES ASSUME TypeOK, t \in Ahead(s), NEW r \in Ahead(t) PROVE FALSE
      BY DEF Oldest, Writing, Ahead, Outstanding, On
    <2>1. /\ putNumber[t] \in Nat /\ putNumber[s] \in Nat /\ r \in {s, t}
          /\ putNumber[t] < putNumber[s] /\ putNumber[r] < putNumber[t]
      BY DEF TypeOK, Ahead, Outstanding, On
    <2> QED
      BY <2>1
  <1>3. TypeOK /\ pc[s] = stage => InFront \/ Lists \/ Stores
    BY <1>1 DEF Oldest, Writing, Ahead, Outstanding
  <1>4. TypeOK /\ [Next]_vars /\ Second
          => \/ Second' /\ pc'[t] = pc[t]
             \/ InFront'
             \/ (pc[s] \in After(stage))'
    <2> SUFFICES ASSUME TypeOK, [Next]_vars, Second
                 PROVE  \/ Second' /\ pc'[t] = pc[t]
                        \/ InFront'
                        \/ pc'[s] \in After(stage)
      OBVIOUS
    <2>1. CASE pc'[s] = pc[s]
      <3>1. \A r \in Sends : r \in Ahead(s)' => r = t /\ pc'[t] = pc[t]
        BY <1>1, <2>1, AheadStep DEF Writing
      <3>2. Ahead(s)' \subseteq Sends
        BY DEF Ahead, Outstanding, On
      <3> QED
        BY <2>1, <3>1, <3>2 DEF Oldest, Writing
    <2>2. CASE pc'[s] # pc[s]
      BY <2>2, SendStep DEF Working
    <2> QED
      BY <2>1, <2>2
  <1>5. /\ TypeOK /\ [Next]_vars /\ Lists => Lists' \/ InFront' \/ (pc[s] \in After(stage))'
        /\ TypeOK /\ [Next]_vars /\ Stores => Stores' \/ InFront' \/ (pc[s] \in After(stage))'
    BY <1>4
  <1>6. /\ TypeOK /\ Lists => pc[t] = "listing" /\ Oldest(t)
        /\ TypeOK /\ Stores => pc[t] = "storing" /\ Oldest(t)
    BY <1>2
  <1>7. /\ pc[t] \in After("listing") => ~Lists
        /\ pc[t] \in After("storing") => ~Stores
    BY DEF After, Ended
  <1>8. Spec /\ Served(t) => FrontEnds(t, "listing") /\ FrontEnds(t, "storing")
    BY OldestEnds
  <1>9. Spec /\ Served(s) => (InFront ~> pc[s] \in After(stage))
    BY OldestEnds DEF FrontEnds
  <1> HIDE DEF InFront, Lists, Stores
  <1> QED
    BY <1>3, <1>5, <1>6, <1>7, <1>8, <1>9, TypeCorrect, PTL DEF StageEnds, FrontEnds, Spec

(* Every press of Send reaches an end on devices where Send is pressed on  *)
(* a new chat at most twice, each once or again while the first is under   *)
(* way, under the same assumptions.                                        *)
THEOREM TwoSendsEnd == Spec /\ Undisturbedly /\ AtMostTwoSendsOnADevice => SendEnds
  <1> SUFFICES ASSUME NEW s \in Sends, AtMostTwoSendsOnADevice
               PROVE  Spec /\ Undisturbedly
                        => (Active(s) ~> pc[s] \in {"sent", "failed", "denied", "lost"})
    BY DEF SendEnds
  <1>1. PICK t \in Sends : \A r \in Sends : DeviceOf[r] = DeviceOf[s] => r \in {s, t}
    BY DEF AtMostTwoSendsOnADevice
  <1>2. Undisturbedly => Served(s) /\ Served(t)
    BY EachIsServed
  <1>3. Spec /\ Served(s) => StageEnds(s, "reading") /\ StageEnds(s, "read")
    BY ReadEnds
  <1>4. Spec /\ Served(s) /\ Served(t) => StageEnds(s, "listing") /\ StageEnds(s, "storing")
    BY <1>1, SecondEnds
  <1>5. /\ pc[s] \in After("reading") => pc[s] = "read" \/ pc[s] \in Ended
        /\ pc[s] \in After("read") => pc[s] = "listing" \/ pc[s] \in Ended
        /\ pc[s] \in After("listing") => pc[s] = "storing" \/ pc[s] \in Ended
        /\ pc[s] \in After("storing") => pc[s] \in Ended
        /\ Active(s) => pc[s] = "reading" \/ pc[s] = "read" \/ pc[s] = "listing"
        /\ pc[s] \in Ended <=> pc[s] \in {"sent", "failed", "denied", "lost"}
    BY DEF After, Ended, Active
  <1> QED
    BY <1>2, <1>3, <1>4, <1>5, PTL DEF StageEnds
=============================================================================
