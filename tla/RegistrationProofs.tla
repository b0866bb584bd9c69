-------------------------- MODULE RegistrationProofs --------------------------
(* Proofs about Registration, for any forms, devices, presses and keys.     *)
EXTENDS Registration, TLAPS

LEMMA EmailType == SafeEmail \in [Emails -> Nodes]
  BY RegistrationAssumption

LEMMA TypeInit == Init => TypeOK
  BY RegistrationAssumption, SMTT(30) DEF Init, TypeOK, Stages, Requests

(* The death of an app changes the forms of its device only.               *)
LEMMA CrashKeeps ==
    ASSUME TypeOK, NEW d \in Devices, Crash(d), NEW f \in Forms
    PROVE  /\ pc'[f] \in {pc[f], "lost"}
           /\ device[f] = d => pc'[f] \in Ended \cup {"idle"} /\ wire'[f] = "none"
           /\ device[f] # d => /\ pc'[f] = pc[f] /\ late'[f] = late[f]
                               /\ wire'[f] = wire[f]
           /\ late'[f] \in {late[f], "none", pc[f]}
           /\ late'[f] \in Requests \cup {"none"}
           /\ late'[f] # "none" => pc'[f] = "lost"
  <1>1. /\ pc' = [g \in Forms |->
                    IF g \in On(d) /\ pc[g] \notin {"idle"} \cup Ended
                    THEN "lost" ELSE pc[g]]
        /\ late' = [g \in Forms |-> IF g \in On(d) THEN RequestUnderWay(g) ELSE late[g]]
        /\ wire' = [g \in Forms |-> IF g \in On(d) THEN "none" ELSE wire[g]]
    BY DEF Crash
  <1>2. /\ RequestUnderWay(f) \in {"none", pc[f]}
        /\ RequestUnderWay(f) \in Requests \cup {"none"}
        /\ RequestUnderWay(f) # "none" => pc[f] \notin {"idle"} \cup Ended
    BY DEF RequestUnderWay, Requests, TypeOK, Ended
  <1>3. f \in On(d) <=> device[f] = d
    BY DEF On
  <1> QED
    BY <1>1, <1>2, <1>3 DEF TypeOK, Ended

(* A late request is taken or dropped once, and no form is left to see it. *)
LEMMA LateKeeps ==
    ASSUME NEW f \in Forms, TakeLate(f)
    PROVE  /\ UNCHANGED <<formVars, screenVars, link, faults, historyVars>>
           /\ late' = [late EXCEPT ![f] = "none"]
           /\ late[f] # "none"
  BY DEF TakeLate, LateApplied, LateDropped, NextLate

(* Every variable of a registration stays in its set.                      *)
LEMMA TypeStep == TypeOK /\ [Next]_vars => TypeOK'
  <1> SUFFICES ASSUME TypeOK, [Next]_vars PROVE TypeOK'
    OBVIOUS
  <1> USE EmailType
  <1> USE DEF TypeOK, Stages, Ended, NodeOf, serverVars, databaseVars,
              formVars, addressVars, putVars, screenVars, historyVars
  <1>1. ASSUME NEW f \in Forms, registerBtnTapped(f) PROVE TypeOK'
    BY <1>1 DEF registerBtnTapped
  <1>2. ASSUME NEW f \in Forms, UserExistsAnswered(f) PROVE TypeOK'
    BY <1>2 DEF UserExistsAnswered, CheckAnswered, NodeValue, userExists
  <1>3. ASSUME NEW f \in Forms, createUser(f) PROVE TypeOK'
    BY <1>3 DEF createUser
  <1>4. ASSUME NEW f \in Forms, SignUpRefused(f) PROVE TypeOK'
    BY <1>4 DEF SignUpRefused
  <1>5. ASSUME NEW f \in Forms, signUp(f) PROVE TypeOK'
    <2>1. /\ check' \in [Forms -> {"none", "asked", "null", "dictionary", "alert"}]
          /\ address' \in [Forms -> Emails]
      BY <1>5 DEF signUp, CheckAnswered, userExists
    <2>2. /\ wire' = [wire EXCEPT ![f] = "pending"]
          /\ pc' = [pc EXCEPT ![f] = "insertingUser"]
          /\ ahead' \in [Forms -> SUBSET Forms]
          /\ pc[f] = "accepted"
      BY <1>5 DEF signUp, put, Outstanding, On
    <2>3. \A g \in Forms : wire'[g] # "none" <=> pc'[g] \in {"insertingUser", "addingUser"}
      BY <2>2
    <2>4. spinner' \in [Devices -> BOOLEAN]
      BY <1>5 DEF signUp
    <2> QED
      BY <1>5, <2>1, <2>2, <2>3, <2>4 DEF signUp
  <1>6. ASSUME NEW f \in Forms, ServerApplies(f) PROVE TypeOK'
    BY <1>6 DEF ServerApplies, NextOnWire, Store, userCollection
  <1>7. ASSUME NEW f \in Forms, ServerRejects(f) PROVE TypeOK'
    BY <1>7 DEF ServerRejects, NextOnWire
  <1>8. ASSUME NEW f \in Forms, insertUser(f) PROVE TypeOK'
    <2>1. /\ wire' = [wire EXCEPT ![f] = "none"]
          /\ ahead' \in [Forms -> SUBSET Forms]
      BY <1>8 DEF insertUser, Answered, PutDone
    <2>2. rivals' \in [Forms -> SUBSET Forms]
      BY <1>8 DEF insertUser, Rivals
    <2>3. /\ snapshot' \in [Forms -> SUBSET Forms]
          /\ \/ pc' = [pc EXCEPT ![f] = "usersRead"]
             \/ pc' = [pc EXCEPT ![f] = "readingUsers"]
      BY <1>8 DEF insertUser, observeSingleEvent, userCollection
    <2>4. pc[f] = "insertingUser"
      BY <1>8 DEF insertUser
    <2>5. /\ pc' \in [Forms -> Stages]
          /\ \A g \in Forms :
               /\ wire'[g] # "none" <=> pc'[g] \in {"insertingUser", "addingUser"}
               /\ late[g] # "none" => pc'[g] = "lost"
      <3>1. PICK stage \in {"usersRead", "readingUsers"} : pc' = [pc EXCEPT ![f] = stage]
        BY <2>3
      <3>2. \A g \in Forms : /\ pc'[g] = IF g = f THEN stage ELSE pc[g]
                             /\ wire'[g] = IF g = f THEN "none" ELSE wire[g]
        BY <2>1, <3>1
      <3>3. late[f] = "none" /\ pc' \in [Forms -> Stages]
        BY <2>4, <3>1
      <3> QED
        BY <3>2, <3>3
    <2>6. UNCHANGED <<accounts, node, users, picture, late, email, address, check,
                      device, spinner, link, faults, inserted>>
      BY <1>8 DEF insertUser
    <2>7. wire' \in [Forms -> {"none", "pending", "applied", "rejected"}]
      BY <2>1
    <2>8. ahead' \in [Forms -> SUBSET Forms] /\ snapshot' \in [Forms -> SUBSET Forms]
      BY <2>1, <2>3
    <2> QED
      BY <2>2, <2>5, <2>6, <2>7, <2>8
  <1>9. ASSUME NEW d \in Devices, ReadUsers(d) PROVE TypeOK'
    BY <1>9 DEF ReadUsers, Waiting, On
  <1>10. ASSUME NEW f \in Forms, addUser(f) PROVE TypeOK'
    <2>1. /\ wire' = [wire EXCEPT ![f] = "pending"]
          /\ ahead' \in [Forms -> SUBSET Forms]
      BY <1>10 DEF addUser, put, Outstanding, On
    <2>2. /\ snapshot' \in [Forms -> SUBSET Forms]
          /\ pc' \in [Forms -> Stages]
          /\ \A g \in Forms : late[g] # "none" => pc'[g] = "lost"
          /\ pc'[f] = "addingUser"
          /\ \A g \in Forms \ {f} : \/ pc'[g] = pc[g]
                                    \/ pc[g] = "readingUsers" /\ pc'[g] = "usersRead"
      BY <1>10 DEF addUser, userCollection, Waiting, On
    <2>3. \A g \in Forms : wire'[g] # "none" <=> pc'[g] \in {"insertingUser", "addingUser"}
      BY <2>1, <2>2
    <2> QED
      BY <1>10, <2>1, <2>2, <2>3 DEF addUser
  <1>11. ASSUME NEW f \in Forms, UserAdded(f) PROVE TypeOK'
    BY <1>11 DEF UserAdded, Answered, PutDone
  <1>12. ASSUME NEW f \in Forms, InsertFailed(f) PROVE TypeOK'
    BY <1>12 DEF InsertFailed, Answered, PutDone
  <1>13. ASSUME NEW f \in Forms, uploadProfilePicture(f) PROVE TypeOK'
    BY <1>13 DEF uploadProfilePicture
  <1>14. ASSUME NEW f \in Forms, downloadURL(f) PROVE TypeOK'
    BY <1>14 DEF downloadURL
  <1>15. ASSUME NEW d \in Devices, restoreState(d) PROVE TypeOK'
    BY <1>15 DEF restoreState
  <1>16. ASSUME NEW d \in Devices, onDisconnect(d) PROVE TypeOK'
    <2>1. PICK acked \in putsToAck(d) :
             wire' = [f \in Forms |-> IF f \in On(d) \ acked THEN Unsent(wire[f])
                                     ELSE wire[f]]
      BY <1>16, Zenon DEF onDisconnect
    <2>2. /\ wire' \in [Forms -> {"none", "pending", "applied", "rejected"}]
          /\ \A f \in Forms : wire'[f] # "none" <=> wire[f] # "none"
      BY <2>1 DEF Unsent
    <2>3. faults' \in 0..MaxFaults
      BY <1>16, RegistrationAssumption DEF onDisconnect
    <2> QED
      BY <1>16, <2>2, <2>3 DEF onDisconnect
  <1>17. ASSUME NEW d \in Devices, Crash(d) PROVE TypeOK'
    <2>1. faults' \in 0..MaxFaults
      BY <1>17, RegistrationAssumption DEF Crash
    <2>2. /\ pc' \in [Forms -> Stages]
          /\ late' \in [Forms -> Requests \cup {"none"}]
          /\ wire' \in [Forms -> {"none", "pending", "applied", "rejected"}]
      <3>1. /\ \A f \in Forms : /\ pc'[f] \in {pc[f], "lost"}
                                /\ late'[f] \in Requests \cup {"none"}
        BY <1>17, CrashKeeps
      <3>2. /\ pc' = [f \in Forms |-> pc'[f]]
            /\ late' = [f \in Forms |-> late'[f]]
        BY <1>17 DEF Crash
      <3>3. wire' \in [Forms -> {"none", "pending", "applied", "rejected"}]
        BY <1>17 DEF Crash
      <3> QED
        BY <3>1, <3>2, <3>3
    <2>3. \A f \in Forms :
            /\ wire'[f] # "none" <=> pc'[f] \in {"insertingUser", "addingUser"}
            /\ late'[f] # "none" => pc'[f] = "lost"
      BY <1>17, CrashKeeps
    <2>4. link' \in [Devices -> {"connected", "disconnected", "dead"}]
      BY <1>17 DEF Crash
    <2>5. spinner' \in [Devices -> BOOLEAN]
      BY <1>17 DEF Crash
    <2> QED
      BY <1>17, <2>1, <2>2, <2>3, <2>4, <2>5 DEF Crash
  <1>18. ASSUME NEW f \in Forms, TakeLate(f) PROVE TypeOK'
    <2>1. /\ accounts' \subseteq Emails /\ users' \subseteq Forms
          /\ node' \in [Nodes -> Forms \cup {NoForm}]
          /\ picture' \in [Nodes -> Forms \cup {NoForm}]
      BY <1>18 DEF TakeLate, LateApplied, LateDropped, Store, userCollection
    <2> QED
      BY <1>18, <2>1, LateKeeps
  <1>19. CASE UNCHANGED vars
    BY <1>19 DEF vars
  <1> QED
    BY <1>1, <1>2, <1>3, <1>4, <1>5, <1>6, <1>7, <1>8, <1>9, <1>10, <1>11,
       <1>12, <1>13, <1>14, <1>15, <1>16, <1>17, <1>18, <1>19
    DEF Next, SignUp, Serve, Insert, Upload

(* Type correctness of the registrations.                                  *)
THEOREM TypeCorrect == Spec => []TypeOK
  BY TypeInit, TypeStep, PTL DEF Spec

-----------------------------------------------------------------------------
(* User nodes.                                                             *)

\* The ChatAppUser is made, and its address does not change any more.
Unnamed == {"idle", "signingUp", "accepted", "refused"}
Named(f) == pc[f] \notin Unnamed

\* The user node was written and acknowledged, and the chain goes on.
Past(f) ==
    pc[f] \in {"readingUsers", "usersRead", "addingUser", "uploading", "fetchingUrl"}

\* The server has taken the user node of the form.
Written(f) ==
    \/ pc[f] = "insertingUser" /\ wire[f] = "applied"
    \/ Past(f)
    \/ late[f] \in {"addingUser", "uploading"}

\* The form is in the directory, or in a copy of it.
Listed(f) == f \in inserted \cup users \/ \E g \in Forms : f \in snapshot[g]

\* Auth said that it created the account, and the chain or its request goes on.
Signed(f) ==
    \/ pc[f] \in {"accepted", "insertingUser"}
    \/ Past(f)
    \/ late[f] \in {"insertingUser", "addingUser", "uploading"}

Uploads(f) == pc[f] \in {"uploading", "fetchingUrl"} \/ late[f] = "uploading"

\* The form created the account of the address of its press.
Owner(f) == Signed(f) \/ f \in inserted \/ \E n \in Nodes : node[n] = f

NodeInv ==
    /\ \A f \in Forms : Written(f) \/ Listed(f) =>
         Named(f) /\ node[NodeOf(f)] # NoForm /\ email[f] \in accounts
    /\ \A n \in Nodes : node[n] # NoForm => Named(node[n]) /\ NodeOf(node[n]) = n
    /\ \A f \in Forms : Owner(f) => email[f] \in accounts
    /\ \A f, g \in Forms : f # g /\ Owner(f) /\ Owner(g) => email[f] # email[g]
    /\ \A f \in Forms : Uploads(f) => f \in inserted
    /\ \A n \in Nodes : picture[n] # NoForm => /\ picture[n] \in inserted
                                               /\ NodeOf(picture[n]) = n

(* Steps that touch no server, and take no form further than it was.       *)
LEMMA NodeKept ==
    ASSUME TypeOK, NodeInv,
           UNCHANGED <<accounts, node, users, picture, email, address, inserted>>,
           \A f \in Forms : /\ Written(f)' => Written(f)
                            /\ Signed(f)' => Signed(f)
                            /\ Uploads(f)' => Uploads(f)
                            /\ Named(f) => pc'[f] \notin Unnamed
                            /\ (\E g \in Forms : f \in snapshot'[g])
                                  => Written(f) \/ Listed(f)
    PROVE  NodeInv'
  <1>1. \A f \in Forms : /\ SafeEmail[address'[f]] = SafeEmail[address[f]]
                         /\ Listed(f)' => Written(f) \/ Listed(f)
                         /\ Owner(f)' => Owner(f)
    BY DEF NodeOf, Listed, Owner
  <1>2. \A f \in Forms : Written(f)' \/ Listed(f)' =>
          /\ pc'[f] \notin Unnamed /\ email'[f] \in accounts'
          /\ node'[SafeEmail[address'[f]]] # NoForm
    BY <1>1 DEF NodeInv, NodeOf, Named
  <1>3. \A n \in Nodes : node'[n] # NoForm =>
           pc'[node'[n]] \notin Unnamed /\ SafeEmail[address'[node'[n]]] = n
    <2> SUFFICES ASSUME NEW n \in Nodes, node'[n] # NoForm
                 PROVE  pc'[node[n]] \notin Unnamed /\ SafeEmail[address'[node[n]]] = n
      OBVIOUS
    <2>1. node[n] \in Forms
      BY DEF TypeOK
    <2> QED
      BY <1>1, <2>1 DEF NodeInv, NodeOf, Named
  <1>4. \A f \in Forms : Owner(f)' => email'[f] \in accounts'
    BY <1>1 DEF NodeInv, NodeOf, Named
  <1>5. \A f, g \in Forms : f # g /\ Owner(f)' /\ Owner(g)' => email'[f] # email'[g]
    BY <1>1 DEF NodeInv, NodeOf, Named
  <1>6. \A n \in Nodes : picture'[n] # NoForm => /\ picture'[n] \in inserted'
                                                 /\ SafeEmail[address'[picture'[n]]] = n
    BY <1>1 DEF NodeInv, TypeOK, NodeOf, Named
  <1> QED
    BY <1>2, <1>3, <1>4, <1>5, <1>6 DEF NodeInv, NodeOf, Named

(* Auth creates the account of one more address.                           *)
LEMMA NodeSigned == ASSUME TypeOK, NodeInv, NEW f \in Forms, createUser(f) PROVE NodeInv'
  <1>1. /\ pc[f] = "signingUp" /\ email[f] \notin accounts
        /\ accounts' = accounts \cup {email[f]}
        /\ pc' = [pc EXCEPT ![f] = "accepted"]
        /\ UNCHANGED <<node, users, picture, late, email, address, snapshot, wire, inserted>>
    BY DEF createUser, databaseVars, addressVars, putVars, historyVars
  <1>2. \A g \in Forms \ {f} : pc'[g] = pc[g]
    BY <1>1 DEF TypeOK
  <1>3. ~Owner(f) /\ ~Named(f) /\ pc'[f] = "accepted"
    BY <1>1 DEF TypeOK, NodeInv, Named, Unnamed, NodeOf
  <1>4. \A g \in Forms : /\ SafeEmail[address'[g]] = SafeEmail[address[g]]
                         /\ Listed(g)' => Listed(g)
                         /\ Written(g)' => Written(g)
                         /\ Named(g) => pc'[g] \notin Unnamed
                         /\ Uploads(g)' => Uploads(g)
                         /\ g # f => (Owner(g)' => Owner(g))
    BY <1>1, <1>2, <1>3
    DEF NodeOf, Listed, Written, Past, Named, Uploads, Owner, Signed, TypeOK, Unnamed
  <1>5. \A g \in Forms : Written(g)' \/ Listed(g)' =>
          /\ pc'[g] \notin Unnamed /\ email'[g] \in accounts'
          /\ node'[SafeEmail[address'[g]]] # NoForm
    BY <1>1, <1>4 DEF NodeInv, NodeOf, Named
  <1>6. \A n \in Nodes : node'[n] # NoForm =>
           pc'[node'[n]] \notin Unnamed /\ SafeEmail[address'[node'[n]]] = n
    BY <1>1, <1>4 DEF NodeInv, TypeOK, NodeOf, Named
  <1>7. \A g \in Forms : Owner(g)' => email'[g] \in accounts'
    BY <1>1, <1>4 DEF NodeInv, NodeOf, Named
  <1>8. \A g, h \in Forms : g # h /\ Owner(g)' /\ Owner(h)' => email'[g] # email'[h]
    BY <1>1, <1>4 DEF NodeInv, NodeOf, Named
  <1>9. \A n \in Nodes : picture'[n] # NoForm => /\ picture'[n] \in inserted'
                                                 /\ SafeEmail[address'[picture'[n]]] = n
    BY <1>1, <1>4 DEF NodeInv, TypeOK, NodeOf, Named
  <1>10. \A g \in Forms : Uploads(g)' => g \in inserted'
    BY <1>1, <1>4 DEF NodeInv, NodeOf, Named
  <1> QED
    BY <1>5, <1>6, <1>7, <1>8, <1>9, <1>10 DEF NodeInv, NodeOf, Named

(* The ChatAppUser is made of the field: nobody knew the form before.      *)
LEMMA NodeNamed == ASSUME TypeOK, NodeInv, NEW f \in Forms, signUp(f) PROVE NodeInv'
  <1>1. PICK e \in Emails : address' = [address EXCEPT ![f] = e]
    BY DEF signUp
  <1>2. /\ pc[f] = "accepted" /\ pc' = [pc EXCEPT ![f] = "insertingUser"]
        /\ wire' = [wire EXCEPT ![f] = "pending"]
        /\ UNCHANGED <<accounts, node, users, picture, late, email, snapshot, inserted>>
    BY DEF signUp, put, serverVars, databaseVars, historyVars
  <1>3. /\ \A g \in Forms \ {f} : /\ pc'[g] = pc[g] /\ wire'[g] = wire[g]
                                  /\ SafeEmail[address'[g]] = SafeEmail[address[g]]
        /\ pc'[f] = "insertingUser" /\ wire'[f] = "pending" /\ late[f] = "none"
    BY <1>1, <1>2 DEF TypeOK, NodeOf
  <1>4. ~Named(f) /\ ~Written(f) /\ ~Listed(f)
    BY <1>2 DEF Named, Unnamed, NodeInv, NodeOf
  <1>5. /\ ~Written(f)' /\ ~Listed(f)' /\ ~Uploads(f)'
        /\ \A g \in Forms \ {f} : /\ Listed(g)' => Listed(g)
                                  /\ Written(g)' => Written(g)
                                  /\ Named(g) => pc'[g] \notin Unnamed
                                  /\ Uploads(g)' => Uploads(g)
        /\ \A g \in Forms : Owner(g)' => Owner(g)
    BY <1>2, <1>3, <1>4 DEF Listed, Written, Past, Named, Uploads, Owner, Signed, Unnamed
  <1>6. \A g \in Forms : Written(g)' \/ Listed(g)' =>
          /\ pc'[g] \notin Unnamed /\ email'[g] \in accounts'
          /\ node'[SafeEmail[address'[g]]] # NoForm
    BY <1>2, <1>3, <1>5 DEF NodeInv, NodeOf, Named
  <1>7. \A n \in Nodes : node'[n] # NoForm =>
           pc'[node'[n]] \notin Unnamed /\ SafeEmail[address'[node'[n]]] = n
    <2> SUFFICES ASSUME NEW n \in Nodes, node[n] # NoForm
                 PROVE  pc'[node[n]] \notin Unnamed /\ SafeEmail[address'[node[n]]] = n
      BY <1>2
    <2>1. node[n] \in Forms \ {f}
      BY <1>4 DEF TypeOK, NodeInv, NodeOf, Named
    <2> QED
      BY <1>3, <1>5, <2>1 DEF NodeInv, NodeOf, Named
  <1>8. \A g \in Forms : Owner(g)' => email'[g] \in accounts'
    BY <1>2, <1>5 DEF NodeInv, NodeOf, Named
  <1>9. \A g, h \in Forms : g # h /\ Owner(g)' /\ Owner(h)' => email'[g] # email'[h]
    BY <1>2, <1>5 DEF NodeInv, NodeOf, Named
  <1>10. \A n \in Nodes : picture'[n] # NoForm => /\ picture'[n] \in inserted'
                                                  /\ SafeEmail[address'[picture'[n]]] = n
    <2> SUFFICES ASSUME NEW n \in Nodes, picture[n] # NoForm
                 PROVE  picture[n] \in inserted /\ SafeEmail[address'[picture[n]]] = n
      BY <1>2
    <2>1. picture[n] \in inserted /\ picture[n] \in Forms
      BY DEF NodeInv, TypeOK, NodeOf, Named
    <2>2. picture[n] # f
      BY <1>4, <2>1 DEF Listed
    <2> QED
      BY <1>3, <2>1, <2>2 DEF NodeInv, NodeOf, Named
  <1>11. \A g \in Forms : Uploads(g)' => g \in inserted'
    BY <1>2, <1>5 DEF NodeInv, NodeOf, Named
  <1> QED
    BY <1>6, <1>7, <1>8, <1>9, <1>10, <1>11 DEF NodeInv, NodeOf, Named

(* A put is taken, of a form whose app runs or is gone: its node stays one *)
(* that a form with this key has, and its entry that of a form with a node.*)
LEMMA NodeStored ==
    ASSUME TypeOK, NodeInv, NEW f \in Forms, NEW what, Store(f, what),
           pc[f] = what \/ late[f] = what,
           UNCHANGED <<accounts, picture, pc, email, address, snapshot, inserted>>,
           \A g \in Forms : /\ g # f => wire'[g] = wire[g]
                            /\ late'[g] \in {late[g], "none"},
           wire'[f] = wire[f] \/ pc[f] = what
    PROVE  NodeInv'
  <1>1. Signed(f) /\ Named(f)
    BY DEF Store, Signed, Past, Named, TypeOK, Unnamed
  <1>2. /\ \A g \in Forms : /\ SafeEmail[address'[g]] = SafeEmail[address[g]]
                            /\ pc'[g] \notin Unnamed <=> Named(g)
                            /\ Signed(g)' => Signed(g)
                            /\ Uploads(g)' => Uploads(g)
                            /\ g # f => (Written(g)' => Written(g))
    BY DEF NodeOf, Named, Signed, Past, Uploads, Written
  <1>3. NodeOf(f) \in Nodes /\ f # NoForm
    BY EmailType, RegistrationAssumption DEF TypeOK, NodeOf
  <1>4. CASE what = "insertingUser"
    <2>1. /\ users' = users /\ node' = [node EXCEPT ![NodeOf(f)] = f]
      BY <1>4 DEF Store
    <2>2. /\ \A n \in Nodes : node'[n] = IF n = NodeOf(f) THEN f ELSE node[n]
          /\ \A g \in Forms : Listed(g)' => Listed(g)
      BY <2>1 DEF TypeOK, Listed
    <2>3. \A g \in Forms : Owner(g)' => Owner(g)
      BY <1>1, <1>2, <2>2 DEF Owner
    <2>4. /\ \A n \in Nodes : node[n] # NoForm => node'[n] # NoForm
          /\ node'[NodeOf(f)] # NoForm /\ email[f] \in accounts
      BY <1>1, <1>3, <2>2 DEF NodeInv, Owner, NodeOf, Named
    <2>5. \A g \in Forms : Written(g)' \/ Listed(g)' =>
            /\ pc'[g] \notin Unnamed /\ email'[g] \in accounts'
            /\ node'[SafeEmail[address'[g]]] # NoForm
      <3> SUFFICES ASSUME NEW g \in Forms, Written(g)' \/ Listed(g)', g # f
                   PROVE  /\ pc'[g] \notin Unnamed /\ email'[g] \in accounts'
                          /\ node'[SafeEmail[address'[g]]] # NoForm
        BY <1>1, <1>2, <2>4 DEF NodeOf, Named
      <3>1. Written(g) \/ Listed(g)
        BY <1>2, <2>2
      <3>2. NodeOf(g) \in Nodes
        BY EmailType DEF TypeOK, NodeOf
      <3> QED
        BY <1>2, <2>4, <3>1, <3>2 DEF NodeInv, NodeOf, Named
    <2>6. \A n \in Nodes : node'[n] # NoForm =>
             pc'[node'[n]] \notin Unnamed /\ SafeEmail[address'[node'[n]]] = n
      <3> SUFFICES ASSUME NEW n \in Nodes, node'[n] # NoForm
                   PROVE  pc'[node'[n]] \notin Unnamed /\ SafeEmail[address'[node'[n]]] = n
        OBVIOUS
      <3>1. CASE n = NodeOf(f)
        BY <1>1, <1>2, <2>2, <3>1 DEF NodeOf, Named
      <3>2. CASE n # NodeOf(f)
        <4>1. node'[n] = node[n] /\ node[n] \in Forms
          BY <2>2, <3>2 DEF TypeOK
        <4> QED
          BY <1>2, <4>1 DEF NodeInv, NodeOf, Named
      <3> QED
        BY <3>1, <3>2
    <2>7. /\ \A g \in Forms : Owner(g)' => email'[g] \in accounts'
          /\ \A g, h \in Forms : g # h /\ Owner(g)' /\ Owner(h)' => email'[g] # email'[h]
      BY <2>3 DEF NodeInv, NodeOf, Named
    <2>8. \A g \in Forms : Uploads(g)' => g \in inserted'
      BY <1>2 DEF NodeInv, NodeOf, Named
    <2>9. \A n \in Nodes : picture'[n] # NoForm => /\ picture'[n] \in inserted'
                                                   /\ SafeEmail[address'[picture'[n]]] = n
      BY <1>2 DEF NodeInv, TypeOK, NodeOf, Named
    <2> QED
      BY <2>5, <2>6, <2>7, <2>8, <2>9 DEF NodeInv, NodeOf, Named
  <1>5. CASE what = "addingUser"
    <2>1. node' = node /\ users' = snapshot[f] \cup {f}
      BY <1>5 DEF Store, userCollection
    <2>2. Written(f) /\ (Written(f)' => Written(f))
      BY <1>5 DEF Written, Past
    <2>3. \A g \in Forms : Listed(g)' => Written(g) \/ Listed(g)
      BY <2>1, <2>2 DEF Listed
    <2>4. \A g \in Forms : Owner(g)' => Owner(g)
      BY <1>2, <2>1 DEF Owner
    <2>5. \A g \in Forms : Written(g)' \/ Listed(g)' =>
            /\ pc'[g] \notin Unnamed /\ email'[g] \in accounts'
            /\ node'[SafeEmail[address'[g]]] # NoForm
      BY <1>2, <2>1, <2>2, <2>3 DEF NodeInv, NodeOf, Named
    <2>6. \A n \in Nodes : node'[n] # NoForm =>
             pc'[node'[n]] \notin Unnamed /\ SafeEmail[address'[node'[n]]] = n
      BY <1>2, <2>1 DEF NodeInv, TypeOK, NodeOf, Named
    <2>7. /\ \A g \in Forms : Owner(g)' => email'[g] \in accounts'
          /\ \A g, h \in Forms : g # h /\ Owner(g)' /\ Owner(h)' => email'[g] # email'[h]
      BY <2>4 DEF NodeInv, NodeOf, Named
    <2>8. \A g \in Forms : Uploads(g)' => g \in inserted'
      BY <1>2 DEF NodeInv, NodeOf, Named
    <2>9. \A n \in Nodes : picture'[n] # NoForm => /\ picture'[n] \in inserted'
                                                   /\ SafeEmail[address'[picture'[n]]] = n
      BY <1>2 DEF NodeInv, TypeOK, NodeOf, Named
    <2> QED
      BY <2>5, <2>6, <2>7, <2>8, <2>9 DEF NodeInv, NodeOf, Named
  <1> QED
    BY <1>4, <1>5 DEF Store

(* An account is made first, then the node of the form, then its entry.    *)
LEMMA NodeStep == TypeOK /\ NodeInv /\ [Next]_vars => NodeInv'
  <1> SUFFICES ASSUME TypeOK, NodeInv, [Next]_vars PROVE NodeInv'
    OBVIOUS
  <1> USE DEF Written, Past, Signed, Uploads, Named, Unnamed,
              serverVars, databaseVars, formVars, addressVars, putVars, screenVars,
              historyVars
  <1>0. /\ pc \in [Forms -> Stages] /\ wire \in [Forms -> {"none", "pending", "applied", "rejected"}]
        /\ \A f \in Forms : /\ wire[f] # "none" <=> pc[f] \in {"insertingUser", "addingUser"}
                            /\ late[f] # "none" => pc[f] = "lost"
        /\ \A f, g \in Forms : f \in snapshot[g] => Listed(f)
        /\ \A f \in Forms : f \in users => Listed(f)
    BY DEF TypeOK, Listed
  <1>1. ASSUME NEW f \in Forms,
               registerBtnTapped(f) \/ UserExistsAnswered(f) \/ SignUpRefused(f)
        PROVE  NodeInv'
    <2>1. /\ UNCHANGED <<accounts, node, users, picture, email, address, inserted,
                         late, snapshot, wire>>
          /\ \A g \in Forms : \/ pc'[g] = pc[g]
                              \/ pc[g] \in {"idle", "signingUp", "accepted"}
                                 /\ pc'[g] \in {"signingUp", "refused"}
      BY <1>0, <1>1 DEF registerBtnTapped, UserExistsAnswered, SignUpRefused
    <2> QED
      BY <1>0, <2>1, NodeKept
  <1>2. ASSUME NEW f \in Forms, ServerApplies(f) PROVE NodeInv'
    <2>1. /\ Store(f, pc[f]) /\ wire' = [wire EXCEPT ![f] = "applied"]
          /\ UNCHANGED <<accounts, picture, pc, email, address, snapshot, inserted, late>>
      BY <1>2 DEF ServerApplies
    <2>2. PICK what : what = pc[f]
      OBVIOUS
    <2>3. \A g \in Forms : g # f => wire'[g] = wire[g]
      BY <1>0, <2>1
    <2> HIDE DEF Written, Past, Signed, Uploads, Named, Unnamed
    <2> QED
      BY <2>1, <2>2, <2>3, NodeStored
  <1>3. ASSUME NEW f \in Forms, TakeLate(f) PROVE NodeInv'
    <2>1. /\ UNCHANGED <<pc, email, address, snapshot, wire, inserted>>
          /\ late' = [late EXCEPT ![f] = "none"]
          /\ late \in [Forms -> Requests \cup {"none"}]
      BY <1>3, LateKeeps DEF TypeOK
    <2>2. \A g \in Forms : late'[g] \in {late[g], "none"}
      BY <2>1
    <2>3. ASSUME Store(f, late[f]), UNCHANGED <<accounts, picture>> PROVE NodeInv'
      <3>1. PICK what : what = late[f]
        OBVIOUS
      <3> HIDE DEF Written, Past, Signed, Uploads, Named, Unnamed
      <3> QED
        BY <2>1, <2>2, <2>3, <3>1, NodeStored
    <2>4. ASSUME UNCHANGED <<accounts, node, users, picture>> PROVE NodeInv'
      BY <1>0, <2>1, <2>2, <2>4, NodeKept
    <2>5. ASSUME email[f] \notin accounts, accounts' = accounts \cup {email[f]},
                 UNCHANGED <<node, users, picture>>
          PROVE  NodeInv'
      BY <2>1, <2>2, <2>5 DEF NodeInv, Listed, Owner, NodeOf
    <2>6. ASSUME late[f] = "uploading", picture' = [picture EXCEPT ![NodeOf(f)] = f],
                 UNCHANGED <<accounts, node, users>>
          PROVE  NodeInv'
      <3>1. \A n \in Nodes : picture'[n] = IF n = NodeOf(f) THEN f ELSE picture[n]
        BY <2>6 DEF TypeOK
      <3>2. f \in inserted
        BY <2>6 DEF NodeInv
      <3> QED
        BY <2>1, <2>2, <2>6, <3>1, <3>2 DEF NodeInv, Listed, Owner, NodeOf
    <2> QED
      BY <1>3, <2>3, <2>4, <2>5, <2>6 DEF TakeLate, LateApplied, LateDropped
  <1>4. ASSUME NEW f \in Forms, ServerRejects(f) PROVE NodeInv'
    <2>1. /\ UNCHANGED <<accounts, node, users, picture, email, address, inserted,
                         late, snapshot, pc>>
          /\ wire' = [wire EXCEPT ![f] = "rejected"]
      BY <1>4 DEF ServerRejects
    <2>2. \A g \in Forms : wire'[g] = "applied" => wire[g] = "applied"
      BY <1>0, <2>1
    <2> QED
      BY <1>0, <2>1, <2>2, NodeKept
  <1>5. ASSUME NEW f \in Forms, insertUser(f) PROVE NodeInv'
    <2>1. /\ pc[f] = "insertingUser" /\ wire[f] = "applied"
          /\ wire' = [wire EXCEPT ![f] = "none"]
          /\ observeSingleEvent(f)
          /\ UNCHANGED <<accounts, node, users, picture, email, address, inserted, late>>
      BY <1>5 DEF insertUser, Answered, PutDone
    <2>2. \A g \in Forms : /\ g # f => pc'[g] = pc[g] /\ wire'[g] = wire[g]
                           /\ g = f => pc'[g] \in {"usersRead", "readingUsers"}
      BY <1>0, <2>1 DEF observeSingleEvent
    <2>3. \A h \in Forms : (\E g \in Forms : h \in snapshot'[g]) => Written(h) \/ Listed(h)
      <3>1. ASSUME NEW g \in Forms, Shadows(g, device[f]),
                   snapshot' = [snapshot EXCEPT ![f] = userCollection(g)]
            PROVE  \A h, k \in Forms : h \in snapshot'[k] => Written(h) \/ Listed(h)
        <4>1. Written(g)
          BY <3>1 DEF Shadows
        <4>2. \A k \in Forms : snapshot'[k] = IF k = f THEN snapshot[g] \cup {g}
                                              ELSE snapshot[k]
          BY <3>1 DEF userCollection, TypeOK
        <4> HIDE DEF Written
        <4> QED
          BY <1>0, <4>1, <4>2
      <3> QED
        BY <1>0, <2>1, <3>1 DEF observeSingleEvent
    <2> QED
      BY <2>1, <2>2, <2>3, NodeKept
  <1>6. ASSUME NEW d \in Devices, ReadUsers(d) PROVE NodeInv'
    <2>1. /\ UNCHANGED <<accounts, node, users, picture, email, address, inserted,
                         late, wire>>
          /\ \A g \in Forms : \/ pc'[g] = pc[g]
                              \/ pc[g] = "readingUsers" /\ pc'[g] \in {"usersRead", "denied"}
          /\ \A g \in Forms : snapshot'[g] = snapshot[g] \/ snapshot'[g] = users
      BY <1>0, <1>6 DEF ReadUsers, Waiting
    <2> QED
      BY <1>0, <2>1, NodeKept
  <1>7. ASSUME NEW f \in Forms, addUser(f) PROVE NodeInv'
    <2>1. /\ UNCHANGED <<accounts, node, users, picture, email, address, inserted, late>>
          /\ pc[f] = "usersRead" /\ wire' = [wire EXCEPT ![f] = "pending"]
          /\ \A g \in Forms : \/ pc'[g] = pc[g]
                              \/ pc[g] = "readingUsers" /\ pc'[g] = "usersRead"
                              \/ g = f /\ pc'[g] = "addingUser"
          /\ \A g \in Forms : snapshot'[g] = snapshot[g] \/ snapshot'[g] = snapshot[f] \cup {f}
      BY <1>0, <1>7 DEF addUser, put, Waiting, userCollection
    <2>2. \A g \in Forms : wire'[g] = "applied" => wire[g] = "applied"
      BY <1>0, <2>1
    <2>3. \A h \in Forms : (\E g \in Forms : h \in snapshot'[g]) => Written(h) \/ Listed(h)
      BY <1>0, <2>1
    <2> QED
      BY <1>0, <2>1, <2>2, <2>3, NodeKept
  <1>8. ASSUME NEW f \in Forms, UserAdded(f) PROVE NodeInv'
    <2>1. /\ UNCHANGED <<accounts, node, users, picture, email, address, late, snapshot>>
          /\ pc[f] = "addingUser" /\ wire' = [wire EXCEPT ![f] = "none"]
          /\ \A g \in Forms : \/ pc'[g] = pc[g]
                              \/ g = f /\ pc'[g] \in {"uploading", "done"}
          /\ inserted' = inserted \cup {f}
      BY <1>0, <1>8 DEF UserAdded, Answered, PutDone
    <2>2. \A g \in Forms : /\ Written(g)' \/ Listed(g)' => Written(g) \/ Listed(g)
                           /\ Owner(g)' => Owner(g)
                           /\ Uploads(g)' => Uploads(g) \/ g = f
                           /\ Named(g) => Named(g)'
      BY <1>0, <2>1 DEF Listed, Owner
    <2> HIDE DEF Written, Past, Signed, Uploads
    <2>3. /\ \A g \in Forms : Written(g)' \/ Listed(g)' =>
               /\ pc'[g] \notin Unnamed /\ email'[g] \in accounts'
               /\ node'[SafeEmail[address'[g]]] # NoForm
          /\ \A g \in Forms : Owner(g)' => email'[g] \in accounts'
          /\ \A g, h \in Forms : g # h /\ Owner(g)' /\ Owner(h)' => email'[g] # email'[h]
          /\ \A g \in Forms : Uploads(g)' => g \in inserted'
      BY <2>1, <2>2 DEF NodeInv, NodeOf
    <2>4. \A n \in Nodes : node'[n] # NoForm =>
            pc'[node'[n]] \notin Unnamed /\ SafeEmail[address'[node'[n]]] = n
      BY <2>1, <2>2 DEF NodeInv, NodeOf, TypeOK
    <2>5. \A n \in Nodes : picture'[n] # NoForm => /\ picture'[n] \in inserted'
                                                   /\ SafeEmail[address'[picture'[n]]] = n
      BY <2>1 DEF NodeInv, NodeOf
    <2> QED
      BY <2>3, <2>4, <2>5 DEF NodeInv, NodeOf
  <1>9. ASSUME NEW f \in Forms, InsertFailed(f) \/ downloadURL(f) PROVE NodeInv'
    <2>1. /\ UNCHANGED <<accounts, node, users, picture, email, address, inserted,
                         late, snapshot>>
          /\ \A g \in Forms : wire'[g] = wire[g] \/ wire'[g] = "none"
          /\ \A g \in Forms : \/ pc'[g] = pc[g]
                              \/ pc[g] \in {"insertingUser", "addingUser", "fetchingUrl"}
                                 /\ pc'[g] \in {"failed", "done"}
      BY <1>0, <1>9 DEF InsertFailed, Answered, PutDone, downloadURL
    <2> QED
      BY <1>0, <2>1, NodeKept
  <1>10. ASSUME NEW f \in Forms, uploadProfilePicture(f) PROVE NodeInv'
    <2>1. /\ UNCHANGED <<accounts, node, users, email, address, inserted, late,
                         snapshot, wire>>
          /\ pc[f] = "uploading"
          /\ \A g \in Forms : \/ pc'[g] = pc[g]
                              \/ g = f /\ pc'[g] \in {"fetchingUrl", "done"}
          /\ \/ picture' = [picture EXCEPT ![NodeOf(f)] = f]
             \/ UNCHANGED picture
      BY <1>0, <1>10 DEF uploadProfilePicture
    <2>2. \A g \in Forms : /\ Written(g)' \/ Listed(g)' => Written(g) \/ Listed(g)
                           /\ Owner(g)' => Owner(g)
                           /\ Uploads(g)' => Uploads(g)
                           /\ Named(g) => Named(g)'
      BY <1>0, <2>1 DEF Listed, Owner
    <2>3. f \in inserted
      BY <2>1 DEF NodeInv
    <2>4. \A n \in Nodes : picture'[n] = picture[n] \/ (n = NodeOf(f) /\ picture'[n] = f)
      BY <2>1 DEF TypeOK
    <2> HIDE DEF Written, Past, Signed, Uploads
    <2>5. /\ \A g \in Forms : Written(g)' \/ Listed(g)' =>
               /\ pc'[g] \notin Unnamed /\ email'[g] \in accounts'
               /\ node'[SafeEmail[address'[g]]] # NoForm
          /\ \A g \in Forms : Owner(g)' => email'[g] \in accounts'
          /\ \A g, h \in Forms : g # h /\ Owner(g)' /\ Owner(h)' => email'[g] # email'[h]
          /\ \A g \in Forms : Uploads(g)' => g \in inserted'
      BY <2>1, <2>2 DEF NodeInv, NodeOf
    <2>6. \A n \in Nodes : node'[n] # NoForm =>
            pc'[node'[n]] \notin Unnamed /\ SafeEmail[address'[node'[n]]] = n
      BY <2>1, <2>2 DEF NodeInv, NodeOf, TypeOK
    <2>7. \A n \in Nodes : picture'[n] # NoForm => /\ picture'[n] \in inserted'
                                                   /\ SafeEmail[address'[picture'[n]]] = n
      BY <2>1, <2>3, <2>4 DEF NodeInv, NodeOf
    <2> QED
      BY <2>5, <2>6, <2>7 DEF NodeInv, NodeOf
  <1>11. ASSUME NEW d \in Devices, restoreState(d) \/ onDisconnect(d) PROVE NodeInv'
    <2>1. /\ UNCHANGED <<accounts, node, users, picture, email, address, inserted,
                         late, snapshot, pc>>
          /\ \A g \in Forms : wire'[g] = "applied" => wire[g] = "applied"
      BY <1>0, <1>11 DEF restoreState, onDisconnect, Unsent
    <2> QED
      BY <1>0, <2>1, NodeKept
  <1>12. ASSUME NEW d \in Devices, Crash(d) PROVE NodeInv'
    <2>1. UNCHANGED <<accounts, node, users, picture, email, address, inserted, snapshot>>
      BY <1>12 DEF Crash
    <2>2. \A g \in Forms : /\ pc'[g] \in {pc[g], "lost"}
                           /\ wire'[g] \in {wire[g], "none"}
                           /\ late'[g] \in {late[g], "none", pc[g]}
      <3>1. \A g \in Forms : wire'[g] \in {wire[g], "none"}
        BY <1>0, <1>12 DEF Crash
      <3> QED
        BY <1>12, <3>1, CrashKeeps
    <2> QED
      BY <1>0, <2>1, <2>2, NodeKept
  <1>13. CASE UNCHANGED vars
    BY <1>0, <1>13, NodeKept DEF vars
  <1> HIDE DEF Written, Past, Signed, Uploads, Named, Unnamed
  <1> QED
    BY <1>1, <1>2, <1>3, <1>4, <1>5, <1>6, <1>7, <1>8, <1>9, <1>10, <1>11,
       <1>12, <1>13, NodeSigned, NodeNamed
    DEF Next, SignUp, Serve, Insert, Upload

LEMMA NodeInit == Init => NodeInv
  <1> SUFFICES ASSUME Init PROVE NodeInv
    OBVIOUS
  <1>1. \A f \in Forms : pc[f] = "idle" /\ late[f] = "none" /\ f # NoForm
    BY RegistrationAssumption DEF Init
  <1>2. \A f \in Forms : ~Written(f) /\ ~Signed(f) /\ ~Uploads(f)
    BY <1>1 DEF Written, Past, Signed, Uploads
  <1>3. \A f \in Forms : ~Listed(f) /\ ~Owner(f)
    BY <1>1, <1>2 DEF Init, Listed, Owner
  <1> QED
    BY <1>2, <1>3 DEF Init, NodeInv

LEMMA NodesInvariant == Spec => [](TypeOK /\ NodeInv)
  BY TypeInit, TypeStep, NodeInit, NodeStep, PTL DEF Spec

(* Everybody the directory lists has created an account, and a user node   *)
(* is there for the address that is listed: the field is read once, for    *)
(* both, and the entry is added in the callback of the node's write.       *)
THEOREM ListedUsersHaveNodes == Spec => []ListedUserHasNode
  <1>1. TypeOK /\ NodeInv => ListedUserHasNode
    BY DEF TypeOK, NodeInv, Listed, ListedUserHasNode
  <1> QED
    BY <1>1, NodesInvariant, PTL

(* A profile picture is stored only for a user insertUser completed for,   *)
(* also when the upload arrives after the death of its app.                *)
THEOREM PictureOwnersAreInserted == Spec => []PictureOwnerIsInserted
  <1>1. TypeOK /\ NodeInv => PictureOwnerIsInserted
    <2> SUFFICES ASSUME TypeOK, NodeInv, NEW n \in Nodes, picture[n] # NoForm
                 PROVE  /\ picture[n] \in inserted
                        /\ NodeOf(picture[n]) = n
                        /\ node[n] # NoForm
      BY DEF PictureOwnerIsInserted
    <2>1. picture[n] \in inserted /\ NodeOf(picture[n]) = n
      BY DEF NodeInv
    <2>2. node[NodeOf(picture[n])] # NoForm
      BY <2>1 DEF NodeInv, Listed, TypeOK, NodeOf
    <2> QED
      BY <2>1, <2>2
  <1> QED
    BY <1>1, NodesInvariant, PTL

(* A user node changes hands only between different addresses with the     *)
(* same key, or by a form whose field was changed after the press: Auth    *)
(* refuses the second account of an address, and insertUser writes for the *)
(* address that is in the field.                                           *)
THEOREM NodesAreKept == Spec => []NodeIsKept
  <1>1. TypeOK /\ NodeInv => NodeIsKept
    <2> SUFFICES ASSUME TypeOK, NodeInv, NEW f \in inserted, node[NodeOf(f)] # f
                 PROVE  \E g \in Forms : /\ node[NodeOf(f)] = g
                                         /\ NodeOf(g) = NodeOf(f)
                                         /\ \/ address[g] # address[f]
                                            \/ FieldChanged(f)
                                            \/ FieldChanged(g)
      BY DEF NodeIsKept
    <2>1. f \in Forms /\ NodeOf(f) \in Nodes
      BY EmailType DEF TypeOK, NodeOf
    <2>2. PICK g : g = node[NodeOf(f)]
      OBVIOUS
    <2>3. g \in Forms
      BY <2>1, <2>2 DEF NodeInv, Listed, TypeOK
    <2>4. NodeOf(g) = NodeOf(f)
      BY <2>1, <2>2, <2>3, RegistrationAssumption DEF NodeInv, NodeOf
    <2>5. Owner(f) /\ Owner(g)
      BY <2>1, <2>2 DEF Owner
    <2>6. email[f] # email[g]
      BY <2>1, <2>2, <2>3, <2>5 DEF NodeInv
    <2> QED
      BY <2>2, <2>3, <2>4, <2>6 DEF FieldChanged
  <1> QED
    BY <1>1, NodesInvariant, PTL

-----------------------------------------------------------------------------
(* The directory.                                                          *)

\* The entry of the form is in the collection, as far as its put goes.
Added(f) == f \in inserted \/ (pc[f] = "addingUser" /\ wire[f] = "applied")

\* The form has a copy of the collection that may still be written back.
Holds(f) == pc[f] \in {"usersRead", "addingUser"} \/ late[f] = "addingUser"

LoneInv ==
    /\ \A f, g \in Forms : f # g /\ Adding(f) /\ Adding(g) => g \in rivals[f]
    /\ \A f, g \in Forms : f # g /\ Adding(f) /\ rivals[f] = {} => late[g] # "addingUser"
    /\ \A f \in inserted : /\ pc[f] \in {"uploading", "fetchingUrl", "done", "lost"}
                           /\ late[f] # "addingUser"
    /\ \A f \in Forms : rivals[f] = {} /\ Added(f) => f \in users
    /\ \A f \in inserted, g \in Forms : rivals[f] = {} /\ Holds(g) => f \in snapshot[g]

(* Steps that touch neither the collection nor a copy of it.               *)
LEMMA LoneKept ==
    ASSUME TypeOK, LoneInv, UNCHANGED <<users, snapshot, inserted, rivals>>,
           \A f \in Forms : /\ Adding(f)' => Adding(f)
                            /\ Holds(f)' => Holds(f)
                            /\ late'[f] = "addingUser" =>
                                  late[f] = "addingUser" \/ (Adding(f) /\ f \notin inserted)
                            /\ Added(f)' => Added(f)
                            /\ \/ pc'[f] = pc[f]
                               \/ f \notin inserted
                               \/ pc'[f] \in {"uploading", "fetchingUrl", "done", "lost"}
    PROVE  LoneInv'
  <1>1. \A f \in inserted : f \in Forms
    BY DEF TypeOK
  <1>2. \A f, g \in Forms : f # g /\ Adding(f)' /\ Adding(g)' => g \in rivals'[f]
    BY DEF LoneInv
  <1>3. \A f, g \in Forms : f # g /\ Adding(f)' /\ rivals'[f] = {} => late'[g] # "addingUser"
    BY DEF LoneInv
  <1>4. \A f \in inserted' : /\ pc'[f] \in {"uploading", "fetchingUrl", "done", "lost"}
                             /\ late'[f] # "addingUser"
    BY <1>1 DEF LoneInv
  <1>5. /\ \A f \in Forms : rivals'[f] = {} /\ Added(f)' => f \in users'
        /\ \A f \in inserted', g \in Forms :
              rivals'[f] = {} /\ Holds(g)' => f \in snapshot'[g]
    BY DEF LoneInv
  <1> QED
    BY <1>2, <1>3, <1>4, <1>5 DEF LoneInv

(* A put of the collection is taken, of an app that runs or is gone.       *)
LEMMA LoneStored ==
    ASSUME TypeOK, LoneInv, NEW f \in Forms,
           users' = snapshot[f] \cup {f},
           pc[f] = "addingUser" \/ late[f] = "addingUser",
           UNCHANGED <<snapshot, inserted, rivals, pc>>,
           \A g \in Forms : /\ g # f => wire'[g] = wire[g]
                            /\ late'[g] \in {late[g], "none"}
    PROVE  LoneInv'
  <1>1. \A g \in Forms : /\ Adding(g)' <=> Adding(g)
                         /\ Holds(g)' => Holds(g)
                         /\ late'[g] = "addingUser" => late[g] = "addingUser"
    BY DEF Adding, Holds
  <1>2. Holds(f)
    BY DEF Holds
  <1>3. ASSUME NEW g \in Forms, rivals[g] = {}, Added(g)' PROVE g \in users'
    <2>1. CASE g = f
      BY <2>1
    <2>2. CASE g # f /\ g \in inserted
      BY <1>2, <1>3, <2>2 DEF LoneInv
    <2>3. CASE g # f /\ g \notin inserted
      <3>1. Adding(g)
        BY <1>3, <2>3 DEF Added, Adding
      <3>2. Adding(f) \/ late[f] = "addingUser"
        BY DEF Adding
      <3>3. f \in rivals[g]
        BY <1>3, <2>3, <3>1, <3>2 DEF LoneInv
      <3> QED
        BY <1>3, <3>3
    <2> QED
      BY <2>1, <2>2, <2>3
  <1>4. \A g \in Forms : rivals'[g] = {} /\ Added(g)' => g \in users'
    BY <1>3
  <1>5. \A g \in inserted : g \in Forms
    BY DEF TypeOK
  <1>6. /\ \A g, h \in Forms : g # h /\ Adding(g)' /\ Adding(h)' => h \in rivals'[g]
        /\ \A g, h \in Forms : g # h /\ Adding(g)' /\ rivals'[g] = {} => late'[h] # "addingUser"
        /\ \A g \in inserted' : /\ pc'[g] \in {"uploading", "fetchingUrl", "done", "lost"}
                                /\ late'[g] # "addingUser"
    BY <1>1, <1>5 DEF LoneInv
  <1>7. \A g \in inserted', h \in Forms : rivals'[g] = {} /\ Holds(h)' => g \in snapshot'[h]
    BY <1>1 DEF LoneInv
  <1> QED
    BY <1>4, <1>6, <1>7 DEF LoneInv

(* A form comes to the collection, and takes a copy of it or waits.        *)
LEMMA LoneRead == ASSUME TypeOK, LoneInv, NEW f \in Forms, insertUser(f) PROVE LoneInv'
  <1>1. /\ pc[f] = "insertingUser" /\ f \notin inserted /\ late[f] = "none"
        /\ observeSingleEvent(f) /\ wire' = [wire EXCEPT ![f] = "none"]
        /\ UNCHANGED <<users, inserted, late>>
    BY DEF insertUser, Answered, PutDone, serverVars, databaseVars, LoneInv, TypeOK
  <1>2. \A g \in Forms \ {f} :
          rivals'[g] = IF Adding(g) \/ late[g] = "addingUser" THEN rivals[g] \cup {f}
                       ELSE rivals[g]
    BY DEF insertUser, Rivals
  <1>3. rivals'[f] = {g \in Forms \ {f} : Adding(g) \/ late[g] = "addingUser"}
    BY DEF insertUser, Rivals
  <1>4. /\ \A g \in Forms \ {f} : /\ pc'[g] = pc[g] /\ wire'[g] = wire[g]
                                  /\ snapshot'[g] = snapshot[g]
        /\ pc'[f] \in {"readingUsers", "usersRead"}
    BY <1>1 DEF observeSingleEvent, TypeOK
  <1>5. \A g \in Forms \ {f} : rivals'[g] = {} => rivals[g] = {}
    <2> SUFFICES ASSUME NEW g \in Forms \ {f}, rivals'[g] = {} PROVE rivals[g] = {}
      OBVIOUS
    <2>1. rivals'[g] = rivals[g] \cup {f} \/ rivals'[g] = rivals[g]
      BY <1>2
    <2>2. f \in rivals[g] \cup {f}
      OBVIOUS
    <2> QED
      BY <2>1, <2>2
  <1>6. \A g \in Forms \ {f} : /\ Adding(g)' <=> Adding(g)
                               /\ Holds(g)' <=> Holds(g)
                               /\ Added(g)' <=> Added(g)
    BY <1>1, <1>4 DEF Adding, Holds, Added
  <1>7. ~Added(f)'
    BY <1>1, <1>4 DEF Added
  <1>8. \A g, h \in Forms : g # h /\ Adding(g)' /\ Adding(h)' => h \in rivals'[g]
    <2> SUFFICES ASSUME NEW g \in Forms, NEW h \in Forms, g # h, Adding(g)', Adding(h)'
                 PROVE  h \in rivals'[g]
      OBVIOUS
    <2>1. CASE g = f
      BY <1>3, <1>6, <2>1
    <2>2. CASE g # f
      <3>1. Adding(g) /\ rivals'[g] = rivals[g] \cup {f}
        BY <1>2, <1>6, <2>2
      <3>2. h = f \/ h \in rivals[g]
        BY <1>6, <3>1 DEF LoneInv
      <3> QED
        BY <3>1, <3>2
    <2> QED
      BY <2>1, <2>2
  <1>9. \A g, h \in Forms : g # h /\ Adding(g)' /\ rivals'[g] = {} => late'[h] # "addingUser"
    <2> SUFFICES ASSUME NEW g \in Forms, NEW h \in Forms, g # h, Adding(g)', rivals'[g] = {},
                        late[h] = "addingUser"
                 PROVE  FALSE
      BY <1>1
    <2>1. CASE g = f
      BY <1>3, <2>1
    <2>2. CASE g # f
      BY <1>5, <1>6, <2>2 DEF LoneInv
    <2> QED
      BY <2>1, <2>2
  <1>10. \A g \in inserted' : /\ pc'[g] \in {"uploading", "fetchingUrl", "done", "lost"}
                              /\ late'[g] # "addingUser"
    BY <1>1, <1>4 DEF LoneInv, TypeOK
  <1>11. \A g \in Forms : rivals'[g] = {} /\ Added(g)' => g \in users'
    BY <1>1, <1>5, <1>6, <1>7 DEF LoneInv
  <1>12. \A g \in inserted', h \in Forms : rivals'[g] = {} /\ Holds(h)' => g \in snapshot'[h]
    <2> SUFFICES ASSUME NEW g \in inserted, NEW h \in Forms, rivals'[g] = {}, Holds(h)'
                 PROVE  g \in snapshot'[h]
      BY <1>1
    <2>1. g \in Forms \ {f} /\ rivals[g] = {}
      BY <1>1, <1>5 DEF TypeOK
    <2>2. CASE h # f
      BY <1>4, <1>6, <2>1, <2>2 DEF LoneInv
    <2>3. CASE h = f
      <3>1. pc'[f] = "usersRead"
        BY <1>1, <1>4, <2>3 DEF Holds
      <3>2. PICK k \in Forms : /\ Shadows(k, device[f])
                               /\ snapshot' = [snapshot EXCEPT ![f] = userCollection(k)]
        BY <1>1, <3>1 DEF observeSingleEvent, TypeOK
      <3>3. Holds(k)
        BY <3>2 DEF Shadows, Holds
      <3>4. g \in snapshot[k]
        BY <2>1, <3>3 DEF LoneInv
      <3> QED
        BY <2>3, <3>2, <3>4 DEF userCollection, TypeOK
    <2> QED
      BY <2>2, <2>3
  <1> QED
    BY <1>8, <1>9, <1>10, <1>11, <1>12 DEF LoneInv

(* A form that ran alone is in the collection when any later one reads it, *)
(* and in whatever a form that is gone may still write.                    *)
LEMMA LoneStep == TypeOK /\ LoneInv /\ [Next]_vars => LoneInv'
  <1> SUFFICES ASSUME TypeOK, LoneInv, [Next]_vars PROVE LoneInv'
    OBVIOUS
  <1> USE DEF Added, Adding, Holds, serverVars, databaseVars, formVars, addressVars,
              putVars, screenVars, historyVars
  <1>0. /\ pc \in [Forms -> Stages] /\ late \in [Forms -> Requests \cup {"none"}]
        /\ wire \in [Forms -> {"none", "pending", "applied", "rejected"}]
        /\ \A f \in Forms : /\ wire[f] # "none" <=> pc[f] \in {"insertingUser", "addingUser"}
                            /\ late[f] # "none" => pc[f] = "lost"
        /\ \A f \in inserted : pc[f] \in {"uploading", "fetchingUrl", "done", "lost"}
    BY DEF TypeOK, LoneInv
  <1>1. ASSUME NEW f \in Forms,
               \/ registerBtnTapped(f) \/ UserExistsAnswered(f)
               \/ createUser(f) \/ SignUpRefused(f)
        PROVE  LoneInv'
    <2>1. /\ UNCHANGED <<users, snapshot, inserted, rivals, late, wire>>
          /\ \A g \in Forms : \/ pc'[g] = pc[g]
                              \/ pc[g] \in {"idle", "signingUp", "accepted"}
                                 /\ pc'[g] \in {"signingUp", "accepted", "refused"}
      BY <1>0, <1>1 DEF registerBtnTapped, UserExistsAnswered, createUser, SignUpRefused
    <2> QED
      BY <1>0, <2>1, LoneKept
  <1>2. ASSUME NEW f \in Forms, signUp(f) PROVE LoneInv'
    <2>1. /\ UNCHANGED <<users, snapshot, inserted, rivals, late>>
          /\ wire' = [wire EXCEPT ![f] = "pending"]
          /\ pc' = [pc EXCEPT ![f] = "insertingUser"] /\ pc[f] = "accepted"
      BY <1>2 DEF signUp, put
    <2>2. \A g \in Forms : /\ wire'[g] = IF g = f THEN "pending" ELSE wire[g]
                           /\ pc'[g] = IF g = f THEN "insertingUser" ELSE pc[g]
      BY <1>0, <2>1
    <2> QED
      BY <1>0, <2>1, <2>2, LoneKept
  <1>3. ASSUME NEW f \in Forms, ServerApplies(f) PROVE LoneInv'
    <2>1. /\ UNCHANGED <<late, pc, snapshot, inserted, rivals>>
          /\ wire' = [wire EXCEPT ![f] = "applied"]
          /\ \/ pc[f] = "insertingUser" /\ users' = users
             \/ pc[f] = "addingUser" /\ users' = snapshot[f] \cup {f}
      BY <1>3 DEF ServerApplies, Store, userCollection
    <2>2. \A g \in Forms : wire'[g] = IF g = f THEN "applied" ELSE wire[g]
      BY <1>0, <2>1
    <2>3. CASE pc[f] = "insertingUser"
      BY <1>0, <2>1, <2>2, <2>3, LoneKept
    <2>4. CASE pc[f] = "addingUser"
      BY <2>1, <2>2, <2>4, LoneStored
    <2> QED
      BY <2>1, <2>3, <2>4
  <1>4. ASSUME NEW f \in Forms, TakeLate(f) PROVE LoneInv'
    <2>1. /\ UNCHANGED <<pc, snapshot, wire, inserted, rivals>>
          /\ late' = [late EXCEPT ![f] = "none"]
      BY <1>4, LateKeeps
    <2>2. \A g \in Forms : late'[g] \in {late[g], "none"}
      BY <1>0, <2>1
    <2>3. \/ users' = users
          \/ late[f] = "addingUser" /\ users' = snapshot[f] \cup {f}
      BY <1>4 DEF TakeLate, LateApplied, LateDropped, Store, userCollection
    <2>4. CASE users' = users
      BY <2>1, <2>2, <2>4, LoneKept
    <2>5. CASE late[f] = "addingUser" /\ users' = snapshot[f] \cup {f}
      BY <2>1, <2>2, <2>5, LoneStored
    <2> QED
      BY <2>3, <2>4, <2>5
  <1>5. ASSUME NEW f \in Forms, ServerRejects(f) PROVE LoneInv'
    <2>1. /\ UNCHANGED <<users, snapshot, inserted, rivals, late, pc>>
          /\ wire' = [wire EXCEPT ![f] = "rejected"]
      BY <1>5 DEF ServerRejects
    <2>2. \A g \in Forms : wire'[g] = "applied" => wire[g] = "applied"
      BY <1>0, <2>1
    <2> QED
      BY <1>0, <2>1, <2>2, LoneKept
  <1>6. ASSUME NEW d \in Devices, ReadUsers(d) PROVE LoneInv'
    <2>1. /\ UNCHANGED <<users, inserted, rivals, late, wire>>
          /\ \A g \in Forms :
               \/ pc'[g] = pc[g] /\ snapshot'[g] = snapshot[g]
               \/ /\ pc[g] = "readingUsers"
                  /\ \/ pc'[g] = "usersRead" /\ snapshot'[g] = users
                     \/ pc'[g] = "denied"
      BY <1>0, <1>6 DEF ReadUsers, Waiting
    <2>2. \A f \in inserted : rivals[f] = {} => f \in users /\ f \in Forms
      BY DEF LoneInv, TypeOK
    <2>3. \A f \in Forms : /\ Adding(f)' => Adding(f)
                           /\ Added(f)' => Added(f)
                           /\ Holds(f)' => Holds(f) \/ snapshot'[f] = users
                           /\ Holds(f)' => snapshot'[f] \in {snapshot[f], users}
      BY <1>0, <2>1
    <2>4. \A f \in inserted : pc'[f] = pc[f]
      BY <1>0, <2>1 DEF TypeOK
    <2> HIDE DEF Added, Adding, Holds
    <2>5. \A f \in inserted', g \in Forms :
            rivals'[f] = {} /\ Holds(g)' => f \in snapshot'[g]
      BY <2>1, <2>2, <2>3 DEF LoneInv
    <2> QED
      BY <2>1, <2>3, <2>4, <2>5 DEF LoneInv
  <1>7. ASSUME NEW f \in Forms, addUser(f) PROVE LoneInv'
    <2>1. /\ UNCHANGED <<users, inserted, rivals, late>>
          /\ pc[f] = "usersRead" /\ wire' = [wire EXCEPT ![f] = "pending"]
          /\ \A g \in Forms :
               \/ pc'[g] = pc[g] /\ snapshot'[g] = snapshot[g]
               \/ /\ pc[g] = "readingUsers" /\ pc'[g] = "usersRead"
                  /\ snapshot'[g] = snapshot[f] \cup {f}
               \/ g = f /\ pc'[g] = "addingUser" /\ snapshot'[g] = snapshot[g]
      BY <1>0, <1>7 DEF addUser, put, Waiting, userCollection, TypeOK
    <2>2. \A g \in inserted : rivals[g] = {} => g \in snapshot[f]
      BY <2>1 DEF LoneInv
    <2>3. \A g \in Forms : wire'[g] = "applied" => wire[g] = "applied" /\ g # f
      BY <1>0, <2>1
    <2>4. \A g \in Forms : /\ Adding(g)' => Adding(g)
                           /\ Added(g)' => Added(g)
      BY <1>0, <2>1, <2>3
    <2>5. \A g \in inserted', h \in Forms :
            rivals'[g] = {} /\ Holds(h)' => g \in snapshot'[h]
      BY <2>1, <2>2 DEF LoneInv
    <2>6. \A g \in inserted : pc'[g] = pc[g]
      BY <1>0, <2>1 DEF TypeOK
    <2> HIDE DEF Added, Adding, Holds
    <2> QED
      BY <2>1, <2>4, <2>5, <2>6 DEF LoneInv
  <1>8. ASSUME NEW f \in Forms, UserAdded(f) PROVE LoneInv'
    <2>1. /\ UNCHANGED <<users, snapshot, late, rivals>>
          /\ pc[f] = "addingUser" /\ wire[f] = "applied" /\ late[f] = "none"
          /\ wire' = [wire EXCEPT ![f] = "none"]
          /\ \A g \in Forms : \/ pc'[g] = pc[g] /\ g # f
                              \/ g = f /\ pc'[g] \in {"uploading", "done"}
          /\ inserted' = inserted \cup {f}
      BY <1>0, <1>8 DEF UserAdded, Answered, PutDone
    <2>2. rivals[f] = {} => f \in users /\ \A g \in Forms \ {f} : ~Adding(g) /\ ~Holds(g)
      BY <2>1 DEF LoneInv
    <2>3. \A g \in Forms : /\ Adding(g)' => Adding(g)
                           /\ Added(g)' => Added(g)
                           /\ Holds(g)' => Holds(g) /\ g # f
      BY <1>0, <2>1
    <2>4. \A g \in inserted', h \in Forms :
            rivals'[g] = {} /\ Holds(h)' => g \in snapshot'[h]
      BY <2>1, <2>2, <2>3 DEF LoneInv
    <2>5. \A g \in inserted' : /\ pc'[g] \in {"uploading", "fetchingUrl", "done", "lost"}
                               /\ late'[g] # "addingUser"
      BY <1>0, <2>1 DEF TypeOK, LoneInv
    <2> HIDE DEF Added, Adding, Holds
    <2> QED
      BY <2>1, <2>3, <2>4, <2>5 DEF LoneInv
  <1>9. ASSUME NEW f \in Forms,
               InsertFailed(f) \/ downloadURL(f) \/ uploadProfilePicture(f)
        PROVE  LoneInv'
    <2>1. /\ UNCHANGED <<users, snapshot, inserted, rivals, late>>
          /\ \A g \in Forms : wire'[g] = wire[g] \/ wire'[g] = "none"
          /\ \A g \in Forms :
               \/ pc'[g] = pc[g]
               \/ pc[g] \in {"insertingUser", "addingUser"} /\ pc'[g] = "failed"
               \/ pc[g] \in {"uploading", "fetchingUrl"} /\ pc'[g] \in {"fetchingUrl", "done"}
      BY <1>0, <1>9 DEF InsertFailed, Answered, PutDone, downloadURL, uploadProfilePicture
    <2> QED
      BY <1>0, <2>1, LoneKept
  <1>11. ASSUME NEW d \in Devices, restoreState(d) \/ onDisconnect(d) PROVE LoneInv'
    <2>1. /\ UNCHANGED <<users, snapshot, inserted, rivals, late, pc>>
          /\ \A g \in Forms : wire'[g] = "applied" => wire[g] = "applied"
      BY <1>0, <1>11 DEF restoreState, onDisconnect, Unsent
    <2> QED
      BY <1>0, <2>1, LoneKept
  <1>12. ASSUME NEW d \in Devices, Crash(d) PROVE LoneInv'
    <2>1. UNCHANGED <<users, snapshot, inserted, rivals>>
      BY <1>12 DEF Crash
    <2>2. \A g \in Forms : /\ pc'[g] \in {pc[g], "lost"}
                           /\ wire'[g] \in {wire[g], "none"}
                           /\ late'[g] \in {late[g], "none", pc[g]}
      <3>1. \A g \in Forms : wire'[g] \in {wire[g], "none"}
        BY <1>0, <1>12 DEF Crash
      <3> QED
        BY <1>12, <3>1, CrashKeeps
    <2> QED
      BY <1>0, <2>1, <2>2, LoneKept
  <1>13. CASE UNCHANGED vars
    BY <1>0, <1>13, LoneKept DEF vars
  <1> HIDE DEF Added, Adding, Holds
  <1> QED
    BY <1>1, <1>2, <1>3, <1>4, <1>5, <1>6, <1>7, <1>8, <1>9, <1>11, <1>12, <1>13, LoneRead
    DEF Next, SignUp, Serve, Insert, Upload

(* A user who was added while no other registration was adding one, and no *)
(* put of a registration that died was still on its way, stays in the      *)
(* directory.                                                              *)
THEOREM LoneUsersAreKept == Spec => []LoneUserIsKept
  <1>1. Init => LoneInv
    BY DEF Init, LoneInv, Added, Adding, Holds
  <1>2. TypeOK /\ LoneInv => LoneUserIsKept
    BY DEF TypeOK, LoneInv, Added, LoneUserIsKept
  <1> QED
    BY TypeInit, TypeStep, LoneStep, <1>1, <1>2, PTL DEF Spec

-----------------------------------------------------------------------------
(* The collection as a shared list.                                        *)

(* Each step of a registration is a step of SharedList, or none.           *)
LEMMA CollectionStep ==
    TypeOK /\ [Next]_vars => [Collection!Next]_(Collection!sharedList)
  <1> SUFFICES ASSUME TypeOK, [Next]_vars
               PROVE  Collection!Next \/ UNCHANGED Collection!sharedList
    OBVIOUS
  <1> DEFINE held == [f \in Forms |->
                        IF \/ pc[f] \in {"usersRead", "addingUser"}
                           \/ late[f] = "addingUser" THEN "holding"
                        ELSE IF pc[f] \in Ended \cup {"uploading", "fetchingUrl"}
                             THEN "ended" ELSE "out"]
             Goal == Collection!Next \/ UNCHANGED Collection!sharedList
  <1>a. ASSUME \A f \in Forms : held'[f] = held[f], UNCHANGED <<users, snapshot>>
        PROVE  Goal
    <2>1. held' = held
      BY <1>a
    <2> QED
      BY <1>a, <2>1 DEF Collection!sharedList
  <1>b. ASSUME NEW some \in SUBSET Forms, UNCHANGED <<users, snapshot>>,
               \A w \in Forms : held'[w] = IF w \in some THEN "ended" ELSE held[w]
        PROVE  Goal
    <2>1. held' = [w \in Forms |-> IF w \in some THEN "ended" ELSE held[w]]
      BY <1>b
    <2>2. Collection!Leave(some)
      BY <1>b, <2>1 DEF Collection!Leave
    <2> HIDE DEF held
    <2> QED
      BY <2>2 DEF Collection!Next
  <1>c. ASSUME NEW some \in SUBSET Forms, NEW value \in Collection!Readable,
               UNCHANGED users, snapshot \in [Forms -> SUBSET Forms],
               snapshot' = [w \in Forms |-> IF w \in some THEN value ELSE snapshot[w]],
               \A w \in some : held[w] = "out",
               \A w \in Forms : held'[w] = IF w \in some THEN "holding" ELSE held[w]
        PROVE  Goal
    <2>1. held' = [w \in Forms |-> IF w \in some THEN "holding" ELSE held[w]]
      BY <1>c
    <2>2. Collection!Take(some, value)
      BY <1>c, <2>1 DEF Collection!Take
    <2> HIDE DEF held
    <2> QED
      BY <1>c, <2>2, Zenon DEF Collection!Next
  <1>0. /\ pc \in [Forms -> Stages] /\ late \in [Forms -> Requests \cup {"none"}]
        /\ \A f \in Forms : /\ wire[f] # "none" <=> pc[f] \in {"insertingUser", "addingUser"}
                            /\ late[f] # "none" => pc[f] = "lost"
        /\ snapshot \in [Forms -> SUBSET Forms]
    BY DEF TypeOK
  <1>00. \A f \in Forms : held[f] = IF \/ pc[f] \in {"usersRead", "addingUser"}
                                      \/ late[f] = "addingUser" THEN "holding"
                                   ELSE IF pc[f] \in Ended \cup {"uploading", "fetchingUrl"}
                                        THEN "ended" ELSE "out"
    OBVIOUS
  <1> USE DEF Ended, serverVars, databaseVars, formVars, addressVars, putVars, screenVars,
              historyVars
  <1>1. ASSUME NEW f \in Forms,
               \/ registerBtnTapped(f) \/ createUser(f) \/ signUp(f)
               \/ uploadProfilePicture(f) \/ downloadURL(f)
        PROVE  Goal
    <2>1. UNCHANGED <<users, snapshot, late>>
      BY <1>1 DEF registerBtnTapped, createUser, signUp, uploadProfilePicture, downloadURL
    <2>2. \A g \in Forms :
            \/ pc'[g] = pc[g]
            \/ /\ pc[g] \in {"idle", "signingUp", "accepted"}
               /\ pc'[g] \in {"signingUp", "accepted", "insertingUser"}
            \/ /\ pc[g] \in {"uploading", "fetchingUrl"}
               /\ pc'[g] \in {"fetchingUrl", "done"}
      BY <1>0, <1>1
      DEF registerBtnTapped, createUser, signUp, uploadProfilePicture, downloadURL
    <2>3. \A g \in Forms : held'[g] = held[g]
      BY <2>1, <2>2
    <2> HIDE DEF held, Goal
    <2> QED
      BY <1>a, <2>1, <2>3
  <1>2. ASSUME NEW d \in Devices, restoreState(d) \/ onDisconnect(d) PROVE Goal
    BY <1>a, <1>2 DEF restoreState, onDisconnect
  <1>3. ASSUME NEW f \in Forms, UserExistsAnswered(f) \/ ServerRejects(f) PROVE Goal
    BY <1>a, <1>3 DEF UserExistsAnswered, ServerRejects
  <1>4. ASSUME NEW f \in Forms, SignUpRefused(f) \/ InsertFailed(f) \/ UserAdded(f)
        PROVE  Goal
    <2>1. UNCHANGED <<users, snapshot, late>>
      BY <1>4 DEF SignUpRefused, InsertFailed, UserAdded
    <2>2. /\ pc[f] \in {"signingUp", "accepted", "insertingUser", "addingUser"}
          /\ \A g \in Forms \ {f} : pc'[g] = pc[g]
          /\ pc'[f] \in {"refused", "failed", "uploading", "done"}
      BY <1>0, <1>4 DEF SignUpRefused, InsertFailed, UserAdded, Answered
    <2>3. \A g \in Forms : held'[g] = IF g \in {f} THEN "ended" ELSE held[g]
      BY <1>0, <2>1, <2>2
    <2> HIDE DEF held, Goal
    <2> QED
      BY <1>b, <2>1, <2>3
  <1>5. ASSUME NEW d \in Devices, Crash(d) PROVE Goal
    <2>1. UNCHANGED <<users, snapshot>>
      BY <1>5 DEF Crash
    <2>2. \A f \in Forms : /\ pc'[f] \in {pc[f], "lost"}
                           /\ late'[f] \in {late[f], "none", pc[f]}
                           /\ late'[f] # "none" => pc'[f] = "lost"
      BY <1>5, CrashKeeps
    <2>3. \A f \in Forms : \/ late'[f] = "addingUser" /\ held'[f] = held[f]
                           \/ late'[f] # "addingUser" /\ held'[f] \in {held[f], "ended"}
      BY <1>0, <2>2
    <2>4. PICK some \in SUBSET Forms : some = {f \in Forms : held'[f] = "ended"}
      OBVIOUS
    <2>5. \A w \in Forms : held'[w] = IF w \in some THEN "ended" ELSE held[w]
      <3> HIDE DEF held
      <3> QED
        BY <2>3, <2>4
    <2> HIDE DEF held, Goal
    <2> QED
      BY <1>b, <2>1, <2>5
  <1>6. ASSUME NEW f \in Forms, ServerApplies(f) PROVE Goal
    <2>1. UNCHANGED <<pc, snapshot, late>>
      BY <1>6 DEF ServerApplies
    <2>2. CASE pc[f] = "insertingUser"
      BY <1>a, <1>6, <2>1, <2>2 DEF ServerApplies, Store
    <2>3. CASE pc[f] # "insertingUser"
      <3>1. f \in Collection!Holding /\ users' = snapshot[f] \cup {f}
        BY <1>6, <2>3 DEF ServerApplies, Store, userCollection, Collection!Holding
      <3>2. held' = held
        BY <2>1
      <3>3. Collection!Write(f)
        BY <2>1, <3>1, <3>2 DEF Collection!Write
      <3> QED
        BY <3>3 DEF Collection!Next
    <2> QED
      BY <2>2, <2>3
  <1>7. ASSUME NEW f \in Forms, TakeLate(f) PROVE Goal
    <2>1. /\ UNCHANGED <<pc, snapshot>> /\ late' = [late EXCEPT ![f] = "none"]
          /\ pc[f] = "lost"
      BY <1>0, <1>7, LateKeeps
    <2>2. \A g \in Forms : late'[g] = IF g = f THEN "none" ELSE late[g]
      BY <1>0, <2>1
    <2>3. CASE late[f] # "addingUser"
      <3>1. UNCHANGED users
        BY <1>7, <2>3 DEF TakeLate, LateApplied, LateDropped, Store
      <3>2. \A g \in Forms : held'[g] = held[g]
        BY <2>1, <2>2, <2>3
      <3> HIDE DEF held, Goal
      <3> QED
        BY <1>a, <2>1, <3>1, <3>2
    <2>4. CASE late[f] = "addingUser"
      <3>1. \A g \in Forms : held'[g] = IF g \in {f} THEN "ended" ELSE held[g]
        BY <2>1, <2>2
      <3>2. CASE UNCHANGED users
        <4> HIDE DEF held, Goal
        <4> QED
          BY <1>b, <2>1, <3>1, <3>2
      <3>3. CASE users' = snapshot[f] \cup {f}
        <4>1. f \in Collection!Holding
          BY <2>4 DEF Collection!Holding
        <4>2. held' = [held EXCEPT ![f] = "ended"]
          BY <3>1
        <4>3. Collection!Write(f)
          BY <2>1, <3>3, <4>1, <4>2 DEF Collection!Write
        <4> QED
          BY <4>3 DEF Collection!Next
      <3> QED
        BY <1>7, <2>4, <3>2, <3>3
        DEF TakeLate, LateApplied, LateDropped, Store, userCollection
    <2> QED
      BY <2>3, <2>4
  <1>8. ASSUME NEW f \in Forms, insertUser(f) PROVE Goal
    <2>1. /\ UNCHANGED <<users, late>> /\ pc[f] = "insertingUser" /\ observeSingleEvent(f)
          /\ late[f] = "none"
      BY <1>0, <1>8 DEF insertUser
    <2>2. ASSUME NEW g \in Forms, Shadows(g, device[f]),
                 pc' = [pc EXCEPT ![f] = "usersRead"],
                 snapshot' = [snapshot EXCEPT ![f] = userCollection(g)]
          PROVE  Goal
      <3>1. PICK value : value = userCollection(g)
        OBVIOUS
      <3>2. g \in Collection!Holding
        BY <2>2 DEF Shadows, Collection!Holding
      <3>3. value \in Collection!Readable
        BY <3>1, <3>2 DEF Collection!Readable, userCollection
      <3>4. snapshot' = [w \in Forms |-> IF w \in {f} THEN value ELSE snapshot[w]]
        BY <1>0, <2>2, <3>1
      <3>5. held[f] = "out"
        BY <2>1
      <3>6. \A w \in Forms : held'[w] = IF w \in {f} THEN "holding" ELSE held[w]
        BY <1>0, <2>1, <2>2
      <3> HIDE DEF held, Goal
      <3>7. \A w \in {f} : held[w] = "out"
        BY <3>5
      <3> QED
        BY <1>0, <1>c, <2>1, <3>3, <3>4, <3>6, <3>7
    <2>3. CASE pc' = [pc EXCEPT ![f] = "readingUsers"] /\ UNCHANGED snapshot
      <3>1. \A w \in Forms : held'[w] = held[w]
        BY <1>0, <2>1, <2>3
      <3> HIDE DEF held, Goal
      <3> QED
        BY <1>a, <2>1, <2>3, <3>1
    <2> QED
      BY <2>1, <2>2, <2>3 DEF observeSingleEvent
  <1>9. ASSUME NEW d \in Devices, ReadUsers(d) PROVE Goal
    <2>1. PICK some \in SUBSET Forms : some = Waiting(d)
      BY DEF Waiting, On
    <2>2. /\ UNCHANGED <<users, late>>
          /\ \A w \in some : pc[w] = "readingUsers" /\ late[w] = "none"
      BY <1>0, <1>9, <2>1 DEF ReadUsers, Waiting
    <2>3. CASE /\ pc' = [f \in Forms |-> IF f \in some THEN "denied" ELSE pc[f]]
               /\ UNCHANGED snapshot
      <3>1. \A w \in Forms : held'[w] = IF w \in some THEN "ended" ELSE held[w]
        BY <2>2, <2>3
      <3> HIDE DEF held, Goal
      <3> QED
        BY <1>b, <2>2, <2>3, <3>1
    <2>4. CASE /\ pc' = [f \in Forms |-> IF f \in some THEN "usersRead" ELSE pc[f]]
               /\ snapshot' = [f \in Forms |-> IF f \in some THEN users ELSE snapshot[f]]
      <3>1. PICK value : value = users
        OBVIOUS
      <3>2. value \in Collection!Readable
        BY <3>1 DEF Collection!Readable
      <3>3. \A w \in Forms : held'[w] = IF w \in some THEN "holding" ELSE held[w]
        BY <2>2, <2>4
      <3>4. \A w \in some : held[w] = "out"
        BY <2>2
      <3>5. snapshot' = [w \in Forms |-> IF w \in some THEN value ELSE snapshot[w]]
        BY <2>4, <3>1
      <3> HIDE DEF held, Goal
      <3> QED
        BY <1>0, <1>c, <2>2, <3>2, <3>3, <3>4, <3>5
    <2> QED
      BY <1>9, <2>1, <2>3, <2>4 DEF ReadUsers
  <1>10. ASSUME NEW f \in Forms, addUser(f) PROVE Goal
    <2>1. PICK some \in SUBSET Forms : some = Waiting(device[f])
      BY DEF Waiting, On
    <2>2. /\ UNCHANGED <<users, late>> /\ pc[f] = "usersRead"
          /\ \A w \in some : pc[w] = "readingUsers" /\ late[w] = "none"
      BY <1>0, <1>10, <2>1 DEF addUser, Waiting
    <2>3. /\ pc' = [g \in Forms |-> IF g = f THEN "addingUser"
                                    ELSE IF g \in some THEN "usersRead" ELSE pc[g]]
          /\ snapshot' = [g \in Forms |-> IF g \in some THEN userCollection(f)
                                          ELSE snapshot[g]]
      BY <1>10, <2>1 DEF addUser
    <2>4. PICK value : value = userCollection(f)
      OBVIOUS
    <2>5. f \in Collection!Holding
      BY <2>2 DEF Collection!Holding
    <2>6. value \in Collection!Readable
      BY <2>4, <2>5 DEF Collection!Readable, userCollection
    <2>7. \A w \in Forms : held'[w] = IF w \in some THEN "holding" ELSE held[w]
      BY <2>2, <2>3
    <2>8. \A w \in some : held[w] = "out"
      BY <2>2
    <2>9. snapshot' = [w \in Forms |-> IF w \in some THEN value ELSE snapshot[w]]
      BY <2>3, <2>4
    <2> HIDE DEF held, Goal
    <2> QED
      BY <1>0, <1>c, <2>2, <2>6, <2>7, <2>8, <2>9
  <1>11. ASSUME UNCHANGED vars PROVE Goal
    BY <1>a, <1>11 DEF vars
  <1> HIDE DEF Goal, held, Ended, serverVars, databaseVars, formVars, addressVars, putVars,
               screenVars, historyVars
  <1>12. Goal
    BY <1>1, <1>2, <1>3, <1>4, <1>5, <1>6, <1>7, <1>8, <1>9, <1>10, <1>11
    DEF Next, SignUp, Serve, Insert, Upload
  <1> QED
    BY <1>12 DEF Goal

(* The collection of users is used as a shared list is: no write of it     *)
(* reaches the server before its read or after its answer, and a late one  *)
(* ends the form.                                                          *)
THEOREM CollectionIsSharedList == Spec => ImplementsSharedList
  <1>1. Init => Collection!Init
    BY DEF Init, Ended, Collection!Init
  <1> QED
    BY TypeInit, TypeStep, CollectionStep, <1>1, PTL
    DEF Spec, ImplementsSharedList, Collection!Spec

-----------------------------------------------------------------------------
(* Every registration ends.                                                *)

\* The stages that may come directly after each unfinished one.
After(stage) ==
    CASE stage = "signingUp" -> {"accepted", "refused", "lost"}
      [] stage = "accepted" -> {"insertingUser", "refused", "lost"}
      [] stage = "insertingUser" -> {"readingUsers", "usersRead", "failed", "lost"}
      [] stage = "readingUsers" -> {"usersRead", "denied", "lost"}
      [] stage = "usersRead" -> {"addingUser", "lost"}
      [] stage = "addingUser" -> {"uploading", "done", "failed", "lost"}
      [] stage = "uploading" -> {"fetchingUrl", "done", "lost"}
      [] stage = "fetchingUrl" -> {"done", "lost"}
      [] stage = "idle" -> {"signingUp"}
      [] OTHER -> {}

(* A chain goes through its stages in order: no callback runs twice, and   *)
(* nothing follows an end.                                                 *)
ChainGoesForward == [][\A f \in Forms : pc'[f] # pc[f] => pc'[f] \in After(pc[f])]_vars

(* One step takes a chain to the next stage at most.                       *)
LEMMA StageStep ==
    ASSUME TypeOK, [Next]_vars, NEW f \in Forms
    PROVE  pc'[f] = pc[f] \/ pc'[f] \in After(pc[f])
  <1> DEFINE Goal == pc'[f] = pc[f] \/ pc'[f] \in After(pc[f])
  <1>0. /\ pc \in [Forms -> Stages]
        /\ \A g \in Forms : wire[g] # "none" => pc[g] \in {"insertingUser", "addingUser"}
    BY DEF TypeOK
  <1> USE DEF After
  <1>1. ASSUME NEW g \in Forms, registerBtnTapped(g) \/ UserExistsAnswered(g) \/ SignUp(g)
        PROVE  Goal
    BY <1>0, <1>1 DEF registerBtnTapped, UserExistsAnswered, SignUp, createUser,
       SignUpRefused, signUp
  <1>2. ASSUME NEW g \in Forms, Serve(g) \/ Upload(g) \/ UserAdded(g) PROVE Goal
    BY <1>0, <1>2 DEF Serve, ServerApplies, ServerRejects, Upload, uploadProfilePicture,
       downloadURL, UserAdded
  <1>3. ASSUME NEW g \in Forms, insertUser(g) PROVE Goal
    BY <1>0, <1>3 DEF insertUser, observeSingleEvent
  <1>4. ASSUME NEW g \in Forms, addUser(g) PROVE Goal
    BY <1>0, <1>4 DEF addUser, Waiting
  <1>5. ASSUME NEW g \in Forms, InsertFailed(g) PROVE Goal
    <2>1. pc[g] \in {"insertingUser", "addingUser"} /\ pc' = [pc EXCEPT ![g] = "failed"]
      BY <1>0, <1>5 DEF InsertFailed, Answered
    <2> QED
      BY <1>0, <2>1
  <1>6. ASSUME NEW d \in Devices, ReadUsers(d) PROVE Goal
    BY <1>0, <1>6 DEF ReadUsers, Waiting
  <1>7. ASSUME NEW d \in Devices, restoreState(d) \/ onDisconnect(d) PROVE Goal
    BY <1>7 DEF restoreState, onDisconnect, formVars
  <1>8. ASSUME NEW d \in Devices, Crash(d) PROVE Goal
    <2>1. pc'[f] = pc[f] \/ (pc[f] \notin {"idle"} \cup Ended /\ pc'[f] = "lost")
      BY <1>0, <1>8 DEF Crash
    <2>2. pc[f] \notin {"idle"} \cup Ended =>
            pc[f] \in {"signingUp", "accepted", "insertingUser", "readingUsers", "usersRead",
                      "addingUser", "uploading", "fetchingUrl"}
      BY <1>0 DEF Ended, Stages
    <2> QED
      BY <2>1, <2>2
  <1>9. ASSUME NEW g \in Forms, TakeLate(g) PROVE Goal
    BY <1>9, LateKeeps DEF formVars
  <1>10. ASSUME UNCHANGED vars PROVE Goal
    BY <1>10 DEF vars, formVars
  <1> HIDE DEF Goal, After
  <1>11. Goal
    BY <1>1, <1>2, <1>3, <1>4, <1>5, <1>6, <1>7, <1>8, <1>9, <1>10 DEF Next, Insert
  <1> QED
    BY <1>11 DEF Goal

(* The stages of a registration only go forward.                           *)
THEOREM ChainsGoForward == Spec => ChainGoesForward
  <1>1. TypeOK /\ [Next]_vars
          => [\A f \in Forms : pc'[f] # pc[f] => pc'[f] \in After(pc[f])]_vars
    BY StageStep
  <1> QED
    BY <1>1, TypeCorrect, PTL DEF Spec, ChainGoesForward

(* Nobody moves a press to another device.                                 *)
LEMMA DeviceStep == [Next]_vars => device' = device
  <1> USE DEF vars, screenVars
  <1>1. ASSUME NEW f \in Forms, TakeLate(f) PROVE device' = device
    BY <1>1, LateKeeps
  <1> QED
    BY <1>1
    DEF Next, SignUp, Serve, Insert, Upload, registerBtnTapped, UserExistsAnswered,
        createUser, SignUpRefused, signUp, ServerApplies, ServerRejects, insertUser,
        addUser, UserAdded, InsertFailed, uploadProfilePicture, downloadURL, ReadUsers,
        restoreState, onDisconnect, Crash

(* The puts ahead of one are of its device, and not behind it as well.     *)
QueueInv ==
    \A f, g \in Forms : wire[f] # "none" /\ g \in ahead[f] =>
        g # f /\ device[g] = device[f] /\ wire[g] # "none" /\ f \notin ahead[g]

(* The put of a form enters the queue of its device behind the others.     *)
LEMMA QueuePut ==
    ASSUME TypeOK, QueueInv, NEW f \in Forms, put(f), wire[f] = "none", device' = device
    PROVE  QueueInv'
  <1>1. /\ \A g \in Forms : wire'[g] = IF g = f THEN "pending" ELSE wire[g]
        /\ \A g \in Forms : ahead'[g] = IF g = f THEN Outstanding(device[f]) ELSE ahead[g]
    BY DEF put, TypeOK
  <1>2. \A g \in Forms : g \in Outstanding(device[f]) <=>
                           device[g] = device[f] /\ wire[g] # "none"
    BY DEF Outstanding, On
  <1>3. SUFFICES ASSUME NEW g \in Forms, NEW h \in Forms, wire'[g] # "none", h \in ahead'[g]
                 PROVE  /\ h # g /\ device[h] = device[g]
                        /\ wire'[h] # "none" /\ g \notin ahead'[h]
    BY DEF QueueInv
  <1>4. CASE g = f
    <2>1. h # f /\ device[h] = device[f] /\ wire[h] # "none"
      BY <1>1, <1>2, <1>3, <1>4
    <2>2. f \notin ahead[h]
      BY <2>1 DEF QueueInv
    <2> QED
      BY <1>1, <1>4, <2>1, <2>2
  <1>5. CASE g # f
    <2>1. h # g /\ device[h] = device[g] /\ wire[h] # "none" /\ g \notin ahead[h]
      BY <1>1, <1>3, <1>5 DEF QueueInv
    <2>2. h # f
      BY <2>1
    <2> QED
      BY <1>1, <2>1, <2>2
  <1> QED
    BY <1>4, <1>5

(* Puts that are answered, or gone with their app, leave the queue.        *)
LEMMA QueueLeft ==
    ASSUME TypeOK, QueueInv, device' = device,
           \A f \in Forms : /\ wire'[f] # "none" => wire[f] # "none"
                            /\ ahead'[f] \subseteq ahead[f],
           \A f, g \in Forms : /\ wire'[f] # "none" /\ g \in ahead'[f]
                               /\ device[f] = device[g] /\ wire[g] # "none"
                               => wire'[g] # "none"
    PROVE  QueueInv'
  <1> SUFFICES ASSUME NEW f \in Forms, NEW g \in Forms, wire'[f] # "none", g \in ahead'[f]
               PROVE  /\ g # f /\ device[g] = device[f]
                      /\ wire'[g] # "none" /\ f \notin ahead'[g]
    BY DEF QueueInv
  <1>1. g # f /\ device[g] = device[f] /\ wire[g] # "none" /\ f \notin ahead[g]
    BY DEF QueueInv
  <1> QED
    BY <1>1

LEMMA QueueStep == TypeOK /\ QueueInv /\ [Next]_vars => QueueInv'
  <1> SUFFICES ASSUME TypeOK, QueueInv, [Next]_vars PROVE QueueInv'
    OBVIOUS
  <1>0. /\ wire \in [Forms -> {"none", "pending", "applied", "rejected"}]
        /\ \A g \in Forms : wire[g] # "none" <=> pc[g] \in {"insertingUser", "addingUser"}
        /\ ahead \in [Forms -> SUBSET Forms]
        /\ device' = device
    BY DeviceStep DEF TypeOK
  <1> USE DEF formVars, putVars
  <1>1. ASSUME NEW f \in Forms,
               \/ registerBtnTapped(f) \/ UserExistsAnswered(f)
               \/ createUser(f) \/ SignUpRefused(f) \/ Upload(f)
        PROVE  QueueInv'
    <2>1. UNCHANGED <<wire, ahead>>
      BY <1>1 DEF registerBtnTapped, UserExistsAnswered, createUser, SignUpRefused,
         Upload, uploadProfilePicture, downloadURL
    <2> QED
      BY <1>0, <2>1, QueueLeft
  <1>2. ASSUME NEW f \in Forms, signUp(f) \/ addUser(f) PROVE QueueInv'
    BY <1>0, <1>2, QueuePut DEF signUp, addUser
  <1>3. ASSUME NEW f \in Forms, Serve(f) PROVE QueueInv'
    <2>1. /\ \A g \in Forms : wire'[g] # "none" <=> wire[g] # "none"
          /\ UNCHANGED ahead
      BY <1>0, <1>3 DEF Serve, ServerApplies, ServerRejects, NextOnWire
    <2> QED
      BY <1>0, <2>1, QueueLeft
  <1>4. ASSUME NEW f \in Forms, insertUser(f) \/ UserAdded(f) \/ InsertFailed(f)
        PROVE  QueueInv'
    <2>1. PutDone(f)
      BY <1>4 DEF insertUser, UserAdded, InsertFailed, Answered
    <2>2. \A g \in Forms : /\ wire'[g] = IF g = f THEN "none" ELSE wire[g]
                           /\ ahead'[g] = ahead[g] \ {f}
      BY <1>0, <2>1 DEF PutDone
    <2> QED
      BY <1>0, <2>2, QueueLeft
  <1>5. ASSUME NEW d \in Devices, ReadUsers(d) \/ restoreState(d) PROVE QueueInv'
    <2>1. UNCHANGED <<wire, ahead>>
      BY <1>5 DEF ReadUsers, restoreState
    <2> QED
      BY <1>0, <2>1, QueueLeft
  <1>6. ASSUME NEW d \in Devices, onDisconnect(d) PROVE QueueInv'
    <2>1. /\ \A g \in Forms : wire'[g] # "none" <=> wire[g] # "none"
          /\ UNCHANGED ahead
      BY <1>0, <1>6 DEF onDisconnect, Unsent
    <2> QED
      BY <1>0, <2>1, QueueLeft
  <1>7. ASSUME NEW d \in Devices, Crash(d) PROVE QueueInv'
    <2>1. /\ \A g \in Forms : wire'[g] = IF device[g] = d THEN "none" ELSE wire[g]
          /\ UNCHANGED ahead
      BY <1>0, <1>7 DEF Crash, On
    <2> QED
      BY <1>0, <2>1, QueueLeft
  <1>8. ASSUME NEW f \in Forms, TakeLate(f) PROVE QueueInv'
    <2>1. UNCHANGED <<wire, ahead>>
      BY <1>8, LateKeeps
    <2> QED
      BY <1>0, <2>1, QueueLeft
  <1>9. CASE UNCHANGED vars
    BY <1>0, <1>9, QueueLeft DEF vars
  <1> QED
    BY <1>1, <1>2, <1>3, <1>4, <1>5, <1>6, <1>7, <1>8, <1>9 DEF Next, SignUp, Insert

LEMMA QueueHolds == Spec => []QueueInv
  <1>1. Init => QueueInv
    BY DEF Init, QueueInv
  <1> QED
    BY <1>1, QueueStep, TypeCorrect, PTL DEF Spec

Putting(f) == pc[f] \in {"insertingUser", "addingUser"}

(* While a put waits, nobody gets ahead of it, and one that was leaves the *)
(* queue once its stage is over.                                           *)
LEMMA AheadStep ==
    ASSUME TypeOK, QueueInv, [Next]_vars, NEW f \in Forms, Putting(f), pc'[f] = pc[f]
    PROVE  /\ ahead'[f] \subseteq ahead[f]
           /\ \A g \in ahead'[f] : pc'[g] = pc[g]
  <1> DEFINE Goal == ahead'[f] \subseteq ahead[f] /\ \A g \in ahead'[f] : pc'[g] = pc[g]
  <1>0. /\ pc \in [Forms -> Stages] /\ ahead \in [Forms -> SUBSET Forms]
        /\ \A g \in Forms : wire[g] # "none" <=> Putting(g)
        /\ \A g \in ahead[f] : g \in Forms /\ Putting(g) /\ device[g] = device[f]
    BY DEF TypeOK, QueueInv, Putting
  <1> USE DEF Putting, formVars, putVars
  <1>1. ASSUME NEW g \in Forms,
               \/ registerBtnTapped(g) \/ UserExistsAnswered(g)
               \/ createUser(g) \/ SignUpRefused(g) \/ Upload(g) \/ Serve(g)
        PROVE  Goal
    <2>1. /\ UNCHANGED ahead
          /\ \A h \in Forms : Putting(h) => pc'[h] = pc[h]
      BY <1>0, <1>1 DEF registerBtnTapped, UserExistsAnswered, createUser, SignUpRefused,
         Upload, uploadProfilePicture, downloadURL, Serve, ServerApplies, ServerRejects
    <2> QED
      BY <1>0, <2>1
  <1>2. ASSUME NEW g \in Forms, signUp(g) \/ addUser(g) PROVE Goal
    <2>1. /\ ~Putting(g) /\ ahead'[f] = ahead[f]
          /\ \A h \in Forms : Putting(h) => pc'[h] = pc[h]
      BY <1>0, <1>2 DEF signUp, addUser, put, Waiting
    <2> QED
      BY <1>0, <2>1
  <1>3. ASSUME NEW g \in Forms, insertUser(g) \/ UserAdded(g) \/ InsertFailed(g)
        PROVE  Goal
    <2>1. PutDone(g) /\ \A h \in Forms \ {g} : pc'[h] = pc[h]
      BY <1>0, <1>3 DEF insertUser, UserAdded, InsertFailed, Answered, observeSingleEvent
    <2>2. ahead'[f] = ahead[f] \ {g}
      BY <2>1 DEF PutDone
    <2> QED
      BY <1>0, <2>1, <2>2
  <1>4. ASSUME NEW d \in Devices, ReadUsers(d) \/ restoreState(d) \/ onDisconnect(d)
        PROVE  Goal
    <2>1. /\ UNCHANGED ahead
          /\ \A h \in Forms : Putting(h) => pc'[h] = pc[h]
      BY <1>0, <1>4 DEF ReadUsers, Waiting, restoreState, onDisconnect
    <2> QED
      BY <1>0, <2>1
  <1>5. ASSUME NEW d \in Devices, Crash(d) PROVE Goal
    <2>1. /\ UNCHANGED ahead
          /\ device[f] # d
          /\ \A h \in Forms : device[h] # d => pc'[h] = pc[h]
      <3>1. UNCHANGED ahead
        BY <1>5 DEF Crash
      <3>2. device[f] # d
        BY <1>0, <1>5, CrashKeeps DEF Ended
      <3>3. \A h \in Forms : device[h] # d => pc'[h] = pc[h]
        BY <1>5, CrashKeeps
      <3> QED
        BY <3>1, <3>2, <3>3
    <2> QED
      BY <1>0, <2>1
  <1>6. ASSUME NEW g \in Forms, TakeLate(g) PROVE Goal
    BY <1>0, <1>6, LateKeeps
  <1>7. ASSUME UNCHANGED vars PROVE Goal
    BY <1>0, <1>7 DEF vars
  <1> HIDE DEF Goal, Putting
  <1>8. Goal
    BY <1>1, <1>2, <1>3, <1>4, <1>5, <1>6, <1>7 DEF Next, SignUp, Insert
  <1> QED
    BY <1>8 DEF Goal

(* A connection that is there, and not lost, stays until the app dies.     *)
LEMMA ConnectionStays ==
    ASSUME TypeOK, [Next]_vars, NEW d \in Devices, ~onDisconnect(d), Online(d),
           NEW f \in Forms, device[f] = d, pc[f] \notin Ended \cup {"idle"}
    PROVE  Online(d)' \/ pc'[f] \in After(pc[f])
  <1> USE DEF Online
  <1>1. ASSUME NEW g \in Forms, \/ registerBtnTapped(g) \/ UserExistsAnswered(g)
                                \/ SignUp(g) \/ Serve(g) \/ Insert(g) \/ Upload(g)
        PROVE  link' = link
    BY <1>1 DEF registerBtnTapped, UserExistsAnswered, SignUp, createUser, SignUpRefused,
       signUp, Serve, ServerApplies, ServerRejects, Insert, insertUser, addUser, UserAdded,
       InsertFailed, Upload, uploadProfilePicture, downloadURL
  <1>2. ASSUME NEW g \in Forms, TakeLate(g) PROVE link' = link
    BY <1>2, LateKeeps
  <1>3. ASSUME NEW e \in Devices, ReadUsers(e) \/ restoreState(e) \/ onDisconnect(e)
        PROVE  link'[d] = "connected"
    BY <1>3 DEF TypeOK, ReadUsers, restoreState, onDisconnect
  <1>4. ASSUME NEW e \in Devices, Crash(e)
        PROVE  link'[d] = "connected" \/ pc'[f] \in After(pc[f])
    <2>1. CASE e # d
      BY <1>4, <2>1 DEF TypeOK, Crash
    <2>2. CASE e = d
      <3>1. pc'[f] # pc[f]
        BY <1>4, <2>2, CrashKeeps
      <3> QED
        BY <3>1, StageStep
    <2> QED
      BY <2>1, <2>2
  <1>5. CASE UNCHANGED vars
    BY <1>5 DEF vars
  <1> QED
    BY <1>1, <1>2, <1>3, <1>4, <1>5 DEF Next

(* So does the verdict of the server.                                      *)
LEMMA VerdictStep ==
    ASSUME TypeOK, [Next]_vars, NEW f \in Forms, NEW e \in Devices, device[f] = e,
           ~onDisconnect(e), wire[f] # "pending", pc'[f] = pc[f], Putting(f)
    PROVE  wire'[f] # "pending"
  <1>0. /\ wire \in [Forms -> {"none", "pending", "applied", "rejected"}]
        /\ pc \in [Forms -> Stages]
    BY DEF TypeOK
  <1> USE DEF Putting, formVars, putVars
  <1>1. ASSUME NEW g \in Forms, \/ registerBtnTapped(g) \/ UserExistsAnswered(g)
                                \/ createUser(g) \/ SignUpRefused(g) \/ Upload(g)
        PROVE  wire'[f] # "pending"
    BY <1>1 DEF registerBtnTapped, UserExistsAnswered, createUser, SignUpRefused, Upload,
       uploadProfilePicture, downloadURL
  <1>2. ASSUME NEW g \in Forms, signUp(g) \/ addUser(g) PROVE wire'[f] # "pending"
    BY <1>0, <1>2 DEF signUp, addUser, put
  <1>3. ASSUME NEW g \in Forms, Serve(g) PROVE wire'[f] # "pending"
    BY <1>0, <1>3 DEF Serve, ServerApplies, ServerRejects
  <1>4. ASSUME NEW g \in Forms, insertUser(g) \/ UserAdded(g) \/ InsertFailed(g)
        PROVE  wire'[f] # "pending"
    BY <1>0, <1>4 DEF insertUser, UserAdded, InsertFailed, Answered, PutDone
  <1>5. ASSUME NEW d \in Devices, ReadUsers(d) \/ restoreState(d) \/ Crash(d)
        PROVE  wire'[f] # "pending"
    BY <1>0, <1>5 DEF ReadUsers, restoreState, Crash
  <1>6. ASSUME NEW d \in Devices, onDisconnect(d) PROVE wire'[f] # "pending"
    <2>1. d # e
      BY <1>6, Zenon
    <2> QED
      BY <1>0, <1>6, <2>1 DEF onDisconnect, On
  <1>7. ASSUME NEW g \in Forms, TakeLate(g) PROVE wire'[f] # "pending"
    BY <1>7, LateKeeps
  <1>8. CASE UNCHANGED vars
    BY <1>8 DEF vars
  <1> QED
    BY <1>1, <1>2, <1>3, <1>4, <1>5, <1>6, <1>7, <1>8 DEF Next, SignUp, Insert

\* All presses on d are f and g.
Placed(f, g, d) ==
    /\ device[f] = d /\ device[g] = d
    /\ \A h \in Forms : device[h] = d => h \in {f, g}

LEMMA PlacedStays ==
    ASSUME NEW f \in Forms, NEW g \in Forms, NEW d \in Devices
    PROVE  Spec /\ Placed(f, g, d) => []Placed(f, g, d)
  <1>1. Placed(f, g, d) /\ [Next]_vars => Placed(f, g, d)'
    BY DeviceStep DEF Placed
  <1> QED
    BY <1>1, PTL DEF Spec

(* What is assumed of the behaviours: the steps of the chain can be taken  *)
(* when they are due, and the connection of d is not lost for ever again.  *)
KeptInTheEnd(d) == <>[][~onDisconnect(d)]_vars
Undisturbed(f, d) ==
    FairSpec /\ []ChainHasNoHole /\ KeptInTheEnd(d) /\ [](device[f] = d)

StageEnds(f, stage) == pc[f] = stage ~> pc[f] \in After(stage)
StageConnects(f, d, stage) ==
    pc[f] = stage ~> [](pc[f] = stage /\ Online(d)) \/ pc[f] \in After(stage)
FrontEnds(f, stage) == pc[f] = stage /\ ahead[f] = {} ~> pc[f] \in After(stage)

LEMMA FairChain ==
    ASSUME NEW f \in Forms, NEW d \in Devices
    PROVE  FairSpec => FairForm(f) /\ FairDevice(d)
  BY DEF FairSpec, Fairness

(* The stages that wait for Auth or Storage, or for the main thread only.  *)
LEMMA SignUpEnds ==
    ASSUME NEW f \in Forms, NEW d \in Devices
    PROVE  Undisturbed(f, d) => StageEnds(f, "signingUp") /\ StageEnds(f, "accepted")
  <1>1. TypeOK /\ [Next]_vars /\ pc[f] = "signingUp"
          => (pc[f] = "signingUp")' \/ (pc[f] \in After("signingUp"))'
    BY StageStep
  <1>2. TypeOK /\ [Next]_vars /\ pc[f] = "accepted"
          => (pc[f] = "accepted")' \/ (pc[f] \in After("accepted"))'
    BY StageStep
  <1>3. TypeOK /\ <<SignUp(f)>>_vars /\ pc[f] = "signingUp"
          => (pc[f] \in After("signingUp"))'
    BY DEF TypeOK, SignUp, createUser, SignUpRefused, signUp, After
  <1>4. TypeOK /\ <<SignUp(f)>>_vars /\ pc[f] = "accepted"
          => (pc[f] \in After("accepted"))'
    BY DEF TypeOK, SignUp, createUser, SignUpRefused, signUp, After
  <1>5. ChainHasNoHole /\ device[f] = d
          => /\ pc[f] = "signingUp" => ENABLED <<SignUp(f)>>_vars
             /\ pc[f] = "accepted" => ENABLED <<SignUp(f)>>_vars
    BY DEF ChainHasNoHole, On
  <1> QED
    BY <1>1, <1>2, <1>3, <1>4, <1>5, FairChain, TypeCorrect, PTL
    DEF StageEnds, Undisturbed, FairForm, FairSpec, Spec

(* The callback that has its snapshot, and the two requests to Storage.    *)
LEMMA CallbacksEnd ==
    ASSUME NEW f \in Forms, NEW d \in Devices
    PROVE  Undisturbed(f, d) => /\ StageEnds(f, "usersRead")
                                /\ StageEnds(f, "uploading")
                                /\ StageEnds(f, "fetchingUrl")
  <1>1. TypeOK /\ [Next]_vars /\ pc[f] = "usersRead"
          => (pc[f] = "usersRead")' \/ (pc[f] \in After("usersRead"))'
    BY StageStep
  <1>2. TypeOK /\ [Next]_vars /\ pc[f] = "uploading"
          => (pc[f] = "uploading")' \/ (pc[f] \in After("uploading"))'
    BY StageStep
  <1>3. TypeOK /\ [Next]_vars /\ pc[f] = "fetchingUrl"
          => (pc[f] = "fetchingUrl")' \/ (pc[f] \in After("fetchingUrl"))'
    BY StageStep
  <1>4. TypeOK /\ <<Insert(f)>>_vars /\ pc[f] = "usersRead" => (pc[f] \in After("usersRead"))'
    <2> SUFFICES ASSUME TypeOK, Insert(f), pc[f] = "usersRead" PROVE pc'[f] = "addingUser"
      BY DEF After
    <2>1. wire[f] = "none" /\ pc \in [Forms -> Stages]
      BY DEF TypeOK
    <2> QED
      BY <2>1 DEF Insert, insertUser, addUser, UserAdded, InsertFailed, Answered
  <1>5. TypeOK /\ <<Upload(f)>>_vars /\ pc[f] = "uploading" => (pc[f] \in After("uploading"))'
    BY DEF TypeOK, Upload, uploadProfilePicture, downloadURL, After
  <1>6. TypeOK /\ <<Upload(f)>>_vars /\ pc[f] = "fetchingUrl"
          => (pc[f] \in After("fetchingUrl"))'
    BY DEF TypeOK, Upload, uploadProfilePicture, downloadURL, After
  <1>7. ChainHasNoHole /\ device[f] = d
          => /\ pc[f] = "usersRead" => ENABLED <<Insert(f)>>_vars
             /\ pc[f] = "uploading" => ENABLED <<Upload(f)>>_vars
             /\ pc[f] = "fetchingUrl" => ENABLED <<Upload(f)>>_vars
    BY DEF ChainHasNoHole, On
  <1> QED
    BY <1>1, <1>2, <1>3, <1>4, <1>5, <1>6, <1>7, FairChain, TypeCorrect, PTL
    DEF StageEnds, Undisturbed, FairForm, FairSpec, Spec

(* A stage that waits for the database gets its connection, and keeps it.  *)
LEMMA Connects ==
    ASSUME NEW f \in Forms, NEW d \in Devices,
           NEW stage \in {"insertingUser", "readingUsers", "addingUser"}
    PROVE  Undisturbed(f, d) => StageConnects(f, d, stage)
  <1>1. TypeOK /\ [Next]_vars /\ pc[f] = stage => (pc[f] = stage)' \/ (pc[f] \in After(stage))'
    BY StageStep
  <1>2. TypeOK /\ [Next]_vars /\ ~onDisconnect(d) /\ device[f] = d /\ pc[f] = stage /\ Online(d)
          => Online(d)' \/ (pc[f] \in After(stage))'
    BY ConnectionStays DEF Ended
  <1>3. TypeOK /\ <<restoreState(d)>>_vars => Online(d)'
    BY DEF TypeOK, restoreState, Online
  <1>4. ChainHasNoHole /\ device[f] = d
          => (pc[f] = stage /\ ~Online(d) => ENABLED <<restoreState(d)>>_vars)
    BY DEF ChainHasNoHole, On
  <1>5. UNCHANGED vars => (Online(d)' <=> Online(d)) /\ ((pc[f] = stage)' <=> (pc[f] = stage))
    BY DEF vars, formVars, Online
  <1> QED
    BY <1>1, <1>2, <1>3, <1>4, <1>5, FairChain, TypeCorrect, PTL
    DEF StageConnects, Undisturbed, KeptInTheEnd, FairDevice, FairSpec, Spec

(* The collection is read, or the read refused.                            *)
LEMMA ReadEnds ==
    ASSUME NEW f \in Forms, NEW d \in Devices
    PROVE  Undisturbed(f, d) => StageEnds(f, "readingUsers")
  <1>1. TypeOK /\ <<ReadUsers(d)>>_vars /\ device[f] = d /\ pc[f] = "readingUsers"
          => (pc[f] \in After("readingUsers"))'
    <2> SUFFICES ASSUME TypeOK, ReadUsers(d), device[f] = d, pc[f] = "readingUsers"
                 PROVE  pc'[f] \in {"usersRead", "denied"}
      BY DEF After
    <2>1. f \in Waiting(d)
      BY DEF Waiting, On
    <2> QED
      BY <2>1 DEF ReadUsers
  <1>2. ChainHasNoHole /\ device[f] = d /\ pc[f] = "readingUsers" /\ Online(d)
          => ENABLED <<ReadUsers(d)>>_vars
    BY DEF ChainHasNoHole, On
  <1>3. pc[f] \in After("readingUsers") => ~(pc[f] = "readingUsers")
    BY DEF After
  <1>4. Undisturbed(f, d) => StageConnects(f, d, "readingUsers")
    BY Connects
  <1> QED
    BY <1>1, <1>2, <1>3, <1>4, FairChain, TypeCorrect, PTL
    DEF StageEnds, StageConnects, Undisturbed, FairDevice, FairSpec, Spec

(* The oldest put of a device is decided about and answered.               *)
LEMMA OldestEnds ==
    ASSUME NEW f \in Forms, NEW d \in Devices, NEW stage \in {"insertingUser", "addingUser"}
    PROVE  Undisturbed(f, d) => FrontEnds(f, stage)
  <1> DEFINE InFront == pc[f] = stage /\ ahead[f] = {}
             Decided == wire[f] # "pending"
  <1>1. TypeOK /\ QueueInv /\ [Next]_vars /\ InFront => InFront' \/ (pc[f] \in After(stage))'
    BY StageStep, AheadStep DEF Putting
  <1>2. TypeOK /\ [Next]_vars /\ ~onDisconnect(d) /\ device[f] = d /\ InFront /\ Decided
          => Decided' \/ (pc[f] \in After(stage))'
    BY StageStep, VerdictStep DEF Putting
  <1>3. TypeOK /\ <<Serve(f)>>_vars => Decided'
    BY DEF TypeOK, Serve, ServerApplies, ServerRejects
  <1>4. ChainHasNoHole /\ device[f] = d /\ InFront /\ Online(d)
          => /\ ~Decided => ENABLED <<Serve(f)>>_vars
             /\ Decided => ENABLED <<Insert(f)>>_vars
    <2> SUFFICES ASSUME ChainHasNoHole, device[f] = d, InFront, Online(d)
                 PROVE  IF wire[f] = "pending" THEN ENABLED <<Serve(f)>>_vars
                        ELSE ENABLED <<Insert(f)>>_vars
      OBVIOUS
    <2> QED
      BY DEF ChainHasNoHole, On
  <1>5. TypeOK /\ <<Insert(f)>>_vars /\ InFront => (pc[f] \in After(stage))'
    <2> SUFFICES ASSUME TypeOK, Insert(f), pc[f] = stage PROVE pc'[f] \in After(stage)
      OBVIOUS
    <2>1. pc \in [Forms -> Stages]
      BY DEF TypeOK
    <2> QED
      BY <2>1 DEF Insert, insertUser, observeSingleEvent, addUser, UserAdded, InsertFailed,
         After
  <1>6. pc[f] \in After(stage) => ~(pc[f] = stage)
    BY DEF After
  <1>7. Undisturbed(f, d) => StageConnects(f, d, stage)
    BY Connects
  <1>8. UNCHANGED vars => (InFront' <=> InFront) /\ (Decided' <=> Decided)
    BY DEF vars, formVars, putVars
  <1>9. InFront => pc[f] = stage
    OBVIOUS
  <1> HIDE DEF InFront, Decided
  <1>10. Undisturbed(f, d) => (InFront ~> pc[f] \in After(stage))
    BY <1>1, <1>2, <1>3, <1>4, <1>5, <1>6, <1>7, <1>8, <1>9, FairChain, TypeCorrect,
       QueueHolds, PTL
    DEF StageConnects, Undisturbed, KeptInTheEnd, FairForm, FairSpec, Spec
  <1> QED
    BY <1>10 DEF FrontEnds, InFront

(* The put behind the front one gets to the front, or is already over.     *)
LEMMA SecondEnds ==
    ASSUME NEW f \in Forms, NEW g \in Forms, NEW d \in Devices,
           NEW stage \in {"insertingUser", "addingUser"}
    PROVE  Undisturbed(f, d) /\ Undisturbed(g, d) /\ []Placed(f, g, d) => StageEnds(f, stage)
  <1> DEFINE InFront == pc[f] = stage /\ ahead[f] = {}
             Second == pc[f] = stage /\ g \in ahead[f] /\ ahead[g] = {}
             Inserts == Second /\ pc[g] = "insertingUser"
             Adds == Second /\ pc[g] = "addingUser"
  <1>1. TypeOK /\ QueueInv /\ Placed(f, g, d) /\ pc[f] = stage
          => InFront \/ (Second /\ Putting(g) /\ ahead[f] = {g})
    <2> SUFFICES ASSUME TypeOK, QueueInv, Placed(f, g, d), pc[f] = stage, ahead[f] # {}
                 PROVE  Second /\ Putting(g) /\ ahead[f] = {g}
      OBVIOUS
    <2>1. wire[f] # "none"
      BY DEF TypeOK
    <2>2. \A h \in ahead[f] : /\ h \in Forms /\ h # f /\ device[h] = device[f]
                              /\ wire[h] # "none" /\ f \notin ahead[h]
      BY <2>1 DEF TypeOK, QueueInv
    <2>3. ahead[f] = {g}
      BY <2>2 DEF Placed
    <2>4. wire[g] # "none" /\ f \notin ahead[g]
      BY <2>2, <2>3
    <2>5. \A h \in ahead[g] : h \in Forms /\ h # g /\ device[h] = device[g]
      BY <2>4 DEF TypeOK, QueueInv
    <2>6. ahead[g] = {}
      BY <2>4, <2>5 DEF Placed
    <2> QED
      BY <2>3, <2>4, <2>6 DEF TypeOK, Putting
  <1>2. TypeOK /\ QueueInv /\ Placed(f, g, d) /\ pc[f] = stage => InFront \/ Inserts \/ Adds
    BY <1>1 DEF Putting
  <1>3. TypeOK /\ QueueInv /\ Placed(f, g, d) /\ [Next]_vars /\ Second
          => \/ pc'[g] = pc[g] /\ Second'
             \/ InFront'
             \/ (pc[f] \in After(stage))'
    <2> SUFFICES ASSUME TypeOK, QueueInv, Placed(f, g, d), [Next]_vars, Second,
                        pc'[f] = pc[f], ~InFront'
                 PROVE  pc'[g] = pc[g] /\ Second'
      BY StageStep
    <2>1. ahead'[f] \subseteq ahead[f] /\ \A h \in ahead'[f] : pc'[h] = pc[h]
      BY AheadStep DEF Putting
    <2>2. Putting(g) /\ ahead[f] = {g}
      BY <1>1
    <2>3. ahead'[f] = {g} /\ pc'[g] = pc[g]
      BY <2>1, <2>2
    <2>4. ahead'[g] \subseteq ahead[g]
      BY <2>2, <2>3, AheadStep
    <2> QED
      BY <2>3, <2>4
  <1>4. TypeOK /\ QueueInv /\ Placed(f, g, d) /\ [Next]_vars
          => /\ Inserts => Inserts' \/ InFront' \/ (pc[f] \in After(stage))'
             /\ Adds => Adds' \/ InFront' \/ (pc[f] \in After(stage))'
    BY <1>3
  <1>5. /\ Inserts => pc[g] = "insertingUser" /\ ahead[g] = {}
        /\ Adds => pc[g] = "addingUser" /\ ahead[g] = {}
    OBVIOUS
  <1>6. /\ pc[g] \in After("insertingUser") => ~Inserts
        /\ pc[g] \in After("addingUser") => ~Adds
    BY DEF After
  <1>7. Undisturbed(g, d) => FrontEnds(g, "insertingUser") /\ FrontEnds(g, "addingUser")
    BY OldestEnds
  <1>8. Undisturbed(f, d) => (InFront ~> pc[f] \in After(stage))
    BY OldestEnds DEF FrontEnds
  <1> HIDE DEF InFront, Inserts, Adds
  <1> QED
    BY <1>2, <1>4, <1>5, <1>6, <1>7, <1>8, TypeCorrect, QueueHolds, PTL
    DEF StageEnds, FrontEnds, Undisturbed, FairSpec, Spec

(* The indicator of a device is up only as long as its screen is.          *)
SpinnerInv == \A d \in Devices : spinner[d] => ScreenOpen(d)

LEMMA SpinnerStep == TypeOK /\ SpinnerInv /\ [Next]_vars => SpinnerInv'
  <1> SUFFICES ASSUME TypeOK, SpinnerInv, [Next]_vars, NEW d \in Devices, spinner'[d]
               PROVE  ScreenOpen(d)'
    BY DEF SpinnerInv
  <1> DEFINE Open == {"idle", "signingUp", "accepted", "refused"}
             Stays == /\ spinner[d] \/ ScreenOpen(d)
                      /\ link'[d] # "dead"
                      /\ \A f \in Forms : device[f] = d /\ pc[f] \in Open => pc'[f] \in Open
  <1>0. /\ pc \in [Forms -> Stages] /\ spinner \in [Devices -> BOOLEAN]
        /\ link \in [Devices -> {"connected", "disconnected", "dead"}]
        /\ device' = device
        /\ spinner[d] => link[d] # "dead"
        /\ \A f \in Forms : /\ wire[f] # "none" <=> pc[f] \in {"insertingUser", "addingUser"}
                            /\ device[f] \in Devices
    BY DeviceStep DEF TypeOK, SpinnerInv, ScreenOpen
  <1>a. ASSUME Stays PROVE ScreenOpen(d)'
    BY <1>0, <1>a DEF SpinnerInv, ScreenOpen, On
  <1> USE DEF formVars, screenVars
  <1>1. ASSUME NEW f \in Forms, registerBtnTapped(f) PROVE Stays
    BY <1>0, <1>1 DEF registerBtnTapped, ScreenOpen
  <1>2. ASSUME NEW f \in Forms, UserExistsAnswered(f) \/ createUser(f) \/ SignUpRefused(f)
        PROVE  Stays
    BY <1>0, <1>2 DEF UserExistsAnswered, createUser, SignUpRefused
  <1>3. ASSUME NEW f \in Forms, signUp(f) PROVE Stays
    <2>1. /\ pc' = [pc EXCEPT ![f] = "insertingUser"] /\ link' = link
          /\ spinner' = [spinner EXCEPT ![device[f]] = FALSE]
      BY <1>3 DEF signUp
    <2>2. device[f] # d /\ spinner[d]
      BY <1>0, <2>1
    <2> QED
      BY <1>0, <2>1, <2>2
  <1>4. ASSUME NEW f \in Forms, Serve(f) \/ Upload(f) PROVE Stays
    BY <1>0, <1>4 DEF Serve, ServerApplies, ServerRejects, Upload, uploadProfilePicture,
       downloadURL
  <1>5. ASSUME NEW f \in Forms, insertUser(f) \/ UserAdded(f) \/ InsertFailed(f)
        PROVE  Stays
    <2>1. /\ pc[f] \in {"insertingUser", "addingUser"} /\ UNCHANGED <<link, spinner>>
          /\ \A g \in Forms \ {f} : pc'[g] = pc[g]
      BY <1>0, <1>5
      DEF insertUser, UserAdded, InsertFailed, Answered, observeSingleEvent
    <2> QED
      BY <1>0, <2>1
  <1>6. ASSUME NEW f \in Forms, addUser(f) PROVE Stays
    <2>1. /\ UNCHANGED <<link, spinner>>
          /\ \A g \in Forms : pc[g] \in Open => pc'[g] = pc[g]
      BY <1>0, <1>6 DEF addUser, Waiting
    <2> QED
      BY <1>0, <2>1
  <1>7. ASSUME NEW e \in Devices, ReadUsers(e) PROVE Stays
    <2>1. /\ UNCHANGED <<link, spinner>>
          /\ \A g \in Forms : pc[g] \in Open => pc'[g] = pc[g]
      BY <1>0, <1>7 DEF ReadUsers, Waiting
    <2> QED
      BY <1>0, <2>1
  <1>8. ASSUME NEW e \in Devices, restoreState(e) \/ onDisconnect(e) PROVE Stays
    BY <1>0, <1>8 DEF restoreState, onDisconnect
  <1>9. ASSUME NEW e \in Devices, Crash(e) PROVE Stays
    <2>1. /\ spinner' = [spinner EXCEPT ![e] = FALSE] /\ link' = [link EXCEPT ![e] = "dead"]
          /\ \A g \in Forms : device[g] # e => pc'[g] = pc[g]
      BY <1>0, <1>9 DEF Crash, On
    <2>2. e # d /\ spinner[d]
      BY <1>0, <2>1
    <2> QED
      BY <1>0, <2>1, <2>2
  <1>10. ASSUME NEW f \in Forms, TakeLate(f) PROVE Stays
    BY <1>0, <1>10, LateKeeps
  <1>11. ASSUME UNCHANGED vars PROVE Stays
    BY <1>0, <1>11 DEF vars
  <1> HIDE DEF Stays
  <1> QED
    BY <1>a, <1>1, <1>2, <1>3, <1>4, <1>5, <1>6, <1>7, <1>8, <1>9, <1>10, <1>11
    DEF Next, SignUp, Insert

\* Register is pressed on no device more than twice.
AtMostTwoPressesOnADevice ==
    \A presses \in Presses, f \in Forms : \E g \in Forms : \A h \in Forms :
        presses[h].device = presses[f].device => h \in {f, g}

\* The steps that are due can be taken, and no connection is lost for ever again.
Undisturbedly == FairSpec /\ []ChainHasNoHole /\ \A d \in Devices : KeptInTheEnd(d)

FormEnds(f) ==
    pc[f] = "signingUp" ~> /\ pc[f] \in Ended
                           /\ spinner[device[f]] => pc[f] = "refused"

(* A press ends, whatever the other press on its device does.              *)
LEMMA PressEnds ==
    ASSUME NEW f \in Forms, NEW g \in Forms, NEW d \in Devices
    PROVE  Undisturbedly /\ Placed(f, g, d) => FormEnds(f)
  <1>1. Undisturbedly => FairSpec /\ []ChainHasNoHole /\ KeptInTheEnd(d)
    BY DEF Undisturbedly
  <1>2. Placed(f, g, d) => device[f] = d /\ device[g] = d
    BY DEF Placed
  <1>3. Undisturbedly /\ Placed(f, g, d)
          => Undisturbed(f, d) /\ Undisturbed(g, d) /\ []Placed(f, g, d)
    BY <1>1, <1>2, PlacedStays, PTL DEF Undisturbed, FairSpec
  <1>4. Undisturbedly /\ Placed(f, g, d)
          => StageEnds(f, "insertingUser") /\ StageEnds(f, "addingUser")
    BY <1>3, SecondEnds
  <1>5. Undisturbed(f, d) => /\ StageEnds(f, "signingUp") /\ StageEnds(f, "accepted")
                             /\ StageEnds(f, "readingUsers") /\ StageEnds(f, "usersRead")
                             /\ StageEnds(f, "uploading") /\ StageEnds(f, "fetchingUrl")
    BY SignUpEnds, ReadEnds, CallbacksEnd
  <1>6. /\ pc[f] \in After("signingUp") => pc[f] = "accepted" \/ pc[f] \in Ended
        /\ pc[f] \in After("accepted") => pc[f] = "insertingUser" \/ pc[f] \in Ended
        /\ pc[f] \in After("insertingUser")
              => pc[f] = "readingUsers" \/ pc[f] = "usersRead" \/ pc[f] \in Ended
        /\ pc[f] \in After("readingUsers") => pc[f] = "usersRead" \/ pc[f] \in Ended
        /\ pc[f] \in After("usersRead") => pc[f] = "addingUser" \/ pc[f] \in Ended
        /\ pc[f] \in After("addingUser") => pc[f] = "uploading" \/ pc[f] \in Ended
        /\ pc[f] \in After("uploading") => pc[f] = "fetchingUrl" \/ pc[f] \in Ended
        /\ pc[f] \in After("fetchingUrl") => pc[f] \in Ended
    BY DEF After, Ended
  <1>7. Undisturbedly /\ Placed(f, g, d) => (pc[f] = "signingUp" ~> pc[f] \in Ended)
    BY <1>3, <1>4, <1>5, <1>6, PTL DEF StageEnds
  <1>8. TypeOK /\ SpinnerInv /\ pc[f] \in Ended => (spinner[device[f]] => pc[f] = "refused")
    BY DEF TypeOK, SpinnerInv, ScreenOpen, On, Ended
  <1>9. Init => SpinnerInv
    BY DEF Init, SpinnerInv
  <1>10. Spec => []SpinnerInv
    BY <1>9, SpinnerStep, TypeCorrect, PTL DEF Spec
  <1> QED
    BY <1>1, <1>7, <1>8, <1>10, TypeCorrect, PTL DEF FormEnds, FairSpec

(* Every registration ends, with the spinner of its device gone unless     *)
(* createUser was refused: where Register is pressed on no device more     *)
(* than twice, whenever the steps that are due can be taken, and the       *)
(* connections are not lost for ever again.                                *)
THEOREM RegistrationsEnd == Undisturbedly /\ AtMostTwoPressesOnADevice => RegistrationEnds
  <1> SUFFICES ASSUME AtMostTwoPressesOnADevice, NEW f \in Forms
               PROVE  Undisturbedly => FormEnds(f)
    BY DEF RegistrationEnds, FormEnds
  <1>1. Init => \E g \in Forms, d \in Devices : Placed(f, g, d)
    <2> SUFFICES ASSUME Init PROVE \E g \in Forms, d \in Devices : Placed(f, g, d)
      OBVIOUS
    <2>1. PICK presses \in Presses : device = [h \in Forms |-> presses[h].device]
      BY DEF Init
    <2>2. PICK g \in Forms : \A h \in Forms : device[h] = device[f] => h \in {f, g}
      BY <2>1 DEF AtMostTwoPressesOnADevice
    <2>3. PICK d : d = device[f]
      OBVIOUS
    <2>4. d \in Devices
      BY <2>1, <2>3, RegistrationAssumption
    <2>5. CASE device[g] = d
      BY <2>2, <2>3, <2>4, <2>5 DEF Placed
    <2>6. CASE device[g] # d
      <3>1. Placed(f, f, d)
        BY <2>2, <2>3, <2>6 DEF Placed
      <3> QED
        BY <2>4, <3>1
    <2> QED
      BY <2>5, <2>6
  <1>2. Undisturbedly => Init
    BY DEF Undisturbedly, FairSpec, Spec
  <1>3. \A g \in Forms, d \in Devices : Undisturbedly /\ Placed(f, g, d) => FormEnds(f)
    BY PressEnds
  <1> QED
    BY <1>1, <1>2, <1>3
=============================================================================
