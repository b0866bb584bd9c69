----------------------------- MODULE Registration -----------------------------
(***************************************************************************)
(* Creating an account, from the Register button to the profile picture.   *)
(*                                                                         *)
(* registerBtnTapped asks whether the user exists and, without waiting,    *)
(* starts createUser of Firebase Auth.  When that succeeds the screen is   *)
(* closed and insertUser runs on, for the address that is in the field by  *)
(* then: it writes the user node, reads the "users" collection, and writes *)
(* it back with the new user added; only then the profile picture is       *)
(* uploaded.  The collection is shared by all users, so registrations on   *)
(* different devices race for it, and so do two presses on one screen:     *)
(* Return in the password field presses Register again.                    *)
(*                                                                         *)
(* A form stands for one press of Register, and for the account, the node, *)
(* the directory entry and the picture it makes.  A device has one screen, *)
(* with its fields, and one connection and put queue.  The collection is   *)
(* kept as the set of its entries.  Auth, Storage and the database server  *)
(* are external.                                                           *)
(***************************************************************************)
EXTENDS Naturals

CONSTANTS
    Forms,      \* presses of the Register button
    Devices,    \* running copies of the app, each with a Register screen
    Emails,     \* addresses that may be typed
    Presses,    \* ways the presses may be made: where, and for which address
    Nodes,      \* keys of user nodes
    SafeEmail,  \* the key of an address: "." and "@" become "-"
    NoForm,     \* "nothing here"
    MaxFaults   \* bound: lost connections and crashes in a behaviour

ASSUME RegistrationAssumption ==
    /\ Presses \subseteq [Forms -> [device : Devices, email : Emails]]
    /\ SafeEmail \in [Emails -> Nodes]
    /\ NoForm \notin Forms
    /\ MaxFaults \in Nat

VARIABLES
    \* the servers
    accounts,   \* Auth: the addresses that have an account
    node,       \* database: the form whose names are in each user node
    users,      \* database: the entries of the "users" collection
    picture,    \* Storage: the form whose image is the profile picture
    late,       \* the request of a dead app that may still reach its server
    \* the callback chain of each form
    pc,         \* how far it has come
    email,      \* the address createUser is called with
    address,    \* the address of the ChatAppUser that is inserted
    snapshot,   \* the "users" collection as it was read
    wire,       \* what the server did with its outstanding put
    ahead,      \* the forms whose puts the client sent before it
    check,      \* the answer to userExists
    \* each device
    device,     \* the device on which each form is pressed
    spinner,    \* the progress indicator is shown
    link,       \* its connection to the database, "dead" when the app is gone
    \* the environment
    faults,     \* lost connections and crashes so far
    \* history, read by no action
    inserted,   \* forms for which insertUser completed with true
    rivals      \* the forms each form overlapped with in the collection

databaseVars == <<node, users>>
serverVars == <<accounts, databaseVars, picture, late>>
putVars == <<wire, ahead>>
addressVars == <<email, address>>
formVars == <<pc, addressVars, snapshot, putVars, check>>
screenVars == <<device, spinner>>
historyVars == <<inserted, rivals>>
vars == <<serverVars, formVars, screenVars, link, faults, historyVars>>

-----------------------------------------------------------------------------
\* idle          Register not pressed
\* signingUp     createUser is under way
\* accepted      Auth created the account, its answer is on its way
\* insertingUser setValue of the user node is outstanding
\* readingUsers  observeSingleEvent of the collection waits for the server
\* usersRead     the snapshot is on its way to the callback
\* addingUser    setValue of the collection is outstanding
\* uploading     putData of the picture is under way
\* fetchingUrl   downloadURL is under way
\* done          nothing left to do
\* refused       createUser failed
\* failed        insertUser completed with false
\* denied        the read of the collection was refused: no completion
\* lost          the app died first
Stages == {"idle", "signingUp", "accepted", "insertingUser", "readingUsers",
           "usersRead", "addingUser", "uploading", "fetchingUrl",
           "done", "refused", "failed", "denied", "lost"}
Ended == {"done", "refused", "failed", "denied", "lost"}

\* The stages whose request a server may still take when the app has died.
Requests == {"signingUp", "insertingUser", "addingUser", "uploading"}

On(d) == {f \in Forms : device[f] = d}
Online(d) == link[d] = "connected"
Outstanding(d) == {f \in On(d) : wire[f] # "none"}
Waiting(d) == {f \in On(d) : pc[f] = "readingUsers"}

NodeOf(f) == SafeEmail[address[f]]

\* The field was changed between the press and the end of createUser.
FieldChanged(f) == address[f] # email[f]

\* Between the read of the collection and the answer to its write.
Adding(f) == pc[f] \in {"readingUsers", "usersRead", "addingUser"}

\* The Register screen is there, until the first createUser succeeds.
ScreenOpen(d) ==
    /\ link[d] # "dead"
    /\ \A f \in On(d) : pc[f] \in {"idle", "signingUp", "accepted", "refused"}

\* The chain of f has closed the screen of its device.
Closed(f) == pc[f] \notin {"idle", "signingUp", "accepted", "refused", "lost"}

Init ==
    /\ accounts = {}
    /\ node = [n \in Nodes |-> NoForm]
    /\ users = {}
    /\ picture = [n \in Nodes |-> NoForm]
    /\ late = [f \in Forms |-> "none"]
    /\ pc = [f \in Forms |-> "idle"]
    /\ \E presses \in Presses :
         /\ device = [f \in Forms |-> presses[f].device]
         /\ email = [f \in Forms |-> presses[f].email]
    /\ address = email
    /\ snapshot = [f \in Forms |-> {}]
    /\ wire = [f \in Forms |-> "none"]
    /\ ahead = [f \in Forms |-> {}]
    /\ check = [f \in Forms |-> "none"]
    /\ spinner = [d \in Devices |-> FALSE]
    /\ link = [d \in Devices |-> "disconnected"]
    /\ faults = 0
    /\ inserted = {}
    /\ rivals = [f \in Forms |-> {}]

-----------------------------------------------------------------------------
(* What a snapshot of a user node is: nothing, or a dictionary.            *)
NodeValue(n) == IF node[n] = NoForm THEN "null" ELSE "dictionary"

(* completion(true) only when the value is a string.                       *)
userExists(value) == value = "string"

(* The checks that wait on a device for the node n get its value.          *)
CheckAnswered(d, n, value) ==
    check' = [f \in Forms |->
                IF f \in On(d) /\ check[f] = "asked" /\ SafeEmail[email[f]] = n
                THEN IF userExists(value) THEN "alert" ELSE value
                ELSE check[f]]

(* emailField.text on d is e: whatever has been typed by now while the     *)
(* screen is open, and nothing new once a chain has read it and closed the *)
(* screen.                                                                 *)
emailField(d, e) ==
    ScreenOpen(d) \/ \E f \in On(d) : Closed(f) /\ e = address[f]

(* Return in the password field, or the button.  The fields are filled in  *)
(* (empty names raise an alert and do not stop it).                        *)
registerBtnTapped(f) ==
    LET d == device[f] IN
    /\ pc[f] = "idle"
    /\ ScreenOpen(d)
    /\ pc' = [pc EXCEPT ![f] = "signingUp"]
    /\ check' = [check EXCEPT ![f] = "asked"]
    /\ spinner' = [spinner EXCEPT ![d] = TRUE]
    /\ UNCHANGED <<serverVars, addressVars, snapshot, putVars, device, link,
                   faults, historyVars>>

(* The answer to userExists: all it can do is raise an alert.              *)
UserExistsAnswered(f) ==
    LET n == SafeEmail[email[f]] IN
    /\ check[f] = "asked"
    /\ Online(device[f])
    /\ CheckAnswered(device[f], n, NodeValue(n))
    /\ UNCHANGED <<serverVars, pc, addressVars, snapshot, putVars, screenVars,
                   link, faults, historyVars>>

(* Auth gives an address to one account only.                              *)
createUser(f) ==
    /\ pc[f] = "signingUp"
    /\ email[f] \notin accounts
    /\ accounts' = accounts \cup {email[f]}
    /\ pc' = [pc EXCEPT ![f] = "accepted"]
    /\ UNCHANGED <<databaseVars, picture, late, addressVars, snapshot, putVars,
                   check, screenVars, link, faults, historyVars>>

(* setValue: the put follows those outstanding on the device.              *)
put(f) ==
    /\ wire' = [wire EXCEPT ![f] = "pending"]
    /\ ahead' = [ahead EXCEPT ![f] = Outstanding(device[f])]

(* A mutated form of SignUpRefused: the error is not looked at.            *)
SignUpUnchecked(f) ==
    /\ pc[f] \in {"signingUp", "accepted"}
    /\ put(f)
    /\ pc' = [pc EXCEPT ![f] = "insertingUser"]
    /\ UNCHANGED <<serverVars, addressVars, snapshot, check, screenVars, link,
                   faults, historyVars>>

(* createUser failed: the address is taken, or no answer came.  The error  *)
(* is printed and the spinner stays.                                       *)
SignUpRefused(f) ==
    /\ pc[f] \in {"signingUp", "accepted"}
    /\ pc' = [pc EXCEPT ![f] = "refused"]
    /\ UNCHANGED <<serverVars, addressVars, snapshot, putVars, check,
                   screenVars, link, faults, historyVars>>

(* The account is there: the ChatAppUser is made of what the fields hold   *)
(* now, insertUser puts its user node (a waiting userExists of that node   *)
(* receives the value), and the screen closes at once.                     *)
signUp(f) ==
    LET d == device[f] IN
    /\ pc[f] = "accepted"
    /\ \E e \in Emails :
         /\ emailField(d, e)
         /\ address' = [address EXCEPT ![f] = e]
         /\ CheckAnswered(d, SafeEmail[e], "dictionary")
    /\ put(f)
    /\ pc' = [pc EXCEPT ![f] = "insertingUser"]
    /\ spinner' = [spinner EXCEPT ![d] = FALSE]
    /\ UNCHANGED <<serverVars, email, snapshot, device, link, faults, historyVars>>

(* The collection that is put back: the new user is appended to the array  *)
(* that was read, or alone in a new one.  Mutated form: always alone.      *)
newCollection(f) == {f}
userCollection(f) == snapshot[f] \cup {f}

(* The server takes the put of a form: that of the user node or that of    *)
(* the collection.                                                         *)
Store(f, what) ==
    \/ /\ what = "insertingUser"
       /\ node' = [node EXCEPT ![NodeOf(f)] = f]
       /\ UNCHANGED users
    \/ /\ what = "addingUser"
       /\ users' = userCollection(f)
       /\ UNCHANGED node

(* The connection is a FIFO: the server decides about the puts in order.   *)
NextOnWire(f) ==
    /\ Online(device[f])
    /\ wire[f] = "pending"
    /\ \A g \in ahead[f] : wire[g] # "pending"

ServerApplies(f) ==
    /\ NextOnWire(f)
    /\ wire' = [wire EXCEPT ![f] = "applied"]
    /\ Store(f, pc[f])
    /\ UNCHANGED <<accounts, picture, late, pc, addressVars, snapshot, ahead,
                   check, screenVars, link, faults, historyVars>>

ServerRejects(f) ==
    /\ NextOnWire(f)
    /\ wire' = [wire EXCEPT ![f] = "rejected"]
    /\ UNCHANGED <<serverVars, pc, addressVars, snapshot, ahead, check,
                   screenVars, link, faults, historyVars>>

(* The put of f is no longer outstanding.                                  *)
PutDone(f) ==
    /\ wire' = [wire EXCEPT ![f] = "none"]
    /\ ahead' = [g \in Forms |-> ahead[g] \ {f}]

(* Mutated form of Answered: the callback does not wait for the answer.    *)
AnsweredEarly(f, answer) ==
    /\ Online(device[f])
    /\ wire[f] # "none"
    /\ PutDone(f)

(* The answer to the put of f, the oldest of its device, arrives.          *)
Answered(f, answer) ==
    /\ Online(device[f])
    /\ wire[f] = answer
    /\ ahead[f] = {}
    /\ PutDone(f)

(* The pending write that shadows the collection on d: the latest one.     *)
Shadows(g, d) ==
    /\ g \in On(d)
    /\ pc[g] = "addingUser"
    /\ \A h \in On(d) \ {g} : pc[h] = "addingUser" => h \in ahead[g]

(* A single read of the collection: served from the shadowing write when   *)
(* there is one, otherwise it waits for the server.                        *)
observeSingleEvent(f) ==
    \/ \E g \in Forms :
         /\ Shadows(g, device[f])
         /\ pc' = [pc EXCEPT ![f] = "usersRead"]
         /\ snapshot' = [snapshot EXCEPT ![f] = userCollection(g)]
    \/ /\ \A g \in On(device[f]) : pc[g] # "addingUser"
       /\ pc' = [pc EXCEPT ![f] = "readingUsers"]
       /\ UNCHANGED snapshot

(* The forms that add to the collection now, or whose app has died and     *)
(* whose put of the collection is still on its way.                        *)
Rivals(f) == {g \in Forms \ {f} : Adding(g) \/ late[g] = "addingUser"}

(* The user node is written: read the collection.                          *)
insertUser(f) ==
    /\ pc[f] = "insertingUser"
    /\ Answered(f, "applied")
    /\ observeSingleEvent(f)
    /\ rivals' = [g \in Forms |->
                    IF g = f THEN Rivals(f)
                    ELSE IF g \in Rivals(f) THEN rivals[g] \cup {f} ELSE rivals[g]]
    /\ UNCHANGED <<serverVars, addressVars, check, screenVars, link, faults,
                   inserted>>

(* A mutated form of InsertFailed: success is not looked at.               *)
UploadAnyway(f) ==
    /\ Answered(f, "rejected")
    /\ pc' = [pc EXCEPT ![f] = "uploading"]
    /\ UNCHANGED <<serverVars, addressVars, snapshot, check, screenVars, link,
                   faults, historyVars>>

(* Either put is refused: completion(false), which the caller ignores.     *)
InsertFailed(f) ==
    /\ Answered(f, "rejected")
    /\ pc' = [pc EXCEPT ![f] = "failed"]
    /\ UNCHANGED <<serverVars, addressVars, snapshot, check, screenVars, link,
                   faults, historyVars>>

(* The server answers the reads that wait on the device, or refuses them;  *)
(* a refused read has no cancel block.                                     *)
ReadUsers(d) ==
    /\ Online(d)
    /\ Waiting(d) # {}
    /\ \/ /\ pc' = [f \in Forms |-> IF f \in Waiting(d) THEN "usersRead" ELSE pc[f]]
          /\ snapshot' = [f \in Forms |->
                            IF f \in Waiting(d) THEN users ELSE snapshot[f]]
       \/ /\ pc' = [f \in Forms |-> IF f \in Waiting(d) THEN "denied" ELSE pc[f]]
          /\ UNCHANGED snapshot
    /\ UNCHANGED <<serverVars, addressVars, putVars, check, screenVars, link,
                   faults, historyVars>>

(* The snapshot callback: setValue of the collection with the new user.    *)
(* Reads of it that wait on the device receive the local value.            *)
addUser(f) ==
    LET waiting == Waiting(device[f]) IN
    /\ pc[f] = "usersRead"
    /\ put(f)
    /\ pc' = [g \in Forms |-> IF g = f THEN "addingUser"
                              ELSE IF g \in waiting THEN "usersRead" ELSE pc[g]]
    /\ snapshot' = [g \in Forms |->
                      IF g \in waiting THEN userCollection(f) ELSE snapshot[g]]
    /\ UNCHANGED <<serverVars, addressVars, check, screenVars, link, faults,
                   historyVars>>

(* completion(true): the picture is uploaded, if the form has one.         *)
UserAdded(f) ==
    /\ pc[f] = "addingUser"
    /\ Answered(f, "applied")
    /\ pc' \in {[pc EXCEPT ![f] = s] : s \in {"uploading", "done"}}
    /\ inserted' = inserted \cup {f}
    /\ UNCHANGED <<serverVars, addressVars, snapshot, check, screenVars, link,
                   faults, rivals>>

(* putData succeeds and the download address is asked for, or it fails.    *)
uploadProfilePicture(f) ==
    /\ pc[f] = "uploading"
    /\ \/ /\ picture' = [picture EXCEPT ![NodeOf(f)] = f]
          /\ pc' = [pc EXCEPT ![f] = "fetchingUrl"]
       \/ /\ pc' = [pc EXCEPT ![f] = "done"]
          /\ UNCHANGED picture
    /\ UNCHANGED <<accounts, databaseVars, late, addressVars, snapshot, putVars,
                   check, screenVars, link, faults, historyVars>>

(* The address, or failedTodownloadUrl, is printed.                        *)
downloadURL(f) ==
    /\ pc[f] = "fetchingUrl"
    /\ pc' = [pc EXCEPT ![f] = "done"]
    /\ UNCHANGED <<serverVars, addressVars, snapshot, putVars, check,
                   screenVars, link, faults, historyVars>>

(* A put that was under way is outstanding again.  Mutated form: it is     *)
(* forgotten.                                                              *)
Forgotten(w) == "none"
Unsent(w) == IF w = "none" THEN w ELSE "pending"

(* The connection comes up: what is outstanding is sent (again).           *)
restoreState(d) ==
    /\ link[d] = "disconnected"
    /\ link' = [link EXCEPT ![d] = "connected"]
    /\ UNCHANGED <<serverVars, formVars, screenVars, faults, historyVars>>

(* The sets of puts whose answer the client may have and hold back, as     *)
(* long as it waits for the answer to a listen: answers come in order.     *)
putsToAck(d) ==
    {acked \in SUBSET {f \in Outstanding(d) : wire[f] # "pending"} :
        \A f \in acked : ahead[f] \subseteq acked}

(* The connection drops, and with it the answers under way, except those   *)
(* the client has and holds back.                                          *)
onDisconnect(d) ==
    /\ Online(d)
    /\ faults < MaxFaults
    /\ faults' = faults + 1
    /\ link' = [link EXCEPT ![d] = "disconnected"]
    /\ \E acked \in putsToAck(d) :
         wire' = [f \in Forms |-> IF f \in On(d) \ acked THEN Unsent(wire[f])
                                 ELSE wire[f]]
    /\ UNCHANGED <<serverVars, pc, addressVars, snapshot, ahead, check,
                   screenVars, historyVars>>

(* The request of f that a server may take after the death of the app: a   *)
(* put that was sent and not taken yet, or a request to Auth or Storage.   *)
RequestUnderWay(f) ==
    IF \/ pc[f] \in {"signingUp", "uploading"}
       \/ Online(device[f]) /\ wire[f] = "pending"
    THEN pc[f] ELSE "none"

(* The app dies, and with it the rest of the chains; not what is on the    *)
(* wire.                                                                   *)
Crash(d) ==
    /\ link[d] # "dead"
    /\ faults < MaxFaults
    /\ faults' = faults + 1
    /\ link' = [link EXCEPT ![d] = "dead"]
    /\ pc' = [f \in Forms |->
                IF f \in On(d) /\ pc[f] \notin {"idle"} \cup Ended
                THEN "lost" ELSE pc[f]]
    /\ late' = [f \in Forms |-> IF f \in On(d) THEN RequestUnderWay(f) ELSE late[f]]
    /\ wire' = [f \in Forms |-> IF f \in On(d) THEN "none" ELSE wire[f]]
    /\ spinner' = [spinner EXCEPT ![d] = FALSE]
    /\ UNCHANGED <<accounts, databaseVars, picture, addressVars, snapshot,
                   ahead, check, device, historyVars>>

(* A late request is the next of its connection.                           *)
NextLate(f) == late[f] # "none" /\ \A g \in ahead[f] : late[g] = "none"

(* The server takes a late request; nobody is there to be told.            *)
LateApplied(f) ==
    /\ NextLate(f)
    /\ late' = [late EXCEPT ![f] = "none"]
    /\ \/ /\ late[f] = "signingUp"
          /\ email[f] \notin accounts
          /\ accounts' = accounts \cup {email[f]}
          /\ UNCHANGED <<databaseVars, picture>>
       \/ Store(f, late[f]) /\ UNCHANGED <<accounts, picture>>
       \/ /\ late[f] = "uploading"
          /\ picture' = [picture EXCEPT ![NodeOf(f)] = f]
          /\ UNCHANGED <<accounts, databaseVars>>
    /\ UNCHANGED <<formVars, screenVars, link, faults, historyVars>>

(* A late request is refused, or never arrives.                            *)
LateDropped(f) ==
    /\ NextLate(f)
    /\ late' = [late EXCEPT ![f] = "none"]
    /\ UNCHANGED <<accounts, databaseVars, picture, formVars, screenVars, link,
                   faults, historyVars>>

SignUp(f) == createUser(f) \/ SignUpRefused(f) \/ signUp(f)
Serve(f) == ServerApplies(f) \/ ServerRejects(f)
Insert(f) == insertUser(f) \/ addUser(f) \/ UserAdded(f) \/ InsertFailed(f)
Upload(f) == uploadProfilePicture(f) \/ downloadURL(f)
TakeLate(f) == LateApplied(f) \/ LateDropped(f)

Next ==
    \/ \E f \in Forms :
         \/ registerBtnTapped(f) \/ UserExistsAnswered(f) \/ SignUp(f)
         \/ Serve(f) \/ Insert(f) \/ Upload(f) \/ TakeLate(f)
    \/ \E d \in Devices :
         ReadUsers(d) \/ restoreState(d) \/ onDisconnect(d) \/ Crash(d)

Spec == Init /\ [][Next]_vars

(* The servers answer, callbacks run, and the client reconnects.           *)
FairForm(f) ==
    /\ WF_vars(UserExistsAnswered(f)) /\ WF_vars(SignUp(f))
    /\ WF_vars(Serve(f)) /\ WF_vars(Insert(f)) /\ WF_vars(Upload(f))
FairDevice(d) == WF_vars(ReadUsers(d)) /\ WF_vars(restoreState(d))
Fairness ==
    /\ \A f \in Forms : FairForm(f)
    /\ \A d \in Devices : FairDevice(d)

FairSpec == Spec /\ Fairness

-----------------------------------------------------------------------------
(* Every variable stays in its set, exactly the two setValue stages have a *)
(* put outstanding, and what is late is a request of a form whose app has  *)
(* died.                                                                   *)
TypeOK ==
    /\ accounts \subseteq Emails
    /\ node \in [Nodes -> Forms \cup {NoForm}]
    /\ users \subseteq Forms
    /\ picture \in [Nodes -> Forms \cup {NoForm}]
    /\ late \in [Forms -> Requests \cup {"none"}]
    /\ pc \in [Forms -> Stages]
    /\ email \in [Forms -> Emails]
    /\ address \in [Forms -> Emails]
    /\ snapshot \in [Forms -> SUBSET Forms]
    /\ wire \in [Forms -> {"none", "pending", "applied", "rejected"}]
    /\ ahead \in [Forms -> SUBSET Forms]
    /\ check \in [Forms -> {"none", "asked", "null", "dictionary", "alert"}]
    /\ device \in [Forms -> Devices]
    /\ spinner \in [Devices -> BOOLEAN]
    /\ link \in [Devices -> {"connected", "disconnected", "dead"}]
    /\ faults \in 0..MaxFaults
    /\ inserted \subseteq Forms
    /\ rivals \in [Forms -> SUBSET Forms]
    /\ \A f \in Forms :
         /\ wire[f] # "none" <=> pc[f] \in {"insertingUser", "addingUser"}
         /\ late[f] # "none" => pc[f] = "lost"

(* Everybody the directory lists created an account when Register was      *)
(* pressed, and the address that is listed has a user node, also when it   *)
(* is another one by then: insertUser adds the entry in the callback of    *)
(* the node's write, so whoever is found by a search can be written to.    *)
ListedUserHasNode ==
    \A f \in users :
        /\ email[f] \in accounts
        /\ node[NodeOf(f)] # NoForm

(* A profile picture is stored only for a user who was added to the        *)
(* directory, and whose node was written, by the same form or by another   *)
(* one of an address with the same key.                                    *)
PictureOwnerIsInserted ==
    \A n \in Nodes : picture[n] # NoForm =>
        /\ picture[n] \in inserted
        /\ NodeOf(picture[n]) = n
        /\ node[n] # NoForm

(* Whatever userExists answers, two accounts never share an address: a     *)
(* node changes hands only between two addresses that have the same key,   *)
(* or when the field of one of the two forms was changed after the press.  *)
NodeIsKept ==
    \A f \in inserted :
        \/ node[NodeOf(f)] = f
        \/ \E g \in Forms : /\ node[NodeOf(f)] = g
                            /\ NodeOf(g) = NodeOf(f)
                            /\ \/ address[g] # address[f]
                               \/ FieldChanged(f)
                               \/ FieldChanged(g)

(* A user added while no other registration was adding one stays in the    *)
(* directory, in spite of resent puts, refused puts and crashes.  One      *)
(* whose app died is over for the others only when its put of the          *)
(* collection has been taken or is gone.                                   *)
LoneUserIsKept ==
    \A f \in inserted : rivals[f] = {} => f \in users

(* The chain has no hole: whatever stage it is in, the step that ends the  *)
(* stage can be taken, or the connection it needs can be made; and a put   *)
(* that waits for others is behind one that waits for none.                *)
ChainHasNoHole ==
    \A d \in Devices : \A f \in On(d) :
        /\ pc[f] \in {"signingUp", "accepted"} => ENABLED <<SignUp(f)>>_vars
        /\ pc[f] = "usersRead" => ENABLED <<Insert(f)>>_vars
        /\ pc[f] \in {"uploading", "fetchingUrl"} => ENABLED <<Upload(f)>>_vars
        /\ pc[f] \in {"insertingUser", "readingUsers", "addingUser"} /\ ~Online(d)
              => ENABLED <<restoreState(d)>>_vars
        /\ pc[f] = "readingUsers" /\ Online(d) => ENABLED <<ReadUsers(d)>>_vars
        /\ pc[f] \in {"insertingUser", "addingUser"} /\ Online(d) =>
              IF ahead[f] # {} THEN \E g \in ahead[f] \cap Outstanding(d) : ahead[g] = {}
              ELSE IF wire[f] = "pending" THEN ENABLED <<Serve(f)>>_vars
              ELSE ENABLED <<Insert(f)>>_vars

(* Every registration ends: the chain of callbacks has no hole, although   *)
(* a refused read of the collection ends it without a completion; and the  *)
(* spinner is gone by then, except that a refused createUser leaves it.    *)
RegistrationEnds ==
    \A f \in Forms :
        pc[f] = "signingUp" ~> /\ pc[f] \in Ended
                               /\ spinner[device[f]] => pc[f] = "refused"

(* The collection as SharedList has it: a form holds a copy from the read  *)
(* until the answer to its write, or until the put it left behind has been *)
(* taken or is gone.                                                       *)
Collection == INSTANCE SharedList WITH
    Writers <- Forms,
    list <- users,
    copy <- snapshot,
    stage <- [f \in Forms |-> IF \/ pc[f] \in {"usersRead", "addingUser"}
                                \/ late[f] = "addingUser" THEN "holding"
                              ELSE IF pc[f] \in Ended \cup {"uploading", "fetchingUrl"}
                                   THEN "ended" ELSE "out"]

(* insertUser, the put queue that sends a put again and the server         *)
(* together keep the promise of SharedList: no write of the collection     *)
(* reaches the server before its read or after its answer, or writes back  *)
(* anything but a former collection, or one about to be written on the     *)
(* same device, and the new user; one that arrives after the death of its  *)
(* app ends the form.                                                      *)
ImplementsSharedList == Collection!Spec

(* "user already exisis": a form whose address was found to have a user    *)
(* node, and whose sign-up was refused, has shown the alert.               *)
ExistingUserIsReported ==
    \A f \in Forms : pc[f] = "refused" => check[f] # "dictionary"
=============================================================================
