---------------------------- MODULE Conversations ----------------------------
(***************************************************************************)
(* The chat database: what happens between the Send button of a new chat   *)
(* and the two writes that create the conversation, on several devices.    *)
(*                                                                         *)
(* DatabaseManager.createNewConversation reads the whole user node, adds   *)
(* an entry to its "conversations" array, writes the whole node back and,  *)
(* when that write is acknowledged, writes the conversation node (in       *)
(* finishCreateConversation).  Each call is a chain of callbacks, and      *)
(* nothing keeps two chains apart: the user may press Send again before    *)
(* the first chain ends, and the same account may be used on two devices.  *)
(*                                                                         *)
(* Between the app and the server is the Firebase client: it serves reads  *)
(* from a pending local write, numbers the puts, sends them in order, and  *)
(* after a lost connection sends every unacknowledged put again.  When the *)
(* app dies, the puts it has already handed to its socket are still on     *)
(* their way.  The database server itself is external.                     *)
(*                                                                         *)
(* A send stands for one press of the Send button and for the message, the *)
(* list entry and the callbacks that belong to it.  The "conversations"    *)
(* array is kept as the set of its entries: their order is only a layout.  *)
(***************************************************************************)
EXTENDS Naturals, FiniteSets

CONSTANTS
    Accounts,   \* registered e-mail addresses (in their safeEmail form)
    Devices,    \* running copies of the app
    Sends,      \* presses of the Send button
    AccountOf,  \* the account signed in on each device
    DeviceOf,   \* the device on which each Send is pressed
    OtherOf,    \* the account the conversation is started with
    NoSend,     \* "no message here"
    MaxClock,   \* bound: the last value of the clock (in seconds)
    MaxFaults   \* bound: lost connections and crashes in a behaviour

ASSUME ConstantsAssumption ==
    /\ AccountOf \in [Devices -> Accounts]
    /\ DeviceOf \in [Sends -> Devices]
    /\ OtherOf \in [Sends -> Accounts]
    /\ NoSend \notin Sends
    /\ MaxClock \in Nat
    /\ MaxFaults \in Nat

VARIABLES
    \* the database server
    node,         \* /safeEmail of each user: present, and its conversations
    message,      \* /conversation_<id>: the send whose message is stored there
    late,         \* the put of a dead app that may still reach the server
    ahead,        \* the late puts that left before it on the same connection
    \* the callback chain of each send
    pc,           \* how far it has come
    stamp,        \* the second in which Send was pressed
    base,         \* the user node its read returned
    wire,         \* what the server did with its outstanding put
    putNumber,    \* the number of its outstanding put
    \* each device
    link,         \* the state of its connection, "dead" when the app is not running
    putCounter,   \* the next put number
    cache,        \* the entries the listener last received from the server
    shown,        \* the rows of the conversations screen
    \* the environment
    clock,        \* the time, in seconds
    faults,       \* lost connections and crashes so far
    \* history, read by no action
    listed,       \* sends whose list entry the server has stored
    confirmed,    \* sends whose list entry the server acknowledged
    rivals        \* the sends of the same account each send ran together with

serverVars  == <<node, message, late, ahead>>
sendVars    == <<pc, stamp, base, wire, putNumber>>
deviceVars  == <<link, putCounter, cache, shown>>
envVars     == <<clock, faults>>
historyVars == <<listed, confirmed, rivals>>
vars == <<serverVars, sendVars, deviceVars, envVars, historyVars>>

-----------------------------------------------------------------------------
UserNodes == [present: BOOLEAN, conversations: SUBSET Sends]
Users == {AccountOf[d] : d \in Devices}
ConversationIds == Accounts \X Accounts \X (0..MaxClock)

\* idle       Send not pressed yet
\* reading    observeSingleEvent waits for the user node
\* read       the snapshot is on its way to the callback
\* listing    setValue of the whole user node is outstanding
\* storing    setValue of the conversation node is outstanding
\* sent       completion(true)
\* failed     completion(false)
\* denied     the read was refused: there is no cancel block, so no completion
\* lost       the app died first
Stages == {"idle", "reading", "read", "listing", "storing",
           "sent", "failed", "denied", "lost"}

\* The put of a send that the client has sent, or will send once connected, and
\* what the server has decided about it without the client knowing yet.
WireStates == {"pending", "applied", "rejected"}

\* What a late put writes: the user node, the conversation node, or nothing any
\* more.
LatePuts == {"none", "listing", "storing"}

User(s) == AccountOf[DeviceOf[s]]
On(d) == {s \in Sends : DeviceOf[s] = d}
Listing(d) == {s \in On(d) : pc[s] = "listing"}
Outstanding(d) == {s \in On(d) : pc[s] \in {"listing", "storing"}}
Awaiting(d) == {s \in On(d) : pc[s] = "reading"}

\* The chain of s has begun and its list entry is not acknowledged yet.
Active(s) == pc[s] \in {"reading", "read", "listing"}

Running(d) == link[d] # "dead"
Online(d) == link[d] = "connected"

Init ==
    /\ node \in [Users -> {[present |-> p, conversations |-> {}] : p \in BOOLEAN}]
    /\ message = [c \in ConversationIds |-> NoSend]
    /\ late = [s \in Sends |-> "none"]
    /\ ahead = [s \in Sends |-> {}]
    /\ pc = [s \in Sends |-> "idle"]
    /\ stamp = [s \in Sends |-> 0]
    /\ base = [s \in Sends |-> [present |-> FALSE, conversations |-> {}]]
    /\ wire = [s \in Sends |-> "pending"]
    /\ putNumber = [s \in Sends |-> 0]
    /\ link = [d \in Devices |-> "disconnected"]
    /\ putCounter = [d \in Devices |-> 0]
    /\ cache = [d \in Devices |-> {}]
    /\ shown = [d \in Devices |-> {}]
    /\ clock = 0
    /\ faults = 0
    /\ listed = {}
    /\ confirmed = {}
    /\ rivals = [s \in Sends |-> {}]

-----------------------------------------------------------------------------
(* The message identifier: other account, own account and the date, whose  *)
(* format stops at seconds.                                                *)
createRandomEMessageId(s, second) == <<OtherOf[s], User(s), second>>
conversationId(s) == createRandomEMessageId(s, stamp[s])

(* A mutated form of userNode: the array is always created.                *)
newUserNode(s) == [present |-> TRUE, conversations |-> {s}]

(* The node a put of s writes: the node that was read plus its own entry.  *)
(* A missing "conversations" array is created, an existing one extended.   *)
userNode(s) ==
    [present |-> TRUE, conversations |-> base[s].conversations \cup {s}]

(* The pending write that shadows the user node on d: the latest one.      *)
Shadows(t, d) ==
    /\ t \in Listing(d)
    /\ \A r \in Listing(d) : putNumber[r] <= putNumber[t]

(* A single read: served from the shadowing write when there is one,       *)
(* otherwise it waits for the server.                                      *)
observeSingleEvent(s) ==
    \/ \E t \in Sends :
         /\ Shadows(t, DeviceOf[s])
         /\ pc' = [pc EXCEPT ![s] = "read"]
         /\ base' = [base EXCEPT ![s] = userNode(t)]
    \/ /\ Listing(DeviceOf[s]) = {}
       /\ pc' = [pc EXCEPT ![s] = "reading"]
       /\ UNCHANGED base

(* The sends a read of s can miss, or that can miss s: those of the same   *)
(* account in progress now, unless s reads from their pending write, and   *)
(* those whose app has died and whose put of the list is still on its way. *)
Rivals(s) ==
    {t \in Sends \ {s} :
        /\ User(t) = User(s)
        /\ \/ Active(t) /\ ~(DeviceOf[t] = DeviceOf[s] /\ pc[t] = "listing")
           \/ late[t] = "listing"}

(* A mutated form: the rows are filled once and never replaced.            *)
fillRowsOnce(entries, rows) ==
    IF rows = {} THEN entries ELSE rows

(* The rows after a value event: a null value is reported as a failure and *)
(* leaves the rows alone, and so does an empty array.                      *)
startListinigForConversation(entries, rows) ==
    IF entries = {} THEN rows ELSE entries

(* Send is pressed on a new chat with a text that is not blank.            *)
didPressSendButton(s) ==
    /\ pc[s] = "idle"
    /\ Running(DeviceOf[s])
    /\ stamp' = [stamp EXCEPT ![s] = clock]
    /\ observeSingleEvent(s)
    /\ rivals' = [t \in Sends |->
                    IF t = s THEN Rivals(s)
                    ELSE IF t \in Rivals(s) THEN rivals[t] \cup {s}
                    ELSE rivals[t]]
    /\ UNCHANGED <<serverVars, wire, putNumber, deviceVars, envVars, listed,
                   confirmed>>

(* The server answers the read: every single read waiting on the device    *)
(* shares the view of the node and gets the same snapshot.                 *)
ReadAnswered(d) ==
    /\ Online(d)
    /\ Awaiting(d) # {}
    /\ pc' = [s \in Sends |-> IF s \in Awaiting(d) THEN "read" ELSE pc[s]]
    /\ base' = [s \in Sends |->
                  IF s \in Awaiting(d) THEN node[AccountOf[d]] ELSE base[s]]
    /\ UNCHANGED <<serverVars, stamp, wire, putNumber, deviceVars, envVars,
                   historyVars>>

(* The server refuses the read; the caller passed no cancel block.         *)
ReadDenied(d) ==
    /\ Online(d)
    /\ Awaiting(d) # {}
    /\ pc' = [s \in Sends |-> IF s \in Awaiting(d) THEN "denied" ELSE pc[s]]
    /\ UNCHANGED <<serverVars, stamp, base, wire, putNumber, deviceVars,
                   envVars, historyVars>>

(* The snapshot callback when there is no user node: completion(false).    *)
UserNotFound(s) ==
    /\ pc[s] = "read"
    /\ ~base[s].present
    /\ pc' = [pc EXCEPT ![s] = "failed"]
    /\ UNCHANGED <<serverVars, stamp, base, wire, putNumber, deviceVars,
                   envVars, historyVars>>

(* setValue: the put gets the next number of its device.                   *)
put(s) ==
    LET d == DeviceOf[s] IN
    /\ putNumber' = [putNumber EXCEPT ![s] = putCounter[d]]
    /\ putCounter' = [putCounter EXCEPT ![d] = @ + 1]
    /\ wire' = [wire EXCEPT ![s] = "pending"]

(* The snapshot callback: setValue of the whole node.  The local value is  *)
(* shown at once, and reads of the node waiting on the device receive it.  *)
createNewConversation(s) ==
    LET d == DeviceOf[s]
        waiting == Awaiting(d)
    IN
    /\ pc[s] = "read"
    /\ base[s].present
    /\ put(s)
    /\ pc' = [t \in Sends |-> IF t = s THEN "listing"
                              ELSE IF t \in waiting THEN "read" ELSE pc[t]]
    /\ base' = [t \in Sends |-> IF t \in waiting THEN userNode(s) ELSE base[t]]
    /\ shown' = [shown EXCEPT ![d] = userNode(s).conversations]
    /\ UNCHANGED <<serverVars, stamp, link, cache, envVars, historyVars>>

(* A mutated form of NextOnWire: puts are resent in any order.             *)
AnyOnWire(s) ==
    Online(DeviceOf[s]) /\ s \in Outstanding(DeviceOf[s]) /\ wire[s] = "pending"

(* The connection is a FIFO: the server takes the puts in their order.     *)
NextOnWire(s) ==
    LET d == DeviceOf[s] IN
    /\ Online(d)
    /\ s \in Outstanding(d)
    /\ wire[s] = "pending"
    /\ \A t \in Outstanding(d) : putNumber[t] < putNumber[s] => wire[t] # "pending"

(* The server takes a put of s: that of the user node or that of the       *)
(* conversation node.                                                      *)
Store(s, what) ==
    \/ /\ what = "listing"
       /\ node' = [node EXCEPT ![User(s)] = userNode(s)]
       /\ listed' = listed \cup {s}
       /\ UNCHANGED message
    \/ /\ what = "storing"
       /\ message' = [message EXCEPT ![conversationId(s)] = s]
       /\ UNCHANGED <<node, listed>>

ServerApplies(s) ==
    /\ NextOnWire(s)
    /\ wire' = [wire EXCEPT ![s] = "applied"]
    /\ Store(s, pc[s])
    /\ UNCHANGED <<late, ahead, pc, stamp, base, putNumber, deviceVars, envVars,
                   confirmed, rivals>>

(* The security rules refuse the write.                                    *)
ServerRejects(s) ==
    /\ NextOnWire(s)
    /\ wire' = [wire EXCEPT ![s] = "rejected"]
    /\ UNCHANGED <<serverVars, pc, stamp, base, putNumber, deviceVars, envVars,
                   historyVars>>

(* Mutated forms of OldestAnswered: the callback does not wait for the     *)
(* answer; it does not look at the error; a put waits for itself.          *)
OldestUnanswered(s, answer) ==
    /\ Online(DeviceOf[s]) /\ s \in Outstanding(DeviceOf[s])
    /\ \A t \in Outstanding(DeviceOf[s]) : putNumber[s] <= putNumber[t]
OldestErrorIgnored(s, answer) ==
    OldestUnanswered(s, answer) /\ wire[s] # "pending"
OldestStrictly(s, answer) ==
    /\ OldestErrorIgnored(s, answer) /\ wire[s] = answer
    /\ \A t \in Outstanding(DeviceOf[s]) : putNumber[s] < putNumber[t]

(* The answer to the oldest outstanding put of the device arrives.         *)
OldestAnswered(s, answer) ==
    LET d == DeviceOf[s] IN
    /\ Online(d)
    /\ s \in Outstanding(d)
    /\ wire[s] = answer
    /\ \A t \in Outstanding(d) : putNumber[s] <= putNumber[t]

(* The rows after the pending write of s is gone and the server's list is  *)
(* entries: a later pending write still shadows it.  Mutated form: nothing *)
(* shadows it.                                                             *)
RowsUnshadowed(s, entries) ==
    startListinigForConversation(entries, shown[DeviceOf[s]])
RowsWithout(s, entries) ==
    LET d == DeviceOf[s] IN
    IF Listing(d) \ {s} # {} THEN shown[d]
    ELSE startListinigForConversation(entries, shown[d])

(* The user node is written: finishCreateConversation puts the             *)
(* conversation node.  The server sends the new value before the answer.   *)
finishCreateConversation(s) ==
    LET d == DeviceOf[s]
        entries == node[User(s)].conversations
    IN
    /\ pc[s] = "listing"
    /\ OldestAnswered(s, "applied")
    /\ put(s)
    /\ pc' = [pc EXCEPT ![s] = "storing"]
    /\ cache' = [cache EXCEPT ![d] = entries]
    /\ shown' = [shown EXCEPT ![d] = RowsWithout(s, entries)]
    /\ confirmed' = confirmed \cup {s}
    /\ UNCHANGED <<serverVars, stamp, base, link, envVars, listed, rivals>>

(* The conversation node is written: completion(true).                     *)
MessageSent(s) ==
    /\ pc[s] = "storing"
    /\ OldestAnswered(s, "applied")
    /\ pc' = [pc EXCEPT ![s] = "sent"]
    /\ UNCHANGED <<serverVars, stamp, base, wire, putNumber, deviceVars,
                   envVars, historyVars>>

(* Either write is refused: completion(false).  The client takes back its  *)
(* pending value.                                                          *)
MessageFailed(s) ==
    LET d == DeviceOf[s] IN
    /\ OldestAnswered(s, "rejected")
    /\ pc' = [pc EXCEPT ![s] = "failed"]
    /\ shown' = [shown EXCEPT ![d] = IF pc[s] = "listing"
                                     THEN RowsWithout(s, cache[d]) ELSE @]
    /\ UNCHANGED <<serverVars, stamp, base, wire, putNumber, link, putCounter,
                   cache, envVars, historyVars>>

(* The listener receives the server's list.                                *)
getAllConversation(d) ==
    LET entries == node[AccountOf[d]].conversations IN
    /\ Online(d)
    /\ cache[d] # entries
    /\ cache' = [cache EXCEPT ![d] = entries]
    /\ shown' = [shown EXCEPT ![d] =
                   IF Listing(d) # {} THEN @
                   ELSE startListinigForConversation(entries, @)]
    /\ UNCHANGED <<serverVars, sendVars, link, putCounter, envVars, historyVars>>

(* The connection comes up: outstanding reads and puts are (re)sent.       *)
restoreState(d) ==
    /\ link[d] = "disconnected"
    /\ link' = [link EXCEPT ![d] = "connected"]
    /\ UNCHANGED <<serverVars, sendVars, putCounter, cache, shown, envVars,
                   historyVars>>

(* The sets of puts whose answer the client may have and hold back, as     *)
(* long as it waits for the answer to a listen: answers come in order.     *)
putsToAck(d) ==
    {acked \in SUBSET {s \in Outstanding(d) : wire[s] # "pending"} :
        \A s \in acked, t \in Outstanding(d) : putNumber[t] < putNumber[s] => t \in acked}

(* The connection drops: the answers under way are lost, and every put the *)
(* client has no answer to will be sent again, although the server may     *)
(* have applied it.                                                        *)
onDisconnect(d) ==
    /\ Online(d)
    /\ faults < MaxFaults
    /\ faults' = faults + 1
    /\ link' = [link EXCEPT ![d] = "disconnected"]
    /\ \E acked \in putsToAck(d) :
         wire' = [s \in Sends |->
                    IF s \in Outstanding(d) \ acked THEN "pending" ELSE wire[s]]
    /\ UNCHANGED <<serverVars, pc, stamp, base, putNumber, putCounter, cache,
                   shown, clock, historyVars>>

(* The app dies.  Nothing it holds is on disk: persistence is not enabled. *)
(* What it has handed to its socket is not undone: the puts the server has *)
(* not taken yet become late.  (Dying without a connection leaves none:    *)
(* nothing that a cut-off client does is seen by the server, so a put that *)
(* arrives after the connection was noticed to be lost is one that was     *)
(* taken, or became late, just before.)                                    *)
Crash(d) ==
    LET sent == {s \in Outstanding(d) : Online(d) /\ wire[s] = "pending"} IN
    /\ Running(d)
    /\ faults < MaxFaults
    /\ faults' = faults + 1
    /\ link' = [link EXCEPT ![d] = "dead"]
    /\ pc' = [s \in Sends |->
                IF s \in Outstanding(d) \/ (DeviceOf[s] = d /\ Active(s))
                THEN "lost" ELSE pc[s]]
    /\ late' = [s \in Sends |-> IF s \in sent THEN pc[s] ELSE late[s]]
    /\ ahead' = [s \in Sends |->
                   IF s \in sent THEN {t \in sent : putNumber[t] < putNumber[s]}
                   ELSE ahead[s]]
    /\ putCounter' = [putCounter EXCEPT ![d] = 0]
    /\ cache' = [cache EXCEPT ![d] = {}]
    /\ shown' = [shown EXCEPT ![d] = {}]
    /\ UNCHANGED <<node, message, stamp, base, wire, putNumber, clock,
                   historyVars>>

(* A late put is the next of its connection.                               *)
NextLate(s) == late[s] # "none" /\ \A t \in ahead[s] : late[t] = "none"

(* The server takes a late put; nobody is there to be told.                *)
LateApplied(s) ==
    /\ NextLate(s)
    /\ Store(s, late[s])
    /\ late' = [late EXCEPT ![s] = "none"]
    /\ UNCHANGED <<ahead, sendVars, deviceVars, envVars, confirmed, rivals>>

(* The security rules refuse a late put, or it never arrives.              *)
LateDropped(s) ==
    /\ NextLate(s)
    /\ late' = [late EXCEPT ![s] = "none"]
    /\ UNCHANGED <<node, message, ahead, sendVars, deviceVars, envVars,
                   historyVars>>

(* The app is started again and its listener attached.                     *)
Restart(d) ==
    /\ link[d] = "dead"
    /\ link' = [link EXCEPT ![d] = "disconnected"]
    /\ UNCHANGED <<serverVars, sendVars, putCounter, cache, shown, envVars,
                   historyVars>>

Tick ==
    /\ clock < MaxClock
    /\ clock' = clock + 1
    /\ UNCHANGED <<serverVars, sendVars, deviceVars, faults, historyVars>>

Answer(s) ==
    \/ UserNotFound(s)
    \/ createNewConversation(s)
    \/ finishCreateConversation(s)
    \/ MessageSent(s)
    \/ MessageFailed(s)

Serve(s) == ServerApplies(s) \/ ServerRejects(s)
TakeLate(s) == LateApplied(s) \/ LateDropped(s)
AnswerRead(d) == ReadAnswered(d) \/ ReadDenied(d)

Next ==
    \/ \E s \in Sends : \/ didPressSendButton(s)
                        \/ Serve(s)
                        \/ Answer(s)
                        \/ TakeLate(s)
    \/ \E d \in Devices : \/ AnswerRead(d)
                          \/ getAllConversation(d)
                          \/ restoreState(d)
                          \/ onDisconnect(d)
                          \/ Crash(d)
                          \/ Restart(d)
    \/ Tick

Spec == Init /\ [][Next]_vars

(* Callbacks run, the server answers, and the client reconnects.  Nobody   *)
(* has to press Send, nothing has to fail, no app has to be restarted, and *)
(* a late put need not arrive.                                             *)
Fairness ==
    /\ \A s \in Sends : WF_vars(Serve(s)) /\ WF_vars(Answer(s))
    /\ \A d \in Devices : /\ WF_vars(AnswerRead(d))
                          /\ WF_vars(getAllConversation(d))
                          /\ WF_vars(restoreState(d))

FairSpec == Spec /\ Fairness

-----------------------------------------------------------------------------
(* Every variable stays in its set, and a put number was handed out by the *)
(* device's counter before it was used (FPersistentConnection.putInternal).*)
TypeOK ==
    /\ node \in [Users -> UserNodes]
    /\ message \in [ConversationIds -> Sends \cup {NoSend}]
    /\ late \in [Sends -> LatePuts]
    /\ ahead \in [Sends -> SUBSET Sends]
    /\ pc \in [Sends -> Stages]
    /\ stamp \in [Sends -> 0..MaxClock]
    /\ base \in [Sends -> UserNodes]
    /\ wire \in [Sends -> WireStates]
    /\ putNumber \in [Sends -> Nat]
    /\ link \in [Devices -> {"connected", "disconnected", "dead"}]
    /\ putCounter \in [Devices -> Nat]
    /\ cache \in [Devices -> SUBSET Sends]
    /\ shown \in [Devices -> SUBSET Sends]
    /\ clock \in 0..MaxClock
    /\ faults \in 0..MaxFaults
    /\ listed \subseteq Sends
    /\ confirmed \subseteq Sends
    /\ rivals \in [Sends -> SUBSET Sends]
    /\ \A d \in Devices : \A s \in Outstanding(d) : putNumber[s] < putCounter[d]
    /\ \A s \in Sends : late[s] # "none" => pc[s] = "lost"

(* A conversation node holds only the message of a send whose list entry   *)
(* the server has stored: finishCreateConversation runs in the callback of *)
(* the first write, and no resend, refusal, crash or put that arrives      *)
(* after a crash gets ahead of it.                                         *)
MessageFollowsEntry ==
    \A c \in ConversationIds : message[c] # NoSend => message[c] \in listed

(* completion(true) is told only when the message is stored where its      *)
(* entry points, unless a send with the same identifier replaced it.       *)
SentMessageIsStored ==
    \A s \in Sends :
        pc[s] = "sent" =>
            \/ message[conversationId(s)] = s
            \/ \E t \in Sends \ {s} : /\ pc[t] # "idle"
                                      /\ conversationId(t) = conversationId(s)
                                      /\ message[conversationId(s)] = t

(* An acknowledged entry is never lost unless another send of the account  *)
(* overlapped it: the read-modify-write of createNewConversation is safe   *)
(* when it runs alone, or after the earlier one of the device was put, in  *)
(* spite of resent puts, refused puts and crashes.  A send whose app died  *)
(* is over for the others only when its put has been taken or is gone.     *)
LoneEntryIsKept ==
    \A s \in confirmed :
        rivals[s] = {} => s \in node[User(s)].conversations

(* The rows follow the listener through local writes, acknowledgements and *)
(* refusals, on every device: they are what the latest pending write is    *)
(* about to make of the list or, with none, what the server last sent,     *)
(* except that an empty list leaves them as they were.                     *)
RowsFollow ==
    \A d \in Devices :
        /\ \A t \in Listing(d) : Shadows(t, d) => shown[d] = userNode(t).conversations
        /\ Listing(d) = {} => cache[d] \in {{}, shown[d]}

(* Every press of Send reaches an end: completion, a refused read, or the  *)
(* death of the app.                                                       *)
SendEnds ==
    \A s \in Sends : Active(s) ~> pc[s] \in {"sent", "failed", "denied", "lost"}

(* Once things are quiet, the rows are the account's list, unless that     *)
(* list is empty (a null or empty list leaves the rows as they were).      *)
RowsConverge ==
    \A d \in Devices :
        <>[](\/ link[d] = "dead"
             \/ node[AccountOf[d]].conversations \in {{}, shown[d]})

(* The conversations of user u as SharedList has them: a send holds a copy *)
(* from the snapshot, taken from the server or from the pending write of   *)
(* another send, until the answer to its write, or until the put it left   *)
(* behind has been taken or is gone.                                       *)
SendsOf(u) == {s \in Sends : User(s) = u}
ListOf(u) == INSTANCE SharedList WITH
    Writers <- SendsOf(u),
    list <- node[u].conversations,
    copy <- [s \in SendsOf(u) |-> base[s].conversations],
    stage <- [s \in SendsOf(u) |-> IF \/ pc[s] \in {"read", "listing"}
                                      \/ late[s] = "listing" THEN "holding"
                                   ELSE IF pc[s] \in {"idle", "reading"} THEN "out"
                                   ELSE "ended"]

(* createNewConversation, the put queue and the server together keep the   *)
(* promise of SharedList: an entry is written from a snapshot, never       *)
(* before it nor after its answer, whatever is sent again, and at most     *)
(* once more after the death of the app.                                   *)
ImplementsSharedList ==
    /\ \A u \in Users : ListOf(u)!Init
    /\ [][\A u \in Users : [ListOf(u)!Next]_(ListOf(u)!sharedList)]_vars

(* "you should append": no write takes an entry out of a user's list.      *)
AppendKeepsConversations ==
    [][\A u \in Users : node[u].conversations \subseteq node'[u].conversations]_vars
=============================================================================
