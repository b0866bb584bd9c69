------------------------------- MODULE Accounts -------------------------------
(***************************************************************************)
(* One user node, and everybody who writes it.                             *)
(*                                                                         *)
(* DatabaseManager.insertUser sets the node to the names of a new user;    *)
(* createNewConversation reads the node, adds an entry to its              *)
(* conversations, and writes it back, names and all.  Different addresses  *)
(* may have the same safeEmail, and so share the node; and the same        *)
(* account may be used on another device while the put of insertUser is    *)
(* still outstanding on the first, to be sent again after a lost           *)
(* connection.                                                             *)
(*                                                                         *)
(* The modules Conversations and Registration each follow one of the two   *)
(* writers to the end of its chain; this one puts them together, and ends  *)
(* a chain where its write of the node is answered.  A writer stands for   *)
(* one call: a registration, or a send.                                    *)
(***************************************************************************)
EXTENDS Naturals, Sequences

CONSTANTS
    Registrations, \* calls of insertUser, each for an address of its own
    Sends,         \* calls of createNewConversation
    Devices,
    DeviceOf,      \* where each writer runs
    OwnerOf,       \* the registration of the account a send is made from
    NoOne,         \* "no names"
    MaxFaults      \* bound: lost connections in a behaviour

Writers == Registrations \cup Sends

ASSUME AccountsAssumption ==
    /\ Registrations \cap Sends = {}
    /\ DeviceOf \in [Writers -> Devices]
    /\ OwnerOf \in [Sends -> Registrations]
    /\ NoOne \notin Registrations
    /\ MaxFaults \in Nat

VARIABLES
    node,      \* the user node on the server: whose names, and the conversations
    pc,        \* how far each writer has come
    base,      \* the node a send has read
    wire,      \* what the server did with the put of a writer
    puts,      \* the outstanding puts of each device, oldest first
    link,      \* whether each device is connected
    faults,    \* lost connections so far
    confirmed, \* history: writers whose write was acknowledged
    rivals     \* history: the writers each writer ran together with, or that
               \* registered the node anew

vars == <<node, pc, base, wire, puts, link, faults, confirmed, rivals>>

-----------------------------------------------------------------------------
Nodes == [names : Registrations \cup {NoOne}, conversations : SUBSET Sends]
NullNode == [names |-> NoOne, conversations |-> {}]

\* idle     not called yet
\* reading  observeSingleEvent waits for the server
\* read     the snapshot is on its way to the callback
\* writing  setValue is outstanding
Stages == {"idle", "reading", "read", "writing", "done", "failed"}

On(d) == {w \in Writers : DeviceOf[w] = d}
Active(w) == pc[w] \in {"reading", "read", "writing"}
Awaiting(d) == {w \in On(d) : pc[w] = "reading"}

Init ==
    /\ node = NullNode
    /\ pc = [w \in Writers |-> "idle"]
    /\ base = [s \in Sends |-> NullNode]
    /\ wire = [w \in Writers |-> "none"]
    /\ puts = [d \in Devices |-> <<>>]
    /\ link = [d \in Devices |-> "connected"]
    /\ faults = 0
    /\ confirmed = {}
    /\ rivals = [w \in Writers |-> {}]

-----------------------------------------------------------------------------
(* What a writer writes.                                                   *)
Value(w) ==
    IF w \in Registrations THEN [names |-> w, conversations |-> {}]
    ELSE [base[w] EXCEPT !.conversations = @ \cup {w}]

(* A send that reads while a put of its own device is outstanding gets the *)
(* value of the last one.  Mutated form: it waits for the server.          *)
NeverShadowed(d) == FALSE
Shadowed(d) == puts[d] # <<>>
LastPut(d) == puts[d][Len(puts[d])]

(* The writers whose writes may come between the read or the start of w    *)
(* and its write: those on other devices, and those on its own whose put   *)
(* is still to come.                                                       *)
Rivals(w) ==
    {v \in Writers \ {w} :
        Active(v) /\ ~(DeviceOf[v] = DeviceOf[w] /\ pc[v] = "writing")}

(* The writers whose write w may undo: a registration undoes them all.     *)
Disturbed(w) ==
    IF w \in Sends THEN Rivals(w)
    ELSE {v \in Writers \ {w} : pc[v] \in {"reading", "read", "writing", "done"}}

Meets(w) ==
    rivals' = [v \in Writers |-> IF v = w THEN Rivals(w)
                                 ELSE IF v \in Disturbed(w) THEN rivals[v] \cup {w}
                                 ELSE rivals[v]]

(* setValue: the put goes to the end of the device's queue, and the single *)
(* reads that wait on the device receive its value.                        *)
setValue(w) ==
    LET d == DeviceOf[w] IN
    /\ puts' = [puts EXCEPT ![d] = Append(@, w)]
    /\ wire' = [wire EXCEPT ![w] = "pending"]
    /\ pc' = [v \in Writers |-> IF v = w THEN "writing"
                                ELSE IF v \in Awaiting(d) THEN "read" ELSE pc[v]]
    /\ base' = [s \in Sends |-> IF s \in Awaiting(d) THEN Value(w) ELSE base[s]]

(* Auth has created the account.                                           *)
insertUser(r) ==
    /\ pc[r] = "idle"
    /\ setValue(r)
    /\ Meets(r)
    /\ UNCHANGED <<node, link, faults, confirmed>>

(* Send is pressed, on a device where the account is signed in.            *)
observeSingleEvent(s) ==
    LET d == DeviceOf[s] IN
    /\ pc[s] = "idle"
    /\ pc[OwnerOf[s]] # "idle"
    /\ IF Shadowed(d)
       THEN /\ pc' = [pc EXCEPT ![s] = "read"]
            /\ base' = [base EXCEPT ![s] = Value(LastPut(d))]
       ELSE /\ pc' = [pc EXCEPT ![s] = "reading"]
            /\ UNCHANGED base
    /\ Meets(s)
    /\ UNCHANGED <<node, wire, puts, link, faults, confirmed>>

(* The server answers the reads of a device, which share a view.           *)
ReadAnswered(d) ==
    /\ link[d] = "connected"
    /\ Awaiting(d) # {}
    /\ pc' = [w \in Writers |-> IF w \in Awaiting(d) THEN "read" ELSE pc[w]]
    /\ base' = [s \in Sends |-> IF s \in Awaiting(d) THEN node ELSE base[s]]
    /\ UNCHANGED <<node, wire, puts, link, faults, confirmed, rivals>>

(* The snapshot callback.                                                  *)
UserNotFound(s) ==
    /\ pc[s] = "read"
    /\ base[s] = NullNode
    /\ pc' = [pc EXCEPT ![s] = "failed"]
    /\ UNCHANGED <<node, base, wire, puts, link, faults, confirmed, rivals>>

createNewConversation(s) ==
    /\ pc[s] = "read"
    /\ base[s] # NullNode
    /\ setValue(s)
    /\ UNCHANGED <<node, link, faults, confirmed, rivals>>

(* The server takes the puts of a device in order, and may refuse one.     *)
(* Mutated form: in any order.                                             *)
AnyOnWire(d, i) == wire[puts[d][i]] = "pending"
NextOnWire(d, i) ==
    /\ wire[puts[d][i]] = "pending"
    /\ \A j \in 1..(i - 1) : wire[puts[d][j]] # "pending"

ServerDecides(d) ==
    /\ link[d] = "connected"
    /\ \E i \in 1..Len(puts[d]) :
         /\ NextOnWire(d, i)
         /\ \/ /\ wire' = [wire EXCEPT ![puts[d][i]] = "applied"]
               /\ node' = Value(puts[d][i])
            \/ /\ wire' = [wire EXCEPT ![puts[d][i]] = "rejected"]
               /\ UNCHANGED node
    /\ UNCHANGED <<pc, base, puts, link, faults, confirmed, rivals>>

(* Mutated forms of what the answer means and of what is left to answer.   *)
ErrorIgnored(w) == TRUE
StillThere(queue) == queue
Succeeded(w) == wire[w] = "applied"
WithoutFirst(queue) == Tail(queue)

(* The answer to the oldest put of a device.                               *)
PutAnswered(d) ==
    /\ link[d] = "connected"
    /\ puts[d] # <<>>
    /\ LET w == Head(puts[d]) IN
       /\ wire[w] # "pending"
       /\ pc' = [pc EXCEPT ![w] = IF Succeeded(w) THEN "done" ELSE "failed"]
       /\ confirmed' = IF Succeeded(w) THEN confirmed \cup {w} ELSE confirmed
       /\ wire' = [wire EXCEPT ![w] = "none"]
    /\ puts' = [puts EXCEPT ![d] = WithoutFirst(@)]
    /\ UNCHANGED <<node, base, link, faults, rivals>>

(* The connection drops: the puts after the first n, whose answers the     *)
(* client has and holds back, will be sent again.                          *)
onDisconnect(d) ==
    /\ link[d] = "connected"
    /\ faults < MaxFaults
    /\ faults' = faults + 1
    /\ link' = [link EXCEPT ![d] = "disconnected"]
    /\ \E n \in 0..Len(puts[d]) :
         /\ \A i \in 1..n : wire[puts[d][i]] # "pending"
         /\ wire' = [w \in Writers |-> IF \E i \in (n + 1)..Len(puts[d]) : puts[d][i] = w
                                       THEN "pending" ELSE wire[w]]
    /\ UNCHANGED <<node, pc, base, puts, confirmed, rivals>>

restoreState(d) ==
    /\ link[d] = "disconnected"
    /\ link' = [link EXCEPT ![d] = "connected"]
    /\ UNCHANGED <<node, pc, base, wire, puts, faults, confirmed, rivals>>

Next ==
    \/ \E r \in Registrations : insertUser(r)
    \/ \E s \in Sends :
         observeSingleEvent(s) \/ UserNotFound(s) \/ createNewConversation(s)
    \/ \E d \in Devices :
         \/ ReadAnswered(d) \/ ServerDecides(d) \/ PutAnswered(d)
         \/ onDisconnect(d) \/ restoreState(d)

Spec == Init /\ [][Next]_vars

-----------------------------------------------------------------------------
(* Every variable stays in its set; the queue of a device holds exactly    *)
(* its writers that are writing.                                           *)
TypeOK ==
    /\ node \in Nodes
    /\ pc \in [Writers -> Stages]
    /\ base \in [Sends -> Nodes]
    /\ wire \in [Writers -> {"none", "pending", "applied", "rejected"}]
    /\ \A d \in Devices :
         /\ puts[d] \in Seq(On(d))
         /\ {puts[d][i] : i \in 1..Len(puts[d])} = {w \in On(d) : pc[w] = "writing"}
    /\ link \in [Devices -> {"connected", "disconnected"}]
    /\ faults \in 0..MaxFaults
    /\ confirmed \subseteq Writers
    /\ rivals \in [Writers -> SUBSET Writers]

(* An acknowledged conversation is in the node, unless another writer      *)
(* overlapped it on the way or somebody registered the node after it: a    *)
(* registration that is resent, or one of another address with the same    *)
(* key, sets the node to names only.                                       *)
LoneConversationIsKept ==
    \A s \in confirmed \cap Sends : rivals[s] = {} => s \in node.conversations

(* The names of an acknowledged registration are those of the node, unless *)
(* a writer overlapped it or somebody registered the node after it: a send *)
(* that read the node before writes the former names back.                 *)
LoneNamesAreKept ==
    \A r \in confirmed \cap Registrations : rivals[r] = {} => node.names = r

(* A send is told "user not found" only if no registration of the node was *)
(* acknowledged when its device read it.                                   *)
RegisteredUserIsFound ==
    \A s \in Sends :
        pc[s] = "read" /\ base[s] = NullNode =>
            OwnerOf[s] \notin confirmed \/ OwnerOf[s] \in rivals[s]
=============================================================================
