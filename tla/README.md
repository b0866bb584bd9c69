# IChat: a verification project

IChat is an iOS chat client in Swift over Firebase: Auth for accounts, the
Realtime Database for users and conversations, Storage for profile pictures.
The application's own code is 15 Swift files under `src/IChat/IChat`; the
Firebase clients, SDWebImage, MessageKit and JGProgressHUD are vendored under
`src/IChat/Pods`. There are no tests.

Nearly everything the application does is a chain of callbacks against servers
that other devices use at the same time. What makes it hard to get right is not
in any one function: it is what the chains may do to each other, what a lost
connection or a dead process leaves behind, and what the app still believes
about a user who has gone. The modules model exactly that, and the parts of the
vendored clients that the chains run on; layout, colours and logging are left out.

Paths below are relative to `src/IChat/IChat` (application) and `src/IChat/Pods`
(clients).

## 1. Inventory

| Component | State | Operations | Talks to |
|---|---|---|---|
| `Resources/DatabaseManager.swift` | one shared instance; `userEmail`, read once | `userExists`, `insertUser`, `getallUser`, `createNewConversation`, `finishCreateConversation`, `getAllConversation`; three empty stubs | database client, called by every screen |
| `Resources/StorageManager.swift` | none | `uploadProfilePicture`, `downloadUrl` | Storage |
| `Controllers/Login/RegisterViewController.swift` | form, spinner, picture | `registerBtnTapped`, `signUp` | Auth, DatabaseManager, StorageManager |
| `Controllers/Login/LoginViewController.swift` | form, spinner, alert | `loginBtnTapped`, `login`, `didTapRegister` | Auth |
| `Controllers/ConversationViewController.swift` | rows | load, listen, present login, open a chat | Auth, DatabaseManager |
| `Controllers/NewConversationViewController.swift` | `hasFetched`, `users`, `results`, spinner, completion | search, filter, choose, cancel | DatabaseManager |
| `Controllers/ChatViewController.swift` | sender, other user, `isNewConversation` | Send | Auth, DatabaseManager |
| `Controllers/ProfileViewController.swift` | header | show picture, log out | Auth, StorageManager |
| `Views/ConversationsTableViewCell.swift` | one row's texts and image view, used for many rows | `configure` | StorageManager, SDWebImage |
| `Resources/ImagePicker.swift`, viewers, extensions, delegates | | system interface | |
| `FirebaseDatabase`: `Core/FPersistentConnection.m`, writes and listens | outstanding puts, `putsToAck`, listens, `unackedListensCount`, connection state | `putInternal`, `sendPut`, `listen`, `restoreState`, `onDisconnect` | server |
| `FirebaseDatabase`: the same file and `FIRRetryHelper.m`, connecting | retry, interrupt reasons, the wish for a new token, token | `tryScheduleReconnect`, `interruptForReason`, `resumeForReason`, `refreshAuthToken` | Auth, server |
| `FirebaseAuth`: `FIRAuth.m`, `FIRUser.m`, the token | current user, cached token, queue of fetches | token fetches, token notifications, sign-out of an invalid user | the client above |
| `FirebaseDatabase`: `Core/FSyncTree.m`, `FWriteTree.m`, `Core/View` | pending writes over server data, one view per query | reads, listeners, acknowledgement, rollback | `FPersistentConnection` |
| `SDWebImage`: view category, manager, downloader | an image view's current load, caches, failed addresses, one operation per address with its handlers | load, cancel, join or start a download, call back | picture servers |

Interactions that matter:

* Screens call `DatabaseManager.shared` and leave; the callbacks run on the main
  queue whenever the answers come, also when the screen has been closed.
* `createNewConversation` and `insertUser` read a whole node, change the copy, and
  write the whole node back. Nothing keeps two of them apart, on one device or two,
  nor one of the first from one of the second on the same user node.
* The client orders the puts of one device and sends unacknowledged ones again;
  reads and listeners see the device's own pending writes at once.
* Auth is asked for the current user in seven places: six unwrap the answer, three keep
  what they made of it.
* The client learns from Auth who is signed in by two ways, notifications and the
  answers to its own fetches, and decides on a third, the state of the connection,
  what to do with it.
* Cells are used again while what was asked for their former row is under way.

What is hard, and the property that states what should hold nevertheless, is in
`PROJECT.json` under `hazards`, each at the line where it bites.

## 2. The modules

    Conversations         <- MCConversations          ConversationsProofs
    Registration          <- MCRegistration           RegistrationProofs
    Search                <- MCSearch                 SearchProofs
    Session               <- MCSession                SessionProofs
    Pictures              <- MCPictures               PicturesProofs
    Accounts              <- MCAccounts               AccountsProofs
    PersistentConnection  <- MCPersistentConnection   PersistentConnectionProofs
    ConnectionAttempts    <- MCConnectionAttempts     ConnectionAttemptsProofs

    SharedList   implemented by Conversations (each user's list)
                 and Registration (the users collection)
    WritePipe    implemented by PersistentConnection

Each component module holds as much of the client and the servers as its component
can observe; the last three lines of the first list look at what the others
share or take as given. `MC*` gives the constants values for TLC; `*Proofs` extends the
component's module with the theorems.

### Conversations: the Send button and the chat database

A *send* is one press of Send in a new chat, and stands for its message, its list
entry and its chain of callbacks. `pc` is how far the chain has come.

| Model | Code |
|---|---|
| `didPressSendButton`, `createRandomEMessageId` | `ChatViewController` 128-172 |
| `observeSingleEvent`, `ReadAnswered`, `ReadDenied` | the read at `DatabaseManager` 216, served by `FSyncTree.addEventRegistration` from a pending write or by the server; overlapping reads share one view |
| `UserNotFound`, `createNewConversation` | its callback, with the early return; `userNode` is what both branches write |
| `put`, `NextOnWire`, `OldestAnswered` | `putInternal` and `sendPut` of the client: numbers, order on the wire, the answer |
| `finishCreateConversation`, `MessageSent`, `MessageFailed` | the completion of the first write, the second write, its completion |
| `getAllConversation`, `startListinigForConversation`, `RowsWithout` | the listener, and the rows under pending writes, acknowledgement and rollback |
| `restoreState`, `onDisconnect`, `putsToAck`, `Crash`, `Restart` | the connection and the process; the answers the client has, and holds back for a listen, outlive the connection, the others are lost; persistence is not enabled, so a dead process forgets the rest of its chains |
| `late`, `ahead`, `LateApplied`, `LateDropped` | what a dead process had handed to its socket (`putInternal` 750-752): external, see below |

The "conversations" array is the set of its entries, and a message identifier a
triple (other, own, second) because that is all its text depends on.
`rivals`, `listed`, `confirmed` are history variables.

*Requests under way.* When a process dies, the puts that its client had sent and the
server has not taken become `late`. Each may still be taken at any later time, in
the order in which they left (`ahead`), be refused, or never arrive; a dead process
is told nothing. So the entry of a dead send can reach the list after another
device has read it, or written it. The send therefore stays a rival of those that
begin meanwhile (`Rivals`), and `SharedList` sees it as a writer until its put is
taken or gone. A connection that is lost while the process lives leaves nothing
behind in this way: the next one names the session before it (`lastSessionID`,
`FPersistentConnection.m` 104 and 328, `FRepoInfo.m` 117), which is taken to mean that
the server has ended that session before it serves the new one. This, and that the
server takes the puts of a connection in order, are the two assumptions about the
network. A process that dies while it has no connection therefore leaves no
late put.

### Registration: from the Register button to the profile picture

A *form* is one press of Register, on the screen of its `device`. `signUp` inserts
the user node, closes the screen at once and runs on: node, read of the `users`
collection, write of the collection, upload, download address. `userExists` is asked
at the same time and nobody waits for it. `SafeEmail` is a constant function, many to
one, because `safeEmail` maps both "." and "@" to "-". Auth and Storage are external
actions.

| Model | Code |
|---|---|
| `registerBtnTapped`, `UserExistsAnswered`, `CheckAnswered` | `RegisterViewController` 256-308; `userExists`. Return in the password field (156) presses Register again, so a screen may have several chains at once |
| `email` | the address at the press (305), with which `createUser` is called (336) |
| `address`, `emailField` | the address of the `ChatAppUser`, read from the field when `createUser` has succeeded (360): anything typed by then while the screen is open; once a chain has closed the screen, what that chain found there |
| `insertUser`, `ReadUsers`, `addUser`, `UserAdded`, `InsertFailed` | `DatabaseManager.insertUser` 49-113 and its completion |
| `put`, `NextOnWire`, `Answered`, `Shadows` | the client of the device: one connection, one queue (`ahead`: the forms whose puts were sent before), one view of the collection |
| `Crash`, `late` | as in Conversations; a request to Auth or Storage may be late as well |

The address typed when `createUser` ends need not be the one that has the account.
So the directory may list an address without an account, and two chains of one screen
may insert one address. The properties say what is left: every listed user did create
an account, and the address that is listed has a node (`ListedUserHasNode`); and a
node changes hands only between two addresses with one key, or where a field was
changed (`NodeIsKept`).

### Search: finding somebody to write to

One presentation of the search screen. `searchBarSearchButtonClicked` filters the
kept copy or starts a read; reads that overlap share a view of the client and are
answered together, in order (`CachedValues`, `InOrder`, `DirectoryRead`);
`getallUser` is the callback. The indicator follows JGProgressHUD: a show is
ignored unless it is hidden, a dismiss during an animation waits for its end. It
covers the rows but not the search bar, which is in the navigation bar.

### Session: who is signed in

Auth keeps `currentUser` over restarts. The app takes copies: `userEmail` of the
shared manager, the path of the listener, the sender of an open chat. A *try* is one
press of Log In or Register, answered later or never; `alive` are the tries whose
screen still exists. `viewDidLoad`, `viewDidAppear`, `viewWillAppear`, log out,
sending and opening a chat are as in the code, including the five places that
unwrap the address of the current user, each of which ends in `app = "crashed"`
when there is none. How UIKit pushes, presents and dismisses is external, read off
the calls. Auth's change of user and the completion that closes the screen are one
step: what may happen between them (Back, an alert) may also happen before.
The progress indicators of the two forms are left out, which only allows more.

### Accounts: one node, two kinds of writer

`Conversations` and `Registration` each follow one writer of a user node to the end
of its chain. This module puts them on one node: registrations (`insertUser`, which
sets the node to the new names) and sends (`createNewConversation`, which writes the
node back as it was read, with an entry more), on devices with their put queues. It
is where one address shares a key with another, and where an account is used on a
second device before the put of its registration is acknowledged on the first.
A chain ends where its write of the node is answered; crashes and the later writes
are those of the two modules. A lost connection takes the answers with it, but for
those that the client already holds back, as in the two modules.

### Pictures: the image view of a row

A *request* is one call of `configure` and stands for all that comes of it: the
question for the address, the load, and the download operation if the load starts one.

| Model | Code |
|---|---|
| `configure`, `AddressFailed`, `sd_setImage` | `ConversationsTableViewCell` and `StorageManager.downloadUrl`; `UIView+WebCache`: cancel, empty, load |
| `sd_cancelImageLoadOperationWithKey`, `Dropped`, `ShouldCancel`, `StateWhenCancelled` | `UIView+WebCacheOperation`, and `cancel:` and `cancelInternal` of the download operation |
| `loadImageWithURL`, `queryCacheOperationForKey`, `QueryCancelled` | `SDWebImageManager`: failed addresses, memory and disk cache |
| `downloadImageWithURL`, `Reusable` | `SDWebImageDownloader`: join the operation of the address, or start one |
| `start`, `didCompleteWithData`, `decodeImageData`, `didCompleteWithError`, `callCompletionBlocks`, `done`, `completionBlock` | `SDWebImageDownloaderOperation` on its own queues |
| `completed` | the handlers, called later on the main queue |

The collecting of handlers, their call on the main queue, the end of the operation
and its removal from the dictionary are four steps, because three threads
take them and a load of another cell may come between any two. A user stands for the
address of the user's picture. Three things are one step that the code does in
two: Storage's answer with `sd_setImage` (both on the main queue), the
check that an operation can be joined with the adding of the handler (the gap
leads to what joining late leads to), and storing a picture with showing it.

### PersistentConnection: writes, listens and what is held back

| Model | Code (`FPersistentConnection.m`) |
|---|---|
| `listen`, `removeListen`, `ListenAnswered` | `listen`, `unlisten`, `sendListen` with its callback, `onListenRevoked` |
| `putInternal`, `PutAnswered`, `CompletesNow`, `ackPuts` | `putInternal`, `sendPut` with its callback, `ackPuts` |
| `refreshAuthToken`, `AuthAnswered`, `onAuthRevokedWithStatus` | `refreshAuthToken`, `sendAuthAndRestoreStateAfterComplete`, the revocation |
| `onReady`, `restoreState`, `onDisconnect`, `ConnectionLost` | the connection; what is sent again, what is forgotten |

A write is a number, as the client numbers it. `requests` is what was sent on the
open connection, `served` how much of it the server has taken; a lost
connection loses the rest, and the answers to what it had taken. External: the
server takes the requests of a connection in order, answers writes and
credentials in that order, and answers a listen at any time.

### ConnectionAttempts: getting connected, and as whom

The states of `FPersistentConnection` with `FIRRetryHelper` (`retry`,
`tryScheduleReconnect`, one scheduled attempt at a time), interruption
(`interruptForReason`, `resumeForReason`, `onKill`), the token provider between the
client and Auth (`refreshAuthToken`, `openNetworkConnectionWithToken`,
`fetchTokenFailed`), and the part of Auth that keeps a token: `getTokenForcingRefresh`,
the serial queue of a user object (`TaskMayRun`), the cached token, the notification
that precedes the answer. `inbox` is the main queue between Auth and the
client. Every sign-in is a user object of its own. A retry's delay is left
out: it fires at any time. `goOffline` and `goOnline` belong to the
client's interface; the app does not call them.

### SharedList and WritePipe: what is promised

`SharedList` is what `DatabaseManager` promises about a list that everybody extends by
reading all of it and writing all of it back, whatever the network does: `Take` a
copy of the list, or of what a writer on the way is about to make of it; `Write` the
copy with one's own entry, any number of times; `Leave`, and never write again. A
writer whose app has died may `Write` once more, and is gone with that.
`Registration` implements it with the users collection (`Collection`), where an
outstanding put is the stage that may write; `Conversations` with the list
of each user (`ListOf(u)`), as far as the steps go that touch the user's list.

`WritePipe` is what the database client promises about writes: `Issue`, `Decide`
(stored or refused, possibly again, never before an earlier one was decided),
`Settle` (the oldest open write; completions in order, each with the settled
verdict). `PersistentConnection` implements it under the mapping `issued <- putCounter`,
`settled <- putCounter - Cardinality(outstandingPuts)`, `results <-` the statuses the
completions were called with: what is in `putsToAck` is settled and not yet
completed.

## 3. Runs

| Run | Instance | Shows |
|---|---|---|
| `conversations_safety` | 3 sends on 2 devices of one account, 1 fault; 2.91 million states | `MessageFollowsEntry`, `SentMessageIsStored`, `LoneEntryIsKept`, `RowsFollow`, `ImplementsSharedList` |
| `conversations_liveness` | 2 sends on 2 devices, clock 0..1, 1 fault; 78 thousand states | `SendEnds`, `RowsConverge` |
| `conversations_append` | 2 sends, no fault | **violated**: a write takes an entry out of a list |
| `registration` | 2 forms, on one screen or on 2 devices, 3 addresses of which 2 share a key, 1 fault; 614 thousand states | `ListedUserHasNode`, `PictureOwnerIsInserted`, `NodeIsKept`, `LoneUserIsKept`, `ChainHasNoHole`, `RegistrationEnds`, `ImplementsSharedList` |
| `registration_exists` | 2 forms, no fault | **violated**: an existing user is not reported |
| `search` | 3 users, 2 texts, 3 searches, 1 change, 1 fault; 98 thousand states | `RowsAreResults`, `LastSearchIsShown`, `IndicatorIsAwaited`, `SpinnerEnds` |
| `session` | 2 users, 3 tries, 2 faults; 449 thousand states | `CrashNeedsNoUserAtLaunch`, `LoginScreenIsClosed`, `ForeignEntryNeedsSwitch`, `ForeignRowsNeedSwitch` |
| `accounts` | 2 registrations with one key on a phone, 2 sends on a tablet, 2 lost connections; 715 thousand states | `LoneConversationIsKept`, `LoneNamesAreKept`, `RegisteredUserIsFound` |
| `pictures` | 3 requests in 2 cells for 2 users, 1 download at a time; 341 thousand states | `SupersededLoadsShowNothing`, `WrongPictureNeedsOvertaking`, `OnlyCancelledLoadsAreCancelled`, `ForgottenLoadsJoinedLate`, `LoadsEnd` |
| `pictures_forgotten` | every row in every cell | **violated**: a load is never answered |
| `connection` | 2 writes, 1 lasting listen and 1 other, 2 lost connections, 2 tokens; 202 thousand states | `CountMatchesRequests`, `EachPutIsSentOnce`, `CompletionsInOrder`, `ImplementsWritePipe`, `EveryPutCompletes` |
| `attempts` | 4 events; 1.79 million states | `AttemptsMeetTheirState`, `NeverIdle`, `ServerKnowsUser`, `RejectedTokenIsReplaced`, `KeepsConnecting` |

The type invariants are proved (section 4). `ChainHasNoHole` and
`IndicatorIsAwaited` say with ENABLED that whoever waits has the step it waits for
ahead of it; the liveness theorems of section 4 rest on them.
`PROJECT.json` holds, for every property of a passing run, a mutated definition that
breaks it; the mutated forms stand next to the definitions they replace (`AnyOnWire`,
`newCollection`, `LatestFirst`, `NeverCloses`, `RunsAtOnce`, ...) and nothing else
uses them.

### Bounds, and why they are enough

* Sends. Two on one device exercise the shadowed read, numbering and rollback; the
  third, on another device, is the remote write between a read and a write. The
  safety run keeps the clock at 0, so that the identifiers of the phone's two sends
  always collide, the worst case for `SentMessageIsStored`; `s3` goes to another
  user and never collides.
* Faults. One lost connection is enough for an applied put to be sent again; one
  crash, for a put to arrive late, between the read and the write of another
  device or after both. `accounts` has two lost connections, one for each device.
* Forms. The second press may come before, during or after the first, on the same
  screen or on another device, for the same address, for another one with the same
  key, or for one with a key of its own; and each may find any of the three
  addresses in the field when its `createUser` ends.
* Searches. Two overlap before the first answer, the third is served from the
  copy. `Matching` lets a text match all, some or none of the users listed.
* Tries. Log in, log in again before the answer, log in once more after a log out.
  Two users are a first and another one. Tries are symmetric.
* Accounts. The registrations follow each other on one device, whose queue may hold
  both; the sends read on the other one, where a put of the first is not seen.
* Pictures. Two requests meet in one cell, for one user or for two, and the third, in
  another cell, may share the download of either: superseding, sharing and
  joining late all happen. One download at a time makes a place in the queue matter.
* Writes and listens. Two writes have an order; one lasting listen holds their
  completions back, the other is answered, refused or given up meanwhile. Two losses
  are one while a write is unanswered and one while its completion waits.
* Events are what nobody waits for: signing in and out, expiry, renewal, a failed
  fetch, a lost connection, an interruption, the front. Four are a user change during a
  fetch, with a refused token and a lost connection after it.
* The theorems of section 4 hold for any values of the bounds, so for what is
  proved the instances need only be large enough to find a mistake early.

Deadlock is checked in `session` only, where the app can always be started
again. The behaviours of the other modules may end: everything was sent, the screen is
closed, every request is answered, the events are used up.

### Fairness

`FairSpec` assumes weak fairness of what the environment does of itself: the server
answers, callbacks on the main queue run, animations end, and the client reconnects
(`FPersistentConnection` retries for ever, which is what `KeepsConnecting` is about;
`MaxFaults` bounds how often the connection drops, so it is up in the end). It assumes
nothing of the user: no button is ever pressed because of fairness, no app is
restarted, no fault happens. A late request need not be taken or dropped, ever. An
answer may always be a refusal.

* Pictures: Storage answers, the queues of SDWebImage run, and each operation's
  transfer ends, each taken by itself. That a started transfer ends is the
  time-out of its session.
* PersistentConnection: a connection is opened and made ready, the server takes what it
  was sent, and it answers. Listens are answered one after another; the app has
  no duty to listen or to write.
* ConnectionAttempts: one condition for the client's queue with the server (they cannot
  both wait for ever without the client noticing) and one for the fetches of a
  token. No event is fair, so nobody is made to sign in, and `goOnline` is not fair
  either: `KeepsConnecting` speaks of behaviours in which the reasons to stay away end.

### What the runs refute

1. *Appending* (`DatabaseManager.swift:270`). The whole node is written back as it
   was read, so of two overlapping sends the later write drops the entry of the
   earlier one. What does hold is `LoneEntryIsKept`: an acknowledged entry is never
   lost unless another send of the account overlapped it, and a send on the same
   device whose write is already pending does not count, because the client serves
   the read from it. `LoneUserIsKept` is the same for the directory
   (`DatabaseManager.swift:63`).
2. *User already exists* (`RegisterViewController.swift:295`). The node is a
   dictionary and is cast to a string, so the alert never appears. That two accounts
   do not share a node of one address is owed to Auth alone, as long as nobody types
   during `createUser` (`NodeIsKept`), and two addresses with the same key do share one.
3. *The completion block of a download is called*
   (`SDWebImageDownloader.h:281`, against `SDWebImageDownloaderOperation.m:482`). A load
   that joins an operation after its handlers were collected and before it is finished
   is accepted, and forgotten when the operation is reset. `ForgottenLoadsJoinedLate`
   says that there is no other way.

### What the passing properties leave out

Several describe a limit of the code by exempting exactly one case.

* `SentMessageIsStored`: a send with the same identifier. The date stops at seconds and
  no random number is added (`ChatViewController.swift:163`), so two sends of a
  second overwrite each other's conversation.
* `CrashNeedsNoUserAtLaunch`: a launch with nobody signed in ends the app before the
  login screen can appear, and it is the only way the app itself gets there.
* `ForeignEntryNeedsSwitch`, `ForeignRowsNeedSwitch`: after the user changes in one run
  of the app, conversations go to, and rows come from, the user of the launch; never
  otherwise.
* `LoneEntryIsKept`, `LoneUserIsKept`: a send, or a registration, that overlapped. One
  whose app died overlaps until what it had sent is taken or gone.
* `NodeIsKept`: two addresses with one key, and an address field that was changed
  between the press and the end of `createUser`. `ListedUserHasNode` ties the account
  to the address of the press and the node to the address inserted; they are the same
  unless the field was changed.
* `SpinnerEnds` and `RegistrationEnds`: an error that is only printed.
  `RowsConverge`: an empty list, which the listener ignores.
* `LoneConversationIsKept`, `LoneNamesAreKept`: a writer that overlapped, or a later
  registration of the node, which sets it to names only.
* `WrongPictureNeedsOvertaking`: the address of a row that came before that of an older
  row of its cell. `LoadsEnd`: loads that joined late.
* `CompletionsInOrder`, `ImplementsWritePipe`, `EveryPutCompletes`: they need a listen
  that lasts. The client forgets on disconnection the listens it was waiting for,
  and it is the answer to one sent again that lets the completions go; with none left
  to send, completions in `putsToAck` wait for the next listen there is. IChat's listener
  of the conversations is never removed, so it has one, unless the server
  refuses it.
* `RejectedTokenIsReplaced`: the attempt that was to force a new token was replaced,
  cancelled or failed. The wish is kept in the attempt alone, and the next one may
  fetch the refused token from Auth's cache again.
* `ServerKnowsUser`: a connection opened with a token that was fetched before a change
  of user and delivered after the news of it. The next notification mends it.

## 4. Proofs

TLAPS proves, for every value of the constants under the assumption named in each
module (functions have the right domain, the "nothing" value is not a member, bounds
are naturals; nothing is assumed about sizes, nor about finiteness except that there
are finitely many calls of `listen:`, which are counted), the type invariant and each
safety property checked for the eight modules, except the two that speak of ENABLED.
These theorems have the form `Spec => []P`, `Spec => [][A]_vars`, or `Spec =>` a
refinement. Four of the liveness properties are theorems too, and four statements of
liveness that no run checks, with their assumptions on the left of the arrow; they are
below the table.

| Module | Theorems | Argument |
|---|---|---|
| `ConversationsProofs` | `TypeCorrect`, `MessagesFollowEntries`, `LoneEntriesAreKept`, `SentMessagesAreStored`, `RowsAlwaysFollow`, `ConversationsAreSharedLists`, `WritesKeepTheirPlace`, `RowsConvergeOnceQuiet`, `OldestWritesAreAnswered`, `TwoSendsEnd` | `PutsOrdered`: puts of a device differ and the server has decided about a prefix. `EntryFirst`: a stage in which a message may be written implies its entry was stored. `LoneInv`: four phases of a send without rivals. Before its put nobody else can be in between; while it is outstanding every other active send of the account is ahead of it in the same queue or has read its entry; once applied it is in the list; once acknowledged every write to come contains it. `LoneLate`: a late put of the list belongs to no send that overlaps one without rivals, and what it writes has every such entry that was acknowledged. `StoredInv` carries the message from the moment the put is applied. `RowsFollow` is inductive under `TypeOK`: an answer takes one write out of those that are pending, and what the rows become is decided by the latest one left, or by the copy of the server's list. The refinement is a step simulation under `TypeOK`: a snapshot is `Take`, of the server's list or of a pending write, an applied put `Write`, a late one a `Write` that ends its writer, an answer, an early return or a crash `Leave`, and the steps of other users, or of messages, stutter. `WritesKeepTheirPlace`, from `AheadStep`: a put gets the highest number of its device, so who waits is never overtaken, by a resend either |
| `RegistrationProofs` | `TypeCorrect`, `ListedUsersHaveNodes`, `PictureOwnersAreInserted`, `NodesAreKept`, `LoneUsersAreKept`, `CollectionIsSharedList`, `ChainsGoForward`, `RegistrationsEnd` | `NodeInv`: whoever is past the first write (`Written`, late requests included), is listed, or is in a snapshot that will be written back (`Listed`) has its inserted address settled (`Named`), a node there and an account for the address of its press; and those who created an account (`Owner`) did so for different addresses. `LoneInv` for the collection: a late put of it belongs to no form that overlaps one without rivals, and every copy that may still be written has the users who were acknowledged. The refinement, as above. `StageStep`: one step takes a chain to the stage after, or to an end. `QueueInv`: a put waits only behind outstanding puts of its own device, and no two wait for each other |
| `SearchProofs` | `TypeCorrect`, `TappedRowsAreResults`, `LastSearchesAreShown`, `IndicatorsHaveReasons`, `SpinnersEnd` | `RowsInv`: no table before the first answer, rows are results under it. `FoundInv`: answers that wait never get worse from oldest to youngest (an empty collection stays behind). `LastInv`: the youngest read is that of the last search. `HudInv`: after the first answer the indicator is not up unless its dismissal is under way; before it, and unless a read failed, a read is |
| `SessionProofs` | `TypeCorrect`, `NoCrashWithUser`, `LoginScreensAreClosed`, `ForeignEntriesNeedSwitch`, `ForeignRowsNeedASwitch` | `CoverInv`: with nobody signed in, the login screen is in front; so none of the five unwraps can be reached. `CopyInv`: the copies are those of the user at launch |
| `PicturesProofs` | `TypeCorrect`, `SupersededLoadsAreHarmless`, `WrongPicturesWereOvertaken`, `CancelsAreOwn`, `OnlyLateLoadsAreForgotten`, `OperationsRunOnce`, `DownloadsGiveTheirPlaceBack`, `DownloadsAnswerTheirLoads`; `Invariance` | `IInv`, seven parts. `TypeInv`: only loads that have begun have handlers, of one user with their operation. `OperationInv`: no handlers in an operation that was cancelled, no answers from one that has not collected. `HandlerInv`: a load has at most one handler and waits until it is called or dropped. `ViewInv`: a load that may still set a picture is the one its image view has, for the picture that view is to show; this is why nothing late is shown. `TableInv`: unless an address was overtaken, that is the picture of the row. `WaitInv`: a load that joined in time is in an open operation, or in an answer on its way. `MoveStep`: each action takes an operation one stage further, or cuts a running one short when it is cancelled; a cancelled operation has no task left (`StoppedStep`) |
| `AccountsProofs` | `TypeCorrect`, `LoneConversationsAreKept`, `LoneRegistrationsAreKept`, `RegisteredUsersAreFound`; `Invariance` | `QueueInv`: a queue holds exactly the writers of its device that are writing, each once. `OrderInv`: no put is decided before one ahead of it. `NodeInv`: once a put was stored there is a node. `FoundInv`: who may still be told "user not found" began before the registration of the account was acknowledged. `LoneOf`: a writer without rivals. Before its put nobody comes in between; until it is answered the others are ahead of it in its queue or build on it; then the node has what it wrote, and so has whatever is written next |
| `PersistentConnectionProofs` | `TypeCorrect`, `CountIsRight`, `PutsAreSentOnce`, `CompletionsAreInOrder`, `CompletionsTellVerdicts`, `CompletedWritesAreFinal`, `ConnectionIsWritePipe`, `ClientConnects`; `Invariance` | `PutsInv`: the open writes are the youngest, those after the ones answered. `WireInv`: nothing is on a wire that is not there; while authenticating the credentials to restore with are in front, and no write behind them; once connected every open write is there once, in order. So the write answered is the oldest. `ListenInv`: a listen is sent at most once before and once by `restoreState`, so the count is that of a set. `VerdictInv`: what is answered was decided. `AckInv`: while a listen lasts, a completion held back has a listen to wait for, and continues the order of those called. `ToldInv`: an answer, held back or delivered, is about an answered write and carries its verdict; it needs no lasting listen, as only open writes are on the wire and only those are decided again. In the refinement taking a write is `Decide`, an answer `Settle` with the completions it lets go |
| `ConnectionAttemptsProofs` | `TypeCorrect`, `AttemptsMeet`, `ClientIsNeverIdle`, `ServerKnows`, `RejectedIsReplaced`; `Invariance` | `RetryInv`: a retry is scheduled exactly when the client is disconnected and has no reason to be. `OnceInv`, `AwaitInv`: every attempt is one fetch or one answer on its way, and the latest is waited for by `GettingToken`, by nobody who has a connection; so no late answer meets a connection. `ToldInv`: the last news on their way name who is signed in, and without any the client knows. `WireInv`: the last credentials on the wire, or what the server has, are the token the client has. For refused tokens, `MintInv` and `NewsInv`: a token is told before it comes in any other way, so news are never refused ones; `SuspectInv`, `LatestInv`: while the newest token is a refused one, forcing a new one is due or was lost, and the latest fetch is one of that user made since, or the user has changed |

None of the properties but the type invariants is inductive alone: each says
something about the end of a chain that depends on what was true when it started,
which the strengthenings carry. The lemmas have one step per action.

### Liveness

TLAPS has no rules for ENABLED here, no induction inside a temporal formula, and does
not move a quantifier through a temporal operator. Within these limits:

* `RegistrationsEnd`: `Undisturbedly /\ AtMostTwoPressesOnADevice => RegistrationEnds`,
  where `Undisturbedly` is `FairSpec /\ []ChainHasNoHole /\ (\A d \in Devices :
  KeptInTheEnd(d))` and `KeptInTheEnd(d)` says that the connection of the device is not
  lost for ever again. One leads-to per stage of the chain, composed along the
  stages. The stages that wait for the database get connected first (`Connects`), then
  the server takes the request, then the answer runs; `ConnectionStays`, `VerdictStep`
  and `StageStep` say that what is waited for does not go away meanwhile. The put of one
  of two chains on a device is in front of the queue (`OldestEnds`), or the other one's
  is, which leaves it there (`AheadStep`, `SecondEnds`). Any number of devices.
* `SpinnersEnd`: `FairSpec /\ []IndicatorIsAwaited /\ <>[][~onDisconnect]_vars =>
  SpinnerEnds`. The indicator goes forward through four phases (an animation runs, shown
  while a read is out, its dismissal waits, hiding) and `MovesStep` says that no
  search, show or answer takes it back.
* `RowsConvergeOnceQuiet`: `Spec /\ (\A d \in Devices : Reconnects(d) /\ Listens(d) /\
  GetsQuiet(d)) => RowsConverge`. `Reconnects` and `Listens` are the weak fairness of the
  two steps a device needs, with their guards in the place of ENABLED. `GetsQuiet(d)` is
  what "once things are quiet" means: the stored list stays, the device neither dies nor
  loses its connection, and none of its own writes of the list stays pending. The rest is
  `RowsAlwaysFollow`.
* `OldestWritesAreAnswered`: `Spec /\ Undisturbedly => OldestIsAnswered`. The write in
  front of a device's queue is answered, or its app dies, however many wait behind it.
  `Undisturbedly` has, for every device and send, that the connection is not lost for
  ever again, and the weak fairness of reconnecting, serving and answering with their
  guards in the place of ENABLED. The front write stays in front (`NothingOvertakes`),
  so it is resent once the device is connected, decided as the next on the wire, and
  answered as the oldest that was decided.
* `TwoSendsEnd`: `Spec /\ Undisturbedly /\ AtMostTwoSendsOnADevice => SendEnds`. A read is
  served from a pending write or by the server; a write is in front, or the one ahead of
  it is and, answered, leaves it there. This covers pressing Send twice, each time with a
  read, a list write and a message write, and any number of devices.
* `DownloadsGiveTheirPlaceBack` and `DownloadsAnswerTheirLoads`: `Spec /\ DownloadsGoOn`
  implies that an operation that occupies one of the queue's places is removed, and that
  a load in such an operation, in time to be collected, ends. `DownloadsGoOn` is the weak
  fairness of tasks, of finishing and of the completion blocks. A task that was cancelled
  never calls back, so it matters that its operation is then finished at once.
* `ClientConnects`: `Spec /\ Reconnects => <>[]canSendWrites`. `ConnectionStep` puts the
  stages of a connection in order; while authenticating, the credentials are in front of
  everything sent (`WireInv`), so the server takes them next and no write is answered
  before them. `Reconnects` again has the weak fairness of the steps that connect, with
  their guards, and connections that are not lost for ever again.

The assumptions hold in every instance that is checked: `MaxFaults` or
`MaxLosses` bounds the faults and the sends are finitely many, so connections stop being
lost and lists stop changing. The
runs check the two ENABLED invariants, and the liveness properties themselves under
`FairSpec` alone; what the theorems add is that the argument does not depend on the
number of searches, devices, downloads or, but for `TwoSendsEnd` and
`RegistrationsEnd`, of sends and forms.

Only model-checked: `ChainHasNoHole` and `IndicatorIsAwaited` (ENABLED);
`EveryPutCompletes`, which waits for everything ahead of it in a queue and needs
induction over it; `LoadsEnd`, for which the download queue has to reach every
operation, and some operation has to be the one a load is in (a quantifier inside the
temporal formula); `KeepsConnecting`, whose attempts may be replaced any number of
times; and the three refuted claims. `SendEnds` is checked with one send on each device
and proved for up to two; for more, the induction over the queue is missing as well.

## 5. Not modelled

* The profile header: the screen is made together with the one request for its
  picture, so nothing can overtake it.
* The view cache of `FSyncTree` beyond one node, queries, disk persistence
  (never enabled), transactions, `onDisconnect` writes: the app does not use them.
* The web socket below `FConnection`, the length of retry delays, the time-out of an
  idle connection, the time-outs of requests.
* SDWebImage's transformers, progressive decoding, prefetching, animated images and
  the upkeep of its disk cache: not used. That storing a picture fails is left out.
* A second Register screen opened later in the same process, and a restart after a
  crash in `Registration`: each press there has one process to live in. An address
  field that was emptied when `createUser` ends; the names and the picture on the form,
  which are read as late as the address is, but are not what users are found by.
* Picture picker, viewers, layout helpers, delegates, storyboards: no behaviour
  that a property could be about.
* The text of dates in the identifier: depends on the system's locale.
* Most of `src/IChat/Pods` by size: Realm, which the app links and never calls, its
  C++ headers, LevelDB and nanopb below features that are not enabled, MessageKit
  and other pods that draw. The modules cover the parts of the pods that the
  application's own chains run through.

## 6. What is left

1. `SyncTree`: pending writes over server values for one node: a listener's value
   is the server's with the pending writes applied in order; acknowledgement and
   rollback change it as `RowsWithout` in Conversations assumes.
2. Liveness through a queue of any length: the oldest write is answered and none is
   overtaken; that all are answered needs the induction over the queue, which the
   provers lack.
