------------------------------- MODULE Pictures -------------------------------
(***************************************************************************)
(* The pictures in the rows of the conversations screen.                   *)
(*                                                                         *)
(* ConversationsTableViewCell.configure sets the texts of a row at once    *)
(* and asks Storage for the address of the picture; when the address       *)
(* comes, sd_setImage loads the picture into the image view of the cell,   *)
(* which the table may have given to another row in the meantime.          *)
(*                                                                         *)
(* SDWebImage loads it from its cache or over the network.  Loads of one   *)
(* address share a download: an operation keeps the handlers of the loads  *)
(* that wait for it.  Three threads are at work: the main queue, the       *)
(* session's queue with the decoding queue behind it, and the queue that   *)
(* runs the completion block of a finished operation.                      *)
(*                                                                         *)
(* A request is one call of configure, and stands for everything that      *)
(* comes of it: the question for the address, the load, and the download   *)
(* operation if the load starts one.  A user stands for the address of     *)
(* the user's picture.                                                     *)
(***************************************************************************)
EXTENDS Naturals, FiniteSets

CONSTANTS
    Requests,               \* calls of configure (a bound)
    Cells,                  \* reusable cells of the table
    Users,                  \* the other users of the conversations
    Rows,                   \* <<k, c, u>>: request k may configure c for u (a bound)
    NoRequest, NoCell, NoUser,
    maxConcurrentDownloads  \* how many downloads run at the same time

ASSUME PicturesAssumption ==
    /\ NoRequest \notin Requests
    /\ NoCell \notin Cells
    /\ NoUser \notin Users
    /\ Rows \subseteq Requests \X Cells \X Users
    /\ maxConcurrentDownloads \in Nat \ {0}

VARIABLES
    \* the table: the request that configured each cell last, and each request
    configured, \* the last request of each cell: what its texts show
    cell,       \* the cell of each request
    user,       \* the user of its row
    address,    \* what is known of the address of the user's picture
    \* the image view of each cell
    imageURL,   \* sd_imageURL: whose picture it is to show
    image,      \* whose picture it shows
    current,    \* the load in its operation dictionary
    \* SDWebImageManager and SDImageCache
    load,       \* how far each load has come
    cancelled,  \* loads that were cancelled
    stored,     \* users whose picture is in the cache
    failedURLs, \* users whose address is not tried again
    \* SDWebImageDownloader and its operations
    URLOperations,   \* the operation of each address
    operation,       \* the state of each operation
    stopped,         \* operations that were cancelled
    callbackBlocks,  \* the loads whose handlers an operation keeps
    answer,          \* the call of completion blocks on its way to the main queue
    \* history, read by no action
    overtaken,  \* requests whose address came before that of an older request
    joinedLate  \* loads that joined an operation that had collected its handlers

tableVars == <<configured, cell, user, address>>
viewVars == <<imageURL, image, current>>
managerVars == <<load, cancelled, stored, failedURLs>>
downloadVars == <<URLOperations, operation, stopped, callbackBlocks, answer>>
historyVars == <<overtaken, joinedLate>>
vars == <<tableVars, viewVars, managerVars, downloadVars, historyVars>>

-----------------------------------------------------------------------------
\* none      not started
\* reading   the disk cache is read, and has the picture
\* missing   the disk cache is read, and does not have it
\* waiting   for the download
\* shown     the picture was set
\* failed    there was an error, or the address is not tried again
\* cancelled the completion was called with SDWebImageErrorCancelled
LoadStages == {"none", "reading", "missing", "waiting", "shown", "failed",
               "cancelled"}

\* queued     in the download queue
\* executing  its data task runs
\* decoding   the data is there, the task is gone
\* collected  the handlers to be called are collected
\* finished   isFinished, still in URLOperations
\* removed    its completion block has run
OperationStages == {"none", "queued", "executing", "decoding", "collected",
                    "finished", "removed"}

\* SDWebImageErrorBadImageData and most network errors put the address on the
\* list of failed ones ("bogus"); a timeout or a lost connection does not.
Results == {"none", "image", "error", "bogus"}
NoAnswer == [to |-> {}, result |-> "none"]

Init ==
    /\ configured = [c \in Cells |-> NoRequest]
    /\ cell = [k \in Requests |-> NoCell]
    /\ user = [k \in Requests |-> NoUser]
    /\ address = [k \in Requests |-> "none"]
    /\ imageURL = [c \in Cells |-> NoUser]
    /\ image = [c \in Cells |-> NoUser]
    /\ current = [c \in Cells |-> NoRequest]
    /\ load = [k \in Requests |-> "none"]
    /\ cancelled = {}
    /\ stored \in SUBSET Users
    /\ failedURLs = {}
    /\ URLOperations = [u \in Users |-> NoRequest]
    /\ operation = [k \in Requests |-> "none"]
    /\ stopped = {}
    /\ callbackBlocks = [k \in Requests |-> {}]
    /\ answer = [k \in Requests |-> NoAnswer]
    /\ overtaken = {}
    /\ joinedLate = {}

-----------------------------------------------------------------------------
(* The table gives a cell to a row; the old picture stays until the        *)
(* address of the new one comes.                                           *)
configure(k, c, u) ==
    /\ <<k, c, u>> \in Rows
    /\ address[k] = "none"
    /\ address' = [address EXCEPT ![k] = "asked"]
    /\ configured' = [configured EXCEPT ![c] = k]
    /\ cell' = [cell EXCEPT ![k] = c]
    /\ user' = [user EXCEPT ![k] = u]
    /\ UNCHANGED <<viewVars, managerVars, downloadVars, historyVars>>

(* Storage has no picture of the user, or gives no answer: it is printed.  *)
AddressFailed(k) ==
    /\ address[k] = "asked"
    /\ address' = [address EXCEPT ![k] = "failed"]
    /\ UNCHANGED <<configured, cell, user, viewVars, managerVars, downloadVars,
                   historyVars>>

(* sd_imageLoadOperationForKey: the load the image view still has.         *)
(* Mutated form: it is not looked up.                                      *)
noOperation(c) == {}
sd_imageLoadOperationForKey(c) == {current[c]} \ {NoRequest}

(* Cancelling the last load of an operation cancels the operation.         *)
(* Mutated form: the other loads of the operation are not counted.         *)
ShouldCancelAnyway(o, k) == k \in callbackBlocks[o]
ShouldCancel(o, k) == callbackBlocks[o] = {k}

(* A cancelled operation is finished at once if its task runs, since the   *)
(* task does not call back any more.  Mutated form: it waits for the task. *)
StateUnchanged(o) == operation[o]
StateWhenCancelled(o) ==
    IF operation[o] = "executing" THEN "finished" ELSE operation[o]

(* The image view of c cancels its load: the operation drops the handler,  *)
(* or all its handlers if it is cancelled too, and calls what it drops.    *)
(* A load without a handler in an operation is only marked.                *)
Dropped(c) ==
    LET old == sd_imageLoadOperationForKey(c) IN
    {k \in Requests : \E o \in Requests :
        /\ k \in callbackBlocks[o]
        /\ \/ k \in old
           \/ \E j \in old : ShouldCancel(o, j)}

sd_cancelImageLoadOperationWithKey(c) ==
    LET old == sd_imageLoadOperationForKey(c)
        gone == {o \in Requests : \E j \in old : ShouldCancel(o, j)}
    IN
    /\ cancelled' = cancelled \cup old
    /\ stopped' = stopped \cup gone
    /\ operation' = [o \in Requests |-> IF o \in gone THEN StateWhenCancelled(o)
                                        ELSE operation[o]]
    /\ callbackBlocks' = [o \in Requests |-> callbackBlocks[o] \ Dropped(c)]
    /\ UNCHANGED <<URLOperations, answer>>

(* How a load starts: an address that failed is not tried again; a picture *)
(* in the memory cache is there at once, unless it was evicted; the disk   *)
(* cache is read on a queue of its own, in order with what is stored.      *)
loadImageWithURL(u) ==
    IF u \in failedURLs THEN {"failed"}
    ELSE IF u \in stored THEN {"shown", "reading"}
    ELSE {"missing"}

(* The address comes: sd_setImage cancels what the image view was loading, *)
(* empties it, and starts to load.                                         *)
sd_setImage(k) ==
    LET c == cell[k] IN
    /\ address[k] = "asked"
    /\ address' = [address EXCEPT ![k] = "received"]
    /\ sd_cancelImageLoadOperationWithKey(c)
    /\ imageURL' = [imageURL EXCEPT ![c] = user[k]]
    /\ \E stage \in loadImageWithURL(user[k]) :
         /\ load' = [j \in Requests |-> IF j = k THEN stage
                                        ELSE IF j \in Dropped(c) THEN "cancelled"
                                        ELSE load[j]]
         /\ image' = [image EXCEPT ![c] = IF stage = "shown" THEN user[k] ELSE NoUser]
         /\ current' = [current EXCEPT ![c] = IF stage \in {"reading", "missing"}
                                              THEN k ELSE NoRequest]
    /\ overtaken' = IF configured[c] # k /\ address[configured[c]] = "received"
                    THEN overtaken \cup {configured[c]} ELSE overtaken
    /\ UNCHANGED <<configured, cell, user, stored, failedURLs, joinedLate>>

-----------------------------------------------------------------------------
(* A new load may use the operation in the dictionary while that is under  *)
(* way.  Mutated form: whatever is in the dictionary is used.              *)
AnyOperation(o) == o # NoRequest
Reusable(o) ==
    /\ o # NoRequest
    /\ operation[o] \notin {"finished", "removed"}
    /\ o \notin stopped

(* The load joins the operation of its address, or starts one.  The check  *)
(* of the operation and the adding of the handler are one step: if the     *)
(* operation finishes between them the handler is not called, which is     *)
(* what happens to one that joins a collected operation.                   *)
downloadImageWithURL(k) ==
    LET o == URLOperations[user[k]] IN
    /\ load' = [load EXCEPT ![k] = "waiting"]
    /\ IF Reusable(o)
       THEN /\ callbackBlocks' = [callbackBlocks EXCEPT ![o] = @ \cup {k}]
            /\ joinedLate' = IF operation[o] = "collected"
                             THEN joinedLate \cup {k} ELSE joinedLate
            /\ UNCHANGED <<URLOperations, operation>>
       ELSE /\ URLOperations' = [URLOperations EXCEPT ![user[k]] = k]
            /\ operation' = [operation EXCEPT ![k] = "queued"]
            /\ callbackBlocks' = [callbackBlocks EXCEPT ![k] = {k}]
            /\ UNCHANGED joinedLate

(* The disk cache has been read, for a load that nobody needs any more.    *)
QueryCancelled(k) ==
    /\ load[k] \in {"reading", "missing"}
    /\ k \in cancelled
    /\ load' = [load EXCEPT ![k] = "cancelled"]
    /\ UNCHANGED <<tableVars, viewVars, cancelled, stored, failedURLs,
                   downloadVars, historyVars>>

(* The disk cache has been read.                                           *)
queryCacheOperationForKey(k) ==
    /\ k \notin cancelled
    /\ \/ /\ load[k] = "reading"
          /\ load' = [load EXCEPT ![k] = "shown"]
          /\ image' = [image EXCEPT ![cell[k]] = user[k]]
          /\ current' = [current EXCEPT ![cell[k]] = NoRequest]
          /\ UNCHANGED <<URLOperations, operation, callbackBlocks, joinedLate>>
       \/ /\ load[k] = "missing"
          /\ downloadImageWithURL(k)
          /\ UNCHANGED <<image, current>>
    /\ UNCHANGED <<tableVars, imageURL, cancelled, stored, failedURLs, stopped,
                   answer, overtaken>>

-----------------------------------------------------------------------------
(* The operations that occupy the download queue.                          *)
Running == {o \in Requests : operation[o] \in {"executing", "decoding", "collected"}}

(* The queue starts an operation; a cancelled one finishes at once.        *)
start(o) ==
    /\ operation[o] = "queued"
    /\ Cardinality(Running) < maxConcurrentDownloads
    /\ operation' = [operation EXCEPT ![o] = IF o \in stopped THEN "finished"
                                             ELSE "executing"]
    /\ UNCHANGED <<tableVars, viewVars, managerVars, URLOperations, stopped,
                   callbackBlocks, answer, historyVars>>

(* The data is there: it is decoded on another queue.                      *)
didCompleteWithData(o) ==
    /\ operation[o] = "executing"
    /\ o \notin stopped
    /\ operation' = [operation EXCEPT ![o] = "decoding"]
    /\ UNCHANGED <<tableVars, viewVars, managerVars, URLOperations, stopped,
                   callbackBlocks, answer, historyVars>>

(* The handlers there are now are collected, to be called later on the     *)
(* main queue.  Mutated form: the operation finishes before it collects.   *)
CollectsNobody(o) == {}
callbacksForKey(o) == callbackBlocks[o]

callCompletionBlocks(o, result) ==
    /\ operation' = [operation EXCEPT ![o] = "collected"]
    /\ answer' = [answer EXCEPT ![o] = [to |-> callbacksForKey(o), result |-> result]]
    /\ UNCHANGED <<tableVars, viewVars, managerVars, URLOperations, stopped,
                   callbackBlocks, historyVars>>

didCompleteWithError(o) ==
    /\ operation[o] = "executing"
    /\ o \notin stopped
    /\ \E result \in {"error", "bogus"} : callCompletionBlocks(o, result)

decodeImageData(o) ==
    /\ operation[o] = "decoding"
    /\ \E result \in {"image", "bogus"} : callCompletionBlocks(o, result)

(* The operation is finished, and forgets whoever it kept.                 *)
done(o) ==
    /\ operation[o] = "collected"
    /\ operation' = [operation EXCEPT ![o] = "finished"]
    /\ callbackBlocks' = [callbackBlocks EXCEPT ![o] = {}]
    /\ UNCHANGED <<tableVars, viewVars, managerVars, URLOperations, stopped,
                   answer, historyVars>>

(* The completion block takes the address out of the dictionary, whatever  *)
(* operation is there now.                                                 *)
completionBlock(o) ==
    /\ operation[o] = "finished"
    /\ operation' = [operation EXCEPT ![o] = "removed"]
    /\ URLOperations' = [URLOperations EXCEPT ![user[o]] = NoRequest]
    /\ UNCHANGED <<tableVars, viewVars, managerVars, stopped, callbackBlocks,
                   answer, historyVars>>

(* Whom an answer concerns: nobody whose load was cancelled.  Mutated      *)
(* form: isCancelled is not asked.                                         *)
Everybody(o) == answer[o].to
StillWanted(o) == answer[o].to \ cancelled

(* On the main queue the collected handlers are called: the picture is     *)
(* stored and set, or the error is noted.                                  *)
completed(o) ==
    LET wanted == StillWanted(o)
        result == answer[o].result
        ended == [k \in wanted |-> IF result = "image" THEN "shown" ELSE "failed"]
        cells == {cell[k] : k \in wanted}
    IN
    /\ answer[o].to # {}
    /\ answer' = [answer EXCEPT ![o] = NoAnswer]
    /\ load' = [k \in Requests |-> IF k \in wanted THEN ended[k]
                                   ELSE IF k \in answer[o].to THEN "cancelled"
                                   ELSE load[k]]
    /\ image' = [c \in Cells |-> IF c \in cells /\ result = "image" THEN user[o]
                                 ELSE image[c]]
    /\ current' = [c \in Cells |-> IF current[c] \in wanted THEN NoRequest
                                   ELSE current[c]]
    /\ stored' = IF result = "image" /\ wanted # {} THEN stored \cup {user[o]}
                 ELSE stored
    /\ failedURLs' = IF result = "bogus" /\ wanted # {} THEN failedURLs \cup {user[o]}
                     ELSE failedURLs
    /\ UNCHANGED <<tableVars, imageURL, cancelled, URLOperations, operation,
                   stopped, callbackBlocks, historyVars>>

Answered(k) == AddressFailed(k) \/ sd_setImage(k)
Queried(k) == QueryCancelled(k) \/ queryCacheOperationForKey(k)
Transferred(o) == didCompleteWithData(o) \/ didCompleteWithError(o)
Finishing(o) == decodeImageData(o) \/ done(o) \/ completionBlock(o)

Next ==
    \E k \in Requests :
        \/ \E c \in Cells, u \in Users : configure(k, c, u)
        \/ Answered(k) \/ Queried(k)
        \/ start(k) \/ Transferred(k) \/ Finishing(k) \/ completed(k)

Spec == Init /\ [][Next]_vars

(* Storage and the picture servers answer, and every queue runs.           *)
Fairness ==
    \A k \in Requests :
        /\ WF_vars(Answered(k)) /\ WF_vars(Queried(k)) /\ WF_vars(start(k))
        /\ WF_vars(Transferred(k)) /\ WF_vars(Finishing(k)) /\ WF_vars(completed(k))

FairSpec == Spec /\ Fairness

-----------------------------------------------------------------------------
(* Every variable stays in its set; a load has a cell and a user.          *)
TypeOK ==
    /\ configured \in [Cells -> Requests \cup {NoRequest}]
    /\ cell \in [Requests -> Cells \cup {NoCell}]
    /\ user \in [Requests -> Users \cup {NoUser}]
    /\ address \in [Requests -> {"none", "asked", "received", "failed"}]
    /\ \A k \in Requests : address[k] # "none" => cell[k] \in Cells /\ user[k] \in Users
    /\ imageURL \in [Cells -> Users \cup {NoUser}]
    /\ image \in [Cells -> Users \cup {NoUser}]
    /\ current \in [Cells -> Requests \cup {NoRequest}]
    /\ load \in [Requests -> LoadStages]
    /\ \A k \in Requests : load[k] # "none" <=> address[k] = "received"
    /\ cancelled \subseteq Requests
    /\ stored \subseteq Users
    /\ failedURLs \subseteq Users
    /\ URLOperations \in [Users -> Requests \cup {NoRequest}]
    /\ operation \in [Requests -> OperationStages]
    /\ \A o \in Requests : operation[o] # "none" => user[o] \in Users
    /\ stopped \subseteq Requests
    /\ callbackBlocks \in [Requests -> SUBSET Requests]
    /\ answer \in [Requests -> [to : SUBSET Requests, result : Results]]
    /\ overtaken \subseteq Requests
    /\ joinedLate \subseteq Requests

(* A load that was superseded in its image view never sets the picture,    *)
(* however late its download, its decoding or the call of its handler:     *)
(* what a cell shows is the picture it was asked for last, or none.        *)
SupersededLoadsShowNothing ==
    \A c \in Cells : image[c] \in {NoUser, imageURL[c]}

(* A row shows the picture of another user only if the address of its own  *)
(* has not come, cannot be had, or came before that of an older row of     *)
(* the cell: loads and downloads add no other way to it.                   *)
WrongPictureNeedsOvertaking ==
    \A c \in Cells :
        configured[c] # NoRequest /\ image[c] \notin {NoUser, user[configured[c]]} =>
            \/ address[configured[c]] # "received"
            \/ configured[c] \in overtaken

(* Loads of one address share a download, and one that is cancelled does   *)
(* not take the others with it.                                            *)
OnlyCancelledLoadsAreCancelled ==
    \A k \in Requests : load[k] = "cancelled" => k \in cancelled

(* A load that waits without anybody who would answer it.                  *)
Forgotten(k) ==
    /\ load[k] = "waiting"
    /\ k \notin cancelled
    /\ \A o \in Requests : k \notin answer[o].to
    /\ \A o \in Requests :
         k \in callbackBlocks[o] => operation[o] \in {"finished", "removed"}

(* A load is forgotten only if it joined an operation between the moment   *)
(* the handlers were collected and the moment the operation was finished.  *)
ForgottenLoadsJoinedLate ==
    \A k \in Requests : Forgotten(k) => k \in joinedLate

(* Every load comes to an end, if it did not join late: no cancelled       *)
(* operation keeps its place in the queue, and no shared one its loads.    *)
LoadsEnd ==
    \A k \in Requests :
        address[k] = "asked" ~> \/ address[k] = "failed"
                                \/ load[k] \in {"shown", "failed"}
                                \/ k \in cancelled \cup joinedLate

(* "A block called once the download is completed": no load is forgotten.  *)
EveryLoadIsAnswered == \A k \in Requests : ~Forgotten(k)
=============================================================================
