-------------------------------- MODULE Search --------------------------------
(***************************************************************************)
(* The search screen: finding a user to start a conversation with.         *)
(*                                                                         *)
(* The first search reads the whole "users" collection and keeps it; later *)
(* searches filter the copy that was kept.  The search bar stays usable    *)
(* while a read is under way, so searches overlap; the progress indicator  *)
(* covers the table only, and ignores show and delays dismiss while it is  *)
(* being animated.  Registrations change the collection meanwhile.         *)
(*                                                                         *)
(* Users stand for entries of the collection; the variables are those of   *)
(* one presentation of the screen.                                         *)
(***************************************************************************)
EXTENDS Naturals, Sequences

CONSTANTS
    Users,        \* entries of the "users" collection
    Queries,      \* texts that may be searched, none of them blank
    Matching,     \* the users whose name starts with a text
    NoQuery,      \* nothing searched yet
    NoUser,       \* nobody chosen
    MaxSearches,  \* bound: presses of Search
    MaxChanges,   \* bound: changes of the collection
    MaxFaults     \* bound: lost connections

ASSUME SearchAssumption ==
    /\ Matching \in [Queries -> SUBSET Users]
    /\ NoQuery \notin Queries
    /\ NoUser \notin Users
    /\ MaxSearches \in Nat /\ MaxChanges \in Nat /\ MaxFaults \in Nat

VARIABLES
    \* the server
    directory,   \* the entries of the "users" collection; none: it is null
    \* the screen
    screen,      \* open, or closed
    hasFetched, users, results,
    shown,       \* what updateUi made visible: nothing, the table, the label
    rows,        \* the rows as the table was last reloaded
    hud,         \* the progress indicator, and whether a dismiss is pending
    chosen,      \* the user handed to completion
    \* the client
    waiting,     \* searches whose read the server has not answered
    answered,    \* answers on their way to the main thread
    connected,
    \* history and bounds
    query,       \* the text of the last search
    overtaken,   \* a search was served from the copy before an older answer
    failed,      \* a read failed or was refused
    searches, changes, faults

screenVars == <<screen, hasFetched, users, results, shown, rows, hud, chosen>>
clientVars == <<waiting, answered, connected>>
historyVars == <<query, overtaken, failed, searches, changes, faults>>
vars == <<directory, screenVars, clientVars, historyVars>>

Init ==
    /\ directory \in SUBSET Users
    /\ screen = "open"
    /\ hasFetched = FALSE
    /\ users = {}
    /\ results = {}
    /\ shown = "nothing"
    /\ rows = {}
    /\ hud = [state |-> "hidden", later |-> FALSE]
    /\ chosen = NoUser
    /\ waiting = <<>>
    /\ answered = <<>>
    /\ connected = FALSE
    /\ query = NoQuery
    /\ overtaken = FALSE
    /\ failed = FALSE
    /\ searches = 0
    /\ changes = 0
    /\ faults = 0

-----------------------------------------------------------------------------
(* The progress indicator.  Mutated form of dismissed: a dismiss that      *)
(* comes during an animation is ignored, as a show is.                     *)
showing(h) == IF h.state = "hidden" THEN [h EXCEPT !.state = "showing"] ELSE h

dismissedOnlyWhenShown(h) ==
    IF h.state = "shown" THEN [h EXCEPT !.state = "hiding"] ELSE h
dismissed(h) ==
    CASE h.state = "hidden" -> h
      [] h.state = "shown" -> [h EXCEPT !.state = "hiding"]
      [] OTHER -> [h EXCEPT !.later = TRUE]

(* Its animation ends; a dismiss that waited for it takes place.           *)
animationDidFinish ==
    /\ hud.state \in {"showing", "hiding"}
    /\ hud' = [state |-> IF hud.state = "hiding" THEN "hidden"
                         ELSE IF hud.later THEN "hiding" ELSE "shown",
               later |-> FALSE]
    /\ UNCHANGED <<directory, screen, hasFetched, users, results, shown, rows,
                   chosen, clientVars, historyVars>>

(* Show what is in results.  Mutated form: an empty result leaves the      *)
(* table as it was.                                                        *)
updateUiWithLabel(found) ==
    IF found = {}
    THEN shown' = (IF shown = "table" THEN "table" ELSE "label") /\ UNCHANGED rows
    ELSE shown' = "table" /\ rows' = found
updateUi(found) ==
    IF found = {}
    THEN shown' = "label" /\ UNCHANGED rows
    ELSE shown' = "table" /\ rows' = found

(* Filter a copy of the collection by a text, and show what was found.     *)
filterUser(item, copy, h) ==
    /\ hud' = dismissed(h)
    /\ results' = copy \cap Matching[item]
    /\ updateUi(results')

(* What a read finds in the client: nothing, or what its view of the       *)
(* collection holds while an earlier read is answered but not yet removed. *)
CachedValues ==
    IF answered = <<>> THEN {}
    ELSE {answered[Len(answered)].value} \cup (IF connected THEN {directory} ELSE {})

(* The Search key: from the copy when there is one, or else by a read.     *)
searchBarSearchButtonClicked(q) ==
    /\ screen = "open"
    /\ searches < MaxSearches
    /\ searches' = searches + 1
    /\ query' = q
    /\ \/ /\ hasFetched
          /\ filterUser(q, users, showing(hud))
          /\ overtaken' = (overtaken \/ answered # <<>>)
          /\ UNCHANGED <<waiting, answered>>
       \/ /\ ~hasFetched
          /\ results' = {}
          /\ hud' = showing(hud)
          /\ \/ /\ CachedValues = {}
                /\ waiting' = Append(waiting, q)
                /\ UNCHANGED answered
             \/ /\ \E value \in CachedValues :
                     answered' = Append(answered, [query |-> q, value |-> value])
                /\ UNCHANGED waiting
          /\ UNCHANGED <<shown, rows, overtaken>>
    /\ UNCHANGED <<directory, screen, hasFetched, users, chosen, connected, failed,
                   changes, faults>>

(* The reads that wait, in the order of their answers.  Mutated form: the  *)
(* latest read comes first.                                                *)
LatestFirst == [i \in DOMAIN waiting |-> waiting[Len(waiting) + 1 - i]]
InOrder == waiting

(* The collection arrives, for all the reads that wait for it.             *)
DirectoryRead ==
    /\ connected
    /\ waiting # <<>>
    /\ answered' = [i \in DOMAIN waiting |->
                      [query |-> InOrder[i], value |-> directory]]
    /\ waiting' = <<>>
    /\ UNCHANGED <<directory, screenVars, connected, historyVars>>

(* The read is refused: there is no cancel block, and no completion.       *)
ReadDenied ==
    /\ connected
    /\ waiting # <<>>
    /\ waiting' = <<>>
    /\ failed' = TRUE
    /\ UNCHANGED <<directory, screenVars, answered, connected, query, overtaken,
                   searches, changes, faults>>

(* The snapshot callback: an array is kept and filtered, anything else is  *)
(* a failure, which is printed.  The screen may be closed by now.          *)
getallUser ==
    /\ answered # <<>>
    /\ answered' = Tail(answered)
    /\ \/ /\ Head(answered).value # {}
          /\ hasFetched' = TRUE
          /\ users' = Head(answered).value
          /\ filterUser(Head(answered).query, Head(answered).value, hud)
          /\ UNCHANGED failed
       \/ /\ Head(answered).value = {}
          /\ failed' = TRUE
          /\ UNCHANGED <<hasFetched, users, results, shown, rows, hud>>
    /\ UNCHANGED <<directory, screen, chosen, waiting, connected, query, overtaken,
                   searches, changes, faults>>

(* A row is tapped, which the indicator prevents while it covers them.     *)
didSelectRow(u) ==
    /\ screen = "open"
    /\ hud.state = "hidden"
    /\ shown = "table"
    /\ u \in rows
    /\ chosen' = u
    /\ screen' = "closed"
    /\ UNCHANGED <<directory, hasFetched, users, results, shown, rows, hud,
                   clientVars, historyVars>>

(* Cancel, in the navigation bar.                                          *)
dismissSelf ==
    /\ screen = "open"
    /\ screen' = "closed"
    /\ UNCHANGED <<directory, hasFetched, users, results, shown, rows, hud, chosen,
                   clientVars, historyVars>>

(* A registration adds an entry, and may overwrite those of others.        *)
UsersChange(u) ==
    /\ changes < MaxChanges
    /\ changes' = changes + 1
    /\ \E kept \in SUBSET directory : directory' = kept \cup {u}
    /\ UNCHANGED <<screenVars, clientVars, query, overtaken, failed, searches, faults>>

restoreState ==
    /\ ~connected
    /\ connected' = TRUE
    /\ UNCHANGED <<directory, screenVars, waiting, answered, historyVars>>

onDisconnect ==
    /\ connected
    /\ faults < MaxFaults
    /\ faults' = faults + 1
    /\ connected' = FALSE
    /\ UNCHANGED <<directory, screenVars, waiting, answered, query, overtaken, failed,
                   searches, changes>>

Answer == DirectoryRead \/ ReadDenied

Next ==
    \/ \E q \in Queries : searchBarSearchButtonClicked(q)
    \/ Answer \/ getallUser \/ animationDidFinish
    \/ \E u \in Users : didSelectRow(u) \/ UsersChange(u)
    \/ dismissSelf \/ restoreState \/ onDisconnect

Spec == Init /\ [][Next]_vars

(* The client reconnects, the server answers, the main thread runs.        *)
Fairness ==
    /\ WF_vars(Answer) /\ WF_vars(getallUser)
    /\ WF_vars(animationDidFinish) /\ WF_vars(restoreState)

FairSpec == Spec /\ Fairness

-----------------------------------------------------------------------------
(* Every variable stays in its set; there is a copy once it was fetched,   *)
(* and never an empty one; reads wait for the server only together.        *)
TypeOK ==
    /\ directory \subseteq Users
    /\ screen \in {"open", "closed"}
    /\ hasFetched \in BOOLEAN
    /\ users \subseteq Users
    /\ results \subseteq Users
    /\ shown \in {"nothing", "table", "label"}
    /\ rows \subseteq Users
    /\ hud \in [state : {"hidden", "showing", "shown", "hiding"}, later : BOOLEAN]
    /\ chosen \in Users \cup {NoUser}
    /\ waiting \in Seq(Queries)
    /\ answered \in Seq([query : Queries, value : SUBSET Users])
    /\ connected \in BOOLEAN
    /\ query \in Queries \cup {NoQuery}
    /\ overtaken \in BOOLEAN /\ failed \in BOOLEAN
    /\ searches \in 0..MaxSearches
    /\ changes \in 0..MaxChanges
    /\ faults \in 0..MaxFaults
    /\ hasFetched <=> users # {}
    /\ waiting = <<>> \/ answered = <<>>

(* didSelectRowAt takes results[indexPath.row]: while rows can be tapped,  *)
(* they are the results, although a search empties results long before the *)
(* table is reloaded, and answers arrive between searches.                 *)
RowsAreResults ==
    screen = "open" /\ hud.state = "hidden" /\ shown = "table" => rows = results

(* When every answer has arrived, the screen shows what the last search    *)
(* asks for, however many reads were under way together; the one exception *)
(* is a search served from the copy while an older read was still out.     *)
LastSearchIsShown ==
    hasFetched /\ waiting = <<>> /\ answered = <<>> /\ ~overtaken =>
        results = users \cap Matching[query]

(* The indicator is never left behind: while it is up, its animation can   *)
(* end, or what will dismiss it is on its way, unless a read failed.       *)
IndicatorIsAwaited ==
    /\ hud.state \in {"showing", "hiding"} => ENABLED <<animationDidFinish>>_vars
    /\ hud.state = "shown" /\ ~(failed /\ ~hasFetched) =>
         IF answered # <<>> THEN ENABLED <<getallUser>>_vars
         ELSE IF connected THEN ENABLED <<Answer>>_vars
         ELSE waiting # <<>> /\ ENABLED <<restoreState>>_vars

(* The indicator never stays once the collection has been read: only a     *)
(* failed read leaves it, for the next successful search to dismiss.       *)
SpinnerEnds ==
    hud.state = "showing" ~> hud.state = "hidden" \/ (failed /\ ~hasFetched)
=============================================================================
