------------------------------- MODULE Session --------------------------------
(***************************************************************************)
(* Who is signed in, and what each part of the app believes about it.      *)
(*                                                                         *)
(* Firebase Auth keeps the current user.  The app takes copies of it: the  *)
(* address in DatabaseManager.shared, the path the conversations screen    *)
(* listens to, the sender of an open chat.  Log in and sign up are         *)
(* answered asynchronously, after the screen that asked may have been left,*)
(* and the Return key can ask again while an answer is awaited.            *)
(*                                                                         *)
(* One device; a try stands for one press of Log In or Register.  Auth and *)
(* the rules of UIKit for presenting and dismissing are external.  The     *)
(* progress indicators are left out: what they cover can be tapped here.   *)
(***************************************************************************)
EXTENDS Naturals

CONSTANTS
    Accounts,   \* users
    Nobody,     \* no user
    Tries,      \* presses of Log In or Register
    MaxFaults   \* bound: accounts revoked and processes ended in a behaviour

ASSUME SessionAssumption ==
    /\ Nobody \notin Accounts
    /\ MaxFaults \in Nat

VARIABLES
    app,          \* off, running, or crashed by an unwrapped nil
    currentUser,  \* Auth: the user, kept over restarts
    \* the copies
    userEmail,    \* DatabaseManager.shared
    listening,    \* whose conversations the listener reads
    rows,         \* whose conversations are shown
    chat,         \* the sender of the open chat
    \* the screens
    tab,          \* conversations, or profile
    sheet,        \* what covers the tabs: none, login, or register over login
    alert,        \* an alert is shown on the login or the register screen
    \* sign-ins
    try,          \* the state of each
    account,      \* the user each is for
    alive,        \* those whose screen is still there
    \* the database
    sent,         \* conversations created: under whom, and by whom
    faults,
    \* history of the running process
    launched,     \* who was signed in when it was launched
    switched,     \* somebody else has signed in since
    revoked,      \* Auth dropped the user by itself
    missed        \* the current user's sign-in found no screen, or an alert

copies == <<userEmail, listening, rows, chat>>
screens == <<tab, sheet, alert>>
signIns == <<try, account, alive>>
history == <<launched, switched, revoked, missed>>
vars == <<app, currentUser, copies, screens, signIns, sent, faults, history>>

Init ==
    /\ app = "off"
    /\ currentUser \in Accounts \cup {Nobody}
    /\ userEmail = Nobody
    /\ listening = Nobody
    /\ rows = Nobody
    /\ chat = Nobody
    /\ tab = "conversations"
    /\ sheet = "none"
    /\ alert = FALSE
    /\ try = [t \in Tries |-> "unused"]
    /\ account \in [Tries -> Accounts]
    /\ alive = {}
    /\ sent = {}
    /\ faults = 0
    /\ launched = Nobody
    /\ switched = FALSE
    /\ revoked = FALSE
    /\ missed = FALSE

-----------------------------------------------------------------------------
(* The user DatabaseManager.shared is made with.  Mutated form: the one    *)
(* of the process before.                                                  *)
RememberedUser == IF userEmail = Nobody THEN currentUser ELSE userEmail
FirstUser == currentUser

(* The user whose list the conversations screen asks for.  Mutated form:   *)
(* the path of the process before is restored.                             *)
RestoredPath == IF listening = Nobody THEN currentUser ELSE listening
ListenedUser == currentUser

(* The conversations screen loads with the app, and unwraps the user's     *)
(* address before it could show the login screen.                          *)
viewDidLoad ==
    /\ app = "off"
    /\ app' = IF currentUser = Nobody THEN "crashed" ELSE "running"
    /\ userEmail' = FirstUser
    /\ listening' = ListenedUser
    /\ rows' = Nobody
    /\ chat' = Nobody
    /\ tab' = "conversations" /\ sheet' = "none" /\ alert' = FALSE
    /\ launched' = currentUser
    /\ switched' = FALSE /\ revoked' = FALSE /\ missed' = FALSE
    /\ UNCHANGED <<currentUser, signIns, sent, faults>>

(* The listener delivers the list it listens to.                           *)
startListinigForConversation ==
    /\ app = "running"
    /\ rows' = listening
    /\ UNCHANGED <<app, currentUser, userEmail, listening, chat, screens, signIns,
                   sent, faults, history>>

(* The conversations screen appears: nobody signed in, so log in.          *)
viewDidAppear ==
    /\ tab' = "conversations"
    /\ sheet' = IF currentUser = Nobody THEN "login" ELSE "none"
    /\ UNCHANGED <<app, alert>>

(* The profile screen appears: its header unwraps the user's address.      *)
viewWillAppear ==
    /\ tab' = "profile"
    /\ app' = IF currentUser = Nobody THEN "crashed" ELSE app
    /\ UNCHANGED <<sheet, alert>>

(* Another tab is chosen; an open chat is still on top of its own.         *)
SelectTab ==
    /\ app = "running" /\ sheet = "none"
    /\ \/ tab = "conversations" /\ viewWillAppear
       \/ tab = "profile" /\ chat = Nobody /\ viewDidAppear
       \/ tab = "profile" /\ chat # Nobody /\ tab' = "conversations"
          /\ UNCHANGED <<app, sheet, alert>>
    /\ UNCHANGED <<currentUser, copies, signIns, sent, faults, history>>

(* A chat is opened from a row or from a search: its sender is made from   *)
(* the user's address.                                                     *)
createNewConversation ==
    /\ app = "running" /\ sheet = "none" /\ tab = "conversations" /\ chat = Nobody
    /\ app' = IF currentUser = Nobody THEN "crashed" ELSE app
    /\ chat' = currentUser
    /\ UNCHANGED <<currentUser, userEmail, listening, rows, screens, signIns, sent,
                   faults, history>>

(* Back from the chat.                                                     *)
CloseChat ==
    /\ app = "running" /\ sheet = "none" /\ tab = "conversations" /\ chat # Nobody
    /\ viewDidAppear
    /\ chat' = Nobody
    /\ UNCHANGED <<currentUser, userEmail, listening, rows, signIns, sent, faults,
                   history>>

(* Send in a new chat: the identifier is made from the current user, the   *)
(* list entry goes to the node of DatabaseManager's.                       *)
didPressSendButton ==
    /\ app = "running" /\ sheet = "none" /\ tab = "conversations" /\ chat # Nobody
    /\ \/ /\ currentUser = Nobody
          /\ app' = "crashed"
          /\ UNCHANGED sent
       \/ /\ currentUser # Nobody
          /\ sent' = sent \cup {[owner |-> userEmail, author |-> currentUser,
                                 afterSwitch |-> switched]}
          /\ UNCHANGED app
    /\ UNCHANGED <<currentUser, copies, screens, signIns, faults, history>>

(* Log out, on the profile screen.  Mutated form: nothing is presented.    *)
SignedOutSheet == "none"
LoginSheet == "login"

didSelectLogOut ==
    /\ app = "running" /\ sheet = "none" /\ tab = "profile"
    /\ currentUser' = Nobody
    /\ sheet' = LoginSheet
    /\ missed' = FALSE
    /\ UNCHANGED <<app, copies, tab, alert, signIns, sent, faults, launched, switched,
                   revoked>>

-----------------------------------------------------------------------------
(* Log In, or Return in the password field.                                *)
loginBtnTapped(t) ==
    /\ app = "running" /\ sheet = "login" /\ ~alert
    /\ try[t] = "unused"
    /\ try' = [try EXCEPT ![t] = "login"]
    /\ alive' = alive \cup {t}
    /\ UNCHANGED <<app, currentUser, copies, screens, account, sent, faults, history>>

(* Log In or Register with a field left empty, or too short.               *)
InvalidInput ==
    /\ app = "running" /\ sheet # "none" /\ ~alert
    /\ alert' = TRUE
    /\ UNCHANGED <<app, currentUser, copies, tab, sheet, signIns, sent, faults, history>>

(* The register screen is pushed, and popped with Back.                    *)
didTapRegister ==
    /\ app = "running" /\ sheet = "login" /\ ~alert
    /\ sheet' = "register"
    /\ UNCHANGED <<app, currentUser, copies, tab, alert, signIns, sent, faults, history>>

Back ==
    /\ app = "running" /\ sheet = "register" /\ ~alert
    /\ sheet' = "login"
    /\ alive' = {t \in alive : try[t] # "register"}
    /\ UNCHANGED <<app, currentUser, copies, tab, alert, try, account, sent, faults,
                   history>>

(* Register, or Return in its password field.                              *)
registerBtnTapped(t) ==
    /\ app = "running" /\ sheet = "register" /\ ~alert
    /\ try[t] = "unused"
    /\ try' = [try EXCEPT ![t] = "register"]
    /\ alive' = alive \cup {t}
    /\ UNCHANGED <<app, currentUser, copies, screens, account, sent, faults, history>>

(* Whether the completion of a sign-in finds its screen: self of the login *)
(* screen is weak, and a popped register screen has no navigation          *)
(* controller.  Dismissing while an alert is up takes away the alert only. *)
(* Mutated form: the login screen is always left where it is.              *)
NeverCloses(t) == FALSE
Closes(t) == t \in alive /\ ~alert

(* signIn or createUser succeeds: Auth takes the user over at once, and    *)
(* the completion closes the login screen with all that is on it.  The tab *)
(* that appears finds somebody signed in.                                  *)
SignedIn(t) ==
    /\ app = "running"
    /\ try[t] \in {"login", "register"}
    /\ try' = [try EXCEPT ![t] = "over"]
    /\ currentUser' = account[t]
    /\ \/ /\ Closes(t)
          /\ sheet' = "none"
          /\ alive' = {}
          /\ UNCHANGED alert
       \/ /\ ~Closes(t)
          /\ alert' = (alert /\ t \notin alive)
          /\ alive' = alive \ {t}
          /\ UNCHANGED sheet
    /\ missed' = (t \notin alive \/ alert)
    /\ switched' = (switched \/ account[t] # launched)
    /\ UNCHANGED <<app, copies, tab, account, sent, faults, launched, revoked>>

(* It fails: the login screen raises an alert if it is in front, the       *)
(* register screen prints the error.                                       *)
SignInFailed(t) ==
    /\ app = "running"
    /\ try[t] \in {"login", "register"}
    /\ try' = [try EXCEPT ![t] = "over"]
    /\ alert' = (alert \/ (try[t] = "login" /\ t \in alive /\ sheet = "login"))
    /\ alive' = alive \ {t}
    /\ UNCHANGED <<app, currentUser, copies, tab, sheet, account, sent, faults, history>>

DismissAlert ==
    /\ app = "running" /\ alert
    /\ alert' = FALSE
    /\ UNCHANGED <<app, currentUser, copies, tab, sheet, signIns, sent, faults, history>>

(* Auth drops the user when the token is no longer valid.                  *)
signOutIfTokenIsInvalid ==
    /\ app = "running" /\ currentUser # Nobody
    /\ faults < MaxFaults
    /\ faults' = faults + 1
    /\ currentUser' = Nobody
    /\ revoked' = TRUE
    /\ missed' = FALSE
    /\ UNCHANGED <<app, copies, screens, signIns, sent, launched, switched>>

(* The process ends, in whatever way; sign-ins under way are forgotten.    *)
Exit ==
    /\ app # "off"
    /\ app = "running" => faults < MaxFaults
    /\ faults' = IF app = "running" THEN faults + 1 ELSE faults
    /\ app' = "off"
    /\ try' = [t \in Tries |-> IF try[t] = "unused" THEN "unused" ELSE "over"]
    /\ alive' = {}
    /\ UNCHANGED <<currentUser, copies, screens, account, sent, history>>

Next ==
    \/ viewDidLoad \/ startListinigForConversation \/ SelectTab
    \/ createNewConversation \/ CloseChat \/ didPressSendButton
    \/ didSelectLogOut \/ didTapRegister \/ Back
    \/ InvalidInput \/ DismissAlert
    \/ \E t \in Tries : loginBtnTapped(t) \/ registerBtnTapped(t) \/ SignedIn(t)
                        \/ SignInFailed(t)
    \/ signOutIfTokenIsInvalid \/ Exit

Spec == Init /\ [][Next]_vars

-----------------------------------------------------------------------------
(* Every variable stays in its set; only a sign-in under way has a screen  *)
(* that waits for it, and only while the login screen is there.            *)
TypeOK ==
    /\ app \in {"off", "running", "crashed"}
    /\ currentUser \in Accounts \cup {Nobody}
    /\ userEmail \in Accounts \cup {Nobody}
    /\ listening \in Accounts \cup {Nobody}
    /\ rows \in Accounts \cup {Nobody}
    /\ chat \in Accounts \cup {Nobody}
    /\ tab \in {"conversations", "profile"}
    /\ sheet \in {"none", "login", "register"}
    /\ alert \in BOOLEAN
    /\ try \in [Tries -> {"unused", "login", "register", "over"}]
    /\ account \in [Tries -> Accounts]
    /\ alive \subseteq {t \in Tries : try[t] \in {"login", "register"}}
    /\ alive # {} => sheet # "none"
    /\ sent \subseteq [owner : Accounts, author : Accounts, afterSwitch : BOOLEAN]
    /\ faults \in 0..MaxFaults
    /\ launched \in Accounts \cup {Nobody}
    /\ switched \in BOOLEAN /\ revoked \in BOOLEAN /\ missed \in BOOLEAN

(* The address of the current user is unwrapped in five places.  A process *)
(* that was launched with somebody signed in reaches none of them with     *)
(* nobody signed in, through log out, failed and late sign-ins, unless     *)
(* Auth dropped the user by itself.                                        *)
CrashNeedsNoUserAtLaunch ==
    app = "crashed" => launched = Nobody \/ revoked

(* The login screen stays in front of a user who is signed in only when an *)
(* answer came for a screen that had been left, or met an alert.           *)
LoginScreenIsClosed ==
    app = "running" /\ sheet # "none" /\ currentUser # Nobody => missed

(* A conversation is stored in the list of somebody who did not write it   *)
(* only after the user changed in one run of the app: DatabaseManager and  *)
(* the identifier of the message take the user from different places.      *)
ForeignEntryNeedsSwitch ==
    \A m \in sent : m.owner # m.author => m.afterSwitch

(* Likewise the conversations of somebody else are shown only after the    *)
(* user changed in this run of the app.                                    *)
ForeignRowsNeedSwitch ==
    app = "running" /\ rows # Nobody /\ currentUser # Nobody =>
        rows = currentUser \/ switched
=============================================================================
