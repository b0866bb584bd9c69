---------------------------- MODULE SessionProofs -----------------------------
(* Proofs about Session, for any users, presses and bounds.                 *)
EXTENDS Session, TLAPS

\* With nobody signed in the login screen is in front, unless Auth dropped
\* the user; a running app was launched with somebody signed in; only a
\* running app has screens that wait for a sign-in.
CoverInv ==
    /\ app \in {"running", "crashed", "off"}
    /\ app # "running" => alive = {}
    /\ app = "crashed" => launched = Nobody \/ revoked
    /\ app = "running" => launched # Nobody
    /\ app = "running" /\ currentUser = Nobody => sheet # "none" \/ revoked
    /\ app = "running" /\ sheet # "none" /\ currentUser # Nobody => missed

\* The copies are those of the user at launch, and so is the current user
\* until somebody else signs in.
CopyInv ==
    /\ app = "running" => /\ userEmail = launched
                          /\ listening = launched
                          /\ rows \in {Nobody, launched}
                          /\ currentUser \in {Nobody, launched} \/ switched
    /\ \A m \in sent : m.owner # m.author => m.afterSwitch

-----------------------------------------------------------------------------
LEMMA InvInit == Init => TypeOK /\ CoverInv /\ CopyInv
  <1> SUFFICES ASSUME Init PROVE TypeOK /\ CoverInv /\ CopyInv
    OBVIOUS
  <1> USE DEF Init
  <1>1. faults \in 0..MaxFaults
    BY SessionAssumption
  <1>2. alert \in BOOLEAN /\ switched \in BOOLEAN /\ revoked \in BOOLEAN
        /\ missed \in BOOLEAN
    OBVIOUS
  <1>3. try \in [Tries -> {"unused", "login", "register", "over"}]
    OBVIOUS
  <1>4. TypeOK
    BY <1>1, <1>2, <1>3 DEF TypeOK
  <1>5. CoverInv /\ CopyInv
    BY DEF CoverInv, CopyInv
  <1> QED
    BY <1>4, <1>5

(* Every variable of the session stays in its set: a running app always    *)
(* has an address to create conversations under.                           *)
LEMMA TypeStep == TypeOK /\ CoverInv /\ CopyInv /\ [Next]_vars => TypeOK'
  <1> SUFFICES ASSUME TypeOK, CoverInv, CopyInv, [Next]_vars PROVE TypeOK'
    OBVIOUS
  <1> USE SessionAssumption
  <1> USE DEF TypeOK, copies, screens, signIns, history
  <1>1. CASE viewDidLoad
    <2>1. alive = {}
      BY <1>1 DEF viewDidLoad, CoverInv
    <2>2. alert' \in BOOLEAN /\ switched' \in BOOLEAN /\ revoked' \in BOOLEAN
          /\ missed' \in BOOLEAN
      BY <1>1 DEF viewDidLoad
    <2> QED
      BY <1>1, <2>1, <2>2 DEF viewDidLoad, FirstUser, ListenedUser
  <1>2. CASE startListinigForConversation
    BY <1>2 DEF startListinigForConversation
  <1>3. CASE SelectTab
    BY <1>3 DEF SelectTab, viewDidAppear, viewWillAppear
  <1>4. CASE createNewConversation
    BY <1>4 DEF createNewConversation
  <1>5. CASE CloseChat
    BY <1>5 DEF CloseChat, viewDidAppear
  <1>6. CASE didPressSendButton
    <2>1. sent' \subseteq [owner : Accounts, author : Accounts, afterSwitch : BOOLEAN]
      <3>1. CASE currentUser = Nobody
        BY <1>6, <3>1 DEF didPressSendButton
      <3>2. CASE currentUser # Nobody
        <4>1. userEmail \in Accounts /\ currentUser \in Accounts /\ switched \in BOOLEAN
          BY <1>6, <3>2 DEF didPressSendButton, CoverInv, CopyInv
        <4> QED
          BY <1>6, <3>2, <4>1 DEF didPressSendButton
      <3> QED
        BY <3>1, <3>2
    <2> QED
      BY <1>6, <2>1 DEF didPressSendButton
  <1>7. CASE didSelectLogOut
    BY <1>7 DEF didSelectLogOut, LoginSheet
  <1>8. CASE didTapRegister
    BY <1>8 DEF didTapRegister
  <1>9. CASE Back
    BY <1>9 DEF Back
  <1>10. CASE DismissAlert
    <2>1. alert' \in BOOLEAN
      BY <1>10 DEF DismissAlert
    <2>2. /\ app' = app /\ currentUser' = currentUser /\ copies' = copies
          /\ tab' = tab /\ sheet' = sheet /\ signIns' = signIns
          /\ sent' = sent /\ faults' = faults /\ history' = history
      BY <1>10 DEF DismissAlert
    <2> QED
      BY <2>1, <2>2
  <1>18. CASE InvalidInput
    <2>1. alert' \in BOOLEAN
      BY <1>18 DEF InvalidInput
    <2>2. /\ app' = app /\ currentUser' = currentUser /\ copies' = copies
          /\ tab' = tab /\ sheet' = sheet /\ signIns' = signIns
          /\ sent' = sent /\ faults' = faults /\ history' = history
      BY <1>18 DEF InvalidInput
    <2> QED
      BY <2>1, <2>2
  <1>11. ASSUME NEW t \in Tries, loginBtnTapped(t) PROVE TypeOK'
    BY <1>11 DEF loginBtnTapped
  <1>12. ASSUME NEW t \in Tries, registerBtnTapped(t) PROVE TypeOK'
    BY <1>12 DEF registerBtnTapped
  <1>13. ASSUME NEW t \in Tries, SignedIn(t) PROVE TypeOK'
    BY <1>13 DEF SignedIn, Closes
  <1>14. ASSUME NEW t \in Tries, SignInFailed(t) PROVE TypeOK'
    BY <1>14 DEF SignInFailed
  <1>15. CASE signOutIfTokenIsInvalid
    <2>1. faults' \in 0..MaxFaults
      BY <1>15 DEF signOutIfTokenIsInvalid, SessionAssumption
    <2>2. revoked' \in BOOLEAN /\ missed' \in BOOLEAN
      BY <1>15 DEF signOutIfTokenIsInvalid
    <2> QED
      BY <1>15, <2>1, <2>2 DEF signOutIfTokenIsInvalid
  <1>16. CASE Exit
    BY <1>16 DEF Exit
  <1>17. CASE UNCHANGED vars
    BY <1>17 DEF vars
  <1> QED
    BY <1>1, <1>2, <1>3, <1>4, <1>5, <1>6, <1>7, <1>8, <1>9, <1>10, <1>11,
       <1>12, <1>13, <1>14, <1>15, <1>16, <1>17, <1>18
    DEF Next

(* Only log out and Auth leave nobody signed in, and log out presents the  *)
(* login screen in the same step.                                          *)
LEMMA CoverStep == TypeOK /\ CoverInv /\ [Next]_vars => CoverInv'
  <1> SUFFICES ASSUME TypeOK, CoverInv, [Next]_vars PROVE CoverInv'
    OBVIOUS
  <1> USE SessionAssumption
  <1> USE DEF CoverInv, copies, screens, signIns, history
  <1>1. CASE viewDidLoad
    BY <1>1 DEF viewDidLoad, FirstUser, ListenedUser
  <1>2. CASE startListinigForConversation
    BY <1>2 DEF startListinigForConversation
  <1>3. CASE SelectTab
    BY <1>3 DEF SelectTab, viewDidAppear, viewWillAppear, TypeOK
  <1>4. CASE createNewConversation
    BY <1>4 DEF createNewConversation, TypeOK
  <1>5. CASE CloseChat
    BY <1>5 DEF CloseChat, viewDidAppear
  <1>6. CASE didPressSendButton
    BY <1>6 DEF didPressSendButton, TypeOK
  <1>7. CASE didSelectLogOut
    BY <1>7 DEF didSelectLogOut, LoginSheet
  <1>8. CASE didTapRegister
    BY <1>8 DEF didTapRegister
  <1>9. CASE Back
    BY <1>9 DEF Back
  <1>10. CASE DismissAlert
    BY <1>10 DEF DismissAlert
  <1>18. CASE InvalidInput
    BY <1>18 DEF InvalidInput
  <1>11. ASSUME NEW t \in Tries, loginBtnTapped(t) PROVE CoverInv'
    BY <1>11 DEF loginBtnTapped
  <1>12. ASSUME NEW t \in Tries, registerBtnTapped(t) PROVE CoverInv'
    BY <1>12 DEF registerBtnTapped
  <1>13. ASSUME NEW t \in Tries, SignedIn(t) PROVE CoverInv'
    BY <1>13 DEF SignedIn, Closes, TypeOK
  <1>14. ASSUME NEW t \in Tries, SignInFailed(t) PROVE CoverInv'
    BY <1>14 DEF SignInFailed
  <1>15. CASE signOutIfTokenIsInvalid
    BY <1>15 DEF signOutIfTokenIsInvalid
  <1>16. CASE Exit
    BY <1>16 DEF Exit
  <1>17. CASE UNCHANGED vars
    BY <1>17 DEF vars
  <1> QED
    BY <1>1, <1>2, <1>3, <1>4, <1>5, <1>6, <1>7, <1>8, <1>9, <1>10, <1>11,
       <1>12, <1>13, <1>14, <1>15, <1>16, <1>17, <1>18
    DEF Next

(* Nothing but a launch takes the copies, and nothing but a sign-in can    *)
(* make the current user differ from them.                                 *)
LEMMA CopyStep == CopyInv /\ [Next]_vars => CopyInv'
  <1> SUFFICES ASSUME CopyInv, [Next]_vars PROVE CopyInv'
    OBVIOUS
  <1> USE DEF CopyInv, copies, screens, signIns, history
  <1>1. CASE viewDidLoad
    BY <1>1 DEF viewDidLoad, FirstUser, ListenedUser
  <1>2. CASE startListinigForConversation
    BY <1>2 DEF startListinigForConversation
  <1>3. CASE SelectTab
    BY <1>3 DEF SelectTab, viewDidAppear, viewWillAppear
  <1>4. CASE createNewConversation
    BY <1>4 DEF createNewConversation
  <1>5. CASE CloseChat
    BY <1>5 DEF CloseChat, viewDidAppear
  <1>6. CASE didPressSendButton
    BY <1>6 DEF didPressSendButton
  <1>7. CASE didSelectLogOut
    BY <1>7 DEF didSelectLogOut, LoginSheet
  <1>8. CASE didTapRegister
    BY <1>8 DEF didTapRegister
  <1>9. CASE Back
    BY <1>9 DEF Back
  <1>10. CASE DismissAlert
    BY <1>10 DEF DismissAlert
  <1>18. CASE InvalidInput
    BY <1>18 DEF InvalidInput
  <1>11. ASSUME NEW t \in Tries, loginBtnTapped(t) PROVE CopyInv'
    BY <1>11 DEF loginBtnTapped
  <1>12. ASSUME NEW t \in Tries, registerBtnTapped(t) PROVE CopyInv'
    BY <1>12 DEF registerBtnTapped
  <1>13. ASSUME NEW t \in Tries, SignedIn(t) PROVE CopyInv'
    BY <1>13 DEF SignedIn, Closes
  <1>14. ASSUME NEW t \in Tries, SignInFailed(t) PROVE CopyInv'
    BY <1>14 DEF SignInFailed
  <1>15. CASE signOutIfTokenIsInvalid
    BY <1>15 DEF signOutIfTokenIsInvalid
  <1>16. CASE Exit
    BY <1>16 DEF Exit
  <1>17. CASE UNCHANGED vars
    BY <1>17 DEF vars
  <1> QED
    BY <1>1, <1>2, <1>3, <1>4, <1>5, <1>6, <1>7, <1>8, <1>9, <1>10, <1>11,
       <1>12, <1>13, <1>14, <1>15, <1>16, <1>17, <1>18
    DEF Next

LEMMA Invariants == Spec => [](TypeOK /\ CoverInv /\ CopyInv)
  BY InvInit, TypeStep, CoverStep, CopyStep, PTL DEF Spec

-----------------------------------------------------------------------------
(* Type correctness of the session.                                        *)
THEOREM TypeCorrect == Spec => []TypeOK
  BY Invariants, PTL

(* A process launched with somebody signed in never unwraps a nil user,    *)
(* unless Auth dropped the user by itself.                                 *)
THEOREM NoCrashWithUser == Spec => []CrashNeedsNoUserAtLaunch
  <1>1. CoverInv => CrashNeedsNoUserAtLaunch
    BY DEF CoverInv, CrashNeedsNoUserAtLaunch
  <1> QED
    BY <1>1, Invariants, PTL

(* The login screen stays in front of a signed-in user only when the       *)
(* sign-in found its screen left or an alert on it.                        *)
THEOREM LoginScreensAreClosed == Spec => []LoginScreenIsClosed
  <1>1. CoverInv => LoginScreenIsClosed
    BY DEF CoverInv, LoginScreenIsClosed
  <1> QED
    BY <1>1, Invariants, PTL

(* A conversation is stored in somebody else's list only after the user    *)
(* changed in one run of the app.                                          *)
THEOREM ForeignEntriesNeedSwitch == Spec => []ForeignEntryNeedsSwitch
  <1>1. CopyInv => ForeignEntryNeedsSwitch
    BY DEF CopyInv, ForeignEntryNeedsSwitch
  <1> QED
    BY <1>1, Invariants, PTL

(* Somebody else's conversations are shown only after the user changed.    *)
THEOREM ForeignRowsNeedASwitch == Spec => []ForeignRowsNeedSwitch
  <1>1. CopyInv => ForeignRowsNeedSwitch
    BY DEF CopyInv, ForeignRowsNeedSwitch
  <1> QED
    BY <1>1, Invariants, PTL
=============================================================================
