----------------------------- MODULE SearchProofs -----------------------------
(* Proofs about Search, for any users, texts and bounds.                    *)
EXTENDS Search, SequenceTheorems, TLAPS

Answers == [query : Queries, value : SUBSET Users]
HudStates == [state : {"hidden", "showing", "shown", "hiding"}, later : BOOLEAN]

LEMMA TypeInit == Init => TypeOK
  <1> SUFFICES ASSUME Init PROVE TypeOK
    OBVIOUS
  <1>1. hud \in HudStates
    BY DEF Init, HudStates
  <1>2. waiting \in Seq(Queries) /\ answered \in Seq(Answers)
    BY DEF Init
  <1>3. hasFetched <=> users # {}
    BY DEF Init
  <1>4. overtaken \in BOOLEAN /\ failed \in BOOLEAN /\ hasFetched \in BOOLEAN /\ connected \in BOOLEAN
    BY DEF Init
  <1>5. searches \in 0..MaxSearches /\ changes \in 0..MaxChanges /\ faults \in 0..MaxFaults
    BY SearchAssumption DEF Init
  <1>6. waiting = <<>> \/ answered = <<>>
    BY DEF Init
  <1>7. /\ directory \subseteq Users /\ users \subseteq Users /\ results \subseteq Users
        /\ rows \subseteq Users /\ query \in Queries \cup {NoQuery} /\ chosen \in Users \cup {NoUser}
    BY DEF Init
  <1>8. screen \in {"open", "closed"} /\ shown \in {"nothing", "table", "label"}
    BY DEF Init
  <1> QED
    BY <1>1, <1>2, <1>3, <1>4, <1>5, <1>6, <1>7, <1>8
    DEF TypeOK, HudStates, Answers

(* Filtering keeps the types of what it changes.                           *)
LEMMA FilterType ==
    ASSUME TypeOK, NEW q \in Queries, NEW copy \in SUBSET Users, NEW h,
           h \in HudStates, filterUser(q, copy, h)
    PROVE  /\ hud' \in HudStates
           /\ results' \subseteq Users
           /\ shown' \in {"nothing", "table", "label"}
           /\ rows' \subseteq Users
  BY DEF TypeOK, filterUser, dismissed, updateUi, HudStates

(* Every variable of the search screen stays in its set.                   *)
LEMMA TypeStep == TypeOK /\ [Next]_vars => TypeOK'
  <1> SUFFICES ASSUME TypeOK, [Next]_vars PROVE TypeOK'
    OBVIOUS
  <1> USE SearchAssumption
  <1> USE DEF SearchAssumption, HudStates, Answers, screenVars, clientVars, historyVars
  <1>1. ASSUME NEW q \in Queries, searchBarSearchButtonClicked(q) PROVE TypeOK'
    <2> DEFINE h == showing(hud)
    <2>1. h \in HudStates
      BY DEF TypeOK, showing, HudStates
    <2>2. CASE hasFetched
      <3>1. filterUser(q, users, h) /\ UNCHANGED <<waiting, answered>>
        BY <1>1, <2>2 DEF searchBarSearchButtonClicked
      <3>2. users \in SUBSET Users
        BY DEF TypeOK
      <3> HIDE DEF h
      <3>3. /\ hud' \in HudStates
            /\ results' \subseteq Users
            /\ shown' \in {"nothing", "table", "label"}
            /\ rows' \subseteq Users
        BY <2>1, <3>1, <3>2, FilterType
      <3> QED
        BY <1>1, <2>2, <3>1, <3>3 DEF searchBarSearchButtonClicked, TypeOK
    <2>3. CASE ~hasFetched
      <3>1. /\ results' = {} /\ hud' = h
            /\ UNCHANGED <<shown, rows, overtaken>>
        BY <1>1, <2>3 DEF searchBarSearchButtonClicked
      <3>2. CASE CachedValues = {} /\ waiting' = Append(waiting, q) /\ UNCHANGED answered
        <4>1. waiting' \in Seq(Queries)
          BY <3>2 DEF TypeOK
        <4>2. answered = <<>>
          BY <3>2 DEF CachedValues
        <4> QED
          BY <1>1, <2>1, <2>3, <3>1, <3>2, <4>1, <4>2
          DEF searchBarSearchButtonClicked, TypeOK
      <3>3. CASE /\ \E value \in CachedValues :
                      answered' = Append(answered, [query |-> q, value |-> value])
                 /\ UNCHANGED waiting
        <4>1. PICK value \in CachedValues :
                answered' = Append(answered, [query |-> q, value |-> value])
          BY <3>3
        <4>2. answered # <<>> /\ value \in SUBSET Users
          <5>1. answered # <<>>
            BY <4>1 DEF CachedValues
          <5>2. answered[Len(answered)] \in Answers
            <6>1. answered \in Seq(Answers)
              BY DEF TypeOK
            <6> HIDE DEF Answers
            <6>2. Len(answered) \in 1..Len(answered)
              BY <5>1, <6>1, EmptySeq
            <6> QED
              BY <6>1, <6>2, ElementOfSeq
          <5>3. answered[Len(answered)].value \in SUBSET Users
            BY <5>2
          <5>4. value = answered[Len(answered)].value \/ value = directory
            BY <4>1 DEF CachedValues
          <5> QED
            BY <5>1, <5>3, <5>4 DEF TypeOK
        <4>3. answered' \in Seq(Answers)
          BY <4>1, <4>2 DEF TypeOK
        <4> QED
          BY <1>1, <2>1, <2>3, <3>1, <3>3, <4>2, <4>3
          DEF searchBarSearchButtonClicked, TypeOK
      <3> QED
        BY <1>1, <2>3, <3>2, <3>3 DEF searchBarSearchButtonClicked
    <2> QED
      BY <2>2, <2>3
  <1>2. CASE DirectoryRead
    <2>1. \A i \in DOMAIN waiting : InOrder[i] \in Queries
      BY DEF TypeOK, InOrder
    <2>2. answered' \in Seq(Answers)
      <3>1. Len(waiting) \in Nat /\ DOMAIN waiting = 1..Len(waiting)
        BY DEF TypeOK
      <3>2. directory \in SUBSET Users
        BY DEF TypeOK
      <3>3. \A i \in 1..Len(waiting) :
              [query |-> InOrder[i], value |-> directory] \in Answers
        BY <2>1, <3>1, <3>2
      <3>4. answered' = [i \in 1..Len(waiting) |->
                           [query |-> InOrder[i], value |-> directory]]
        BY <1>2, <3>1 DEF DirectoryRead
      <3> QED
        BY <3>1, <3>3, <3>4
    <2>3. waiting' = <<>> /\ waiting' \in Seq(Queries)
      BY <1>2 DEF DirectoryRead
    <2> QED
      BY <1>2, <2>2, <2>3 DEF DirectoryRead, TypeOK
  <1>3. CASE ReadDenied
    BY <1>3 DEF ReadDenied, TypeOK
  <1>4. CASE getallUser
    <2>0. answered \in Seq(Answers) /\ answered # <<>> /\ answered' = Tail(answered)
      BY <1>4 DEF getallUser, TypeOK
    <2> HIDE DEF Answers
    <2>1. Head(answered) \in Answers
      BY <2>0, HeadTailProperties
    <2>2. answered' \in Seq(Answers)
      BY <2>0, HeadTailProperties
    <2> USE DEF Answers
    <2>3. CASE Head(answered).value # {}
      <3> DEFINE q == Head(answered).query
                 copy == Head(answered).value
      <3>1. filterUser(q, copy, hud) /\ hasFetched' = TRUE /\ users' = copy
        BY <1>4, <2>3 DEF getallUser
      <3>2. q \in Queries /\ copy \in SUBSET Users
        BY <2>1
      <3>3. hud \in HudStates
        BY DEF TypeOK, HudStates
      <3>4. /\ hud' \in HudStates
            /\ results' \subseteq Users
            /\ shown' \in {"nothing", "table", "label"}
            /\ rows' \subseteq Users
        BY <3>1, <3>2, <3>3, FilterType
      <3> QED
        BY <1>4, <2>2, <2>3, <3>1, <3>2, <3>4 DEF getallUser, TypeOK
    <2>4. CASE Head(answered).value = {}
      <3>1. failed' = TRUE /\ UNCHANGED <<hasFetched, users, results, shown, rows, hud>>
        BY <1>4, <2>4 DEF getallUser
      <3> QED
        BY <1>4, <2>0, <2>2, <3>1 DEF getallUser, TypeOK
    <2> QED
      BY <2>3, <2>4
  <1>5. CASE animationDidFinish
    BY <1>5 DEF animationDidFinish, TypeOK
  <1>6. ASSUME NEW u \in Users, didSelectRow(u) PROVE TypeOK'
    BY <1>6 DEF didSelectRow, TypeOK
  <1>7. ASSUME NEW u \in Users, UsersChange(u) PROVE TypeOK'
    BY <1>7 DEF UsersChange, TypeOK
  <1>8. CASE dismissSelf
    BY <1>8 DEF dismissSelf, TypeOK
  <1>9. CASE restoreState
    BY <1>9 DEF restoreState, TypeOK
  <1>10. CASE onDisconnect
    <2>1. faults' \in 0..MaxFaults
      BY <1>10 DEF onDisconnect, TypeOK
    <2>2. connected' \in BOOLEAN
      BY <1>10 DEF onDisconnect
    <2> QED
      BY <1>10, <2>1, <2>2 DEF onDisconnect, TypeOK
  <1>11. CASE UNCHANGED vars
    BY <1>11 DEF vars, TypeOK
  <1> QED
    BY <1>1, <1>2, <1>3, <1>4, <1>5, <1>6, <1>7, <1>8, <1>9, <1>10, <1>11
    DEF Next, Answer

(* Type correctness of the search screen.                                  *)
THEOREM TypeCorrect == Spec => []TypeOK
  BY TypeInit, TypeStep, PTL DEF Spec
-----------------------------------------------------------------------------
(* The rows of the table.                                                  *)

RowsInv ==
    /\ ~hasFetched => shown = "nothing"
    /\ shown = "table" => rows = results

(* No table before the first answer, and every filter reloads it.          *)
LEMMA RowsStep == RowsInv /\ [Next]_vars => RowsInv'
  <1> SUFFICES ASSUME RowsInv, [Next]_vars PROVE RowsInv'
    OBVIOUS
  <1> USE DEF RowsInv, screenVars, clientVars, historyVars
  <1>1. ASSUME NEW q, NEW copy, NEW h, filterUser(q, copy, h), hasFetched' = TRUE
        PROVE  RowsInv'
    BY <1>1 DEF filterUser, updateUi
  <1>2. ASSUME NEW q \in Queries, searchBarSearchButtonClicked(q) PROVE RowsInv'
    <2>1. CASE hasFetched
      <3>1. filterUser(q, users, showing(hud)) /\ hasFetched' = hasFetched
        BY <1>2, <2>1 DEF searchBarSearchButtonClicked
      <3> QED
        BY <2>1, <3>1, <1>1 DEF filterUser, updateUi
    <2>2. CASE ~hasFetched
      BY <1>2, <2>2 DEF searchBarSearchButtonClicked
    <2> QED
      BY <2>1, <2>2
  <1>3. CASE getallUser
    <2>1. CASE Head(answered).value # {}
      <3>1. /\ filterUser(Head(answered).query, Head(answered).value, hud)
            /\ hasFetched' = TRUE
        BY <1>3, <2>1 DEF getallUser
      <3> QED
        BY <3>1, <1>1
    <2>2. CASE Head(answered).value = {}
      BY <1>3, <2>2 DEF getallUser
    <2> QED
      BY <2>1, <2>2
  <1>4. CASE Answer \/ animationDidFinish \/ dismissSelf \/ restoreState \/ onDisconnect
    BY <1>4 DEF Answer, DirectoryRead, ReadDenied, animationDidFinish, dismissSelf,
                restoreState, onDisconnect
  <1>5. ASSUME NEW u \in Users, didSelectRow(u) \/ UsersChange(u) PROVE RowsInv'
    BY <1>5 DEF didSelectRow, UsersChange
  <1>6. CASE UNCHANGED vars
    BY <1>6 DEF vars
  <1> QED
    BY <1>2, <1>3, <1>4, <1>5, <1>6 DEF Next

(* While rows can be tapped they are the results, so results[indexPath.row]*)
(* is the user that the row shows.                                         *)
THEOREM TappedRowsAreResults == Spec => []RowsAreResults
  <1>1. Init => RowsInv
    BY DEF Init, RowsInv
  <1>2. RowsInv => RowsAreResults
    BY DEF RowsInv, RowsAreResults
  <1> QED
    BY <1>1, <1>2, RowsStep, PTL DEF Spec

-----------------------------------------------------------------------------
(* The order of the answers.                                               *)

LastOf(s) == s[Len(s)]
Found(i) == answered[i].value # {}

\* Once a read finds the collection, every later one does.
FoundInv ==
    /\ \A i, j \in DOMAIN answered : i <= j /\ Found(i) => Found(j)
    /\ \A i \in DOMAIN answered : Found(i) => directory # {}
    /\ hasFetched => \A i \in DOMAIN answered : Found(i)

\* The youngest read is that of the last search.
LastInv ==
    /\ waiting # <<>> => ~hasFetched /\ LastOf(waiting) = query
    /\ answered # <<>> /\ ~overtaken => LastOf(answered).query = query
    /\ hasFetched /\ answered = <<>> /\ ~overtaken =>
         results = users \cap Matching[query]

(* What the three ways of changing answered make of it.                    *)
LEMMA AnsweredFacts ==
    ASSUME TypeOK
    PROVE  /\ Len(waiting) \in Nat /\ DOMAIN waiting = 1..Len(waiting)
           /\ Len(answered) \in Nat /\ DOMAIN answered = 1..Len(answered)
           /\ answered # <<>> => Len(answered) \in 1..Len(answered)
           /\ waiting # <<>> => Len(waiting) \in 1..Len(waiting)
  <1> DEFINE S == [query : Queries, value : SUBSET Users]
  <1>1. waiting \in Seq(Queries) /\ answered \in Seq(S)
    BY DEF TypeOK
  <1> HIDE DEF S
  <1>2. /\ Len(waiting) \in Nat /\ DOMAIN waiting = 1..Len(waiting)
        /\ Len(answered) \in Nat /\ DOMAIN answered = 1..Len(answered)
    BY <1>1, LenProperties
  <1>3. /\ answered # <<>> => Len(answered) \in 1..Len(answered)
        /\ waiting # <<>> => Len(waiting) \in 1..Len(waiting)
    BY <1>1, EmptySeq
  <1> QED
    BY <1>2, <1>3

LEMMA AppendFacts ==
    ASSUME TypeOK, NEW a, a \in [query : Queries, value : SUBSET Users],
           answered' = Append(answered, a)
    PROVE  /\ Len(answered') = Len(answered) + 1
           /\ DOMAIN answered' = 1..Len(answered) + 1
           /\ \A i \in 1..Len(answered) : answered'[i] = answered[i]
           /\ LastOf(answered') = a
           /\ answered' # <<>>
  <1> DEFINE S == [query : Queries, value : SUBSET Users]
  <1>1. answered \in Seq(S) /\ a \in S
    BY DEF TypeOK
  <1> HIDE DEF S
  <1>2. /\ answered' \in Seq(S) /\ answered' # <<>>
        /\ Len(answered') = Len(answered) + 1
        /\ \A i \in 1..Len(answered) : answered'[i] = answered[i]
        /\ answered'[Len(answered) + 1] = a
    BY <1>1, AppendProperties
  <1>3. DOMAIN answered' = 1..Len(answered')
    BY <1>2, LenProperties
  <1> QED
    BY <1>2, <1>3 DEF LastOf

LEMMA TailFacts ==
    ASSUME TypeOK, answered # <<>>, answered' = Tail(answered)
    PROVE  /\ Head(answered) = answered[1]
           /\ Len(answered') = Len(answered) - 1
           /\ DOMAIN answered' = 1..Len(answered) - 1
           /\ \A i \in DOMAIN answered' : answered'[i] = answered[i + 1]
           /\ answered' # <<>> => LastOf(answered') = LastOf(answered)
           /\ answered' = <<>> => LastOf(answered) = Head(answered)
  <1> DEFINE S == [query : Queries, value : SUBSET Users]
  <1>1. answered \in Seq(S)
    BY DEF TypeOK
  <1> HIDE DEF S
  <1>2. /\ answered' \in Seq(S)
        /\ Len(answered') = Len(answered) - 1
        /\ \A i \in 1..Len(answered') : answered'[i] = answered[i + 1]
    BY <1>1, HeadTailProperties
  <1>3. /\ DOMAIN answered' = 1..Len(answered')
        /\ Len(answered) \in Nat \ {0} /\ Len(answered') \in Nat
    BY <1>1, <1>2, LenProperties, EmptySeq
  <1>4. Head(answered) = answered[1]
    BY <1>1
  <1>5. answered' # <<>> => LastOf(answered') = LastOf(answered)
    <2> SUFFICES ASSUME answered' # <<>> PROVE LastOf(answered') = LastOf(answered)
      OBVIOUS
    <2>1. Len(answered') \in 1..Len(answered')
      BY <1>2, <1>3, EmptySeq
    <2> QED
      BY <1>2, <1>3, <2>1 DEF LastOf
  <1>6. answered' = <<>> => LastOf(answered) = Head(answered)
    <2> SUFFICES ASSUME answered' = <<>> PROVE LastOf(answered) = Head(answered)
      OBVIOUS
    <2>1. Len(answered') = 0
      BY EmptySeq
    <2> QED
      BY <1>2, <1>3, <1>4, <2>1 DEF LastOf
  <1> QED
    BY <1>2, <1>3, <1>4, <1>5, <1>6
(* A search either starts to wait, is answered from the view, or is served *)
(* from the copy.                                                          *)
LEMMA SearchCases ==
    ASSUME TypeOK, NEW q \in Queries, searchBarSearchButtonClicked(q)
    PROVE  /\ query' = q
           /\ UNCHANGED <<hasFetched, users, directory>>
           /\ \/ /\ hasFetched
                 /\ results' = users \cap Matching[q]
                 /\ UNCHANGED <<waiting, answered>>
                 /\ ~overtaken' => answered = <<>> /\ ~overtaken
              \/ /\ ~hasFetched
                 /\ answered = <<>> /\ UNCHANGED answered
                 /\ waiting' = Append(waiting, q)
                 /\ UNCHANGED overtaken
              \/ /\ ~hasFetched
                 /\ answered # <<>> /\ UNCHANGED waiting
                 /\ UNCHANGED overtaken
                 /\ \E value \in {LastOf(answered).value, directory} :
                      answered' = Append(answered, [query |-> q, value |-> value])
  <1>1. query' = q /\ UNCHANGED <<hasFetched, users, directory>>
    BY DEF searchBarSearchButtonClicked
  <1>2. CASE hasFetched
    <2>1. /\ filterUser(q, users, showing(hud))
          /\ overtaken' = (overtaken \/ answered # <<>>)
          /\ UNCHANGED <<waiting, answered>>
      BY <1>2 DEF searchBarSearchButtonClicked
    <2>2. results' = users \cap Matching[q]
      BY <2>1 DEF filterUser
    <2>3. ~overtaken' => answered = <<>> /\ ~overtaken
      BY <2>1
    <2> QED
      BY <1>1, <1>2, <2>1, <2>2, <2>3
  <1>3. CASE ~hasFetched
    <2>1. UNCHANGED overtaken
      BY <1>3 DEF searchBarSearchButtonClicked
    <2>2. CASE CachedValues = {} /\ waiting' = Append(waiting, q) /\ UNCHANGED answered
      <3>1. answered = <<>>
        BY <2>2 DEF CachedValues
      <3> QED
        BY <1>1, <1>3, <2>1, <2>2, <3>1
    <2>3. CASE /\ \E value \in CachedValues :
                    answered' = Append(answered, [query |-> q, value |-> value])
               /\ UNCHANGED waiting
      <3>1. PICK value \in CachedValues :
              answered' = Append(answered, [query |-> q, value |-> value])
        BY <2>3
      <3>2. answered # <<>> /\ value \in {LastOf(answered).value, directory}
        BY <3>1 DEF CachedValues, LastOf
      <3> QED
        BY <1>1, <1>3, <2>1, <2>3, <3>1, <3>2
    <2> QED
      BY <1>3, <2>2, <2>3 DEF searchBarSearchButtonClicked
  <1> QED
    BY <1>2, <1>3

(* The collection never becomes empty again, so a read that finds it is    *)
(* never followed by one that does not.                                    *)
LEMMA FoundStep == TypeOK /\ FoundInv /\ LastInv /\ [Next]_vars => FoundInv'
  <1> SUFFICES ASSUME TypeOK, FoundInv, LastInv, [Next]_vars PROVE FoundInv'
    OBVIOUS
  <1> USE DEF FoundInv, Found, screenVars, clientVars, historyVars
  <1>0. DOMAIN answered = 1..Len(answered) /\ Len(answered) \in Nat
    BY AnsweredFacts
  <1>1. ASSUME NEW q \in Queries, searchBarSearchButtonClicked(q) PROVE FoundInv'
    <2>0. UNCHANGED <<hasFetched, directory>>
      BY <1>1, SearchCases
    <2>1. CASE UNCHANGED answered
      BY <2>0, <2>1
    <2>2. CASE /\ ~hasFetched /\ answered # <<>>
               /\ \E value \in {LastOf(answered).value, directory} :
                    answered' = Append(answered, [query |-> q, value |-> value])
      <3>1. PICK value \in {LastOf(answered).value, directory} :
              answered' = Append(answered, [query |-> q, value |-> value])
        BY <2>2
      <3> DEFINE n == Len(answered)
      <3>2. n \in 1..n
        BY <2>2, AnsweredFacts
      <3>3. LastOf(answered).value = answered[n].value
        BY DEF LastOf
      <3>4. answered[n].value \in SUBSET Users /\ directory \in SUBSET Users
        <4>1. answered[n] \in [query : Queries, value : SUBSET Users]
          BY <3>2, ElementOfSeq DEF TypeOK
        <4> QED
          BY <4>1 DEF TypeOK
      <3>5. [query |-> q, value |-> value] \in [query : Queries, value : SUBSET Users]
        BY <3>3, <3>4
      <3>6. /\ DOMAIN answered' = 1..n + 1
            /\ \A i \in 1..n : answered'[i] = answered[i]
            /\ answered'[n + 1] = [query |-> q, value |-> value]
        BY <3>1, <3>5, AppendFacts DEF LastOf
      <3>7. \A i \in 1..n : Found(i) => value # {}
        BY <1>0, <3>2, <3>3
      <3>8. value # {} => directory # {}
        BY <1>0, <3>2, <3>3
      <3> HIDE DEF n
      <3> QED
        BY <1>0, <2>0, <2>2, <3>2, <3>6, <3>7, <3>8 DEF n
    <2> QED
      BY <1>1, <2>1, <2>2, SearchCases
  <1>2. CASE DirectoryRead
    <2>1. /\ answered' = [i \in DOMAIN waiting |->
                            [query |-> InOrder[i], value |-> directory]]
          /\ directory' = directory /\ hasFetched' = hasFetched
          /\ ~hasFetched
      BY <1>2 DEF DirectoryRead, LastInv
    <2>2. \A i \in DOMAIN answered' : answered'[i].value = directory
      BY <2>1
    <2> QED
      BY <2>1, <2>2
  <1>3. CASE getallUser
    <2>1. /\ DOMAIN answered' = 1..Len(answered) - 1
          /\ \A i \in DOMAIN answered' : answered'[i] = answered[i + 1]
          /\ Head(answered) = answered[1]
          /\ answered # <<>>
      BY <1>3, TailFacts DEF getallUser
    <2>2. directory' = directory
      BY <1>3 DEF getallUser
    <2>3. Len(answered) \in 1..Len(answered)
      BY <2>1, AnsweredFacts
    <2>4. \A i \in DOMAIN answered' : Found(i)' <=> Found(i + 1)
      BY <2>1
    <2>5. \A i \in DOMAIN answered' : i + 1 \in DOMAIN answered
      BY <1>0, <2>1
    <2>6. hasFetched' => \A i \in DOMAIN answered : Found(i)
      <3>1. CASE Head(answered).value # {}
        BY <1>0, <2>1, <2>3, <3>1
      <3>2. CASE Head(answered).value = {}
        BY <1>3, <3>2 DEF getallUser
      <3> QED
        BY <3>1, <3>2
    <2>7. \A i, j \in DOMAIN answered' : i <= j => i + 1 <= j + 1
      BY <1>0, <2>1
    <2> QED
      BY <2>2, <2>4, <2>5, <2>6, <2>7
  <1>4. CASE ReadDenied \/ animationDidFinish \/ dismissSelf \/ restoreState \/ onDisconnect
    BY <1>4 DEF ReadDenied, animationDidFinish, dismissSelf, restoreState, onDisconnect
  <1>5. ASSUME NEW u \in Users, didSelectRow(u) PROVE FoundInv'
    BY <1>5 DEF didSelectRow
  <1>6. ASSUME NEW u \in Users, UsersChange(u) PROVE FoundInv'
    BY <1>6 DEF UsersChange
  <1>7. CASE UNCHANGED vars
    BY <1>7 DEF vars
  <1> QED
    BY <1>1, <1>2, <1>3, <1>4, <1>5, <1>6, <1>7 DEF Next, Answer
(* The last answer to arrive is the answer to the last search.             *)
LEMMA LastStep == TypeOK /\ FoundInv /\ LastInv /\ [Next]_vars => LastInv'
  <1> SUFFICES ASSUME TypeOK, FoundInv, LastInv, [Next]_vars PROVE LastInv'
    OBVIOUS
  <1> USE DEF LastInv, screenVars, clientVars, historyVars
  <1>0. DOMAIN answered = 1..Len(answered) /\ Len(answered) \in Nat
    BY AnsweredFacts
  <1>1. ASSUME NEW q \in Queries, searchBarSearchButtonClicked(q) PROVE LastInv'
    <2>0. query' = q /\ UNCHANGED <<hasFetched, users>>
      BY <1>1, SearchCases
    <2>1. CASE /\ hasFetched
               /\ results' = users \cap Matching[q]
               /\ UNCHANGED <<waiting, answered>>
               /\ ~overtaken' => answered = <<>> /\ ~overtaken
      BY <2>0, <2>1
    <2>2. CASE /\ ~hasFetched
               /\ answered = <<>> /\ UNCHANGED answered
               /\ waiting' = Append(waiting, q)
               /\ UNCHANGED overtaken
      <3>1. LastOf(waiting') = q
        <4>1. waiting \in Seq(Queries)
          BY DEF TypeOK
        <4>2. Len(Append(waiting, q)) = Len(waiting) + 1
          BY <4>1, AppendProperties
        <4>3. Append(waiting, q)[Len(waiting) + 1] = q
          BY <4>1, AppendProperties
        <4> QED
          BY <2>2, <4>2, <4>3 DEF LastOf
      <3> QED
        BY <2>0, <2>2, <3>1
    <2>3. CASE /\ ~hasFetched
               /\ answered # <<>> /\ UNCHANGED waiting
               /\ UNCHANGED overtaken
               /\ \E value \in {LastOf(answered).value, directory} :
                    answered' = Append(answered, [query |-> q, value |-> value])
      <3>1. PICK value \in {LastOf(answered).value, directory} :
              answered' = Append(answered, [query |-> q, value |-> value])
        BY <2>3
      <3>2. LastOf(answered) \in [query : Queries, value : SUBSET Users]
        BY <2>3, AnsweredFacts, ElementOfSeq DEF TypeOK, LastOf
      <3>3. value \in SUBSET Users
        BY <3>2 DEF TypeOK
      <3>4. LastOf(answered').query = q /\ answered' # <<>>
        BY <3>1, <3>3, AppendFacts
      <3>5. waiting = <<>>
        BY <2>3 DEF TypeOK
      <3> QED
        BY <2>0, <2>3, <3>4, <3>5
    <2> QED
      BY <1>1, <2>1, <2>2, <2>3, SearchCases
  <1>2. CASE DirectoryRead
    <2>1. /\ answered' = [i \in DOMAIN waiting |->
                            [query |-> InOrder[i], value |-> directory]]
          /\ waiting # <<>> /\ waiting' = <<>>
          /\ UNCHANGED <<hasFetched, query, overtaken>>
      BY <1>2 DEF DirectoryRead
    <2>2. /\ Len(waiting) \in Nat \ {0} /\ DOMAIN waiting = 1..Len(waiting)
          /\ ~hasFetched /\ LastOf(waiting) = query
      BY <2>1, AnsweredFacts
    <2>3. Len(answered') = Len(waiting)
      BY <2>1, <2>2
    <2>4. LastOf(answered').query = query
      BY <2>1, <2>2, <2>3 DEF LastOf, InOrder
    <2> QED
      BY <2>1, <2>2, <2>4
  <1>3. CASE ReadDenied
    BY <1>3 DEF ReadDenied, TypeOK
  <1>4. CASE getallUser
    <2>1. /\ answered # <<>> /\ answered' = Tail(answered)
          /\ UNCHANGED <<waiting, query, overtaken>>
      BY <1>4 DEF getallUser
    <2>2. waiting = <<>>
      BY <2>1 DEF TypeOK
    <2>3. answered' # <<>> /\ ~overtaken' => LastOf(answered').query = query'
      BY <2>1, TailFacts
    <2>4. ASSUME hasFetched', answered' = <<>>, ~overtaken'
          PROVE  results' = users' \cap Matching[query']
      <3>1. Head(answered) = LastOf(answered) /\ Head(answered).query = query
        BY <2>1, <2>4, TailFacts
      <3>2. CASE Head(answered).value # {}
        <4>1. /\ filterUser(Head(answered).query, Head(answered).value, hud)
              /\ users' = Head(answered).value
          BY <1>4, <3>2 DEF getallUser
        <4> QED
          BY <2>1, <3>1, <4>1 DEF filterUser
      <3>3. CASE Head(answered).value = {}
        <4>1. hasFetched
          BY <1>4, <2>4, <3>3 DEF getallUser
        <4>2. Head(answered) = answered[1] /\ 1 \in DOMAIN answered
          BY <1>0, <2>1, TailFacts, AnsweredFacts
        <4> QED
          BY <3>3, <4>1, <4>2 DEF FoundInv, Found
      <3> QED
        BY <3>2, <3>3
    <2> QED
      BY <2>1, <2>2, <2>3, <2>4
  <1>5. CASE animationDidFinish \/ dismissSelf \/ restoreState \/ onDisconnect
    BY <1>5 DEF animationDidFinish, dismissSelf, restoreState, onDisconnect
  <1>6. ASSUME NEW u \in Users, didSelectRow(u) \/ UsersChange(u) PROVE LastInv'
    BY <1>6 DEF didSelectRow, UsersChange
  <1>7. CASE UNCHANGED vars
    BY <1>7 DEF vars
  <1> QED
    BY <1>1, <1>2, <1>3, <1>4, <1>5, <1>6, <1>7 DEF Next, Answer

(* When every answer has arrived, the screen shows what the last search    *)
(* asks for, however many reads were under way together.                   *)
THEOREM LastSearchesAreShown == Spec => []LastSearchIsShown
  <1>1. Init => FoundInv /\ LastInv
    BY DEF Init, FoundInv, LastInv
  <1>2. LastInv => LastSearchIsShown
    BY DEF LastInv, LastSearchIsShown
  <1> QED
    BY TypeInit, TypeStep, FoundStep, LastStep, <1>1, <1>2, PTL DEF Spec

-----------------------------------------------------------------------------
(* The progress indicator.                                                 *)

\* Before the first array it is not dismissed, and a read is under way or has
\* failed; after it, it is not up unless its dismissal is under way.
HudInv ==
    /\ hasFetched => /\ hud.state # "shown"
                     /\ hud.state = "showing" => hud.later
    /\ ~hasFetched => hud.state # "hiding" /\ ~hud.later
    /\ ~hasFetched /\ ~failed /\ hud.state # "hidden" => waiting # <<>> \/ answered # <<>>

LEMMA HudInit == Init => HudInv
  BY DEF Init, HudInv

(* What a search does to the indicator.                                    *)
LEMMA SearchHud ==
    ASSUME TypeOK, NEW q \in Queries, searchBarSearchButtonClicked(q)
    PROVE  /\ UNCHANGED <<hasFetched, failed, connected>>
           /\ \/ /\ hasFetched
                 /\ hud' = dismissed(showing(hud))
                 /\ UNCHANGED <<waiting, answered>>
              \/ /\ ~hasFetched
                 /\ hud' = showing(hud)
                 /\ answered # <<>> => answered' # <<>>
                 /\ waiting' # <<>> \/ answered' # <<>>
  <1>1. UNCHANGED <<hasFetched, failed, connected>>
    BY DEF searchBarSearchButtonClicked
  <1>2. CASE hasFetched
    BY <1>1, <1>2 DEF searchBarSearchButtonClicked, filterUser
  <1>3. CASE ~hasFetched
    <2>1. hud' = showing(hud)
      BY <1>3 DEF searchBarSearchButtonClicked
    <2>2. waiting \in Seq(Queries) /\ answered \in Seq(Answers)
      BY DEF TypeOK, Answers
    <2>3. CASE waiting' = Append(waiting, q) /\ UNCHANGED answered
      <3>1. waiting' # <<>>
        BY <2>2, <2>3
      <3> QED
        BY <1>1, <1>3, <2>1, <2>3, <3>1
    <2>4. CASE \E value \in CachedValues :
                 answered' = Append(answered, [query |-> q, value |-> value])
      <3>1. PICK value \in CachedValues :
              answered' = Append(answered, [query |-> q, value |-> value])
        BY <2>4
      <3>2. ASSUME NEW e PROVE Append(answered, e) # <<>>
        BY <2>2
      <3>3. answered' # <<>>
        BY <3>1, <3>2
      <3> QED
        BY <1>1, <1>3, <2>1, <3>3
    <2> QED
      BY <1>3, <2>3, <2>4 DEF searchBarSearchButtonClicked
  <1> QED
    BY <1>2, <1>3

(* What an answer that arrives on the main thread does to it.              *)
LEMMA CallbackHud ==
    ASSUME getallUser
    PROVE  \/ hasFetched' = TRUE /\ hud' = dismissed(hud) /\ UNCHANGED failed
           \/ failed' = TRUE /\ UNCHANGED <<hasFetched, hud>>
  BY DEF getallUser, filterUser

(* What else happens leaves it alone.                                      *)
LEMMA OtherHud ==
    ASSUME TypeOK,
           \/ Answer \/ dismissSelf \/ restoreState \/ onDisconnect
           \/ \E u \in Users : didSelectRow(u) \/ UsersChange(u)
           \/ UNCHANGED vars
    PROVE  /\ UNCHANGED <<hasFetched, hud>>
           /\ ~failed' => UNCHANGED failed
           /\ answered # <<>> => answered' # <<>>
           /\ ~failed' /\ waiting # <<>> => waiting' # <<>> \/ answered' # <<>>
           /\ connected /\ ~onDisconnect => connected'
  <1> USE DEF screenVars, clientVars, historyVars
  <1>1. waiting \in Seq(Queries) /\ (waiting = <<>> \/ answered = <<>>)
    BY DEF TypeOK
  <1>2. CASE DirectoryRead
    <2>1. waiting # <<>> /\ answered' = [i \in DOMAIN waiting |->
                      [query |-> InOrder[i], value |-> directory]]
      BY <1>2 DEF DirectoryRead
    <2>2. 1 \in DOMAIN waiting
      BY <1>1, <2>1
    <2>3. DOMAIN answered' = DOMAIN waiting
      BY <2>1
    <2>4. answered' # <<>>
      BY <2>2, <2>3
    <2> QED
      BY <1>2, <2>4 DEF DirectoryRead
  <1>3. CASE ReadDenied
    BY <1>1, <1>3 DEF ReadDenied
  <1>4. CASE dismissSelf \/ restoreState \/ onDisconnect
    BY <1>4 DEF dismissSelf, restoreState, onDisconnect
  <1>5. CASE \E u \in Users : didSelectRow(u) \/ UsersChange(u)
    BY <1>5 DEF didSelectRow, UsersChange
  <1>6. CASE UNCHANGED vars
    BY <1>6 DEF vars
  <1> QED
    BY <1>2, <1>3, <1>4, <1>5, <1>6 DEF Answer

(* The cases of a step.                                                    *)
LEMMA StepCases ==
    ASSUME [Next]_vars
    PROVE  \/ \E q \in Queries : searchBarSearchButtonClicked(q)
           \/ getallUser
           \/ animationDidFinish
           \/ \/ Answer \/ dismissSelf \/ restoreState \/ onDisconnect
              \/ \E u \in Users : didSelectRow(u) \/ UsersChange(u)
              \/ UNCHANGED vars
  BY DEF Next

LEMMA HudStep == TypeOK /\ HudInv /\ [Next]_vars => HudInv'
  <1> SUFFICES ASSUME TypeOK, HudInv, [Next]_vars PROVE HudInv'
    OBVIOUS
  <1>0. hud \in HudStates /\ hasFetched \in BOOLEAN /\ failed \in BOOLEAN
    BY DEF TypeOK, HudStates
  <1> USE DEF HudInv, HudStates
  <1>1. ASSUME NEW q \in Queries, searchBarSearchButtonClicked(q) PROVE HudInv'
    <2>1. CASE hasFetched
      BY <1>0, <1>1, <2>1, SearchHud DEF dismissed, showing
    <2>2. CASE ~hasFetched
      BY <1>0, <1>1, <2>2, SearchHud DEF showing
    <2> QED
      BY <2>1, <2>2
  <1>2. CASE getallUser
    <2>1. CASE hasFetched' = TRUE /\ hud' = dismissed(hud) /\ UNCHANGED failed
      <3>1. hud'.state # "shown" /\ (hud'.state = "showing" => hud'.later)
        BY <1>0, <2>1 DEF dismissed
      <3> QED
        BY <2>1, <3>1
    <2>2. CASE failed' = TRUE /\ UNCHANGED <<hasFetched, hud>>
      BY <2>2
    <2> QED
      BY <1>2, <2>1, <2>2, CallbackHud
  <1>3. CASE animationDidFinish
    BY <1>0, <1>3 DEF animationDidFinish, clientVars, historyVars
  <1>4. CASE \/ Answer \/ dismissSelf \/ restoreState \/ onDisconnect
             \/ \E u \in Users : didSelectRow(u) \/ UsersChange(u)
             \/ UNCHANGED vars
    BY <1>0, <1>4, OtherHud
  <1> QED
    BY <1>1, <1>2, <1>3, <1>4, StepCases

\* While the indicator is up and no read has failed, its dismissal is under way,
\* or a read is: nobody looks at an indicator that nothing will take away.
IndicatorHasReason ==
    hud.state # "hidden" =>
        \/ waiting # <<>> \/ answered # <<>>
        \/ hud.state = "hiding" \/ hud.later
        \/ failed /\ ~hasFetched

(* The indicator is up only with a reason.                                 *)
THEOREM IndicatorsHaveReasons == Spec => []IndicatorHasReason
  <1>1. TypeOK /\ HudInv => IndicatorHasReason
    BY DEF TypeOK, HudInv, IndicatorHasReason
  <1> QED
    BY HudInit, HudStep, TypeCorrect, <1>1, PTL DEF Spec

-----------------------------------------------------------------------------
(* The progress indicator goes.                                            *)

Busy == ~hasFetched /\ ~failed /\ hud.state = "showing"
Covered == ~hasFetched /\ ~failed /\ hud.state = "shown"
Dismissed == hasFetched /\ hud.state = "showing"
Hiding == hasFetched /\ hud.state = "hiding"
Gone == hud.state = "hidden" \/ (failed /\ ~hasFetched)
HasAnswer == answered # <<>>

(* What a step may turn an indicator that is up into.                      *)
Moves ==
    /\ Busy => Busy' \/ Covered' \/ Dismissed' \/ Hiding' \/ Gone'
    /\ Covered => Covered' \/ Dismissed' \/ Hiding' \/ Gone'
    /\ Dismissed => Dismissed' \/ Hiding' \/ Gone'
    /\ Hiding => Hiding' \/ Gone'
    /\ Covered /\ Covered' /\ HasAnswer => HasAnswer'
    /\ Covered /\ Covered' /\ connected /\ ~onDisconnect => connected'

LEMMA MovesStep == TypeOK /\ HudInv /\ [Next]_vars => Moves
  <1> SUFFICES ASSUME TypeOK, HudInv, [Next]_vars PROVE Moves
    OBVIOUS
  <1>0. hud \in HudStates /\ hasFetched \in BOOLEAN /\ failed \in BOOLEAN
    BY DEF TypeOK, HudStates
  <1> USE DEF Moves, HudInv, HudStates, Busy, Covered, Dismissed, Hiding, Gone, HasAnswer
  <1>1. ASSUME NEW q \in Queries, searchBarSearchButtonClicked(q) PROVE Moves
    <2>1. CASE hasFetched
      BY <1>0, <1>1, <2>1, SearchHud DEF dismissed, showing
    <2>2. CASE ~hasFetched
      BY <1>0, <1>1, <2>2, SearchHud DEF showing
    <2> QED
      BY <2>1, <2>2
  <1>2. CASE getallUser
    <2>1. CASE hasFetched' = TRUE /\ hud' = dismissed(hud) /\ UNCHANGED failed
      <3>1. /\ hud.state = "showing" => hud'.state = "showing"
            /\ hud.state \in {"shown", "hiding"} => hud'.state = "hiding"
        BY <1>0, <2>1 DEF dismissed
      <3> QED
        BY <1>0, <2>1, <3>1
    <2>2. CASE failed' = TRUE /\ UNCHANGED <<hasFetched, hud>>
      BY <1>0, <2>2
    <2> QED
      BY <1>2, <2>1, <2>2, CallbackHud
  <1>3. CASE animationDidFinish
    BY <1>0, <1>3 DEF animationDidFinish, clientVars, historyVars
  <1>4. CASE \/ Answer \/ dismissSelf \/ restoreState \/ onDisconnect
             \/ \E u \in Users : didSelectRow(u) \/ UsersChange(u)
             \/ UNCHANGED vars
    BY <1>0, <1>4, OtherHud
  <1> QED
    BY <1>1, <1>2, <1>3, <1>4, StepCases

(* What the fair steps do: the animation ends, the callback runs, the read *)
(* is answered or refused, the client connects.                            *)
LEMMA FairMoves ==
    ASSUME TypeOK, HudInv, [Next]_vars
    PROVE  /\ animationDidFinish => /\ Busy => Covered'
                                    /\ Dismissed => Hiding'
                                    /\ Hiding => Gone'
           /\ getallUser /\ Covered => Hiding' \/ Gone'
           /\ Answer /\ Covered => HasAnswer' \/ Gone'
           /\ restoreState => connected'
  <1>0. hud \in HudStates /\ hasFetched \in BOOLEAN /\ failed \in BOOLEAN
    BY DEF TypeOK, HudStates
  <1> USE DEF HudInv, HudStates, Busy, Covered, Dismissed, Hiding, Gone, HasAnswer
  <1>1. animationDidFinish => /\ Busy => Covered'
                              /\ Dismissed => Hiding'
                              /\ Hiding => Gone'
    BY <1>0 DEF animationDidFinish, historyVars
  <1>2. ASSUME getallUser, Covered PROVE Hiding' \/ Gone'
    <2>1. CASE hasFetched' = TRUE /\ hud' = dismissed(hud)
      <3>1. hud'.state = "hiding"
        BY <1>0, <1>2, <2>1 DEF dismissed
      <3> QED
        BY <2>1, <3>1
    <2>2. CASE failed' = TRUE /\ UNCHANGED <<hasFetched, hud>>
      BY <1>2, <2>2
    <2> QED
      BY <1>2, <2>1, <2>2, CallbackHud
  <1>3. ASSUME Answer, Covered PROVE HasAnswer' \/ Gone'
    <2>1. CASE DirectoryRead
      <3>1. waiting \in Seq(Queries) /\ waiting # <<>>
        BY <2>1 DEF TypeOK, DirectoryRead
      <3>2. 1 \in DOMAIN waiting
        BY <3>1
      <3>3. DOMAIN answered' = DOMAIN waiting
        BY <2>1 DEF DirectoryRead
      <3> QED
        BY <3>2, <3>3
    <2>2. CASE ReadDenied
      BY <1>3, <2>2 DEF ReadDenied, screenVars
    <2> QED
      BY <1>3, <2>1, <2>2 DEF Answer
  <1>4. restoreState => connected'
    BY DEF restoreState
  <1> QED
    BY <1>1, <1>2, <1>3, <1>4

(* The indicator goes once the collection has been read, or a read failed, *)
(* whenever the steps that are due can be taken and the connection is not  *)
(* lost for ever again.                                                    *)
THEOREM SpinnersEnd ==
    FairSpec /\ []IndicatorIsAwaited /\ <>[][~onDisconnect]_vars => SpinnerEnds
  <1>1. TypeOK /\ HudInv /\ [Next]_vars
          => /\ Busy => Busy' \/ Covered' \/ Dismissed' \/ Hiding' \/ Gone'
             /\ Covered => Covered' \/ Dismissed' \/ Hiding' \/ Gone'
             /\ Dismissed => Dismissed' \/ Hiding' \/ Gone'
             /\ Hiding => Hiding' \/ Gone'
             /\ Covered /\ Covered' /\ HasAnswer => HasAnswer'
    BY MovesStep DEF Moves
  <1>2. TypeOK /\ HudInv /\ [Next]_vars /\ ~onDisconnect
          => (Covered /\ Covered' /\ connected => connected')
    BY MovesStep DEF Moves
  <1>3. TypeOK /\ HudInv /\ [Next]_vars /\ animationDidFinish
          => /\ Busy => Covered'
             /\ Dismissed => Hiding'
             /\ Hiding => Gone'
    BY FairMoves
  <1>4. TypeOK /\ HudInv /\ [Next]_vars /\ getallUser => (Covered => Hiding' \/ Gone')
    BY FairMoves
  <1>5. TypeOK /\ HudInv /\ [Next]_vars /\ Answer => (Covered => HasAnswer' \/ Gone')
    BY FairMoves
  <1>6. TypeOK /\ HudInv /\ [Next]_vars /\ restoreState => connected'
    BY FairMoves
  <1>7. IndicatorIsAwaited =>
          /\ Busy \/ Dismissed \/ Hiding => ENABLED <<animationDidFinish>>_vars
          /\ Covered /\ HasAnswer => ENABLED <<getallUser>>_vars
          /\ Covered /\ ~HasAnswer /\ connected => ENABLED <<Answer>>_vars
          /\ Covered /\ ~HasAnswer /\ ~connected => ENABLED <<restoreState>>_vars
    BY DEF IndicatorIsAwaited, Busy, Covered, Dismissed, Hiding, HasAnswer
  <1>8. TypeOK /\ HudInv => (hud.state = "showing" => Busy \/ Dismissed \/ Gone)
    BY DEF TypeOK, Busy, Dismissed, Gone
  <1>9. UNCHANGED vars => (connected' <=> connected)
    BY DEF vars, clientVars
  <1>10. Covered => ~Dismissed /\ ~Hiding /\ ~Gone
    BY DEF Covered, Dismissed, Hiding, Gone
  <1>11. Spec => []TypeOK /\ []HudInv
    BY HudInit, HudStep, TypeCorrect, PTL DEF Spec
  <1>12. FairSpec /\ []IndicatorIsAwaited => (Hiding ~> Gone) /\ (Dismissed ~> Gone)
    BY <1>1, <1>3, <1>7, <1>11, PTL DEF FairSpec, Fairness, Spec
  <1>13. FairSpec /\ []IndicatorIsAwaited /\ <>[][~onDisconnect]_vars
           => (Covered ~> Hiding \/ Dismissed \/ Gone)
    BY <1>1, <1>2, <1>4, <1>5, <1>6, <1>7, <1>9, <1>11, PTL DEF FairSpec, Fairness, Spec
  <1>14. FairSpec /\ []IndicatorIsAwaited
           => (Busy ~> Covered \/ Hiding \/ Dismissed \/ Gone)
    BY <1>1, <1>3, <1>7, <1>11, PTL DEF FairSpec, Fairness, Spec
  <1>15. SpinnerEnds <=> (hud.state = "showing" ~> Gone)
    BY PTL DEF SpinnerEnds, Gone
  <1> QED
    BY <1>8, <1>11, <1>12, <1>13, <1>14, <1>15, PTL DEF FairSpec
=============================================================================
