---------------------------- MODULE AccountsProofs ----------------------------
(* Proofs about Accounts, for any writers, devices and owners.              *)
EXTENDS Accounts, TLAPS

\* A queue holds the writers of its device that are writing, each once, and
\* their puts are on the wire.
QueueInv ==
    /\ pc \in [Writers -> Stages]
    /\ base \in [Sends -> Nodes]
    /\ wire \in [Writers -> {"none", "pending", "applied", "rejected"}]
    /\ puts \in [Devices -> Seq(Writers)]
    /\ \A d \in Devices : \A i, j \in 1..Len(puts[d]) : puts[d][i] = puts[d][j] => i = j
    /\ \A d \in Devices, w \in Writers :
         (\E i \in 1..Len(puts[d]) : puts[d][i] = w) <=> DeviceOf[w] = d /\ pc[w] = "writing"
    /\ \A w \in Writers : wire[w] # "none" <=> pc[w] = "writing"

TypeInv ==
    /\ QueueInv
    /\ node \in Nodes
    /\ link \in [Devices -> {"connected", "disconnected"}]
    /\ faults \in 0..MaxFaults
    /\ confirmed \subseteq Writers
    /\ rivals \in [Writers -> SUBSET Writers]

LEMMA TypeInit == Init => TypeInv
  BY AccountsAssumption
  DEF Init, TypeInv, QueueInv, Nodes, NullNode, Stages, Writers

(* What is written is a node that exists.                                   *)
LEMMA ValueType ==
    ASSUME QueueInv, NEW w \in Writers
    PROVE  Value(w) \in Nodes /\ Value(w) # NullNode
  <1>1. CASE w \in Registrations
    BY <1>1, AccountsAssumption DEF Value, Nodes, NullNode
  <1>2. CASE w \notin Registrations
    <2>1. w \in Sends /\ base[w] \in Nodes
      BY <1>2 DEF Writers, QueueInv
    <2>2. Value(w) = [names |-> base[w].names,
                      conversations |-> base[w].conversations \cup {w}]
      BY <1>2, <2>1 DEF Value, Nodes
    <2> QED
      BY <2>1, <2>2 DEF Nodes, NullNode
  <1> QED
    BY <1>1, <1>2

-----------------------------------------------------------------------------
\* Two writers of one device in the order of their puts.
Ahead(v, w) ==
    LET q == puts[DeviceOf[w]] IN
    \E i, j \in 1..Len(q) : i < j /\ q[i] = v /\ q[j] = w

LEMMA AheadWrites ==
    ASSUME QueueInv, NEW v \in Writers, NEW w \in Writers, Ahead(v, w)
    PROVE  /\ DeviceOf[v] = DeviceOf[w] /\ v # w
           /\ pc[v] = "writing" /\ pc[w] = "writing"
  <1>1. DeviceOf[w] \in Devices
    BY AccountsAssumption
  <1> QED
    BY <1>1 DEF QueueInv, Ahead

(* A put goes behind those that are outstanding on its device.              *)
LEMMA PutIsLast ==
    ASSUME QueueInv, NEW w \in Writers, pc[w] # "writing", setValue(w)
    PROVE  /\ QueueInv'
           /\ \A u, v \in Writers :
                Ahead(u, v)' <=> \/ Ahead(u, v)
                                 \/ /\ v = w
                                    /\ pc[u] = "writing" /\ DeviceOf[u] = DeviceOf[w]
  <1> DEFINE d == DeviceOf[w]
             q == puts[d]
  <1>1. d \in Devices /\ DeviceOf \in [Writers -> Devices]
    BY AccountsAssumption
  <1>2. q \in Seq(Writers) /\ puts' = [puts EXCEPT ![d] = Append(q, w)]
    BY <1>1 DEF QueueInv, setValue
  <1>3. /\ puts' \in [Devices -> Seq(Writers)]
        /\ \A e \in Devices : e # d => puts'[e] = puts[e]
        /\ Len(puts'[d]) = Len(q) + 1 /\ Len(q) \in Nat
        /\ \A i \in 1..Len(q) : puts'[d][i] = q[i]
        /\ puts'[d][Len(q) + 1] = w
    BY <1>1, <1>2 DEF QueueInv
  <1>4. \A i \in 1..Len(q) : q[i] # w
    BY <1>1 DEF QueueInv
  <1>5. /\ wire' = [wire EXCEPT ![w] = "pending"]
        /\ pc' \in [Writers -> Stages]
        /\ \A v \in Writers : pc'[v] = "writing" <=> pc[v] = "writing" \/ v = w
    BY DEF setValue, QueueInv, Stages, Awaiting, On
  <1>6. base' \in [Sends -> Nodes]
    BY ValueType DEF setValue, QueueInv
  <1>7. \A e \in Devices : \A i, j \in 1..Len(puts'[e]) : puts'[e][i] = puts'[e][j] => i = j
    <2> SUFFICES ASSUME NEW e \in Devices, NEW i \in 1..Len(puts'[e]),
                        NEW j \in 1..Len(puts'[e]), puts'[e][i] = puts'[e][j]
                 PROVE  i = j
      OBVIOUS
    <2>1. CASE e # d
      BY <1>3, <2>1 DEF QueueInv
    <2>2. CASE e = d
      <3>1. /\ i \in 1..Len(q) \/ i = Len(q) + 1
            /\ j \in 1..Len(q) \/ j = Len(q) + 1
        BY <1>3, <2>2
      <3>2. \A k, l \in 1..Len(q) : q[k] = q[l] => k = l
        BY <1>1 DEF QueueInv
      <3> HIDE DEF q, d
      <3>3. puts'[d][i] = puts'[d][j]
        BY <2>2
      <3> QED
        BY <1>3, <1>4, <3>1, <3>2, <3>3
    <2> QED
      BY <2>1, <2>2
  <1>8. \A e \in Devices, v \in Writers :
          (\E i \in 1..Len(puts'[e]) : puts'[e][i] = v)
              <=> DeviceOf[v] = e /\ pc'[v] = "writing"
    <2> SUFFICES ASSUME NEW e \in Devices, NEW v \in Writers
                 PROVE  (\E i \in 1..Len(puts'[e]) : puts'[e][i] = v)
                            <=> DeviceOf[v] = e /\ pc'[v] = "writing"
      OBVIOUS
    <2>0. (\E i \in 1..Len(puts[e]) : puts[e][i] = v)
              <=> DeviceOf[v] = e /\ pc[v] = "writing"
      BY DEF QueueInv
    <2>1. CASE e # d
      BY <1>3, <1>5, <2>0, <2>1
    <2>2. CASE e = d
      <3>1. (\E i \in 1..Len(puts'[e]) : puts'[e][i] = v)
                <=> (\E i \in 1..Len(q) : q[i] = v) \/ v = w
        <4> HIDE DEF q, d
        <4>1. 1..Len(puts'[d]) = 1..Len(q) \cup {Len(q) + 1}
          BY <1>3
        <4> QED
          BY <1>3, <2>2, <4>1
      <3> QED
        BY <1>5, <2>0, <2>2, <3>1
    <2> QED
      BY <2>1, <2>2
  <1>9. QueueInv'
    BY <1>3, <1>5, <1>6, <1>7, <1>8 DEF QueueInv
  <1>10. ASSUME NEW u \in Writers, NEW v \in Writers
         PROVE  Ahead(u, v)' <=> \/ Ahead(u, v)
                                 \/ /\ v = w
                                    /\ pc[u] = "writing" /\ DeviceOf[u] = d
    <2>0. /\ DeviceOf[v] \in Devices
          /\ (\E i \in 1..Len(q) : q[i] = u) <=> DeviceOf[u] = d /\ pc[u] = "writing"
      BY <1>1 DEF QueueInv
    <2>1. CASE DeviceOf[v] # d
      BY <1>3, <2>0, <2>1 DEF Ahead
    <2>2. CASE DeviceOf[v] = d
      <3>1. Ahead(u, v)' <=> \/ Ahead(u, v)
                             \/ v = w /\ \E i \in 1..Len(q) : q[i] = u
        <4>1. Ahead(u, v)' <=> \E i, j \in 1..Len(puts'[d]) :
                                 i < j /\ puts'[d][i] = u /\ puts'[d][j] = v
          BY <2>2 DEF Ahead
        <4>2. Ahead(u, v) <=> \E i, j \in 1..Len(q) : i < j /\ q[i] = u /\ q[j] = v
          BY <2>2 DEF Ahead
        <4> HIDE DEF q, d
        <4>3. ASSUME NEW i \in 1..Len(puts'[d]), NEW j \in 1..Len(puts'[d]),
                     i < j, puts'[d][i] = u, puts'[d][j] = v
              PROVE  Ahead(u, v) \/ (v = w /\ \E k \in 1..Len(q) : q[k] = u)
          <5>1. i \in 1..Len(q) /\ (j \in 1..Len(q) \/ j = Len(q) + 1)
            BY <1>3, <4>3
          <5> QED
            BY <1>3, <4>2, <4>3, <5>1
        <4>4. ASSUME NEW i \in 1..Len(q), NEW j \in 1..Len(q), i < j, q[i] = u, q[j] = v
              PROVE  Ahead(u, v)'
          BY <1>3, <4>1, <4>4
        <4>5. ASSUME NEW i \in 1..Len(q), q[i] = u, v = w
              PROVE  Ahead(u, v)'
          <5>1. i \in 1..Len(puts'[d]) /\ Len(q) + 1 \in 1..Len(puts'[d]) /\ i < Len(q) + 1
            BY <1>3
          <5> QED
            BY <1>3, <4>1, <4>5, <5>1
        <4> QED
          BY <4>1, <4>2, <4>3, <4>4, <4>5
      <3> QED
        BY <2>0, <3>1
    <2> QED
      BY <2>1, <2>2
  <1> QED
    BY <1>9, <1>10
-----------------------------------------------------------------------------
\* The answer to the put of w, which is the oldest of its device.
IsAnswered(w) ==
    /\ pc[w] = "writing" /\ wire[w] # "pending"
    /\ \A v \in Writers : ~Ahead(v, w)
    /\ pc' = [pc EXCEPT ![w] = IF wire[w] = "applied" THEN "done" ELSE "failed"]
    /\ confirmed' = IF wire[w] = "applied" THEN confirmed \cup {w} ELSE confirmed
    /\ wire' = [wire EXCEPT ![w] = "none"]
    /\ \A u, v \in Writers : Ahead(u, v)' <=> Ahead(u, v) /\ u # w
    /\ UNCHANGED <<node, base, link, faults, rivals>>

LEMMA FirstIsAnswered ==
    ASSUME QueueInv, NEW d \in Devices, PutAnswered(d)
    PROVE  QueueInv' /\ \E w \in Writers : IsAnswered(w)
  <1> DEFINE q == puts[d]
             w == Head(q)
             Held(p, e, v) == \E i \in 1..Len(p[e]) : p[e][i] = v
  <1>1. q \in Seq(Writers) /\ q # <<>> /\ puts' = [puts EXCEPT ![d] = Tail(q)]
    BY DEF QueueInv, PutAnswered, WithoutFirst
  <1>2. /\ Len(q) \in Nat \ {0} /\ w = q[1] /\ w \in Writers
        /\ puts' \in [Devices -> Seq(Writers)]
        /\ \A e \in Devices : e # d => puts'[e] = puts[e]
        /\ Len(puts'[d]) = Len(q) - 1
        /\ \A i \in 1..(Len(q) - 1) : puts'[d][i] = q[i + 1]
    BY <1>1 DEF QueueInv
  <1>3. \A i, j \in 1..Len(q) : q[i] = q[j] => i = j
    BY DEF QueueInv
  <1>4. DeviceOf[w] = d /\ pc[w] = "writing"
    <2>1. 1 \in 1..Len(q)
      BY <1>2
    <2> QED
      BY <1>2, <2>1 DEF QueueInv
  <1>5. /\ wire[w] # "pending"
        /\ pc' = [pc EXCEPT ![w] = IF wire[w] = "applied" THEN "done" ELSE "failed"]
        /\ confirmed' = IF wire[w] = "applied" THEN confirmed \cup {w} ELSE confirmed
        /\ wire' = [wire EXCEPT ![w] = "none"]
        /\ UNCHANGED <<node, base, link, faults, rivals>>
    BY DEF PutAnswered, Succeeded
  <1>6. \A e \in Devices : \A i, j \in 1..Len(puts'[e]) : puts'[e][i] = puts'[e][j] => i = j
    <2> SUFFICES ASSUME NEW e \in Devices, NEW i \in 1..Len(puts'[e]),
                        NEW j \in 1..Len(puts'[e]), puts'[e][i] = puts'[e][j]
                 PROVE  i = j
      OBVIOUS
    <2>1. CASE e # d
      BY <1>2, <2>1 DEF QueueInv
    <2>2. CASE e = d
      <3> HIDE DEF q
      <3>1. i \in 1..(Len(q) - 1) /\ j \in 1..(Len(q) - 1)
        BY <1>2, <2>2
      <3>2. i + 1 \in 1..Len(q) /\ j + 1 \in 1..Len(q) /\ q[i + 1] = q[j + 1]
        BY <1>2, <2>2, <3>1
      <3> QED
        BY <1>3, <3>1, <3>2
    <2> QED
      BY <2>1, <2>2
  <1>7. \A e \in Devices, v \in Writers : Held(puts', e, v) <=> Held(puts, e, v) /\ v # w
    <2> SUFFICES ASSUME NEW e \in Devices, NEW v \in Writers
                 PROVE  Held(puts', e, v) <=> Held(puts, e, v) /\ v # w
      OBVIOUS
    <2>1. CASE e # d
      <3>1. Held(puts, e, v) => DeviceOf[v] = e
        BY DEF QueueInv
      <3> QED
        BY <1>2, <1>4, <2>1, <3>1
    <2>2. CASE e = d
      <3> HIDE DEF q, w
      <3>1. ASSUME NEW i \in 1..Len(puts'[d]), puts'[d][i] = v
            PROVE  Held(puts, d, v) /\ v # w
        <4>1. i + 1 \in 1..Len(q) /\ q[i + 1] = v /\ 1 \in 1..Len(q)
          BY <1>2, <3>1
        <4> QED
          BY <1>2, <1>3, <4>1 DEF q
      <3>2. ASSUME NEW i \in 1..Len(q), q[i] = v, v # w
            PROVE  Held(puts', d, v)
        <4>1. i - 1 \in 1..Len(puts'[d]) /\ puts'[d][i - 1] = v
          BY <1>2, <3>2
        <4> QED
          BY <4>1
      <3> QED
        BY <2>2, <3>1, <3>2 DEF q
    <2> QED
      BY <2>1, <2>2
  <1>8. QueueInv'
    <2>1. /\ pc' \in [Writers -> Stages] /\ base' \in [Sends -> Nodes]
          /\ wire' \in [Writers -> {"none", "pending", "applied", "rejected"}]
          /\ \A v \in Writers : /\ wire'[v] # "none" <=> pc'[v] = "writing"
                                /\ pc'[v] = "writing" <=> pc[v] = "writing" /\ v # w
      BY <1>2, <1>5 DEF QueueInv, Stages
    <2>2. \A e \in Devices, v \in Writers :
            Held(puts', e, v) <=> DeviceOf[v] = e /\ pc'[v] = "writing"
      BY <1>7, <2>1 DEF QueueInv
    <2> QED
      BY <1>2, <1>6, <2>1, <2>2 DEF QueueInv
  <1>9. ASSUME NEW v \in Writers PROVE ~Ahead(v, w)
    <2> SUFFICES ASSUME NEW i \in 1..Len(q), NEW j \in 1..Len(q), i < j, q[j] = w
                 PROVE  FALSE
      BY <1>4 DEF Ahead
    <2>1. j = 1
      BY <1>2, <1>3
    <2> QED
      BY <2>1
  <1>10. ASSUME NEW u \in Writers, NEW v \in Writers
         PROVE  Ahead(u, v)' <=> Ahead(u, v) /\ u # w
    <2>0. DeviceOf[v] \in Devices
      BY AccountsAssumption
    <2>1. CASE DeviceOf[v] # d
      <3>1. Ahead(u, v)' <=> Ahead(u, v)
        BY <1>2, <2>0, <2>1 DEF Ahead
      <3> QED
        BY <1>4, <2>1, <3>1, AheadWrites
    <2>2. CASE DeviceOf[v] = d
      <3>1. Ahead(u, v)' <=> \E i, j \in 1..Len(puts'[d]) :
                               i < j /\ puts'[d][i] = u /\ puts'[d][j] = v
        BY <2>2 DEF Ahead
      <3>2. Ahead(u, v) <=> \E i, j \in 1..Len(q) : i < j /\ q[i] = u /\ q[j] = v
        BY <2>2 DEF Ahead
      <3> HIDE DEF q, w
      <3>3. ASSUME NEW i \in 1..Len(puts'[d]), NEW j \in 1..Len(puts'[d]),
                   i < j, puts'[d][i] = u, puts'[d][j] = v
            PROVE  Ahead(u, v) /\ u # w
        <4>1. /\ i + 1 \in 1..Len(q) /\ j + 1 \in 1..Len(q) /\ 1 \in 1..Len(q)
              /\ i + 1 < j + 1 /\ i + 1 # 1 /\ q[i + 1] = u /\ q[j + 1] = v
          BY <1>2, <3>3
        <4> QED
          BY <1>2, <1>3, <3>2, <4>1
      <3>4. ASSUME NEW i \in 1..Len(q), NEW j \in 1..Len(q), i < j, q[i] = u, q[j] = v, u # w
            PROVE  Ahead(u, v)'
        <4>1. /\ i - 1 \in 1..Len(puts'[d]) /\ j - 1 \in 1..Len(puts'[d])
              /\ i - 1 < j - 1 /\ puts'[d][i - 1] = u /\ puts'[d][j - 1] = v
          BY <1>2, <3>4
        <4> QED
          BY <3>1, <4>1
      <3> QED
        BY <3>1, <3>2, <3>3, <3>4
    <2> QED
      BY <2>1, <2>2
  <1>11. IsAnswered(w)
    BY <1>4, <1>5, <1>9, <1>10 DEF IsAnswered
  <1> QED
    BY <1>2, <1>8, <1>11

(* The put whose value a device shows is the last of its queue.             *)
LEMMA LastIsShown ==
    ASSUME QueueInv, NEW d \in Devices, Shadowed(d)
    PROVE  /\ LastPut(d) \in Writers
           /\ DeviceOf[LastPut(d)] = d /\ pc[LastPut(d)] = "writing"
           /\ \A v \in Writers : ~Ahead(LastPut(d), v)
  <1> DEFINE q == puts[d]
  <1>1. Len(q) \in Nat \ {0} /\ q \in Seq(Writers)
    BY DEF QueueInv, Shadowed
  <1>2. Len(q) \in 1..Len(q) /\ q[Len(q)] = LastPut(d) /\ LastPut(d) \in Writers
    BY <1>1 DEF LastPut
  <1>3. DeviceOf[LastPut(d)] = d /\ pc[LastPut(d)] = "writing"
    BY <1>2 DEF QueueInv
  <1>4. ASSUME NEW v \in Writers, Ahead(LastPut(d), v) PROVE FALSE
    <2>1. DeviceOf[v] = d
      BY <1>2, <1>3, <1>4, AheadWrites
    <2>2. PICK i, j \in 1..Len(q) : i < j /\ q[i] = LastPut(d)
      BY <1>4, <2>1 DEF Ahead
    <2>3. i = Len(q)
      BY <1>2, <2>2 DEF QueueInv
    <2> QED
      BY <1>1, <2>2, <2>3
  <1> QED
    BY <1>2, <1>3, <1>4

\* What the server decides about the put of w.
IsDecided(w) ==
    /\ wire[w] = "pending"
    /\ \A v \in Writers : Ahead(v, w) => wire[v] # "pending"
    /\ \/ wire' = [wire EXCEPT ![w] = "applied"] /\ node' = Value(w)
       \/ wire' = [wire EXCEPT ![w] = "rejected"] /\ UNCHANGED node
    /\ UNCHANGED <<pc, base, puts, link, faults, confirmed, rivals>>

LEMMA NextIsDecided ==
    ASSUME QueueInv, NEW d \in Devices, ServerDecides(d)
    PROVE  QueueInv' /\ \E w \in Writers : IsDecided(w)
  <1> DEFINE q == puts[d]
  <1>1. PICK k \in 1..Len(q) :
          /\ NextOnWire(d, k)
          /\ \/ wire' = [wire EXCEPT ![q[k]] = "applied"] /\ node' = Value(q[k])
             \/ wire' = [wire EXCEPT ![q[k]] = "rejected"] /\ UNCHANGED node
    BY DEF ServerDecides
  <1>2. /\ q \in Seq(Writers) /\ Len(q) \in Nat /\ q[k] \in Writers
        /\ DeviceOf[q[k]] = d /\ pc[q[k]] = "writing"
    <2>1. q \in Seq(Writers) /\ Len(q) \in Nat
      BY DEF QueueInv
    <2>2. q[k] \in Writers
      BY <2>1
    <2> QED
      BY <2>1, <2>2 DEF QueueInv
  <1>3. UNCHANGED <<pc, base, puts, link, faults, confirmed, rivals>>
    BY DEF ServerDecides
  <1>4. ASSUME NEW v \in Writers, Ahead(v, q[k]) PROVE wire[v] # "pending"
    <2>1. PICK i, j \in 1..Len(q) : i < j /\ q[i] = v /\ q[j] = q[k]
      BY <1>2, <1>4 DEF Ahead
    <2>2. j = k
      BY <2>1 DEF QueueInv
    <2>3. i \in 1..(k - 1)
      BY <1>2, <2>1, <2>2
    <2> QED
      BY <1>1, <2>1, <2>3 DEF NextOnWire
  <1>5. QueueInv'
    <2>1. /\ wire' \in [Writers -> {"none", "pending", "applied", "rejected"}]
          /\ \A w \in Writers : wire'[w] # "none" <=> wire[w] # "none" \/ w = q[k]
      <3>1. wire \in [Writers -> {"none", "pending", "applied", "rejected"}]
        BY DEF QueueInv
      <3>2. wire' \in {[wire EXCEPT ![q[k]] = "applied"], [wire EXCEPT ![q[k]] = "rejected"]}
        BY <1>1
      <3> HIDE DEF q
      <3> QED
        BY <1>2, <3>1, <3>2
    <2>2. pc' = pc /\ base' = base /\ puts' = puts
      BY <1>3
    <2>3. \A w \in Writers : wire'[w] # "none" <=> pc'[w] = "writing"
      BY <1>2, <2>1, <2>2 DEF QueueInv
    <2> HIDE DEF q
    <2> QED
      BY <2>1, <2>2, <2>3 DEF QueueInv
  <1> QED
    BY <1>1, <1>2, <1>3, <1>4, <1>5 DEF IsDecided, NextOnWire
-----------------------------------------------------------------------------
\* A later put of a device is not decided before an earlier one.
OrderInv ==
    \A u, v \in Writers : Ahead(u, v) /\ wire[v] # "pending" => wire[u] # "pending"

\* Once a put was stored there is a node.
NodeInv ==
    /\ \A w \in Writers : wire[w] = "applied" \/ w \in confirmed => node # NullNode
    /\ \A w \in Writers : w \in confirmed <=> pc[w] = "done"

\* Whoever may yet be told that there is no node began before the registration
\* of the account was acknowledged.
FoundInv ==
    \A s \in Sends :
        pc[s] = "reading" \/ (pc[s] = "read" /\ base[s] = NullNode) =>
            LET r == OwnerOf[s] IN
            \/ pc[r] = "failed"
            \/ r \in rivals[s]
            \/ pc[s] = "reading" /\ r \in confirmed

\* What w wrote is in n.
Carries(w, n) == IF w \in Registrations THEN n.names = w ELSE w \in n.conversations

\* Send v will write what w wrote, and its own.
Holds(v, w) == v \in Sends /\ pc[v] \in {"read", "writing"} /\ Carries(w, base[v])

\* A writer without rivals.  Before its put nobody else can come in between;
\* until that is answered the others are ahead of it or build on it; then the
\* node has what it wrote, and whoever writes next has it too.
LoneOf(w) ==
    rivals[w] = {} =>
        /\ pc[w] \in {"reading", "read"} =>
             \A v \in Writers \ {w} :
                 Active(v) => DeviceOf[v] = DeviceOf[w] /\ pc[v] = "writing"
        /\ pc[w] = "writing" =>
             \A v \in Writers \ {w} :
                 Active(v) => DeviceOf[v] = DeviceOf[w] /\ (Ahead(v, w) \/ Holds(v, w))
        /\ wire[w] = "applied" => Carries(w, node)
        /\ pc[w] = "done" =>
             /\ Carries(w, node)
             /\ \A v \in Writers :
                  Active(v) => v \in Sends /\ (pc[v] = "reading" \/ Carries(w, base[v]))

LoneInv == \A w \in Writers : LoneOf(w)
-----------------------------------------------------------------------------
\* Nothing was put and nothing answered.
QueuesKept ==
    /\ pc' \in [Writers -> Stages] /\ base' \in [Sends -> Nodes]
    /\ wire' \in [Writers -> {"none", "pending", "applied", "rejected"}]
    /\ \A w \in Writers : /\ pc'[w] = "writing" <=> pc[w] = "writing"
                          /\ wire'[w] = "none" <=> wire[w] = "none"
    /\ puts' = puts

LEMMA KeptQueues ==
    ASSUME QueueInv, QueuesKept
    PROVE  /\ QueueInv'
           /\ \A u, v \in Writers : Ahead(u, v)' <=> Ahead(u, v)
  <1>1. /\ puts' = puts
        /\ \A w \in Writers : /\ pc'[w] = "writing" <=> pc[w] = "writing"
                              /\ wire'[w] = "none" <=> wire[w] = "none"
    BY DEF QueuesKept
  <1>2. \A d \in Devices, w \in Writers :
          (\E i \in 1..Len(puts'[d]) : puts'[d][i] = w) <=> DeviceOf[w] = d /\ pc'[w] = "writing"
    <2>1. \A d \in Devices, w \in Writers :
            (\E i \in 1..Len(puts[d]) : puts[d][i] = w) <=> DeviceOf[w] = d /\ pc[w] = "writing"
      BY DEF QueueInv
    <2> QED
      BY <1>1, <2>1
  <1>3. \A w \in Writers : wire'[w] # "none" <=> pc'[w] = "writing"
    <2>1. \A w \in Writers : wire[w] # "none" <=> pc[w] = "writing"
      BY DEF QueueInv
    <2> QED
      BY <1>1, <2>1
  <1>4. QueueInv'
    BY <1>1, <1>2, <1>3 DEF QueueInv, QueuesKept
  <1>5. \A u, v \in Writers : Ahead(u, v)' <=> Ahead(u, v)
    BY <1>1 DEF Ahead
  <1> QED
    BY <1>4, <1>5

LEMMA KeepsQueues ==
    ASSUME TypeInv,
           \/ \E s \in Sends : observeSingleEvent(s) \/ UserNotFound(s)
           \/ \E d \in Devices : ReadAnswered(d) \/ onDisconnect(d) \/ restoreState(d)
    PROVE  QueuesKept
  <1> USE DEF TypeInv, QueuesKept, Stages
  <1>1. ASSUME NEW s \in Sends, observeSingleEvent(s) PROVE QueuesKept
    <2>1. s \in Writers /\ DeviceOf[s] \in Devices
      BY AccountsAssumption DEF Writers
    <2>2. Shadowed(DeviceOf[s]) => Value(LastPut(DeviceOf[s])) \in Nodes
      BY <2>1, LastIsShown, ValueType
    <2>3. /\ pc[s] = "idle" /\ wire' = wire /\ puts' = puts
          /\ pc' \in {[pc EXCEPT ![s] = "read"], [pc EXCEPT ![s] = "reading"]}
          /\ \/ base' = base
             \/ Shadowed(DeviceOf[s])
                /\ base' = [base EXCEPT ![s] = Value(LastPut(DeviceOf[s]))]
      BY <1>1 DEF observeSingleEvent
    <2>4. base' \in [Sends -> Nodes]
      <3>1. base \in [Sends -> Nodes]
        BY DEF QueueInv
      <3>2. CASE base' = base
        BY <3>1, <3>2, Zenon
      <3>3. CASE Shadowed(DeviceOf[s])
                 /\ base' = [base EXCEPT ![s] = Value(LastPut(DeviceOf[s]))]
        <4> DEFINE shown == Value(LastPut(DeviceOf[s]))
        <4>1. shown \in Nodes /\ base' = [base EXCEPT ![s] = shown]
          BY <2>2, <3>3, Zenon
        <4> HIDE DEF TypeInv, QueuesKept, Stages, shown
        <4> QED
          BY <3>1, <4>1
      <3> QED
        BY <2>3, <3>2, <3>3, Zenon
    <2>5. /\ pc' \in [Writers -> Stages]
          /\ \A w \in Writers : pc'[w] = "writing" <=> pc[w] = "writing"
      <3>1. pc \in [Writers -> Stages]
        BY DEF QueueInv
      <3>2. PICK stage \in {"read", "reading"} : pc' = [pc EXCEPT ![s] = stage]
        BY <2>3, Zenon
      <3> HIDE DEF TypeInv, QueuesKept
      <3> QED
        BY <2>1, <2>3, <3>1, <3>2
    <2> HIDE DEF TypeInv, Stages
    <2> QED
      BY <2>3, <2>4, <2>5 DEF QueueInv, TypeInv
  <1>2. ASSUME NEW s \in Sends, UserNotFound(s) PROVE QueuesKept
    <2>1. /\ s \in Writers /\ pc[s] = "read" /\ pc' = [pc EXCEPT ![s] = "failed"]
          /\ base' = base /\ wire' = wire /\ puts' = puts
      BY <1>2 DEF UserNotFound, Writers
    <2> QED
      BY <2>1 DEF QueueInv
  <1>3. ASSUME NEW d \in Devices, ReadAnswered(d) PROVE QueuesKept
    <2>1. /\ pc' = [w \in Writers |-> IF w \in Awaiting(d) THEN "read" ELSE pc[w]]
          /\ base' = [s \in Sends |-> IF s \in Awaiting(d) THEN node ELSE base[s]]
          /\ wire' = wire /\ puts' = puts
      BY <1>3 DEF ReadAnswered
    <2>2. \A w \in Awaiting(d) : pc[w] = "reading"
      BY DEF Awaiting
    <2> QED
      BY <2>1, <2>2 DEF QueueInv
  <1>4. ASSUME NEW d \in Devices, onDisconnect(d) PROVE QueuesKept
    BY <1>4 DEF onDisconnect, QueueInv
  <1>5. ASSUME NEW d \in Devices, restoreState(d) PROVE QueuesKept
    BY <1>5 DEF restoreState, QueueInv
  <1> QED
    BY <1>1, <1>2, <1>3, <1>4, <1>5

LEMMA MeetsType ==
    ASSUME rivals \in [Writers -> SUBSET Writers], NEW w \in Writers, Meets(w)
    PROVE  rivals' \in [Writers -> SUBSET Writers]
  BY DEF Meets, Rivals

LEMMA TypeStep == TypeInv /\ [Next]_vars => TypeInv'
  <1> SUFFICES ASSUME TypeInv, [Next]_vars PROVE TypeInv'
    OBVIOUS
  <1>0. QueueInv /\ Registrations \subseteq Writers /\ Sends \subseteq Writers
    BY DEF TypeInv, Writers
  <1>1. ASSUME NEW r \in Registrations, insertUser(r) PROVE TypeInv'
    <2>1. r \in Writers /\ pc[r] # "writing" /\ setValue(r)
      BY <1>0, <1>1 DEF insertUser
    <2> QED
      BY <1>0, <1>1, <2>1, PutIsLast, MeetsType DEF TypeInv, insertUser
  <1>2. ASSUME NEW s \in Sends, observeSingleEvent(s) PROVE TypeInv'
    BY <1>0, <1>2, KeepsQueues, KeptQueues, MeetsType DEF TypeInv, observeSingleEvent
  <1>3. ASSUME NEW s \in Sends, UserNotFound(s) PROVE TypeInv'
    BY <1>0, <1>3, KeepsQueues, KeptQueues DEF TypeInv, UserNotFound
  <1>4. ASSUME NEW s \in Sends, createNewConversation(s) PROVE TypeInv'
    <2>1. s \in Writers /\ pc[s] # "writing" /\ setValue(s)
      BY <1>0, <1>4 DEF createNewConversation
    <2> QED
      BY <1>0, <1>4, <2>1, PutIsLast DEF TypeInv, createNewConversation
  <1>5. ASSUME NEW d \in Devices, ReadAnswered(d) PROVE TypeInv'
    BY <1>0, <1>5, KeepsQueues, KeptQueues DEF TypeInv, ReadAnswered
  <1>6. ASSUME NEW d \in Devices, ServerDecides(d) PROVE TypeInv'
    BY <1>0, <1>6, NextIsDecided, ValueType DEF TypeInv, IsDecided
  <1>7. ASSUME NEW d \in Devices, PutAnswered(d) PROVE TypeInv'
    BY <1>0, <1>7, FirstIsAnswered DEF TypeInv, IsAnswered
  <1>8. ASSUME NEW d \in Devices, onDisconnect(d) PROVE TypeInv'
    <2>1. QueueInv'
      BY <1>0, <1>8, KeepsQueues, KeptQueues
    <2>2. link' \in [Devices -> {"connected", "disconnected"}] /\ faults' \in 0..MaxFaults
      BY <1>8, AccountsAssumption DEF TypeInv, onDisconnect
    <2> QED
      BY <1>8, <2>1, <2>2 DEF TypeInv, onDisconnect
  <1>9. ASSUME NEW d \in Devices, restoreState(d) PROVE TypeInv'
    BY <1>0, <1>9, KeepsQueues, KeptQueues DEF TypeInv, restoreState
  <1>10. CASE UNCHANGED vars
    BY <1>10 DEF vars, TypeInv, QueueInv
  <1> QED
    BY <1>1, <1>2, <1>3, <1>4, <1>5, <1>6, <1>7, <1>8, <1>9, <1>10 DEF Next

LEMMA TypeIsCorrect == TypeInv => TypeOK
  <1> SUFFICES ASSUME TypeInv, NEW d \in Devices
               PROVE  /\ puts[d] \in Seq(On(d))
                      /\ {puts[d][i] : i \in 1..Len(puts[d])} = {w \in On(d) : pc[w] = "writing"}
    BY DEF TypeInv, QueueInv, TypeOK
  <1>1. /\ puts[d] \in Seq(Writers)
        /\ \A w \in Writers : (\E i \in 1..Len(puts[d]) : puts[d][i] = w)
                                  <=> DeviceOf[w] = d /\ pc[w] = "writing"
    BY DEF TypeInv, QueueInv
  <1>2. \A i \in 1..Len(puts[d]) : puts[d][i] \in Writers
    BY <1>1
  <1>3. \A i \in 1..Len(puts[d]) : puts[d][i] \in On(d)
    BY <1>1, <1>2 DEF On
  <1> QED
    BY <1>1, <1>2, <1>3 DEF On
-----------------------------------------------------------------------------
\* The node is written by setValue of a writer that had not written yet.
IsPut(w) ==
    /\ w \in Writers /\ pc[w] \in {"idle", "read"}
    /\ w \in Sends => pc[w] = "read"
    /\ w \in Registrations => pc[w] = "idle" /\ Meets(w)
    /\ w \in Sends => UNCHANGED rivals
    /\ setValue(w)
    /\ UNCHANGED <<node, link, faults, confirmed>>

LEMMA PutsAre ==
    ASSUME \/ \E r \in Registrations : insertUser(r)
           \/ \E s \in Sends : createNewConversation(s)
    PROVE  \E w \in Writers : IsPut(w)
  <1>1. ASSUME NEW r \in Registrations, insertUser(r) PROVE IsPut(r)
    BY <1>1, AccountsAssumption DEF insertUser, IsPut, Writers
  <1>2. ASSUME NEW s \in Sends, createNewConversation(s) PROVE IsPut(s)
    BY <1>2, AccountsAssumption DEF createNewConversation, IsPut, Writers
  <1> QED
    BY <1>1, <1>2 DEF Writers

(* Every step is one of these.                                              *)
LEMMA Steps ==
    ASSUME TypeInv, [Next]_vars
    PROVE  \/ \E w \in Writers : IsPut(w) \/ IsDecided(w) \/ IsAnswered(w)
           \/ \E s \in Sends : observeSingleEvent(s) \/ UserNotFound(s)
           \/ \E d \in Devices : ReadAnswered(d) \/ onDisconnect(d) \/ restoreState(d)
           \/ UNCHANGED vars
  <1>1. QueueInv
    BY DEF TypeInv
  <1>2. ASSUME NEW d \in Devices, ServerDecides(d) \/ PutAnswered(d)
        PROVE  \E w \in Writers : IsDecided(w) \/ IsAnswered(w)
    BY <1>1, <1>2, NextIsDecided, FirstIsAnswered
  <1> QED
    BY <1>2, PutsAre DEF Next

LEMMA OrderStep == TypeInv /\ OrderInv /\ [Next]_vars => OrderInv'
  <1> SUFFICES ASSUME TypeInv, OrderInv, [Next]_vars, NEW u \in Writers, NEW v \in Writers,
                      Ahead(u, v)', wire'[v] # "pending"
               PROVE  wire'[u] # "pending"
    BY DEF OrderInv
  <1>0. QueueInv
    BY DEF TypeInv
  <1>1. ASSUME NEW w \in Writers, IsPut(w) PROVE wire'[u] # "pending"
    <2>1. wire' = [wire EXCEPT ![w] = "pending"] /\ v # w
      BY <1>0, <1>1 DEF IsPut, setValue, QueueInv
    <2>2. Ahead(u, v)
      BY <1>0, <1>1, <2>1, PutIsLast DEF IsPut
    <2>3. u # w
      BY <1>0, <1>1, <2>2, AheadWrites DEF IsPut
    <2> QED
      BY <1>0, <2>1, <2>2, <2>3 DEF OrderInv, QueueInv
  <1>2. ASSUME NEW w \in Writers, IsDecided(w) PROVE wire'[u] # "pending"
    <2>1. Ahead(u, v)
      BY <1>2 DEF IsDecided, Ahead
    <2> QED
      BY <1>0, <1>2, <2>1 DEF IsDecided, OrderInv, QueueInv
  <1>3. ASSUME NEW w \in Writers, IsAnswered(w) PROVE wire'[u] # "pending"
    <2>1. Ahead(u, v) /\ v # w /\ u # w
      BY <1>3 DEF IsAnswered
    <2> QED
      BY <1>0, <1>3, <2>1 DEF IsAnswered, OrderInv, QueueInv
  <1>4. ASSUME QueuesKept PROVE Ahead(u, v)
    BY <1>0, <1>4, KeptQueues
  <1>5. ASSUME NEW s \in Sends, observeSingleEvent(s) \/ UserNotFound(s)
        PROVE  wire'[u] # "pending"
    <2>1. wire' = wire
      BY <1>5 DEF observeSingleEvent, UserNotFound
    <2> QED
      BY <1>4, <1>5, <2>1, KeepsQueues DEF OrderInv
  <1>6. ASSUME NEW d \in Devices, ReadAnswered(d) \/ restoreState(d)
        PROVE  wire'[u] # "pending"
    <2>1. wire' = wire
      BY <1>6 DEF ReadAnswered, restoreState
    <2> QED
      BY <1>4, <1>6, <2>1, KeepsQueues DEF OrderInv
  <1>7. ASSUME NEW d \in Devices, onDisconnect(d) PROVE wire'[u] # "pending"
    <2>1. Ahead(u, v)
      BY <1>4, <1>7, KeepsQueues
    <2> PICK n \in 0..Len(puts[d]) :
            /\ \A i \in 1..n : wire[puts[d][i]] # "pending"
            /\ wire' = [w \in Writers |-> IF \E i \in (n + 1)..Len(puts[d]) : puts[d][i] = w
                                          THEN "pending" ELSE wire[w]]
      BY <1>7 DEF onDisconnect
    <2>2. Len(puts[d]) \in Nat
      BY <1>0 DEF QueueInv
    <2>3. CASE DeviceOf[v] = d
      <3> PICK i, j \in 1..Len(puts[d]) : i < j /\ puts[d][i] = u /\ puts[d][j] = v
        BY <2>1, <2>3 DEF Ahead
      <3>1. j <= n
        BY <2>2
      <3>2. wire[u] # "pending"
        BY <2>2, <3>1
      <3>3. ~\E k \in (n + 1)..Len(puts[d]) : puts[d][k] = u
        BY <1>0, <2>2, <3>1 DEF QueueInv
      <3> QED
        BY <3>2, <3>3
    <2>4. CASE DeviceOf[v] # d
      <3>1. \A w \in {u, v} : ~\E k \in (n + 1)..Len(puts[d]) : puts[d][k] = w
        BY <1>0, <2>1, <2>2, <2>4, AheadWrites DEF QueueInv
      <3> QED
        BY <2>1, <3>1 DEF OrderInv
    <2> QED
      BY <2>3, <2>4
  <1>8. CASE UNCHANGED vars
    BY <1>8 DEF vars, OrderInv, Ahead
  <1> QED
    BY <1>1, <1>2, <1>3, <1>5, <1>6, <1>7, <1>8, Steps

LEMMA NodeStep == TypeInv /\ NodeInv /\ [Next]_vars => NodeInv'
  <1> SUFFICES ASSUME TypeInv, NodeInv, [Next]_vars PROVE NodeInv'
    OBVIOUS
  <1>0. QueueInv /\ Sends \subseteq Writers /\ confirmed \subseteq Writers
    BY DEF TypeInv, Writers
  <1> USE DEF NodeInv, QueueInv
  <1>1. ASSUME NEW w \in Writers, IsPut(w) PROVE NodeInv'
    <2>1. /\ wire' = [wire EXCEPT ![w] = "pending"] /\ UNCHANGED <<node, confirmed>>
          /\ \A v \in Writers : pc'[v] = "done" <=> pc[v] = "done"
      BY <1>0, <1>1 DEF IsPut, setValue, Awaiting
    <2> QED
      BY <1>0, <2>1
  <1>2. ASSUME NEW w \in Writers, IsDecided(w) PROVE NodeInv'
    <2>1. node' # NullNode \/ (node' = node /\ wire' = [wire EXCEPT ![w] = "rejected"])
      BY <1>0, <1>2, ValueType DEF IsDecided
    <2> QED
      BY <1>0, <1>2, <2>1 DEF IsDecided
  <1>3. ASSUME NEW w \in Writers, IsAnswered(w) PROVE NodeInv'
    BY <1>0, <1>3 DEF IsAnswered
  <1>4. ASSUME NEW s \in Sends, observeSingleEvent(s) \/ UserNotFound(s) PROVE NodeInv'
    BY <1>0, <1>4 DEF observeSingleEvent, UserNotFound
  <1>5. ASSUME NEW d \in Devices, ReadAnswered(d) PROVE NodeInv'
    BY <1>0, <1>5 DEF ReadAnswered, Awaiting
  <1>6. ASSUME NEW d \in Devices, onDisconnect(d) PROVE NodeInv'
    BY <1>0, <1>6 DEF onDisconnect
  <1>7. ASSUME NEW d \in Devices, restoreState(d) PROVE NodeInv'
    BY <1>0, <1>7 DEF restoreState
  <1>8. CASE UNCHANGED vars
    BY <1>8 DEF vars
  <1> QED
    BY <1>1, <1>2, <1>3, <1>4, <1>5, <1>6, <1>7, <1>8, Steps
-----------------------------------------------------------------------------
(* What is never taken back.                                                *)
LEMMA Lasting ==
    ASSUME TypeInv, [Next]_vars, NEW w \in Writers
    PROVE  /\ pc[w] = "failed" => pc'[w] = "failed"
           /\ confirmed \subseteq confirmed'
           /\ pc[w] # "idle" => rivals[w] \subseteq rivals'[w]
  <1>0. QueueInv /\ Sends \subseteq Writers /\ rivals \in [Writers -> SUBSET Writers]
    BY DEF TypeInv, Writers
  <1> DEFINE Goal == /\ pc[w] = "failed" => pc'[w] = "failed"
                     /\ confirmed \subseteq confirmed'
                     /\ pc[w] # "idle" => rivals[w] \subseteq rivals'[w]
  <1> USE DEF QueueInv
  <1>1. ASSUME NEW x \in Writers, IsPut(x) PROVE Goal
    <2>1. /\ pc[w] = "failed" => pc'[w] = "failed"
          /\ confirmed' = confirmed
      BY <1>0, <1>1 DEF IsPut, setValue, Awaiting
    <2>2. x \in Sends \/ x \in Registrations
      BY DEF Writers
    <2>3. pc[w] # "idle" => rivals[w] \subseteq rivals'[w]
      BY <1>0, <1>1, <2>2 DEF IsPut, Meets
    <2> QED
      BY <2>1, <2>3
  <1>2. ASSUME NEW x \in Writers, IsDecided(x) PROVE Goal
    BY <1>2 DEF IsDecided
  <1>3. ASSUME NEW x \in Writers, IsAnswered(x) PROVE Goal
    BY <1>0, <1>3 DEF IsAnswered
  <1>4. ASSUME NEW s \in Sends, observeSingleEvent(s) PROVE Goal
    BY <1>0, <1>4 DEF observeSingleEvent, Meets
  <1>5. ASSUME NEW s \in Sends, UserNotFound(s) PROVE Goal
    BY <1>0, <1>5 DEF UserNotFound
  <1>6. ASSUME NEW d \in Devices, ReadAnswered(d) PROVE Goal
    BY <1>0, <1>6 DEF ReadAnswered, Awaiting
  <1>7. ASSUME NEW d \in Devices, onDisconnect(d) \/ restoreState(d) PROVE Goal
    BY <1>7 DEF onDisconnect, restoreState
  <1>8. CASE UNCHANGED vars
    BY <1>8 DEF vars
  <1> HIDE DEF Goal, QueueInv
  <1>9. CASE \E x \in Writers : IsPut(x) \/ IsDecided(x) \/ IsAnswered(x)
    BY <1>1, <1>2, <1>3, <1>9, Zenon DEF Goal
  <1>10. CASE \E s \in Sends : observeSingleEvent(s) \/ UserNotFound(s)
    BY <1>4, <1>5, <1>10, Zenon DEF Goal
  <1>11. CASE \E d \in Devices : ReadAnswered(d) \/ onDisconnect(d) \/ restoreState(d)
    BY <1>6, <1>7, <1>11, Zenon DEF Goal
  <1>12. CASE UNCHANGED vars
    BY <1>8, <1>12, Zenon DEF Goal
  <1> QED
    BY <1>9, <1>10, <1>11, <1>12, Steps, Zenon

(* A device with an outstanding put shows it.                               *)
LEMMA WritersShadow ==
    ASSUME QueueInv, NEW w \in Writers, pc[w] = "writing"
    PROVE  Shadowed(DeviceOf[w])
  <1>1. DeviceOf[w] \in Devices
    BY AccountsAssumption
  <1>a. \A d \in Devices, x \in Writers :
           (\E i \in 1..Len(puts[d]) : puts[d][i] = x)
             <=> DeviceOf[x] = d /\ pc[x] = "writing"
    BY Zenon DEF QueueInv
  <1>2. PICK i \in 1..Len(puts[DeviceOf[w]]) : puts[DeviceOf[w]][i] = w
    BY <1>1, <1>a, Zenon
  <1>3. puts[DeviceOf[w]] \in Seq(Writers)
    BY <1>1 DEF QueueInv
  <1> QED
    BY <1>2, <1>3 DEF Shadowed

LEMMA FoundStep == TypeInv /\ NodeInv /\ FoundInv /\ [Next]_vars => FoundInv'
  <1> SUFFICES ASSUME TypeInv, NodeInv, FoundInv, [Next]_vars, NEW s \in Sends,
                      pc'[s] = "reading" \/ (pc'[s] = "read" /\ base'[s] = NullNode)
               PROVE  \/ pc'[OwnerOf[s]] = "failed"
                      \/ OwnerOf[s] \in rivals'[s]
                      \/ pc'[s] = "reading" /\ OwnerOf[s] \in confirmed'
    BY DEF FoundInv
  <1> DEFINE r == OwnerOf[s]
             Goal == \/ pc'[r] = "failed" \/ r \in rivals'[s]
                     \/ pc'[s] = "reading" /\ r \in confirmed'
  <1>0. /\ QueueInv /\ s \in Writers /\ r \in Writers /\ r # s
        /\ DeviceOf \in [Writers -> Devices]
        /\ rivals \in [Writers -> SUBSET Writers]
    BY AccountsAssumption DEF TypeInv, Writers
  <1>1. ASSUME pc'[s] = pc[s], base'[s] = base[s] PROVE Goal
    <2>1. pc[r] = "failed" \/ r \in rivals[s] \/ (pc[s] = "reading" /\ r \in confirmed)
      BY <1>1 DEF FoundInv
    <2> QED
      BY <1>0, <1>1, <2>1, Lasting
  <1>2. ASSUME NEW w \in Writers, IsPut(w) PROVE Goal
    <2>1. s # w
      BY <1>0, <1>2 DEF IsPut, setValue, QueueInv
    <2>2. s \notin Awaiting(DeviceOf[w])
      BY <1>0, <1>2, <2>1, ValueType DEF IsPut, setValue, QueueInv, Awaiting
    <2>3. pc'[s] = pc[s] /\ base'[s] = base[s]
      BY <1>0, <1>2, <2>1, <2>2 DEF IsPut, setValue
    <2> QED
      BY <1>1, <2>3
  <1>3. ASSUME NEW w \in Writers, IsDecided(w) PROVE Goal
    BY <1>1, <1>3 DEF IsDecided
  <1>4. ASSUME NEW w \in Writers, IsAnswered(w) PROVE Goal
    <2>1. s # w
      BY <1>0, <1>4 DEF IsAnswered, QueueInv
    <2> QED
      BY <1>0, <1>1, <1>4, <2>1 DEF IsAnswered, QueueInv
  <1>5. ASSUME NEW x \in Sends, observeSingleEvent(x) PROVE Goal
    <2>1. CASE x # s
      <3>1. pc'[s] = pc[s] /\ base'[s] = base[s]
        BY <1>0, <1>5, <2>1 DEF observeSingleEvent, QueueInv
      <3> QED
        BY <1>1, <3>1
    <2>2. CASE x = s
      <3>1. ~Shadowed(DeviceOf[s])
        <4> SUFFICES ASSUME Shadowed(DeviceOf[s]) PROVE FALSE
          OBVIOUS
        <4>1. base'[s] = Value(LastPut(DeviceOf[s])) /\ pc'[s] = "read"
          BY <1>0, <1>5, <2>2 DEF observeSingleEvent, QueueInv
        <4> QED
          BY <1>0, <4>1, LastIsShown, ValueType
      <3>2. pc'[s] = "reading"
        BY <1>0, <1>5, <2>2, <3>1 DEF observeSingleEvent, QueueInv
      <3>3. pc[r] # "idle" /\ rivals'[s] = Rivals(s)
        BY <1>0, <1>5, <2>2 DEF observeSingleEvent, Meets
      <3>4. ~(DeviceOf[r] = DeviceOf[s] /\ pc[r] = "writing")
        BY <1>0, <3>1, WritersShadow
      <3>5. Active(r) => r \in rivals'[s]
        BY <1>0, <3>3, <3>4 DEF Rivals
      <3>6. pc[r] = "done" => r \in confirmed'
        BY <1>0, Lasting DEF NodeInv
      <3>7. pc[r] = "failed" => pc'[r] = "failed"
        BY <1>0, Lasting
      <3> QED
        BY <1>0, <3>2, <3>3, <3>5, <3>6, <3>7 DEF Active, QueueInv, Stages
    <2> QED
      BY <2>1, <2>2
  <1>6. ASSUME NEW x \in Sends, UserNotFound(x) PROVE Goal
    <2>1. x # s /\ x \in Writers
      BY <1>0, <1>6 DEF UserNotFound, QueueInv, Writers
    <2> QED
      BY <1>0, <1>1, <1>6, <2>1 DEF UserNotFound, QueueInv
  <1>7. ASSUME NEW d \in Devices, ReadAnswered(d) PROVE Goal
    <2>1. CASE s \notin Awaiting(d)
      BY <1>0, <1>1, <1>7, <2>1 DEF ReadAnswered
    <2>2. CASE s \in Awaiting(d)
      <3>1. pc[s] = "reading" /\ base'[s] = node /\ pc'[s] = "read"
        BY <1>0, <1>7, <2>2 DEF ReadAnswered, Awaiting
      <3>2. node = NullNode
        BY <3>1
      <3>3. r \notin confirmed
        BY <1>0, <3>2 DEF NodeInv
      <3>4. pc[r] = "failed" \/ r \in rivals[s]
        BY <3>1, <3>3 DEF FoundInv
      <3> QED
        BY <1>0, <3>1, <3>4, Lasting
    <2> QED
      BY <2>1, <2>2
  <1>8. ASSUME NEW d \in Devices, onDisconnect(d) \/ restoreState(d) PROVE Goal
    BY <1>1, <1>8 DEF onDisconnect, restoreState
  <1>9. CASE UNCHANGED vars
    BY <1>1, <1>9 DEF vars
  <1> QED
    BY <1>2, <1>3, <1>4, <1>5, <1>6, <1>7, <1>8, <1>9, Steps
-----------------------------------------------------------------------------
(* A write contains what its writer brings, and what it was read with.      *)
LEMMA WritesOwn ==
    ASSUME QueueInv, NEW w \in Writers PROVE Carries(w, Value(w))
  <1>1. w \in Registrations \/ (w \notin Registrations /\ w \in Sends /\ base[w] \in Nodes)
    BY DEF Writers, QueueInv
  <1> QED
    BY <1>1 DEF Carries, Value, Nodes

LEMMA WritesHeld ==
    ASSUME QueueInv, NEW w \in Writers, NEW v \in Sends, Carries(w, base[v])
    PROVE  Carries(w, Value(v))
  <1>1. v \notin Registrations /\ base[v] \in Nodes
    BY AccountsAssumption DEF QueueInv
  <1> QED
    BY <1>1 DEF Carries, Value, Nodes

LEMMA LoneStep == TypeInv /\ OrderInv /\ LoneInv /\ [Next]_vars => LoneInv'
  <1> SUFFICES ASSUME TypeInv, OrderInv, LoneInv, [Next]_vars, NEW w \in Writers,
                      rivals'[w] = {}
               PROVE  LoneOf(w)'
    BY DEF LoneInv, LoneOf
  <1>0. /\ QueueInv /\ QueueInv'
        /\ Sends \subseteq Writers /\ rivals \in [Writers -> SUBSET Writers]
        /\ DeviceOf \in [Writers -> Devices]
    BY TypeStep, AccountsAssumption DEF TypeInv, Writers
  <1>1. pc'[w] \in {"idle", "failed"} => LoneOf(w)'
    BY <1>0 DEF QueueInv, LoneOf
  <1>2. pc[w] # "idle" => rivals[w] = {} /\ LoneOf(w)
    BY Lasting DEF LoneInv
  <1>3. ASSUME NEW x \in Writers, IsPut(x) PROVE LoneOf(w)'
    <2>1. /\ QueueInv' /\ pc[x] # "writing"
          /\ \A u, v \in Writers :
               Ahead(u, v)' <=> \/ Ahead(u, v)
                                \/ v = x /\ pc[u] = "writing" /\ DeviceOf[u] = DeviceOf[x]
      BY <1>0, <1>3, PutIsLast DEF IsPut
    <2>2. /\ wire' = [wire EXCEPT ![x] = "pending"] /\ node' = node
          /\ pc'[x] = "writing"
          /\ \A v \in Writers \ {x} :
               pc'[v] = IF v \in Awaiting(DeviceOf[x]) THEN "read" ELSE pc[v]
          /\ \A v \in Sends : base'[v] = IF v \in Awaiting(DeviceOf[x]) THEN Value(x)
                                         ELSE base[v]
      BY <1>0, <1>3 DEF IsPut, setValue, QueueInv
    <2>3. \A v \in Writers : v \in Awaiting(DeviceOf[x]) <=>
                               pc[v] = "reading" /\ DeviceOf[v] = DeviceOf[x]
      BY DEF Awaiting, On
    <2>4. CASE x = w
      <3>1. \A v \in Writers \ {w} : Active(v) => DeviceOf[v] = DeviceOf[w] /\ pc[v] = "writing"
        <4>1. CASE w \in Registrations
          BY <1>0, <1>3, <2>4, <4>1 DEF IsPut, Meets, Rivals
        <4>2. CASE w \in Sends
          BY <1>2, <1>3, <2>4, <4>2 DEF IsPut, LoneOf
        <4> QED
          BY <4>1, <4>2 DEF Writers
      <3>2. \A v \in Writers \ {w} :
              Active(v)' => DeviceOf[v] = DeviceOf[w] /\ Ahead(v, w)'
        BY <2>1, <2>2, <2>3, <2>4, <3>1 DEF Active
      <3> QED
        BY <1>0, <2>2, <2>4, <3>2 DEF LoneOf, QueueInv
    <2>5. CASE x # w /\ x \in Registrations
      <3>1. w \notin Disturbed(x)
        BY <1>0, <1>3, <2>5 DEF IsPut, Meets
      <3>2. pc[w] \in {"idle", "failed"}
        BY <1>0, <2>5, <3>1, AccountsAssumption DEF Disturbed, QueueInv, Stages
      <3> QED
        BY <1>1, <2>2, <2>3, <2>5, <3>2
    <2>6. CASE x # w /\ x \in Sends
      <3>0. pc[x] = "read" /\ Active(x) /\ base'[x] = base[x]
        BY <1>3, <2>2, <2>3, <2>6, <1>0 DEF IsPut, Active
      <3>1. CASE pc[w] \in {"idle", "failed"}
        BY <1>1, <2>2, <2>3, <2>6, <3>1
      <3>2. CASE pc[w] \in {"reading", "read"}
        BY <1>2, <2>6, <3>0, <3>2 DEF LoneOf
      <3>3. CASE pc[w] = "writing"
        <4>1. \A v \in Writers \ {w} :
                Active(v) => DeviceOf[v] = DeviceOf[w] /\ (Ahead(v, w) \/ Holds(v, w))
          BY <1>2, <3>3 DEF LoneOf
        <4>2. \A v \in Writers : Ahead(v, w) => pc[v] = "writing"
          BY <1>0, AheadWrites
        <4>3. \A v \in Writers : pc[v] = "reading" => v \notin Awaiting(DeviceOf[x])
          BY <3>3, <4>1, <4>2 DEF Active, Holds
        <4>4. ASSUME NEW v \in Writers \ {w}, Active(v)'
              PROVE  DeviceOf[v] = DeviceOf[w] /\ (Ahead(v, w)' \/ Holds(v, w)')
          <5>1. CASE v = x
            BY <2>1, <2>2, <2>6, <3>0, <4>1, <4>2, <5>1 DEF Holds
          <5>2. CASE v # x
            <6>1. /\ pc'[v] = pc[v] /\ Active(v)
                  /\ v \in Sends => base'[v] = base[v]
              BY <2>2, <2>3, <4>3, <4>4, <5>2 DEF Active
            <6> QED
              BY <2>1, <4>1, <6>1 DEF Holds
          <5> QED
            BY <5>1, <5>2
        <4>5. pc'[w] = "writing" /\ wire'[w] = wire[w]
          BY <1>0, <2>2, <2>3, <2>6, <3>3 DEF QueueInv
        <4>6. wire[w] = "applied" => Carries(w, node)'
          BY <1>2, <2>2, <3>3 DEF LoneOf, Carries
        <4> QED
          BY <4>4, <4>5, <4>6 DEF LoneOf
      <3>4. CASE pc[w] = "done"
        <4>1. /\ Carries(w, node)
              /\ \A v \in Writers :
                   Active(v) => v \in Sends /\ (pc[v] = "reading" \/ Carries(w, base[v]))
          BY <1>2, <3>4 DEF LoneOf
        <4>2. Carries(w, Value(x))
          BY <1>0, <2>6, <3>0, <4>1, WritesHeld
        <4>3. ASSUME NEW v \in Writers, Active(v)'
              PROVE  v \in Sends /\ (pc'[v] = "reading" \/ Carries(w, base[v])')
          <5>1. Active(v)
            BY <2>2, <2>3, <3>0, <4>3 DEF Active
          <5>2. v \in Sends /\ base'[v] \in {base[v], Value(x)}
                /\ (pc[v] = "reading" => pc'[v] = "reading" \/ base'[v] = Value(x))
            BY <2>2, <2>3, <3>0, <4>1, <5>1
          <5> QED
            BY <4>1, <4>2, <5>1, <5>2 DEF Carries
        <4>4. pc'[w] = "done" /\ wire'[w] # "applied" /\ Carries(w, node)'
          BY <1>0, <2>2, <2>3, <2>6, <3>4, <4>1 DEF QueueInv, Carries
        <4> QED
          BY <4>3, <4>4 DEF LoneOf
      <3> QED
        BY <1>0, <3>1, <3>2, <3>3, <3>4 DEF QueueInv, Stages
    <2> QED
      BY <2>4, <2>5, <2>6 DEF Writers
  <1>4. ASSUME NEW x \in Writers, IsDecided(x) PROVE LoneOf(w)'
    <2>1. /\ pc' = pc /\ base' = base /\ puts' = puts /\ rivals' = rivals
          /\ \A u, v \in Writers : Ahead(u, v)' <=> Ahead(u, v)
          /\ \A v \in Writers : (Active(v)' <=> Active(v)) /\ (Holds(v, w)' <=> Holds(v, w))
      BY <1>4 DEF IsDecided, Ahead, Active, Holds, Carries
    <2>2. LoneOf(w) /\ rivals[w] = {}
      BY <2>1 DEF LoneInv
    <2>3. Active(x) /\ pc[x] = "writing" /\ wire[x] = "pending"
      BY <1>0, <1>4 DEF IsDecided, QueueInv, Active
    <2>4. ~(Ahead(x, w) /\ wire[w] = "applied")
      BY <2>3 DEF OrderInv
    <2>5. CASE x = w
      <3>1. Carries(w, node)' \/ wire'[w] = "rejected"
        BY <1>0, <1>4, <2>5, WritesOwn DEF IsDecided, QueueInv, Carries
      <3> QED
        BY <2>1, <2>2, <2>3, <2>5, <3>1 DEF LoneOf
    <2>6. CASE x # w
      <3>1. wire'[w] = wire[w] /\ (node' = node \/ node' = Value(x))
        BY <1>0, <1>4, <2>6 DEF IsDecided, QueueInv
      <3>2. wire[w] = "applied" \/ pc[w] = "done" => Carries(w, node)'
        <4>1. SUFFICES ASSUME wire[w] = "applied" \/ pc[w] = "done"
                       PROVE  Carries(w, node) /\ Carries(w, Value(x))
          BY <3>1 DEF Carries
        <4>2. x \in Sends /\ Carries(w, base[x])
          BY <1>0, <2>2, <2>3, <2>4, <2>6, <4>1 DEF LoneOf, Holds, QueueInv
        <4> QED
          BY <1>0, <2>2, <4>1, <4>2, WritesHeld DEF LoneOf
      <3> QED
        BY <2>1, <2>2, <3>1, <3>2 DEF LoneOf
    <2> QED
      BY <2>5, <2>6
  <1>5. ASSUME NEW x \in Writers, IsAnswered(x) PROVE LoneOf(w)'
    <2>1. /\ node' = node /\ base' = base /\ rivals' = rivals
          /\ wire' = [wire EXCEPT ![x] = "none"]
          /\ pc' = [pc EXCEPT ![x] = IF wire[x] = "applied" THEN "done" ELSE "failed"]
          /\ \A v \in Writers : Active(v)' <=> Active(v) /\ v # x
          /\ \A v \in Writers \ {x} : /\ pc'[v] = pc[v] /\ wire'[v] = wire[v]
                                      /\ Ahead(v, w) => Ahead(v, w)'
                                      /\ Holds(v, w) => Holds(v, w)'
      BY <1>0, <1>5 DEF IsAnswered, Active, Holds, Carries, QueueInv
    <2>2. LoneOf(w) /\ rivals[w] = {}
      BY <2>1 DEF LoneInv
    <2>3. CASE x # w
      BY <2>1, <2>2, <2>3 DEF LoneOf, Carries
    <2>4. CASE x = w /\ wire[w] = "applied"
      <3>1. pc'[w] = "done" /\ pc[w] = "writing" /\ wire'[w] = "none"
            /\ \A v \in Writers : ~Ahead(v, w)
        BY <1>0, <1>5, <2>1, <2>4 DEF IsAnswered, QueueInv
      <3>2. \A v \in Writers : Active(v)' => v \in Sends /\ Carries(w, base[v])
        BY <2>1, <2>2, <2>4, <3>1 DEF LoneOf, Holds
      <3> QED
        BY <2>1, <2>2, <2>4, <3>1, <3>2 DEF LoneOf, Carries
    <2>5. CASE x = w /\ wire[w] # "applied"
      BY <1>0, <1>1, <2>1, <2>5 DEF QueueInv
    <2> QED
      BY <2>3, <2>4, <2>5
  <1>6. ASSUME NEW x \in Sends, observeSingleEvent(x) PROVE LoneOf(w)'
    <2> DEFINE L == LastPut(DeviceOf[x])
               shown == Shadowed(DeviceOf[x])
    <2>1. /\ x \in Writers /\ pc[x] = "idle" /\ node' = node /\ wire' = wire
          /\ pc' = [pc EXCEPT ![x] = IF shown THEN "read" ELSE "reading"]
          /\ base' = IF shown THEN [base EXCEPT ![x] = Value(L)] ELSE base
          /\ Meets(x)
          /\ \A v \in Writers : Ahead(v, w)' <=> Ahead(v, w)
      BY <1>0, <1>6 DEF observeSingleEvent, Ahead
    <2>2. /\ \A v \in Writers \ {x} : pc'[v] = pc[v] /\ (Active(v)' <=> Active(v))
          /\ \A v \in Sends \ {x} : base'[v] = base[v]
          /\ pc'[x] = IF shown THEN "read" ELSE "reading"
          /\ shown => base'[x] = Value(L)
      BY <1>0, <2>1 DEF QueueInv, Active
    <2>3. shown => /\ L \in Writers /\ DeviceOf[L] = DeviceOf[x] /\ pc[L] = "writing"
                   /\ \A v \in Writers : ~Ahead(L, v)
      BY <1>0, <2>1, LastIsShown
    <2>4. CASE x = w
      <3>1. Rivals(w) = {}
        BY <1>0, <2>1, <2>4 DEF Meets
      <3>2. \A v \in Writers \ {w} : Active(v) => DeviceOf[v] = DeviceOf[w] /\ pc[v] = "writing"
        BY <3>1 DEF Rivals
      <3>3. wire'[w] = "none"
        BY <1>0, <2>1, <2>4 DEF QueueInv
      <3> QED
        BY <2>2, <2>4, <3>2, <3>3 DEF LoneOf
    <2>5. CASE x # w
      <3>1. w \notin Rivals(x)
        BY <1>0, <2>1, <2>5 DEF Meets, Disturbed
      <3>2. Active(w) => DeviceOf[w] = DeviceOf[x] /\ pc[w] = "writing"
        BY <2>5, <3>1 DEF Rivals
      <3>3. CASE pc[w] \in {"idle", "failed"}
        BY <1>1, <2>2, <2>5, <3>3
      <3>4. CASE pc[w] = "writing"
        <4>1. shown /\ DeviceOf[w] = DeviceOf[x]
          BY <1>0, <3>2, <3>4, WritersShadow DEF Active
        <4>2. Carries(w, Value(L))
          <5>1. CASE L = w
            BY <1>0, <5>1, WritesOwn
          <5>2. CASE L # w
            <6>1. Holds(L, w)
              BY <1>2, <2>3, <3>4, <4>1, <5>2 DEF LoneOf, Active
            <6> QED
              BY <1>0, <6>1, WritesHeld DEF Holds
          <5> QED
            BY <5>1, <5>2
        <4>3. Holds(x, w)'
          BY <2>2, <4>1, <4>2 DEF Holds, Carries
        <4>4. \A v \in Writers \ {x} : Holds(v, w) => Holds(v, w)'
          BY <2>2 DEF Holds, Carries
        <4>5. LoneOf(w) /\ rivals[w] = {}
          BY <1>2, <3>4
        <4>6. pc'[w] = "writing" /\ wire'[w] = wire[w] /\ (Carries(w, node) => Carries(w, node)')
          BY <2>1, <2>2, <2>5, <3>4 DEF Carries
        <4> QED
          BY <2>1, <2>2, <3>4, <4>1, <4>3, <4>4, <4>5, <4>6 DEF LoneOf
      <3>5. CASE pc[w] = "done"
        <4>1. /\ Carries(w, node)
              /\ \A v \in Writers :
                   Active(v) => v \in Sends /\ (pc[v] = "reading" \/ Carries(w, base[v]))
          BY <1>2, <3>5 DEF LoneOf
        <4>2. shown => Carries(w, Value(L))
          BY <1>0, <2>3, <4>1, WritesHeld DEF Active
        <4>3. \A v \in Writers :
                Active(v)' => v \in Sends /\ (pc'[v] = "reading" \/ Carries(w, base[v])')
          BY <2>1, <2>2, <4>1, <4>2 DEF Carries
        <4>4. pc'[w] = "done" /\ wire'[w] # "applied" /\ Carries(w, node)'
          BY <1>0, <2>1, <2>2, <2>5, <3>5, <4>1 DEF QueueInv, Carries
        <4> QED
          BY <4>3, <4>4 DEF LoneOf
      <3> QED
        BY <1>0, <3>2, <3>3, <3>4, <3>5 DEF Active, QueueInv, Stages
    <2> QED
      BY <2>4, <2>5
  <1>7. ASSUME NEW x \in Sends, UserNotFound(x) PROVE LoneOf(w)'
    <2>1. /\ x \in Writers /\ node' = node /\ base' = base /\ wire' = wire /\ rivals' = rivals
          /\ pc[x] = "read" /\ pc' = [pc EXCEPT ![x] = "failed"]
          /\ \A v \in Writers : Ahead(v, w)' <=> Ahead(v, w)
      BY <1>0, <1>7 DEF UserNotFound, Ahead
    <2>2. /\ \A v \in Writers : Active(v)' <=> Active(v) /\ v # x
          /\ \A v \in Writers \ {x} : pc'[v] = pc[v] /\ (Holds(v, w)' <=> Holds(v, w))
          /\ pc'[x] = "failed"
      BY <1>0, <2>1 DEF QueueInv, Active, Holds, Carries
    <2>3. CASE x = w
      BY <1>1, <2>2, <2>3
    <2>4. CASE x # w
      <3>1. LoneOf(w) /\ rivals[w] = {}
        BY <2>1 DEF LoneInv
      <3> QED
        BY <2>1, <2>2, <2>4, <3>1 DEF LoneOf, Carries
    <2> QED
      BY <2>3, <2>4
  <1>8. ASSUME NEW d \in Devices, ReadAnswered(d) PROVE LoneOf(w)'
    <2>1. /\ node' = node /\ wire' = wire /\ rivals' = rivals
          /\ pc' = [v \in Writers |-> IF v \in Awaiting(d) THEN "read" ELSE pc[v]]
          /\ base' = [s \in Sends |-> IF s \in Awaiting(d) THEN node ELSE base[s]]
          /\ \A v \in Writers : Ahead(v, w)' <=> Ahead(v, w)
      BY <1>0, <1>8 DEF ReadAnswered, Ahead
    <2>2. LoneOf(w) /\ rivals[w] = {}
      BY <2>1 DEF LoneInv
    <2>3. \A v \in Writers : /\ v \in Awaiting(d) => pc[v] = "reading"
                             /\ Active(v)' <=> Active(v)
                             /\ pc'[v] = "writing" <=> pc[v] = "writing"
      BY <2>1 DEF Awaiting, Active
    <2>4. CASE pc[w] \in {"reading", "read"}
      <3>1. /\ pc'[w] \in {"reading", "read"} /\ wire'[w] = "none"
            /\ \A v \in Writers \ {w} : Active(v) => DeviceOf[v] = DeviceOf[w] /\ pc[v] = "writing"
        BY <1>0, <2>1, <2>2, <2>4 DEF LoneOf, QueueInv
      <3> QED
        BY <2>3, <3>1 DEF LoneOf
    <2>5. CASE pc[w] = "writing"
      <3>1. \A v \in Writers \ {w} :
              Active(v) => DeviceOf[v] = DeviceOf[w] /\ (Ahead(v, w) \/ Holds(v, w))
        BY <2>2, <2>5 DEF LoneOf
      <3>2. \A v \in Writers : Holds(v, w) => Holds(v, w)'
        BY <2>1, <2>3 DEF Holds, Carries
      <3>3. pc'[w] = "writing" /\ wire'[w] = wire[w] /\ (wire[w] = "applied" => Carries(w, node)')
        BY <2>1, <2>2, <2>3, <2>5 DEF LoneOf, Carries
      <3> QED
        BY <2>1, <2>3, <3>1, <3>2, <3>3 DEF LoneOf
    <2>6. CASE pc[w] = "done"
      <3>1. /\ Carries(w, node)
            /\ \A v \in Writers :
                 Active(v) => v \in Sends /\ (pc[v] = "reading" \/ Carries(w, base[v]))
        BY <2>2, <2>6 DEF LoneOf
      <3>2. \A v \in Writers :
              Active(v)' => v \in Sends /\ (pc'[v] = "reading" \/ Carries(w, base[v])')
        BY <2>1, <2>3, <3>1 DEF Carries
      <3>3. pc'[w] = "done" /\ wire'[w] # "applied" /\ Carries(w, node)'
        BY <1>0, <2>1, <2>3, <2>6, <3>1 DEF QueueInv, Carries
      <3> QED
        BY <3>2, <3>3 DEF LoneOf
    <2>7. CASE pc[w] \in {"idle", "failed"}
      BY <1>1, <2>1, <2>3, <2>7
    <2> QED
      BY <1>0, <2>4, <2>5, <2>6, <2>7 DEF QueueInv, Stages
  <1>9. ASSUME NEW d \in Devices, onDisconnect(d) \/ restoreState(d) PROVE LoneOf(w)'
    <2>1. /\ node' = node /\ pc' = pc /\ base' = base /\ rivals' = rivals
          /\ wire'[w] = "applied" => wire[w] = "applied"
          /\ \A v \in Writers : /\ Ahead(v, w)' <=> Ahead(v, w)
                                /\ Active(v)' <=> Active(v)
                                /\ Holds(v, w)' <=> Holds(v, w)
      BY <1>0, <1>9 DEF onDisconnect, restoreState, Ahead, Active, Holds, Carries
    <2>2. LoneOf(w) /\ rivals[w] = {}
      BY <2>1 DEF LoneInv
    <2> QED
      BY <2>1, <2>2 DEF LoneOf, Carries
  <1>10. CASE UNCHANGED vars
    <2>1. LoneOf(w)
      BY <1>10 DEF vars, LoneInv
    <2> QED
      BY <1>10, <2>1 DEF vars, LoneOf, Ahead, Active, Holds, Carries
  <1> QED
    BY <1>3, <1>4, <1>5, <1>6, <1>7, <1>8, <1>9, <1>10, Steps

-----------------------------------------------------------------------------
\* The inductive invariant.
IInv == TypeInv /\ OrderInv /\ NodeInv /\ FoundInv /\ LoneInv

(* It holds in every state the node and its writers can reach.              *)
THEOREM Invariance == Spec => []IInv
  <1>1. Init => IInv
    <2>1. Init => OrderInv
      <3>1. ASSUME Init, NEW u \in Writers, NEW v \in Writers PROVE ~Ahead(u, v)
        <4>1. puts[DeviceOf[v]] = <<>>
          BY <3>1, AccountsAssumption DEF Init
        <4> QED
          BY <4>1 DEF Ahead
      <3> QED
        BY <3>1 DEF OrderInv
    <2>2. Init => NodeInv /\ FoundInv
      BY DEF Init, NodeInv, FoundInv, Writers
    <2>3. Init => LoneInv
      BY DEF Init, LoneInv, LoneOf
    <2> QED
      BY <2>1, <2>2, <2>3, TypeInit DEF IInv
  <1>2. IInv /\ [Next]_vars => IInv'
    BY TypeStep, OrderStep, NodeStep, FoundStep, LoneStep DEF IInv
  <1> QED
    BY <1>1, <1>2, PTL DEF Spec

(* The types, and that the queue of a device holds its writers (insertUser  *)
(* and createNewConversation put each value once).                          *)
THEOREM TypeCorrect == Spec => []TypeOK
  <1>1. IInv => TypeOK
    BY TypeIsCorrect DEF IInv
  <1> QED
    BY <1>1, Invariance, PTL

(* createNewConversation and insertUser on one node: a conversation that    *)
(* was acknowledged stays, unless somebody overlapped it or registered.     *)
THEOREM LoneConversationsAreKept == Spec => []LoneConversationIsKept
  <1>1. IInv => LoneConversationIsKept
    <2> SUFFICES ASSUME IInv, NEW s \in confirmed \cap Sends, rivals[s] = {}
                 PROVE  s \in node.conversations
      BY DEF LoneConversationIsKept
    <2>1. s \in Writers /\ s \notin Registrations /\ pc[s] = "done"
      BY AccountsAssumption DEF IInv, NodeInv, Writers
    <2> QED
      BY <2>1 DEF IInv, LoneInv, LoneOf, Carries
  <1> QED
    BY <1>1, Invariance, PTL

(* The names insertUser wrote and had acknowledged stay, unless somebody    *)
(* overlapped it or registered the node again.                              *)
THEOREM LoneRegistrationsAreKept == Spec => []LoneNamesAreKept
  <1>1. IInv => LoneNamesAreKept
    <2> SUFFICES ASSUME IInv, NEW r \in confirmed \cap Registrations, rivals[r] = {}
                 PROVE  node.names = r
      BY DEF LoneNamesAreKept
    <2>1. r \in Writers /\ pc[r] = "done"
      BY DEF IInv, NodeInv, Writers
    <2> QED
      BY <2>1 DEF IInv, LoneInv, LoneOf, Carries
  <1> QED
    BY <1>1, Invariance, PTL

(* "user not found" in createNewConversation is told only to a send that    *)
(* overlapped the registration of its account, or if that failed.           *)
THEOREM RegisteredUsersAreFound == Spec => []RegisteredUserIsFound
  <1>1. IInv => RegisteredUserIsFound
    <2> SUFFICES ASSUME IInv, NEW s \in Sends, pc[s] = "read", base[s] = NullNode,
                        OwnerOf[s] \in confirmed
                 PROVE  OwnerOf[s] \in rivals[s]
      BY DEF RegisteredUserIsFound
    <2>1. OwnerOf[s] \in Writers /\ pc[OwnerOf[s]] = "done"
      BY AccountsAssumption DEF IInv, NodeInv, Writers
    <2> QED
      BY <2>1 DEF IInv, FoundInv
  <1> QED
    BY <1>1, Invariance, PTL
=============================================================================
