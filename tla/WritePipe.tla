------------------------------- MODULE WritePipe ------------------------------
(***************************************************************************)
(* What the database client promises to its caller about writes: the       *)
(* server decides them in the order they were issued, a write that lost    *)
(* its answer may be decided again but never after a later one is settled, *)
(* and each is completed once, in order, with what the server settled on.  *)
(***************************************************************************)
EXTENDS Naturals, Sequences

CONSTANT MaxPuts   \* bound: writes issued

VARIABLES
    issued,    \* how many writes were issued; they are numbered from 1
    verdict,   \* what the server last decided about each
    settled,   \* how many have their final verdict
    applied,   \* the writes in the order the server stored them
    results    \* the statuses the completions were called with

pipe == <<issued, verdict, settled, applied, results>>

Verdicts == {"none", "ok", "error"}

Init ==
    /\ issued = 0
    /\ verdict = [p \in 1..MaxPuts |-> "none"]
    /\ settled = 0
    /\ applied = <<>>
    /\ results = <<>>

Issue ==
    /\ issued < MaxPuts
    /\ issued' = issued + 1
    /\ UNCHANGED <<verdict, settled, applied, results>>

(* The server stores a write or refuses it, possibly again.                *)
Decide(p) ==
    /\ p \in settled + 1 .. issued
    /\ \A q \in 1 .. p - 1 : verdict[q] # "none"
    /\ \/ /\ verdict' = [verdict EXCEPT ![p] = "ok"]
          /\ applied' = Append(applied, p)
       \/ /\ verdict' = [verdict EXCEPT ![p] = "error"]
          /\ UNCHANGED applied
    /\ UNCHANGED <<issued, settled, results>>

(* The oldest open write is settled and, now or later, completed: here the *)
(* completions up to number done are run.                                  *)
Settle(last, done) ==
    /\ last \in {settled, settled + 1}
    /\ last > settled => last <= issued /\ verdict[last] # "none"
    /\ done \in Len(results) .. last
    /\ settled' = last
    /\ results' = [p \in 1..done |->
                     IF p <= Len(results) THEN results[p] ELSE verdict[p]]
    /\ UNCHANGED <<issued, verdict, applied>>

Next ==
    \/ Issue
    \/ \E p \in 1..MaxPuts : Decide(p)
    \/ \E last, done \in 0..MaxPuts : Settle(last, done)

Spec == Init /\ [][Next]_pipe
=============================================================================
