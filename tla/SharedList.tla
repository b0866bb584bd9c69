------------------------------ MODULE SharedList ------------------------------
(***************************************************************************)
(* A list that everybody extends by reading all of it and writing all of   *)
(* it back.  What DatabaseManager promises about the "users" collection    *)
(* and about the conversations of a user, whatever the network does: a     *)
(* write is a former value of the list, or of a write under way on the     *)
(* same device, with one entry added; it may be made again while its       *)
(* writer waits for the answer, and never afterwards.  The write of a      *)
(* writer that is gone may arrive once more, and ends it.                  *)
(***************************************************************************)
CONSTANT Writers

VARIABLES
    list,   \* the entries, named after their writers
    copy,   \* the list as each writer holds it
    stage   \* "out", "holding" a copy that it may write back, or "ended"

sharedList == <<list, copy, stage>>

Holding == {w \in Writers : stage[w] = "holding"}

Init ==
    /\ list = {}
    /\ copy = [w \in Writers |-> {}]
    /\ stage = [w \in Writers |-> "out"]

(* What can be read: the list, or what a writer is about to make of it.    *)
Readable == {list} \cup {copy[v] \cup {v} : v \in Holding}

Take(some, value) ==
    /\ \A w \in some : stage[w] = "out"
    /\ value \in Readable
    /\ copy' = [w \in Writers |-> IF w \in some THEN value ELSE copy[w]]
    /\ stage' = [w \in Writers |-> IF w \in some THEN "holding" ELSE stage[w]]
    /\ UNCHANGED list

(* Write, and go on waiting for the answer, or be gone with this write.    *)
Write(w) ==
    /\ w \in Holding
    /\ list' = copy[w] \cup {w}
    /\ stage' \in {stage, [stage EXCEPT ![w] = "ended"]}
    /\ UNCHANGED copy

(* Some writers have their answer, or give up, or their app has died.      *)
Leave(some) ==
    /\ stage' = [w \in Writers |-> IF w \in some THEN "ended" ELSE stage[w]]
    /\ UNCHANGED <<list, copy>>

Next ==
    \/ \E some \in SUBSET Writers :
         \/ \E value \in Readable : Take(some, value)
         \/ Leave(some)
    \/ \E w \in Writers : Write(w)

Spec == Init /\ [][Next]_sharedList
=============================================================================
