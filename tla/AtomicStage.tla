----------------------------- MODULE AtomicStage -----------------------------
(***************************************************************************)
(* What staging promises to the loads that follow: the data of each item   *)
(* (the staging table of a task and run) is taken from the source once,    *)
(* published at most once, as it was taken, and never changes after that.  *)
(***************************************************************************)
CONSTANTS Item, Value, None

VARIABLES taken, published

Init ==
    /\ taken = [i \in Item |-> None]
    /\ published = [i \in Item |-> None]

Take(i) ==
    /\ taken[i] = None
    /\ \E v \in Value : taken' = [taken EXCEPT ![i] = v]
    /\ UNCHANGED published

Publish(i) ==
    /\ taken[i] # None /\ published[i] = None
    /\ published' = [published EXCEPT ![i] = taken[i]]
    /\ UNCHANGED taken

Next == \E i \in Item : Take(i) \/ Publish(i)

Spec == Init /\ [][Next]_<<taken, published>>
=============================================================================
