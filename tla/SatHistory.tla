----------------------------- MODULE SatHistory -----------------------------
(***************************************************************************)
(* What a satellite promises: it remembers every version it was given and  *)
(* takes them in chronological order, at most one per key and load.        *)
(***************************************************************************)
EXTENDS Naturals

CONSTANTS Key, Val, Load

VARIABLE versions

Version == [key : Key, val : Val, dtm : Load]

Init == versions = {}

Append(d) ==
    /\ \A v \in versions : v.dtm < d
    /\ \E changed \in SUBSET Key : \E value \in [changed -> Val] :
          versions' = versions \cup
              {[key |-> k, val |-> value[k], dtm |-> d] : k \in changed}

Spec == Init /\ [][\E d \in Load : Append(d)]_versions
=============================================================================
