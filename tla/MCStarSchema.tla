---------------------------- MODULE MCStarSchema ----------------------------
(***************************************************************************)
(* Small instances of StarSchema: one row of an entity or none, of rates   *)
(* two of one pair of currencies, one of them of the day of the order.     *)
(***************************************************************************)
EXTENDS StarSchema

OneCountry == [a \in Address |-> CHOOSE c \in Country : TRUE]
OnePair == [c \in Rate |-> CHOOSE p \in Pair : TRUE]

FirstRate == CHOOSE c \in Rate : TRUE
FirstDay == [o \in Order |-> "first"]
Days == [c \in Rate |-> IF c = FirstRate THEN "first" ELSE "second"]

\* Task t of run r can do nothing but fail: CREATE TABLE is refused.
Refused(r, t) ==
    /\ <<r, t>> \in dropped
    /\ star[t] # NoTable \/ \E d \in Inputs(t) : star[d] = NoTable

\* No other task of a star run fails.
Smooth ==
    \A r \in Run, t \in Task :
        ti[r][t] = "running" /\ ti'[r][t] = "failed" => Refused(r, t)

\* Star runs find a loaded vault at rest, and as long as it rests.
AtRest == \A r \in Run : run[r] # "none" => r \in calm

\* A vault at rest was never reached, for the last load failed.
NoRest == todo = {} /\ ~loaded /\ load = Loads

RestNext ==
    \/ Next /\ Smooth /\ AtRest'
    \/ NoRest /\ UNCHANGED vars

RestSpec == Init /\ [][RestNext]_vars
=============================================================================
