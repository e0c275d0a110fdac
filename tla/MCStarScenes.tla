---------------------------- MODULE MCStarScenes ----------------------------
(***************************************************************************)
(* One instance, four scenes, each with the bounds it needs:               *)
(*   beside    one star run beside one load, statement by statement;       *)
(*   versions  the same with failing star tasks and a product that gets a  *)
(*             new version by a second load;                               *)
(*   apart     two star runs, of which the first may time out, over an     *)
(*             empty vault;                                                *)
(*   rest      one star run on a vault at rest after two loads.            *)
(***************************************************************************)
EXTENDS MCStarSchema

VARIABLE scene  \* which of them is played

Bounds ==
    [beside   |-> [keys |-> Keys \ (Rate \ {FirstRate}), rates |-> {FirstRate, NoRate},
                   loads |-> 1, runs |-> 1, versions |-> 1, slots |-> 1],
     versions |-> [keys |-> Product, rates |-> {NoRate},
                   loads |-> 2, runs |-> 1, versions |-> 2, slots |-> 1],
     apart    |-> [keys |-> {}, rates |-> {NoRate},
                   loads |-> 0, runs |-> 2, versions |-> 0, slots |-> 2],
     rest     |-> [keys |-> Keys, rates |-> Rate \cup {NoRate},
                   loads |-> 2, runs |-> 1, versions |-> 1, slots |-> 1]]

\* No run has ended before its tasks.
NoTimeout == \A r \in Run : run[r] = "failed" => \A t \in Task : ti[r][t] \in Finished

InScene ==
    LET b == Bounds[scene]
    IN  /\ scene # "apart" => NoTimeout
        /\ source \subseteq b.keys
        /\ \A l \in Line : refers[l].rate \in b.rates
        /\ \A r \in Run : r > b.runs => run[r] = "none"
        /\ Cardinality(sat["product"]) <= b.versions
        /\ Cardinality(Executing) <= b.slots
        /\ scene = "rest" => AtRest

\* The horizon of the scene.
End ==
    /\ todo = {} /\ Executing = {}
    /\ \/ scene = "rest" /\ ~loaded
       \/ \A r \in 1 .. Bounds[scene].runs : run[r] \in Ended
    /\ UNCHANGED vars

SceneInit == Init /\ scene \in DOMAIN Bounds /\ InScene

SceneNext ==
    /\ \/ (todo # {} \/ load < Bounds[scene].loads) /\ VaultStep
       \/ \E r \in Run :
             \/ Schedule(r)
             \/ \E t \in Task : TaskStep(r, t) /\ (scene = "versions" \/ Smooth)
       \/ Stop
       \/ End
    /\ UNCHANGED scene
    /\ InScene'

SceneSpec == SceneInit /\ [][SceneNext]_<<vars, scene>>
=============================================================================
