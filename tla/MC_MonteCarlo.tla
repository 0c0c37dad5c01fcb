---------------------------- MODULE MC_MonteCarlo ----------------------------
EXTENDS MonteCarlo

(* Two cells and one of two others; a diagonal and nothing beside it.       *)
Relaxed == [size |-> 2, anchor |-> <<0, 0>>, required |-> {<<0, 0>>, <<1, 0>>},
            any_of |-> {<<0, 1>>, <<1, 1>>}, min_any |-> 1, forbid_rest |-> FALSE]
Strict  == [size |-> 2, anchor |-> <<0, 0>>, required |-> {<<0, 0>>, <<1, 1>>},
            any_of |-> {}, min_any |-> 0, forbid_rest |-> TRUE]
MCHaunts == {<<0, 0>>, <<1, 1>>}
MCShapes == {Relaxed, Strict}
=============================================================================
