----------------------------- MODULE MC_NodeRun -----------------------------
EXTENDS NodeRun

(* A dead villager, a blocked door, and what is looked for only behind one. *)
MCDetectors == <<"killed", "door", "bed">>
MCOp        == [killed |-> "<", door |-> "present", bed |-> "present"]
MCRequires  == [killed |-> {}, door |-> {}, bed |-> {"door"}]
MCThreshold == [killed |-> 0, door |-> 0, bed |-> 0]
MCBaseline  == {"killed"}

(* Of village_lightning: a strike, and fire after a strike.                 *)
VLDetectors == <<"strike", "fire">>
VLOp        == [strike |-> ">=", fire |-> "present"]
VLRequires  == [strike |-> {}, fire |-> {"strike"}]
VLThreshold == [strike |-> 1, fire |-> 0]
VLBaseline  == {}

MCCounts    == {0, 1}
MCDumpAt    == {1}
=============================================================================
