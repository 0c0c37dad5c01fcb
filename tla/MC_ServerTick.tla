---------------------------- MODULE MC_ServerTick ----------------------------
EXTENDS ServerTick

(* Two chunks of the overworld and one of the nether.                       *)
MCLevels   == <<"overworld", "nether">>
MCLevelOf  == <<"overworld", "overworld", "nether">>
MCPriority == <<1, 0, 0>>
MCSteps    == <<2, 2, 1>>
MCCommands == {<<"load", 1>>, <<"load", 3>>, <<"drop", 1>>, <<"reseed", 0>>}
=============================================================================
