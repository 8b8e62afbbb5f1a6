--------------------------- MODULE MCUbxCommands ---------------------------
(* Small values for UbxCommands: each command on a receiver it suits, some   *)
(* on one that does not suit them, and a queue that an earlier command may   *)
(* have left a write or a save in.                                           *)
EXTENDS UbxCommands

Try(name, opts, gen, mode, queue, faults, others, signals) ==
  [name |-> name, opts |-> opts, gen |-> gen, mode |-> mode, queue |-> queue,
   budget |-> [faults |-> faults, errors |-> TRUE, others |-> others, signals |-> signals]]

LeftWrite == <<[kind |-> "set", item |-> "TMODE", val |-> FixedModeFrame("given")]>>
LeftSave  == <<[kind |-> "save", item |-> "CFG", val |-> NoValue]>>

MCScenarios ==
  {Try("version", {}, "unknown", 0, <<>>, 1, 0, 0),
   Try("tmode show", {}, "M8", 2, <<>>, 1, 1, 0),
   Try("fixed show", {}, "F9", 2, <<>>, 1, 0, 0),
   Try("tmode set", {}, "M8", 1, <<>>, 1, 1, 0),
   Try("save", {}, "M8", 0, LeftSave, 1, 0, 0),
   Try("configure-stationary", {"save"}, "M8", 0, LeftSave, 1, 0, 0),
   Try("configure-pps", {"save", "device"}, "F9", 0, <<>>, 1, 0, 0),
   Try("fixed from-svin", {"save"}, "M8", 1, <<>>, 1, 1, 0),
   Try("fixed from-svin", {}, "F9", 0, LeftWrite, 1, 0, 0),
   Try("fixed set", {"save"}, "F9", 0, <<>>, 1, 1, 0),
   Try("fixed set", {}, "unknown", 0, <<>>, 0, 0, 0),
   Try("survey-in", {}, "M8", 2, <<>>, 1, 1, 0),
   Try("survey-in", {}, "F9", 0, LeftWrite, 1, 0, 1),
   Try("survey-in", {"ephemeral"}, "M8", 2, <<>>, 1, 0, 1),
   Try("deploy", {"save", "skip"}, "M8", 0, <<>>, 1, 0, 1),
   Try("deploy", {"skip"}, "F9", 2, <<>>, 1, 0, 1)}
=============================================================================
