---------------------------- MODULE MCLogConfig ----------------------------
(***************************************************************************)
(* A small instance of LogConfig: the root logger (1) and one more (2),    *)
(* with definitions that differ in the level or in the appenders only.     *)
(***************************************************************************)
EXTENDS LogConfig, TLC

CONSTANTS Plain

D(level, formatter, appenders) ==
  [level |-> level, formatter |-> formatter, appenders |-> appenders]

NoLogs == <<>>
RootOnly == 1 :> D(1, NoFormat, <<NoFormat, BadFormat>>)
Quiet == 2 :> D(3, Plain, <<Plain, NoFormat>>)
Loud == 2 :> D(1, Plain, <<NoFormat>>)
Fewer == 2 :> D(3, Plain, <<NoFormat>>)

LogValues == {NoLogs, RootOnly, Quiet, Fewer, RootOnly @@ Loud}
SetterSymmetry == Permutations(Setters)

=============================================================================
