---------------------------- MODULE MCVllmLaunch ----------------------------
(* Commands and environments of an invocation for TLC.                     *)
EXTENDS VllmLaunch

\* One terminal brings the server up, another may stop it meanwhile.
MCCmds == [s \in Shells |-> IF s = "a" THEN {"start", "restart"} ELSE {"stop"}]

Default == NoInv.knob

MCKnobs == {Default,
            [Default EXCEPT !.skipBuild = TRUE, !.skipPull = TRUE],
            [Default EXCEPT !.skipBuild = TRUE, !.skipPull = TRUE, !.pull = TRUE],
            [Default EXCEPT !.skipShip = TRUE],
            [Default EXCEPT !.build = TRUE]}
============================================================================
