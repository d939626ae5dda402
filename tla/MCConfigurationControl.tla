----------------------- MODULE MCConfigurationControl -----------------------
(* An instance of ConfigurationControl for TLC: one writer in one workspace. *)
EXTENDS ConfigurationControl, TLC

CONSTANTS a, x

MCWorkspaceOf == a :> x
MCRequests == a :> {[kind |-> "change", key |-> "project", value |-> 2],
                    [kind |-> "change", key |-> "runtime.port", value |-> 2]}
MCHandEdits == {<< <<x, "local">>, Broken >>}
MCInitial ==
    [f \in ConfigurationFiles |-> IF f[2] = "project" THEN [project |-> 1] @@ ("github.repository" :> 1) ELSE Missing]
=============================================================================
