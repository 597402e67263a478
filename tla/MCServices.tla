----------------------------- MODULE MCServices -----------------------------
(***************************************************************************)
(* CoreService, ExternalAgent, ResearchContext and SchemaMigrations side   *)
(* by side: services with stores or tables of their own, none of which     *)
(* calls another, so that a behaviour is of one part alone and the others  *)
(* stay as they begin.                                                     *)
(***************************************************************************)
EXTENDS CoreService, ExternalAgent, ResearchContext, SchemaMigrations, TLC

CONSTANTS s1, s2, k1, k2, c1, c2

VARIABLE part

ASSUME AgentAssumption == SessionsAssumption /\ AgentTimesAssumption /\ AgentBoundsAssumption

ASSUME CoreAssumption == VersionAssumption

ASSUME ReaderAssumption == ContextAssumption

ASSUME StartersAssumption == MigrationsAssumption

MCSessions == {s1, s2}
MCKeys == {k1, k2}
MCContents == {c1, c2}
MCItems == 1..4

serviceVars == <<part, agentVars, vars, contextVars, migrationVars>>

ServicesInit ==
    /\ part \in {"agent", "core", "context", "migrations"}
    /\ Init /\ AgentInit
    /\ ContextInit /\ (part # "context" => width = 1)
    /\ MigrationsInit /\ (part # "migrations" => db = Absent)

ServicesNext ==
    \/ part = "agent" /\ AgentNext /\ UNCHANGED <<part, vars, contextVars, migrationVars>>
    \/ part = "core" /\ Next /\ UNCHANGED <<part, agentVars, contextVars, migrationVars>>
    \/ part = "context" /\ ContextNext /\ UNCHANGED <<part, agentVars, vars, migrationVars>>
    \/ part = "migrations" /\ MigrationsNext /\ UNCHANGED <<part, agentVars, vars, contextVars>>

ServicesSpec == ServicesInit /\ [][ServicesNext]_serviceVars

\* Sessions are interchangeable, and so are keys, contents and projects. One pair
\* of model values is keys to the one part and projects to the other, which keeps
\* the group of permutations small.
Symmetry == Permutations(MCSessions) \cup Permutations(MCKeys) \cup Permutations(MCContents)
=============================================================================
