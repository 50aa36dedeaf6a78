--------------------------- MODULE MCInstallation ---------------------------
(* Instances for TLC of what happens around the running host: its start,   *)
(* with the circuit breaker, and the migration of the central database.    *)
(* A behaviour is one of one of them, chosen at the start.                 *)
EXTENDS Startup, Migrations

VARIABLE part

(* Back-off delays in units of time, two of which are none.                *)
Delays == <<0, 0, 1, 2>>

bootVars == <<host, breakerVars, worldVars, joined, boxes, startHistVars>>
schemaVars == <<schema, recorded, chats, orphans, todo, runner, ran>>

InstallationInit ==
  /\ StartupInit /\ MigrationsInit
  /\ \/ part = "migrations"
     \/ part = "startup" /\ schema = FullSchema /\ orphans = {}

InstallationNext ==
  /\ \/ part = "startup" /\ StartupNext /\ UNCHANGED schemaVars
     \/ part = "migrations" /\ MigrationsNext /\ UNCHANGED bootVars
  /\ UNCHANGED part

(* StartupFairness and MigrationsFairness, each for its part.              *)
InstallationFairness ==
  /\ WF_startupVars(part = "startup" /\ StartupTick)
  /\ WF_startupVars(part = "startup" /\ Boot)
  /\ WF_startupVars(part = "startup" /\ Killed)
  /\ \A r \in Runners :
       WF_migrationVars(part = "migrations"
                          /\ (OpenDatabase(r) \/ Run(r) \/ Fails(r) \/ Finish(r)))

InstallationSpec ==
  /\ InstallationInit /\ [][InstallationNext]_<<bootVars, schemaVars, faults, part>>
  /\ InstallationFairness

-----------------------------------------------------------------------------
(* The host comes up in the end, with the whole schema.                    *)
InstallationEnds == ComesUp /\ MigratedInTheEnd

=============================================================================
