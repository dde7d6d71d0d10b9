------------------------------- MODULE MCParts -------------------------------
(***************************************************************************)
(* The parts that share no state with each other or with the tasks, one at *)
(* a time.                                                                 *)
(***************************************************************************)
EXTENDS UrlCheck, NodeHealth, TaskFile, NodeSettings

\* Hosts with no, one or two addresses; with one, whatever else may be wrong.
MCUrls ==
  LET hosts == {{}} \cup {{a, b} : a, b \in Address}
  IN  [syntax : {"good"}, dns : {"resolves"}, addresses : hosts]
        \cup [syntax : Syntax, dns : Dns, addresses : {{a} : a \in Address}]

\* A quota of any size up to a few units of the ratio, and use around its limits.
MCLimits == {0, 1, 3, 7, 20, 10000, 10001, 20000, 30001}
MCUsed ==
  UNION {{(n * limit) \div 20000 + k : k \in -2..2} : n \in {0, 18999, 19000, 19001, 19999, 20000},
                                                     limit \in MCLimits} \cap Nat

\* Every name of up to three characters, longer ones of those that make a path.
MCRequested ==
  BoundedSeq({"x", ".", "/", "\\", "ctl", "#", "?", "%"}, 3) \cup BoundedSeq({"x", ".", "/"}, 4)
MCOffered == BoundedSeq({"x", ".", "#", "?", "%"}, 2) \ {<<>>}

\* Values less than a minute, and of some and a rest, for the old key.  The secret, the id
\* and the URL are only written by the wizard.
MCEnvValues == [CONCURRENT_LIMIT |-> {}, TTL_MINUTES |-> {9, Unset},
                NODE_TTL_SECONDS |-> {30, Unset},
                ARIA2_RPC_SECRET |-> {}, NODE_ID |-> {}, ARIA2_RPC_URL |-> {}]
MCFileValues == [CONCURRENT_LIMIT |-> {3, Unset}, TTL_MINUTES |-> {7, Empty, Unset},
                 NODE_TTL_SECONDS |-> {150, Unset},
                 ARIA2_RPC_SECRET |-> {}, NODE_ID |-> {}, ARIA2_RPC_URL |-> {}]

PartsInit == PostInit /\ HealthInit /\ FileInit /\ SettingsInit

PostOnly == PostNext /\ UNCHANGED <<health, file, settingsVars>>
HealthOnly == HealthNext /\ UNCHANGED <<post, file, settingsVars>>
FileOnly == FileNext /\ UNCHANGED <<post, health, settingsVars>>
SettingsOnly == SettingsNext /\ UNCHANGED <<post, health, file>>

SettingsRest ==
  /\ daemon = NoDaemon /\ node = NotRunning /\ wizard = NoWizard
  /\ \A k \in Keys : env[k] = Unset /\ dotenv[k] = Unset

PartsNext ==
  \/ health = NoHealth /\ file = NoFile /\ SettingsRest /\ PostOnly
  \/ post = NoPost /\ file = NoFile /\ SettingsRest /\ HealthOnly
  \/ post = NoPost /\ health = NoHealth /\ SettingsRest /\ FileOnly
  \/ post = NoPost /\ health = NoHealth /\ file = NoFile /\ SettingsOnly

PartsSpec == PartsInit /\ [][PartsNext]_<<post, health, file, settingsVars>>
=============================================================================
