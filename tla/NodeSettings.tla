----------------------------- MODULE NodeSettings -----------------------------
(***************************************************************************)
(* Where the settings of the two services come from: the environment, the  *)
(* .env file, an old name of a key, or a default; read by manage.sh when   *)
(* it is called, by install.sh when its menu opens and by Settings         *)
(* (config.py) once per node process.  Both sources may be edited while    *)
(* the services run, .env also by the wizard of install.sh, and the        *)
(* services started one without the other.  Of the keys it keeps those on  *)
(* which the two services, or the scripts, could differ: CONCURRENT_LIMIT  *)
(* and ARIA2_RPC_SECRET, which aria2 gets too, TTL_MINUTES, which has an   *)
(* old name in seconds, NODE_ID, and ARIA2_RPC_URL, which the wizard       *)
(* writes unasked.                                                         *)
(***************************************************************************)
EXTENDS Integers, Sequences

CONSTANTS
  EnvValues,   \* bound: EnvValues[k]: what an edit may leave of the key k in the environment
  FileValues,  \* bound: ... in .env
  Typed        \* bound: an answer to the wizard

VARIABLES
  env,      \* the environment the commands are given in
  dotenv,   \* .env
  wizard,   \* install.sh: its environment, and the answers it is writing down
  daemon,   \* --max-concurrent-downloads and --rpc-secret of aria2, and who started it ...
  node      \* the cached Settings of the node process, and who started it, since a source
            \* changed last: one that runs since before keeps the values it has

settingsVars == <<env, dotenv, wizard, daemon, node>>

Unset == -2
Empty == -1   \* KEY=

Numbers == {"CONCURRENT_LIMIT", "TTL_MINUTES"}
Texts == {"ARIA2_RPC_SECRET", "NODE_ID"}   \* a number stands for each text

\* What the wizard asks for, the fields of Settings, and all keys.
Asked == Numbers \cup Texts
Fields == Asked \cup {"ARIA2_RPC_URL"}
Keys == Fields \cup {"NODE_TTL_SECONDS"}

ASSUME ValuesAssumption ==
  /\ Typed \in Nat
  /\ \A values \in {EnvValues, FileValues} :
       DOMAIN values = Keys /\ \A k \in Keys : values[k] \subseteq Nat \cup {Empty, Unset}

\* http://127.0.0.1:6800/rpc: the port stays the same
LocalUrl == 1

\* What both services use without a value (dev-local-01 for the id), and what the wizard
\* suggests (nodefetch_secret and node-01).
Default == [CONCURRENT_LIMIT |-> 2, TTL_MINUTES |-> 60, ARIA2_RPC_SECRET |-> Empty,
            NODE_ID |-> 1, ARIA2_RPC_URL |-> LocalUrl]
WizardDefault == [CONCURRENT_LIMIT |-> 2, TTL_MINUTES |-> 60, ARIA2_RPC_SECRET |-> 1, NODE_ID |-> 2]

\* pristine: neither source was edited since the menu opened
NoWizard == [pc |-> "closed", env |-> [k \in Keys |-> Unset], answers |-> WizardDefault,
             left |-> <<>>, accepted |-> FALSE, pristine |-> FALSE]

NoDaemon == [by |-> "nobody", limit |-> Unset, secret |-> Unset]

NotRunning == [by |-> "nobody", settings |-> [k \in Fields |-> Unset]]

SettingsInit ==
  /\ env = [k \in Keys |-> Unset]
  /\ dotenv = [k \in Keys |-> Unset]
  /\ wizard = NoWizard
  /\ daemon = NoDaemon
  /\ node = NotRunning

SourcesChange == daemon' = NoDaemon /\ node' = NotRunning

-----------------------------------------------------------------------------
(* manage.sh *)

\* What calls the script: somebody's shell, or the menu.
Environment(by) == IF by = "wizard" THEN wizard.env ELSE env

\* `source .env' overrides what the environment says, even with nothing.
Sourced(by, k) == IF dotenv[k] # Unset THEN dotenv[k] ELSE Environment(by)[k]

Given(v) == v \notin {Unset, Empty}

\* Mutant: the old key is taken for minutes.
InMinutesUnconverted(seconds) == seconds

InMinutes(seconds) == IF seconds < 60 THEN 1 ELSE seconds \div 60

\* The fields from the values of all keys; both scripts begin with these lines.
WithDefault(default, values, k) ==
  IF Given(values[k]) THEN values[k]
  ELSE IF k = "TTL_MINUTES" /\ Given(values["NODE_TTL_SECONDS"])
       THEN InMinutes(values["NODE_TTL_SECONDS"])
       ELSE default[k]

Computed(by, k) == WithDefault(Default, [j \in Keys |-> Sourced(by, j)], k)

\* Mutant: only keys that aria2 needs are exported.
ExportedLimit == {"CONCURRENT_LIMIT"}

\* What is exported although it is not in .env, or is empty there.
Exported == Fields

\* The environment a node process starts with.
EnvironmentOf(by, k) ==
  IF by = "hand" THEN env[k] ELSE IF k \in Exported THEN Computed(by, k) ELSE Sourced(by, k)

Callers == {"shell"} \cup (IF wizard.pc = "menu" THEN {"wizard"} ELSE {})

StartDaemon(by) ==
  /\ daemon' = [by |-> by, limit |-> Computed(by, "CONCURRENT_LIMIT"),
                secret |-> Computed(by, "ARIA2_RPC_SECRET")]
  /\ UNCHANGED <<env, dotenv, wizard, node>>

-----------------------------------------------------------------------------
(* config.py *)

Setting(by, k) ==
  IF EnvironmentOf(by, k) # Unset THEN EnvironmentOf(by, k)
  ELSE IF dotenv[k] # Unset THEN dotenv[k] ELSE Default[k]

\* An empty value is no number: Settings() raises, and the process ends.
Valid(by) == \A k \in Numbers : Setting(by, k) # Empty

StartNode(by) ==
  /\ node' = IF Valid(by) THEN [by |-> by, settings |-> [k \in Fields |-> Setting(by, k)]]
                          ELSE [NotRunning EXCEPT !.by = by]
  /\ UNCHANGED <<env, dotenv, wizard, daemon>>

-----------------------------------------------------------------------------
(* install.sh *)

\* The keys with a default at the top of install.sh.
Defaulted == Asked \ {"ARIA2_RPC_SECRET"}

\* Sourced once; a default is exported only where it replaces an empty value.
OpenMenu ==
  /\ wizard.pc = "closed"
  /\ LET sourced == [k \in Keys |-> Sourced("shell", k)]
     IN  wizard' = [NoWizard EXCEPT !.pc = "menu", !.pristine = TRUE,
                      !.env = [k \in Keys |->
                        IF k \in Defaulted /\ sourced[k] = Empty
                        THEN WithDefault(WizardDefault, sourced, k) ELSE sourced[k]]]
  /\ SourcesChange
  /\ UNCHANGED <<env, dotenv>>

\* Offered for what the user leaves empty.
Suggested(k) == IF wizard.env[k] = Empty THEN WizardDefault[k]
                                         ELSE WithDefault(WizardDefault, wizard.env, k)

\* bound: what the user may type, if anything
Answers == {[k \in Asked |-> Suggested(k)], [k \in Asked |-> Typed]}

\* Mutant: the old keys go first.
WriteOrderOldFirst == <<"NODE_TTL_SECONDS", "ARIA2_RPC_SECRET", "ARIA2_RPC_URL", "TTL_MINUTES",
                        "CONCURRENT_LIMIT", "NODE_ID">>

WriteOrder == <<"ARIA2_RPC_SECRET", "ARIA2_RPC_URL", "TTL_MINUTES", "CONCURRENT_LIMIT",
                "NODE_ID", "NODE_TTL_SECONDS">>

\* generate_env, its questions
AskAll(answers) ==
  /\ wizard.pc = "menu"
  /\ wizard' = [wizard EXCEPT !.pc = "writing", !.answers = answers, !.left = WriteOrder,
                             !.accepted = \A k \in Asked : answers[k] = Suggested(k)]
  /\ UNCHANGED <<env, dotenv, daemon, node>>

\* ... upsert_env and remove_env_key, a mv each; then .env is sourced once more
WriteKey ==
  /\ wizard.pc = "writing" /\ wizard.left # <<>>
  /\ LET k == Head(wizard.left)
     IN  dotenv' = [dotenv EXCEPT ![k] = IF k \in Asked THEN wizard.answers[k]
                                         ELSE IF k = "ARIA2_RPC_URL" THEN LocalUrl ELSE Unset]
  /\ wizard' = [wizard EXCEPT !.left = Tail(@)]
  /\ SourcesChange
  /\ UNCHANGED env

Written ==
  /\ wizard.pc = "writing" /\ wizard.left = <<>>
  /\ wizard' = [NoWizard EXCEPT !.pc = "menu", !.pristine = wizard.pristine,
                   !.env = [k \in Keys |-> Sourced("wizard", k)]]
  /\ UNCHANGED <<env, dotenv, daemon, node>>

\* At any time, with Ctrl-C too.
CloseMenu ==
  /\ wizard.pc # "closed"
  /\ wizard' = NoWizard
  /\ UNCHANGED <<env, dotenv, daemon, node>>

-----------------------------------------------------------------------------

Edit(k) ==
  /\ \/ \E v \in EnvValues[k] : env' = [env EXCEPT ![k] = v] /\ UNCHANGED dotenv
     \/ \E v \in FileValues[k] : dotenv' = [dotenv EXCEPT ![k] = v] /\ UNCHANGED env
  /\ SourcesChange
  /\ wizard' = [wizard EXCEPT !.pristine = FALSE]

SettingsNext ==
  \/ \E k \in Keys : Edit(k)
  \/ \E by \in Callers : StartDaemon(by)
  \/ \E by \in Callers \cup {"hand"} : StartNode(by)
  \/ \E answers \in Answers : AskAll(answers)
  \/ OpenMenu \/ WriteKey \/ Written \/ CloseMenu

SettingsSpec == SettingsInit /\ [][SettingsNext]_settingsVars

-----------------------------------------------------------------------------

ByScript == node.by \in {"shell", "wizard"}

\* manage.sh: the computed values are exported, so that old keys do no harm: a node
\* started by the script always comes up, and it and an aria2 started from the same
\* sources have the same limit and the same secret, whatever mixture of empty, old and
\* missing keys they find.
ServicesAgree ==
  ByScript =>
    /\ \A k \in Numbers : Given(node.settings[k])
    /\ node.by = daemon.by => /\ node.settings["CONCURRENT_LIMIT"] = daemon.limit
                             /\ node.settings["ARIA2_RPC_SECRET"] = daemon.secret

\* Files live no longer than an old key in seconds says, or a minute: a node started by
\* the script with that key only uses it, although Settings does not know it.
OldTtlKept ==
  ByScript /\ node.by = "shell"
    /\ ~Given(Sourced("shell", "TTL_MINUTES")) /\ Given(Sourced("shell", "NODE_TTL_SECONDS")) =>
      LET seconds == Sourced("shell", "NODE_TTL_SECONDS")
          minutes == node.settings["TTL_MINUTES"]
      IN  minutes >= 1 /\ (minutes = 1 \/ minutes * 60 <= seconds)

\* install.sh: "idempotent, may be run again": whoever accepts what the wizard suggests
\* keeps the limit and the TTL, given or not, and the secret and the id that were given,
\* at every moment of its writing, though it renames the old keys.  Without a secret and
\* an id it gives both others than the services use, and the URL it overwrites.
WizardKeepsSettings ==
  wizard.pc = "writing" /\ wizard.accepted /\ wizard.pristine =>
    \A k \in Asked : k \in Numbers \/ Given(Sourced("shell", k)) =>
      Computed("shell", k) = wizard.answers[k]

\* ... with edits made while the menu is open.
EditsSurviveWizard ==
  wizard.pc = "writing" /\ wizard.accepted =>
    \A k \in Numbers : Computed("shell", k) = wizard.answers[k]

\* manage.sh: "precedence: environment > .env > defaults".
EnvironmentWins ==
  ByScript /\ node.by = "shell" => \A k \in Fields : Given(env[k]) => node.settings[k] = env[k]
=============================================================================
