----------------------------- MODULE PartsProofs -----------------------------
(***************************************************************************)
(* Proofs about the parts that share no state with the tasks: the settings *)
(* of both services, for any values in any source; the URL check, for any  *)
(* set of URLs; the verdict of the health check, for any quota; the name   *)
(* of a file, for any names that are asked for or offered.                 *)
(***************************************************************************)
EXTENDS NodeSettings, UrlCheck, NodeHealth, TaskFile, SequenceTheorems, FiniteSetTheorems,
        WellFoundedInduction, TLAPS

-----------------------------------------------------------------------------
(***************************************************************************)
(* NodeSettings.  What a running service was started with is still what    *)
(* the sources say, and so is what the wizard suggests, as far as nobody   *)
(* edited them since.                                                      *)
(***************************************************************************)

Value == Nat \cup {Unset, Empty}

Wizard == [pc : {"closed", "menu", "writing"}, env : [Keys -> Value],
           answers : [Asked -> Nat], left : Seq(Keys), accepted : BOOLEAN, pristine : BOOLEAN]

Daemon == [by : {"nobody", "shell", "wizard"}, limit : Value, secret : Value]

Node == [by : {"nobody", "shell", "wizard", "hand"}, settings : [Fields -> Value]]

SettingsTypeOK ==
  /\ env \in [Keys -> Value]
  /\ dotenv \in [Keys -> Value]
  /\ wizard \in Wizard
  /\ daemon \in Daemon
  /\ node \in Node

\* aria2 has what it is given ...
Has(by) == /\ daemon.limit = Computed(by, "CONCURRENT_LIMIT")
           /\ daemon.secret = Computed(by, "ARIA2_RPC_SECRET")

\* Both services have what their caller's environment and .env make of the fields.
DaemonCurrent ==
  /\ daemon.by = "shell" => Has("shell")
  /\ daemon.by = "wizard" /\ wizard.pc # "closed" => Has("wizard")

NodeCurrent ==
  /\ node.by = "shell" => \A k \in Fields : node.settings[k] = Computed("shell", k)
  /\ node.by = "wizard" /\ wizard.pc # "closed" =>
       \A k \in Fields : node.settings[k] = Computed("wizard", k)

\* The keys whose values the wizard keeps.
Keeps(k) == k \in Numbers \/ Given(Sourced("shell", k))

\* What is left to write begins after the first n keys, and those have their answers.
WrittenUpTo(n) ==
  /\ Len(wizard.left) = 6 - n
  /\ \A i \in 1..(6 - n) : wizard.left[i] = WriteOrder[n + i]
  /\ \A i \in 1..n : WriteOrder[i] \in Asked =>
       dotenv[WriteOrder[i]] = wizard.answers[WriteOrder[i]]

\* The wizard suggests what the sources make of a field that it keeps.
WizardCurrent ==
  wizard.pristine =>
    /\ wizard.pc = "menu" =>
         \A k \in Asked : Keeps(k) => Suggested(k) = Computed("shell", k)
    /\ wizard.pc = "writing" => \E n \in 0..6 : WrittenUpTo(n)

SettingsInv ==
  SettingsTypeOK /\ DaemonCurrent /\ NodeCurrent /\ WizardCurrent
  /\ ServicesAgree /\ WizardKeepsSettings

LEMMA FieldsAreKeys ==
  /\ Asked \subseteq Fields /\ Fields \subseteq Keys /\ Numbers \subseteq Asked
  /\ Keys \ Fields = {"NODE_TTL_SECONDS"} /\ Fields \ Asked = {"ARIA2_RPC_URL"}
  /\ "TTL_MINUTES" \in Numbers /\ "CONCURRENT_LIMIT" \in Numbers
  /\ "ARIA2_RPC_SECRET" \in Asked /\ "ARIA2_RPC_SECRET" \notin Numbers
  /\ Exported = Fields /\ Numbers \subseteq Defaulted
  BY DEF Fields, Keys, Asked, Numbers, Texts, Exported, Defaulted

LEMMA DefaultsAre ==
  /\ \A k \in Fields : Default[k] \in Value /\ Default[k] # Unset
  /\ \A k \in Numbers : Default[k] \in Nat /\ WizardDefault[k] = Default[k]
  /\ \A k \in Asked : WizardDefault[k] \in Nat
  /\ WizardDefault \in [Asked -> Nat]
  BY DEF Fields, Asked, Numbers, Texts, Default, WizardDefault, Value, Unset, Empty, LocalUrl

LEMMA GivenIsNat ==
  ASSUME NEW v \in Value
  PROVE  /\ Given(v) <=> v \in Nat
         /\ v \in Nat <=> v # Unset /\ v # Empty
  BY DEF Given, Value, Unset, Empty

LEMMA MinutesBound ==
  ASSUME NEW s \in Nat
  PROVE  InMinutes(s) \in Nat /\ InMinutes(s) >= 1 /\ (InMinutes(s) = 1 \/ InMinutes(s) * 60 <= s)
  BY DEF InMinutes

\* Whatever the sources hold, a field has the value, the old one in minutes, or the default.
LEMMA WithDefaultIs ==
  ASSUME NEW values \in [Keys -> Value], NEW k \in Fields, NEW default
  PROVE  \/ WithDefault(default, values, k) \in Nat
         \/ WithDefault(default, values, k) = default[k]
<1>1. values[k] \in Value /\ values["NODE_TTL_SECONDS"] \in Value
  BY FieldsAreKeys DEF Keys
<1> QED
  BY <1>1, GivenIsNat, MinutesBound DEF WithDefault

LEMMA SourcedIsValue ==
  ASSUME SettingsTypeOK, NEW by \in {"shell", "wizard", "hand"}
  PROVE  /\ \A k \in Keys : Sourced(by, k) \in Value
         /\ [j \in Keys |-> Sourced(by, j)] \in [Keys -> Value]
         /\ \A k \in Fields : Computed(by, k) \in Value /\ Computed(by, k) # Unset
         /\ \A k \in Numbers : Computed(by, k) \in Nat
<1>1. \A k \in Keys : Sourced(by, k) \in Value
  BY DEF SettingsTypeOK, Wizard, Sourced, Environment
<1>2. [j \in Keys |-> Sourced(by, j)] \in [Keys -> Value]
  BY <1>1
<1>3. \A k \in Fields : Computed(by, k) \in Nat \/ Computed(by, k) = Default[k]
  BY <1>2, WithDefaultIs DEF Computed
<1>4. Nat \subseteq Value /\ Unset \notin Nat
  BY DEF Value, Unset
<1> QED
  BY <1>1, <1>2, <1>3, <1>4, DefaultsAre, FieldsAreKeys

LEMMA SuggestedIsNat ==
  ASSUME SettingsTypeOK, NEW k \in Asked
  PROVE  Suggested(k) \in Nat
<1>1. wizard.env \in [Keys -> Value] /\ k \in Fields /\ WizardDefault[k] \in Nat
  BY FieldsAreKeys, DefaultsAre DEF SettingsTypeOK, Wizard
<1>2. WithDefault(WizardDefault, wizard.env, k) \in Nat
  BY <1>1, WithDefaultIs
<1> QED
  BY <1>1, <1>2 DEF Suggested

LEMMA WriteOrderIs ==
  /\ WriteOrder \in Seq(Keys) /\ Len(WriteOrder) = 6
  /\ \A i \in 1..6 : WriteOrder[i] \in Keys
  /\ \A i \in 1..6 : WriteOrder[i] = "NODE_TTL_SECONDS" => i = 6
  /\ \A k \in Asked : \E i \in 1..5 : WriteOrder[i] = k
<1>1. WriteOrder \in Seq(Keys) /\ Len(WriteOrder) = 6
  BY DEF WriteOrder, Keys, Fields, Asked, Numbers, Texts
<1>2. /\ WriteOrder[1] = "ARIA2_RPC_SECRET" /\ WriteOrder[2] = "ARIA2_RPC_URL"
      /\ WriteOrder[3] = "TTL_MINUTES" /\ WriteOrder[4] = "CONCURRENT_LIMIT"
      /\ WriteOrder[5] = "NODE_ID" /\ WriteOrder[6] = "NODE_TTL_SECONDS"
  BY DEF WriteOrder
<1>3. \A i \in 1..6 : i \in {1, 2, 3, 4, 5, 6}
  OBVIOUS
<1>4. \A i \in 1..6 : WriteOrder[i] \in Keys
  BY <1>1
<1>5. \A i \in 1..6 : WriteOrder[i] = "NODE_TTL_SECONDS" => i = 6
  BY <1>2, <1>3
<1>6. \A k \in Asked : \E i \in 1..5 : WriteOrder[i] = k
  BY <1>2 DEF Asked, Numbers, Texts
<1> QED
  BY <1>1, <1>4, <1>5, <1>6

LEMMA NoWizardType == NoWizard \in Wizard
<1>1. [k \in Keys |-> Unset] \in [Keys -> Value] /\ <<>> \in Seq(Keys)
  BY DEF Value
<1> QED
  BY <1>1, DefaultsAre DEF NoWizard, Wizard

\* A change of the sources forgets the services.
LEMMA SourcesChangeInv ==
  ASSUME SourcesChange
  PROVE  DaemonCurrent' /\ NodeCurrent' /\ ServicesAgree'
<1>1. daemon'.by = "nobody" /\ node'.by = "nobody"
  BY DEF SourcesChange, NoDaemon, NotRunning
<1> QED
  BY <1>1 DEF DaemonCurrent, NodeCurrent, ServicesAgree, ByScript

LEMMA SourcesChangeType ==
  ASSUME SourcesChange
  PROVE  daemon' \in Daemon /\ node' \in Node
<1>1. Unset \in Value
  BY DEF Value
<1> QED
  BY <1>1 DEF SourcesChange, NoDaemon, NotRunning, Daemon, Node

\* The services keep what they have when no source changes for their caller.
LEMMA ServicesKept ==
  ASSUME SettingsInv, UNCHANGED <<daemon, node>>,
         \A k \in Fields : Computed("shell", k)' = Computed("shell", k),
         wizard'.pc # "closed" =>
           wizard.pc # "closed" /\ \A k \in Fields : Computed("wizard", k)' = Computed("wizard", k)
  PROVE  DaemonCurrent' /\ NodeCurrent' /\ ServicesAgree'
<1>1. DaemonCurrent'
  BY FieldsAreKeys DEF SettingsInv, DaemonCurrent, Has
<1>2. NodeCurrent'
  BY DEF SettingsInv, NodeCurrent
<1>3. ServicesAgree'
  BY DEF SettingsInv, ServicesAgree, ByScript
<1> QED
  BY <1>1, <1>2, <1>3

LEMMA SameComputed ==
  ASSUME NEW by \in {"shell", "wizard"},
         \A k \in Keys : Sourced(by, k)' = Sourced(by, k)
  PROVE  \A k \in Fields : Computed(by, k)' = Computed(by, k)
<1>1. [j \in Keys |-> Sourced(by, j)]' = [j \in Keys |-> Sourced(by, j)]
  OBVIOUS
<1> QED
  BY <1>1 DEF Computed, WithDefault, Given, Unset, Empty, InMinutes

LEMMA EditInv ==
  ASSUME SettingsInv, NEW k \in Keys, Edit(k)
  PROVE  SettingsInv'
<1>1. SourcesChange /\ wizard' = [wizard EXCEPT !.pristine = FALSE] /\ wizard \in Wizard
  BY DEF Edit, SettingsInv, SettingsTypeOK, Wizard
<1>2. wizard' \in Wizard /\ wizard'.pristine = FALSE
  BY <1>1 DEF Wizard
<1>3. EnvValues[k] \subseteq Value /\ FileValues[k] \subseteq Value
  BY ValuesAssumption DEF Value
<1>4. env' \in [Keys -> Value] /\ dotenv' \in [Keys -> Value]
  BY <1>3 DEF Edit, SettingsInv, SettingsTypeOK
<1>5. SettingsTypeOK'
  BY <1>1, <1>2, <1>4, SourcesChangeType DEF SettingsTypeOK, Wizard
<1>6. WizardCurrent' /\ WizardKeepsSettings'
  BY <1>2 DEF WizardCurrent, WizardKeepsSettings
<1> QED
  BY <1>1, <1>5, <1>6, SourcesChangeInv DEF SettingsInv

\* Nothing of what both scripts compute depends on the services.
LEMMA WizardKept ==
  ASSUME SettingsInv, UNCHANGED <<env, dotenv, wizard>>
  PROVE  /\ WizardCurrent' /\ WizardKeepsSettings'
         /\ \A by \in {"shell", "wizard"} : \A k \in Fields : Computed(by, k)' = Computed(by, k)
<1>1. ASSUME NEW by \in {"shell", "wizard"}
      PROVE  \A k \in Fields : Computed(by, k)' = Computed(by, k)
  <2>1. \A k \in Keys : Sourced(by, k)' = Sourced(by, k)
    BY DEF Sourced, Environment
  <2> QED
    BY <2>1, SameComputed
<1>2. /\ \A k \in Asked : Suggested(k)' = Suggested(k)
      /\ \A k \in Asked : Computed("shell", k)' = Computed("shell", k)
      /\ \A k \in Asked : Sourced("shell", k)' = Sourced("shell", k)
      /\ \A n \in 0..6 : WrittenUpTo(n)' = WrittenUpTo(n)
  BY <1>1, FieldsAreKeys DEF Suggested, Sourced, Environment, WrittenUpTo
<1>3. WizardCurrent'
  BY <1>2 DEF SettingsInv, WizardCurrent, Keeps
<1>4. WizardKeepsSettings'
  BY <1>2 DEF SettingsInv, WizardKeepsSettings
<1> QED
  BY <1>1, <1>3, <1>4

LEMMA CallersAre == \A by \in Callers : by = "shell" \/ (by = "wizard" /\ wizard.pc = "menu")
  BY DEF Callers

LEMMA StartDaemonInv ==
  ASSUME SettingsInv, NEW by \in Callers, StartDaemon(by)
  PROVE  SettingsInv'
<1>1. by = "shell" \/ (by = "wizard" /\ wizard.pc = "menu")
  BY CallersAre
<1>2. /\ daemon' = [by |-> by, limit |-> Computed(by, "CONCURRENT_LIMIT"),
                    secret |-> Computed(by, "ARIA2_RPC_SECRET")]
      /\ UNCHANGED <<env, dotenv, wizard, node>>
      /\ "CONCURRENT_LIMIT" \in Fields /\ "ARIA2_RPC_SECRET" \in Fields
  BY FieldsAreKeys DEF StartDaemon
<1>3. Computed(by, "CONCURRENT_LIMIT") \in Value /\ Computed(by, "ARIA2_RPC_SECRET") \in Value
  BY <1>1, <1>2, SourcedIsValue DEF SettingsInv
<1>4. SettingsTypeOK'
  BY <1>1, <1>2, <1>3 DEF SettingsInv, SettingsTypeOK, Daemon
<1>5. /\ WizardCurrent' /\ WizardKeepsSettings'
      /\ \A s \in {"shell", "wizard"} : \A k \in Fields : Computed(s, k)' = Computed(s, k)
  BY <1>2, WizardKept
<1>6. DaemonCurrent'
  BY <1>1, <1>2, <1>5 DEF DaemonCurrent, Has
<1>7. NodeCurrent'
  BY <1>2, <1>5 DEF SettingsInv, NodeCurrent
<1>8. ServicesAgree'
  BY <1>1, <1>2, <1>5 DEF SettingsInv, ServicesAgree, ByScript, NodeCurrent, Has
<1> QED
  BY <1>4, <1>5, <1>6, <1>7, <1>8 DEF SettingsInv

\* A node that a script starts gets what the script computed, as both fields are exported.
LEMMA SettingIs ==
  ASSUME SettingsTypeOK, NEW by \in {"shell", "wizard"}, NEW k \in Fields
  PROVE  Setting(by, k) = Computed(by, k)
<1>1. Computed(by, k) # Unset
  BY SourcedIsValue
<1>2. EnvironmentOf(by, k) = Computed(by, k)
  BY FieldsAreKeys DEF EnvironmentOf
<1> QED
  BY <1>1, <1>2 DEF Setting

LEMMA HandSettingType ==
  ASSUME SettingsTypeOK, NEW k \in Fields
  PROVE  Setting("hand", k) \in Value
  BY FieldsAreKeys, DefaultsAre DEF SettingsTypeOK, Setting, EnvironmentOf

LEMMA StartNodeInv ==
  ASSUME SettingsInv, NEW by \in Callers \cup {"hand"}, StartNode(by)
  PROVE  SettingsInv'
<1>1. by = "shell" \/ (by = "wizard" /\ wizard.pc = "menu") \/ by = "hand"
  BY CallersAre
<1>2. UNCHANGED <<env, dotenv, wizard, daemon>>
  BY DEF StartNode
<1>3. /\ WizardCurrent' /\ WizardKeepsSettings'
      /\ \A s \in {"shell", "wizard"} : \A k \in Fields : Computed(s, k)' = Computed(s, k)
  BY <1>2, WizardKept
<1>4. \A k \in Fields : Setting(by, k) \in Value
  BY <1>1, SettingIs, HandSettingType, SourcedIsValue DEF SettingsInv
<1>5. node'.by = by
  BY DEF StartNode, NotRunning
<1>6. SettingsTypeOK'
  <2>1. node' \in Node
    <3>1. Unset \in Value /\ by \in {"nobody", "shell", "wizard", "hand"}
      BY <1>1 DEF Value
    <3> QED
      BY <1>4, <3>1 DEF StartNode, NotRunning, Node
  <2> QED
    BY <1>2, <2>1 DEF SettingsInv, SettingsTypeOK
<1>7. ASSUME by # "hand"
      PROVE  /\ \A k \in Fields : node'.settings[k] = Computed(by, k)
             /\ \A k \in Numbers : Given(node'.settings[k])
  <2>1. \A k \in Fields : Setting(by, k) = Computed(by, k)
    BY <1>1, <1>7, SettingIs DEF SettingsInv
  <2>2. \A k \in Numbers : Given(Computed(by, k)) /\ Computed(by, k) # Empty
    BY <1>1, <1>7, SourcedIsValue DEF SettingsInv, Given, Unset, Empty
  <2>3. Valid(by)
    BY <2>1, <2>2, FieldsAreKeys DEF Valid
  <2>4. node'.settings = [k \in Fields |-> Setting(by, k)]
    BY <2>3 DEF StartNode
  <2> QED
    BY <2>1, <2>2, <2>4, FieldsAreKeys
<1>8. DaemonCurrent'
  BY <1>2, <1>3, FieldsAreKeys DEF SettingsInv, DaemonCurrent, Has
<1>9. NodeCurrent'
  BY <1>1, <1>3, <1>5, <1>7 DEF NodeCurrent
<1>10. ServicesAgree'
  <2> SUFFICES ASSUME ByScript'
               PROVE  /\ \A k \in Numbers : Given(node'.settings[k])
                      /\ by = daemon.by =>
                           /\ node'.settings["CONCURRENT_LIMIT"] = daemon.limit
                           /\ node'.settings["ARIA2_RPC_SECRET"] = daemon.secret
    BY <1>2, <1>5 DEF ServicesAgree
  <2>1. by # "hand"
    BY <1>5 DEF ByScript
  <2>2. \A k \in Numbers : Given(node'.settings[k])
    BY <1>7, <2>1
  <2>3. by = daemon.by => /\ node'.settings["CONCURRENT_LIMIT"] = daemon.limit
                          /\ node'.settings["ARIA2_RPC_SECRET"] = daemon.secret
    BY <1>1, <1>2, <1>7, <2>1, FieldsAreKeys DEF SettingsInv, DaemonCurrent, Has
  <2> QED
    BY <2>2, <2>3
<1> QED
  BY <1>3, <1>6, <1>8, <1>9, <1>10 DEF SettingsInv
\* The menu offers what the sources say.
LEMMA OpenMenuInv ==
  ASSUME SettingsInv, OpenMenu
  PROVE  SettingsInv'
<1>1. /\ \A k \in Keys : Sourced("shell", k) \in Value
      /\ [k \in Keys |-> Sourced("shell", k)] \in [Keys -> Value]
      /\ \A k \in Numbers : Computed("shell", k) \in Nat
  BY SourcedIsValue DEF SettingsInv
<1>2. PICK s \in [Keys -> Value] : s = [k \in Keys |-> Sourced("shell", k)]
  BY <1>1
<1> DEFINE opened == [k \in Keys |-> IF k \in Defaulted /\ s[k] = Empty
                                     THEN WithDefault(WizardDefault, s, k) ELSE s[k]]
<1>3. \A k \in Defaulted : WithDefault(WizardDefault, s, k) \in Nat
  BY WithDefaultIs, DefaultsAre, FieldsAreKeys DEF Defaulted
<1>4. opened \in [Keys -> Value]
  BY <1>3 DEF Value
<1>5. PICK e \in [Keys -> Value] : e = opened
  BY <1>4
<1>6. wizard' \in Wizard /\ wizard'.pc = "menu" /\ wizard'.env = e
  <2>1. NoWizard \in Wizard
    BY NoWizardType
  <2>2. wizard' = [NoWizard EXCEPT !.pc = "menu", !.pristine = TRUE, !.env = e]
    BY <1>2, <1>5 DEF OpenMenu
  <2> QED
    BY <2>1, <2>2 DEF Wizard
<1>7. SourcesChange /\ UNCHANGED <<env, dotenv>>
  BY DEF OpenMenu
<1>8. SettingsTypeOK'
  BY <1>6, <1>7, SourcesChangeType DEF SettingsInv, SettingsTypeOK
<1>9. \A k \in Keys : Sourced("shell", k)' = Sourced("shell", k)
  BY <1>7 DEF Sourced, Environment
<1>10. \A k \in Fields : Computed("shell", k)' = Computed("shell", k)
  BY <1>9, SameComputed
<1>11. ASSUME NEW k \in Asked, Keeps(k)
       PROVE  Suggested(k)' = Computed("shell", k)
  <2>1. k \in Keys /\ k \in Fields /\ "NODE_TTL_SECONDS" \in Keys
    BY FieldsAreKeys DEF Keys
  <2>2. /\ e[k] = IF k \in Defaulted /\ s[k] = Empty
                  THEN WithDefault(WizardDefault, s, k) ELSE s[k]
        /\ "NODE_TTL_SECONDS" \notin Defaulted
    BY <1>5, <2>1 DEF Defaulted, Asked, Numbers, Texts
  <2>3. e["NODE_TTL_SECONDS"] = s["NODE_TTL_SECONDS"]
    BY <1>5, <2>1, <2>2
  <2>4. Computed("shell", k) = WithDefault(Default, s, k)
    BY <1>2 DEF Computed
  <2>5. CASE Given(s[k])
    <3>1. e[k] = s[k] /\ e[k] # Empty
      BY <2>2, <2>5 DEF Given
    <3> QED
      BY <1>6, <2>4, <2>5, <3>1 DEF Suggested, WithDefault
  <2>6. CASE ~Given(s[k])
    <3>1. k \in Numbers
      BY <1>2, <1>11, <2>1, <2>6 DEF Keeps
    <3>2. WithDefault(WizardDefault, s, k) = WithDefault(Default, s, k)
      BY <3>1, DefaultsAre DEF WithDefault
    <3>3. CASE s[k] = Empty
      <4>1. e[k] = WithDefault(Default, s, k) /\ e[k] \in Nat
        BY <1>3, <2>2, <3>1, <3>2, <3>3, FieldsAreKeys
      <4>2. Given(e[k]) /\ e[k] # Empty
        BY <4>1 DEF Given, Unset, Empty
      <4> QED
        BY <1>6, <2>4, <4>1, <4>2 DEF Suggested, WithDefault
    <3>4. CASE s[k] # Empty
      <4>1. e[k] = s[k] /\ e[k] # Empty
        BY <2>2, <3>4
      <4>2. Suggested(k)' = WithDefault(WizardDefault, e, k)
        BY <1>6, <4>1 DEF Suggested
      <4>3. WithDefault(WizardDefault, e, k) = WithDefault(WizardDefault, s, k)
        BY <2>3, <4>1 DEF WithDefault
      <4> QED
        BY <2>4, <3>2, <4>2, <4>3
    <3> QED
      BY <3>3, <3>4
  <2> QED
    BY <2>5, <2>6
<1>12. WizardCurrent'
  BY <1>6, <1>9, <1>10, <1>11, FieldsAreKeys DEF WizardCurrent, Keeps
<1>13. WizardKeepsSettings'
  BY <1>6 DEF WizardKeepsSettings
<1> QED
  BY <1>7, <1>8, <1>12, <1>13, SourcesChangeInv DEF SettingsInv

LEMMA AskAllInv ==
  ASSUME SettingsInv, NEW answers \in Answers, AskAll(answers)
  PROVE  SettingsInv'
<1>1. answers \in [Asked -> Nat]
  <2>1. \A k \in Asked : Suggested(k) \in Nat
    BY SuggestedIsNat DEF SettingsInv
  <2> QED
    BY <2>1, ValuesAssumption DEF Answers
<1>2. PICK accepted \in BOOLEAN : accepted = \A k \in Asked : answers[k] = Suggested(k)
  OBVIOUS
<1>3. /\ wizard.pc = "menu" /\ wizard \in Wizard
      /\ wizard' = [wizard EXCEPT !.pc = "writing", !.answers = answers, !.left = WriteOrder,
                                 !.accepted = accepted]
      /\ UNCHANGED <<env, dotenv, daemon, node>>
  BY <1>2 DEF AskAll, SettingsInv, SettingsTypeOK
<1>4. /\ wizard' \in Wizard /\ wizard'.pc = "writing" /\ wizard'.answers = answers
      /\ wizard'.left = WriteOrder /\ wizard'.accepted = accepted
      /\ wizard'.env = wizard.env /\ wizard'.pristine = wizard.pristine
  BY <1>1, <1>3, WriteOrderIs DEF Wizard
<1>5. SettingsTypeOK'
  BY <1>3, <1>4 DEF SettingsInv, SettingsTypeOK
<1>6. \A by \in {"shell", "wizard"} : \A k \in Keys : Sourced(by, k)' = Sourced(by, k)
  BY <1>3, <1>4 DEF Sourced, Environment
<1>7. \A by \in {"shell", "wizard"} : \A k \in Fields : Computed(by, k)' = Computed(by, k)
  BY <1>6, SameComputed
<1>8. WizardCurrent'
  <2>1. WrittenUpTo(0)'
    BY <1>4, WriteOrderIs DEF WrittenUpTo
  <2> QED
    BY <1>4, <2>1 DEF WizardCurrent
<1>9. WizardKeepsSettings'
  <2> SUFFICES ASSUME accepted, wizard.pristine, NEW k \in Asked, Keeps(k)
               PROVE  Computed("shell", k) = answers[k]
    BY <1>4, <1>6, <1>7, FieldsAreKeys DEF WizardKeepsSettings, Keeps
  <2>1. answers[k] = Suggested(k)
    BY <1>2
  <2> QED
    BY <1>3, <2>1 DEF SettingsInv, WizardCurrent
<1> QED
  BY <1>3, <1>4, <1>5, <1>7, <1>8, <1>9, ServicesKept DEF SettingsInv

LEMMA WriteKeyInv ==
  ASSUME SettingsInv, WriteKey
  PROVE  SettingsInv'
<1>1. PICK k : k = Head(wizard.left)
  OBVIOUS
<1>2. /\ wizard.pc = "writing" /\ wizard \in Wizard /\ wizard.left \in Seq(Keys)
      /\ wizard.left # <<>> /\ SourcesChange /\ UNCHANGED env
      /\ dotenv' = [dotenv EXCEPT ![k] = IF k \in Asked THEN wizard.answers[k]
                                         ELSE IF k = "ARIA2_RPC_URL" THEN LocalUrl ELSE Unset]
      /\ wizard' = [wizard EXCEPT !.left = Tail(wizard.left)]
  BY <1>1 DEF WriteKey, SettingsInv, SettingsTypeOK, Wizard
<1>3. k \in Keys /\ Tail(wizard.left) \in Seq(Keys)
  BY <1>1, <1>2
<1>4. /\ wizard' \in Wizard /\ wizard'.pc = "writing" /\ wizard'.answers = wizard.answers
      /\ wizard'.left = Tail(wizard.left) /\ wizard'.accepted = wizard.accepted
      /\ wizard'.pristine = wizard.pristine
  BY <1>2, <1>3 DEF Wizard
<1>5. wizard.answers \in [Asked -> Nat]
  BY <1>2 DEF Wizard
<1>6. dotenv' \in [Keys -> Value]
  <2>1. dotenv \in [Keys -> Value] /\ LocalUrl \in Value /\ Unset \in Value
    BY DEF SettingsInv, SettingsTypeOK, Value, LocalUrl
  <2>2. k \in Asked => wizard.answers[k] \in Value
    BY <1>5 DEF Value
  <2> QED
    BY <1>2, <1>3, <2>1, <2>2
<1>7. SettingsTypeOK'
  BY <1>2, <1>4, <1>6, SourcesChangeType DEF SettingsInv, SettingsTypeOK
<1>8. /\ k \in Asked => dotenv'[k] = wizard.answers[k]
      /\ \A j \in Keys : j # k => dotenv'[j] = dotenv[j]
  BY <1>2, <1>3 DEF SettingsInv, SettingsTypeOK
<1>9. WizardCurrent' /\ WizardKeepsSettings'
  <2> SUFFICES ASSUME wizard.pristine
               PROVE  WizardCurrent' /\ WizardKeepsSettings'
    BY <1>4 DEF WizardCurrent, WizardKeepsSettings
  <2>1. PICK n \in 0..6 : WrittenUpTo(n)
    BY <1>2 DEF SettingsInv, WizardCurrent
  <2>2. n \in 0..5 /\ k = WriteOrder[n + 1]
    <3>1. Len(wizard.left) \in Nat /\ Len(wizard.left) # 0 /\ k = wizard.left[1]
      BY <1>1, <1>2
    <3>2. Len(wizard.left) = 6 - n /\ \A i \in 1..(6 - n) : wizard.left[i] = WriteOrder[n + i]
      BY <2>1 DEF WrittenUpTo
    <3>3. n \in 0..5 /\ 1 \in 1..(6 - n)
      BY <3>1, <3>2
    <3> QED
      BY <3>1, <3>2, <3>3
  \* Of those written before, none is written once more with another value.
  <2>3. \A i \in 1..(n + 1) : WriteOrder[i] \in Asked =>
          dotenv'[WriteOrder[i]] = wizard.answers[WriteOrder[i]]
    <3> SUFFICES ASSUME NEW i \in 1..(n + 1), WriteOrder[i] \in Asked
                 PROVE  dotenv'[WriteOrder[i]] = wizard.answers[WriteOrder[i]]
      OBVIOUS
    <3>1. CASE WriteOrder[i] = k
      BY <1>8, <3>1
    <3>2. CASE WriteOrder[i] # k
      <4>1. i \in 1..n /\ WriteOrder[i] \in Keys
        BY <2>2, <3>2, FieldsAreKeys
      <4> QED
        BY <1>8, <2>1, <3>2, <4>1 DEF WrittenUpTo
    <3> QED
      BY <3>1, <3>2
  <2>4. WizardCurrent'
    <3>1. /\ Len(wizard'.left) = 6 - (n + 1)
          /\ \A i \in 1..(6 - (n + 1)) : wizard'.left[i] = WriteOrder[n + 1 + i]
      <4>1. /\ Len(wizard.left) = 6 - n
            /\ \A i \in 1..(6 - n) : wizard.left[i] = WriteOrder[n + i]
        BY <2>1 DEF WrittenUpTo
      <4>2. /\ Len(Tail(wizard.left)) = Len(wizard.left) - 1
            /\ \A i \in 1..(Len(wizard.left) - 1) : Tail(wizard.left)[i] = wizard.left[i + 1]
        BY <1>2
      <4>3. ASSUME NEW i \in 1..(6 - (n + 1))
            PROVE  wizard'.left[i] = WriteOrder[n + 1 + i]
        <5>1. i + 1 \in 1..(6 - n) /\ n + (i + 1) = n + 1 + i /\ i \in 1..(Len(wizard.left) - 1)
          BY <2>2, <4>1, <4>3
        <5> QED
          BY <1>4, <4>1, <4>2, <5>1
      <4> QED
        BY <1>4, <2>2, <4>1, <4>2, <4>3
    <3>2. PICK m \in 0..6 : m = n + 1
      BY <2>2
    <3>3. WrittenUpTo(m)'
      BY <1>4, <2>3, <3>1, <3>2 DEF WrittenUpTo
    <3> QED
      BY <1>4, <3>3 DEF WizardCurrent
  <2>5. WizardKeepsSettings'
    <3> SUFFICES ASSUME wizard.accepted, NEW f \in Asked, Keeps(f)'
                 PROVE  Computed("shell", f)' = wizard.answers[f]
      BY <1>4 DEF WizardKeepsSettings, Keeps
    <3>1. f \in Keys /\ f \in Fields /\ wizard.answers[f] \in Nat
      BY <1>5, FieldsAreKeys
    \* A field in .env is what counts.
    <3>2. CASE dotenv'[f] = wizard.answers[f]
      <4>1. Given(wizard.answers[f]) /\ wizard.answers[f] # Unset
        BY <3>1 DEF Given, Unset, Empty
      <4>2. Sourced("shell", f)' = wizard.answers[f]
        BY <3>2, <4>1 DEF Sourced
      <4> QED
        BY <3>1, <4>1, <4>2 DEF Computed, WithDefault
    \* A field that is not yet written, nor is then the old key.
    <3>3. CASE dotenv'[f] # wizard.answers[f]
      <4>1. PICK i \in 1..5 : WriteOrder[i] = f
        BY WriteOrderIs
      <4>2. ~(i \in 1..(n + 1))
        BY <2>3, <3>3, <4>1
      <4>3. n + 1 \in 1..6 /\ n + 1 # 6
        BY <2>2, <4>1, <4>2
      <4>4. k # "NODE_TTL_SECONDS" /\ k # f
        BY <1>8, <2>2, <3>3, <4>3, WriteOrderIs
      <4>5. /\ Sourced("shell", f)' = Sourced("shell", f)
            /\ Sourced("shell", "NODE_TTL_SECONDS")' = Sourced("shell", "NODE_TTL_SECONDS")
        BY <1>2, <1>8, <3>1, <4>4 DEF Sourced, Environment, Keys
      <4>6. Computed("shell", f)' = Computed("shell", f)
        BY <3>1, <4>5 DEF Computed, WithDefault, Keys
      <4>7. Computed("shell", f) = wizard.answers[f]
        BY <1>2, <4>5 DEF SettingsInv, WizardKeepsSettings, Keeps
      <4> QED
        BY <4>6, <4>7
    <3> QED
      BY <3>2, <3>3
  <2> QED
    BY <2>4, <2>5
<1> QED
  BY <1>2, <1>7, <1>9, SourcesChangeInv DEF SettingsInv

LEMMA WrittenInv ==
  ASSUME SettingsInv, Written
  PROVE  SettingsInv'
<1>1. \A k \in Keys : Sourced("wizard", k) \in Value
  BY SourcedIsValue DEF SettingsInv
<1>2. PICK e \in [Keys -> Value] : e = [k \in Keys |-> Sourced("wizard", k)]
  BY <1>1
<1>3. /\ wizard.pc = "writing" /\ wizard.left = <<>> /\ UNCHANGED <<env, dotenv, daemon, node>>
      /\ wizard' = [NoWizard EXCEPT !.pc = "menu", !.pristine = wizard.pristine, !.env = e]
      /\ wizard \in Wizard
  BY <1>2 DEF Written, SettingsInv, SettingsTypeOK
<1>4. /\ wizard' \in Wizard /\ wizard'.pc = "menu" /\ wizard'.env = e
      /\ wizard'.pristine = wizard.pristine
  <2>1. NoWizard \in Wizard /\ wizard.pristine \in BOOLEAN
    BY <1>3, NoWizardType DEF Wizard
  <2> QED
    BY <1>3, <2>1 DEF Wizard
<1>5. SettingsTypeOK'
  BY <1>3, <1>4 DEF SettingsInv, SettingsTypeOK
<1>6. /\ \A k \in Keys : Sourced("shell", k)' = Sourced("shell", k)
      /\ \A k \in Keys : Sourced("wizard", k)' = Sourced("wizard", k)
  BY <1>2, <1>3, <1>4 DEF Sourced, Environment
<1>7. /\ \A k \in Fields : Computed("shell", k)' = Computed("shell", k)
      /\ \A k \in Fields : Computed("wizard", k)' = Computed("wizard", k)
  BY <1>6, SameComputed
<1>8. DaemonCurrent' /\ NodeCurrent' /\ ServicesAgree'
  BY <1>3, <1>7, ServicesKept
<1>9. WizardCurrent'
  <2> SUFFICES ASSUME wizard.pristine, NEW k \in Asked
               PROVE  Suggested(k)' = Computed("shell", k)
    BY <1>4, <1>7, FieldsAreKeys DEF WizardCurrent
  <2>1. PICK n \in 0..6 : WrittenUpTo(n)
    BY <1>3 DEF SettingsInv, WizardCurrent
  <2>2. n = 6
    <3>1. Len(wizard.left) = 6 - n /\ Len(wizard.left) = 0
      BY <1>3, <2>1 DEF WrittenUpTo
    <3> QED
      BY <3>1
  <2>3. PICK i \in 1..5 : WriteOrder[i] = k
    BY WriteOrderIs
  <2>4. dotenv[k] = wizard.answers[k] /\ wizard.answers[k] \in Nat
    BY <1>3, <2>1, <2>2, <2>3 DEF WrittenUpTo, Wizard
  <2>5. Given(dotenv[k]) /\ dotenv[k] # Unset /\ dotenv[k] # Empty
    BY <2>4 DEF Given, Unset, Empty
  <2>6. e[k] = dotenv[k] /\ Sourced("shell", k) = dotenv[k]
    BY <1>2, <2>5, FieldsAreKeys DEF Sourced
  <2>7. Suggested(k)' = dotenv[k]
    BY <1>4, <2>5, <2>6 DEF Suggested, WithDefault
  <2>8. Computed("shell", k) = dotenv[k]
    BY <2>5, <2>6, FieldsAreKeys DEF Computed, WithDefault
  <2> QED
    BY <2>7, <2>8
<1>10. WizardKeepsSettings'
  BY <1>4 DEF WizardKeepsSettings
<1> QED
  BY <1>5, <1>8, <1>9, <1>10 DEF SettingsInv

LEMMA CloseMenuInv ==
  ASSUME SettingsInv, CloseMenu
  PROVE  SettingsInv'
<1>1. UNCHANGED <<env, dotenv, daemon, node>> /\ wizard' = NoWizard /\ wizard'.pc = "closed"
  BY DEF CloseMenu, NoWizard
<1>2. NoWizard \in Wizard
  BY NoWizardType
<1>3. SettingsTypeOK'
  BY <1>1, <1>2 DEF SettingsInv, SettingsTypeOK
<1>4. \A k \in Keys : Sourced("shell", k)' = Sourced("shell", k)
  BY <1>1 DEF Sourced, Environment
<1>5. DaemonCurrent' /\ NodeCurrent' /\ ServicesAgree'
  BY <1>1, <1>4, SameComputed, ServicesKept
<1>6. WizardCurrent' /\ WizardKeepsSettings'
  BY <1>1 DEF WizardCurrent, WizardKeepsSettings
<1> QED
  BY <1>3, <1>5, <1>6 DEF SettingsInv

LEMMA SettingsInvInit == SettingsInit => SettingsInv
<1> SUFFICES ASSUME SettingsInit
             PROVE  SettingsInv
  OBVIOUS
<1>1. NoWizard \in Wizard /\ NoWizard.pc = "closed"
  BY NoWizardType DEF NoWizard
<1>2. daemon.by = "nobody" /\ node.by = "nobody"
  BY DEF SettingsInit, NoDaemon, NotRunning
<1>3. SettingsTypeOK
  BY <1>1 DEF SettingsInit, SettingsTypeOK, Value, NoDaemon, NotRunning, Daemon, Node
<1>4. wizard.pc = "closed"
  BY <1>1 DEF SettingsInit
<1> QED
  BY <1>2, <1>3, <1>4
     DEF SettingsInv, DaemonCurrent, NodeCurrent, ServicesAgree, ByScript, WizardCurrent,
         WizardKeepsSettings

LEMMA SettingsInvStep == SettingsInv /\ [SettingsNext]_settingsVars => SettingsInv'
<1> SUFFICES ASSUME SettingsInv, [SettingsNext]_settingsVars
             PROVE  SettingsInv'
  OBVIOUS
<1>1. CASE UNCHANGED settingsVars
  <2>1. UNCHANGED <<env, dotenv, wizard, daemon, node>>
    BY <1>1 DEF settingsVars
  <2>2. /\ WizardCurrent' /\ WizardKeepsSettings'
        /\ \A by \in {"shell", "wizard"} : \A k \in Fields : Computed(by, k)' = Computed(by, k)
    BY <2>1, WizardKept
  <2>3. DaemonCurrent' /\ NodeCurrent' /\ ServicesAgree'
    BY <2>1, <2>2, ServicesKept
  <2> QED
    BY <2>1, <2>2, <2>3 DEF SettingsInv, SettingsTypeOK
<1> QED
  BY <1>1, EditInv, StartDaemonInv, StartNodeInv, OpenMenuInv, AskAllInv, WriteKeyInv,
     WrittenInv, CloseMenuInv DEF SettingsNext

\* What runs, and what the wizard suggests, is what the sources say until they change:
\* for any values, empty, old or missing, in any source, and any order of edits and starts.
THEOREM SettingsInvariant == SettingsSpec => []SettingsInv
<1>1. SettingsInit => SettingsInv
  BY SettingsInvInit
<1>2. SettingsInv /\ [SettingsNext]_settingsVars => SettingsInv'
  BY SettingsInvStep
<1> QED
  BY <1>1, <1>2, PTL DEF SettingsSpec

\* A node that a script starts comes up, with the limit and the secret that an aria2 of the
\* same caller has.
THEOREM ServicesAlwaysAgree == SettingsSpec => []ServicesAgree
<1>1. SettingsInv => ServicesAgree
  BY DEF SettingsInv
<1> QED
  BY <1>1, SettingsInvariant, PTL

\* Accepting what the wizard suggests keeps the limit, the TTL and whatever secret and id
\* were given, after any number of its writes.
THEOREM AcceptedSettingsAreKept == SettingsSpec => []WizardKeepsSettings
<1>1. SettingsInv => WizardKeepsSettings
  BY DEF SettingsInv
<1> QED
  BY <1>1, SettingsInvariant, PTL

\* The old key, in seconds, keeps files no longer than it says, or a minute.
THEOREM OldTtlIsKept == SettingsSpec => []OldTtlKept
<1>1. SettingsInv => OldTtlKept
  <2> SUFFICES ASSUME SettingsInv, node.by = "shell",
                      ~Given(Sourced("shell", "TTL_MINUTES")),
                      Given(Sourced("shell", "NODE_TTL_SECONDS"))
               PROVE  LET seconds == Sourced("shell", "NODE_TTL_SECONDS")
                          minutes == node.settings["TTL_MINUTES"]
                      IN  minutes >= 1 /\ (minutes = 1 \/ minutes * 60 <= seconds)
    BY DEF OldTtlKept
  <2>1. "TTL_MINUTES" \in Fields /\ "TTL_MINUTES" \in Keys /\ "NODE_TTL_SECONDS" \in Keys
    BY FieldsAreKeys DEF Keys
  <2>2. node.settings["TTL_MINUTES"] = Computed("shell", "TTL_MINUTES")
    BY <2>1 DEF SettingsInv, NodeCurrent
  <2>3. Computed("shell", "TTL_MINUTES") = InMinutes(Sourced("shell", "NODE_TTL_SECONDS"))
    BY <2>1 DEF Computed, WithDefault
  <2>4. Sourced("shell", "NODE_TTL_SECONDS") \in Nat
    BY <2>1, SourcedIsValue, GivenIsNat DEF SettingsInv
  <2> QED
    BY <2>2, <2>3, <2>4, MinutesBound
<1> QED
  BY <1>1, SettingsInvariant, PTL
-----------------------------------------------------------------------------
(* NodeHealth *)

HealthRequest == [pc : {"idle", "counted", "probed", "answered"}, online : BOOLEAN, used : Nat,
                  limit : Nat, scanned : BOOLEAN, verdict : {"ok", "degraded", "down"}]

HealthInv ==
  /\ health \in HealthRequest
  /\ health.pc = "answered" /\ health.scanned =>
       \E ratio \in Rounded(health.used, health.limit) :
         health.verdict = Verdict(health.online, ratio)

\* What rounding leaves of the ratio.
LEMMA RoundedIs ==
  ASSUME NEW used \in Nat, NEW limit \in Nat \ {0}, NEW r \in Rounded(used, limit)
  PROVE  /\ r \in Int
         /\ 2 * Unit * used <= 2 * (r * limit) + limit
         /\ 2 * Unit * used >= 2 * (r * limit) - limit
  BY DEF Rounded, Unit

LEMMA TimesMonotone ==
  ASSUME NEW l \in Nat, NEW a \in Int, NEW b \in Int, a <= b
  PROVE  a * l <= b * l
  OBVIOUS

LEMMA VerdictIs ==
  ASSUME NEW online \in BOOLEAN, NEW used \in Nat, NEW limit \in Nat \ {0},
         NEW r \in Rounded(used, limit)
  PROVE  /\ Verdict(online, r) \in {"ok", "degraded", "down"}
         /\ Verdict(online, r) = "ok" => online /\ 2 * Unit * used <= 2 * 9500 * limit + limit
         /\ Verdict(online, r) = "down" => ~online /\ 2 * Unit * used >= 2 * Unit * limit - limit
         /\ Verdict(online, r) = "degraded" /\ online => 2 * Unit * used > 2 * 9500 * limit
         /\ Verdict(online, r) = "degraded" /\ ~online => 2 * Unit * used < 2 * Unit * limit
<1>1. /\ r \in Int
      /\ 2 * Unit * used <= 2 * (r * limit) + limit
      /\ 2 * Unit * used >= 2 * (r * limit) - limit
  BY RoundedIs
<1>2. /\ r <= 9500 => r * limit <= 9500 * limit
      /\ r >= 9501 => r * limit >= 9501 * limit
      /\ r <= 9999 => r * limit <= 9999 * limit
      /\ r >= Unit => r * limit >= Unit * limit
  BY <1>1, TimesMonotone DEF Unit
<1>3. CASE r <= 9500
  BY <1>1, <1>2, <1>3 DEF Verdict, Unit
<1>4. CASE r > 9500 /\ r < Unit
  BY <1>1, <1>2, <1>4 DEF Verdict, Unit
<1>5. CASE r >= Unit
  BY <1>1, <1>2, <1>5 DEF Verdict, Unit
<1> QED
  BY <1>1, <1>3, <1>4, <1>5 DEF Unit
LEMMA HealthScanInv ==
  ASSUME HealthInv, HealthScan
  PROVE  HealthInv'
<1>1. PICK used \in Used, limit \in Limits, scanned \in BOOLEAN :
        \E ratio \in Rounded(IF scanned THEN used ELSE 0, limit) :
          health' = [health EXCEPT !.pc = "answered", !.used = used, !.limit = limit,
                                   !.scanned = scanned,
                                   !.verdict = Verdict(health.online, ratio)]
  BY DEF HealthScan
<1>2. PICK ratio \in Rounded(IF scanned THEN used ELSE 0, limit) :
        health' = [health EXCEPT !.pc = "answered", !.used = used, !.limit = limit,
                                 !.scanned = scanned,
                                 !.verdict = Verdict(health.online, ratio)]
  BY <1>1
<1>3. used \in Nat /\ limit \in Nat /\ health \in HealthRequest /\ health.online \in BOOLEAN
  BY HealthAssumption DEF HealthInv, HealthRequest
<1>4. Verdict(health.online, ratio) \in {"ok", "degraded", "down"}
  BY DEF Verdict
<1>5. /\ health' \in HealthRequest
      /\ health'.used = used /\ health'.limit = limit /\ health'.scanned = scanned
      /\ health'.online = health.online /\ health'.verdict = Verdict(health.online, ratio)
  BY <1>2, <1>3, <1>4 DEF HealthRequest
<1>6. scanned => ratio \in Rounded(used, limit)
  BY <1>2
<1> QED
  BY <1>5, <1>6 DEF HealthInv

LEMMA HealthVerdict ==
  ASSUME HealthInv
  PROVE  VerdictWithinRounding
<1>0. CASE ~(health.pc = "answered" /\ health.scanned /\ health.limit > 0)
  BY <1>0 DEF VerdictWithinRounding
<1> SUFFICES ASSUME health.pc = "answered" /\ health.scanned /\ health.limit > 0
             PROVE  VerdictWithinRounding
  BY <1>0
<1>1. PICK ratio \in Rounded(health.used, health.limit) :
        health.verdict = Verdict(health.online, ratio)
  BY DEF HealthInv
<1>2. health.online \in BOOLEAN /\ health.used \in Nat /\ health.limit \in Nat \ {0}
  BY DEF HealthInv, HealthRequest
<1>3. PICK v : v = health.verdict
  OBVIOUS
<1>4. /\ v \in {"ok", "degraded", "down"}
      /\ v = "ok" => health.online /\ 2 * Unit * health.used <= 2 * 9500 * health.limit + health.limit
      /\ v = "down" => ~health.online
                         /\ 2 * Unit * health.used >= 2 * Unit * health.limit - health.limit
      /\ v = "degraded" /\ health.online => 2 * Unit * health.used > 2 * 9500 * health.limit
      /\ v = "degraded" /\ ~health.online => 2 * Unit * health.used < 2 * Unit * health.limit
  BY <1>1, <1>2, <1>3, VerdictIs
<1>5. CASE v = "ok"
  BY <1>3, <1>4, <1>5 DEF VerdictWithinRounding
<1>6. CASE v = "down"
  BY <1>3, <1>4, <1>6 DEF VerdictWithinRounding
<1>7. CASE v = "degraded"
  BY <1>3, <1>4, <1>7 DEF VerdictWithinRounding
<1> QED
  BY <1>4, <1>5, <1>6, <1>7

LEMMA HealthInvStep == HealthInv /\ [HealthNext]_health => HealthInv'
<1> SUFFICES ASSUME HealthInv, [HealthNext]_health
             PROVE  HealthInv'
  OBVIOUS
<1>1. health \in HealthRequest
  BY DEF HealthInv
<1>2. CASE HealthCount
  BY <1>1, <1>2 DEF HealthCount, HealthInv, HealthRequest
<1>3. CASE HealthProbe
  <2>1. PICK outcome \in RpcOutcome :
          health' = [health EXCEPT !.pc = "probed", !.online = (GlobalStat(outcome) = "stats")]
    BY <1>3 DEF HealthProbe
  <2>2. health' \in HealthRequest /\ health'.pc = "probed"
    BY <1>1, <2>1 DEF HealthRequest
  <2> QED
    BY <2>2 DEF HealthInv
<1>4. CASE HealthScan
  BY <1>4, HealthScanInv
<1>5. CASE HealthDone
  <2>1. health' = NoHealth
    BY <1>5 DEF HealthDone
  <2> QED
    BY <2>1 DEF HealthInv, HealthRequest, NoHealth
<1>6. CASE UNCHANGED health
  BY <1>6 DEF HealthInv
<1> QED
  BY <1>2, <1>3, <1>4, <1>5, <1>6 DEF HealthNext

\* The verdict of the health check is off by no more than the rounding of the ratio, for
\* any quota and any use.
THEOREM VerdictIsRight == HealthSpec => []VerdictWithinRounding
<1>1. HealthInit => HealthInv
  BY DEF HealthInit, HealthInv, HealthRequest, NoHealth
<1>2. HealthInv /\ [HealthNext]_health => HealthInv'
  BY HealthInvStep
<1>3. HealthInv => VerdictWithinRounding
  BY HealthVerdict
<1> QED
  BY <1>1, <1>2, <1>3, PTL DEF HealthSpec

-----------------------------------------------------------------------------
(* UrlCheck *)

\* What the first check that fails raises, and what holds when none does.
LEMMA ChecksAre ==
  ASSUME NEW u \in Url
  PROVE  /\ FailedChecks(u) = {} => Resolved(u) /\ \A a \in u.addresses : ~IsPrivate(a)
         /\ \A i \in FailedChecks(u) :
              \/ EarlyChecks(u)[i].raises = "ValueError" /\ u.syntax \in {"malformed", "bad port"}
              \/ EarlyChecks(u)[i].raises = "UnicodeError" /\ u.dns = "UnicodeError"
              \/ EarlyChecks(u)[i].raises = "InvalidProtocol" /\ u.syntax \in {"other scheme", "no host"}
              \/ EarlyChecks(u)[i].raises = "UnreachableHost" /\ u.syntax = "good" /\ ~Resolved(u)
              \/ EarlyChecks(u)[i].raises = "SSRFBlocked" /\ Resolved(u)
                                                          /\ \E a \in u.addresses : IsPrivate(a)
<1>1. DOMAIN EarlyChecks(u) = 1..7
  BY DEF EarlyChecks
<1>2. /\ EarlyChecks(u)[1].fails <=> u.syntax = "malformed"
      /\ EarlyChecks(u)[2].fails <=> u.syntax \in {"other scheme", "no host"}
      /\ EarlyChecks(u)[3].fails <=> u.syntax = "bad port"
      /\ EarlyChecks(u)[4].fails <=> u.dns = "UnicodeError"
      /\ EarlyChecks(u)[5].fails <=> u.dns = "gaierror"
      /\ EarlyChecks(u)[6].fails <=> u.addresses = {}
      /\ EarlyChecks(u)[7].fails <=> \E a \in u.addresses : IsPrivate(a)
  BY DEF EarlyChecks
<1>3. /\ EarlyChecks(u)[1].raises = "ValueError"
      /\ EarlyChecks(u)[2].raises = "InvalidProtocol"
      /\ EarlyChecks(u)[3].raises = "ValueError"
      /\ EarlyChecks(u)[4].raises = "UnicodeError"
      /\ EarlyChecks(u)[5].raises = "UnreachableHost"
      /\ EarlyChecks(u)[6].raises = "UnreachableHost"
      /\ EarlyChecks(u)[7].raises = "SSRFBlocked"
  BY DEF EarlyChecks
<1>4. ASSUME FailedChecks(u) = {}
      PROVE  /\ ~EarlyChecks(u)[1].fails /\ ~EarlyChecks(u)[2].fails /\ ~EarlyChecks(u)[3].fails
             /\ ~EarlyChecks(u)[4].fails /\ ~EarlyChecks(u)[5].fails /\ ~EarlyChecks(u)[6].fails
             /\ ~EarlyChecks(u)[7].fails
  <2>1. ASSUME NEW i \in 1..7, \A j \in 1..i - 1 : ~EarlyChecks(u)[j].fails
        PROVE  ~EarlyChecks(u)[i].fails
    BY <1>1, <1>4, <2>1 DEF FailedChecks
  <2>2. ~EarlyChecks(u)[1].fails
    BY <2>1
  <2>3. ~EarlyChecks(u)[2].fails
    BY <2>1, <2>2
  <2>4. ~EarlyChecks(u)[3].fails
    BY <2>1, <2>2, <2>3
  <2>5. ~EarlyChecks(u)[4].fails
    BY <2>1, <2>2, <2>3, <2>4
  <2>6. ~EarlyChecks(u)[5].fails
    BY <2>1, <2>2, <2>3, <2>4, <2>5
  <2>7. ~EarlyChecks(u)[6].fails
    BY <2>1, <2>2, <2>3, <2>4, <2>5, <2>6
  <2>8. ~EarlyChecks(u)[7].fails
    BY <2>1, <2>2, <2>3, <2>4, <2>5, <2>6, <2>7
  <2> QED
    BY <2>2, <2>3, <2>4, <2>5, <2>6, <2>7, <2>8
<1>5. u.syntax \in Syntax /\ u.dns \in Dns
  BY DEF Url
<1>6. FailedChecks(u) = {} => Resolved(u) /\ \A a \in u.addresses : ~IsPrivate(a)
  BY <1>2, <1>4, <1>5 DEF Syntax, Dns, Resolved
<1>7. ASSUME NEW i \in FailedChecks(u)
      PROVE  /\ i \in {1, 2, 3, 4, 5, 6, 7} /\ EarlyChecks(u)[i].fails
             /\ \A j \in 1..i - 1 : ~EarlyChecks(u)[j].fails
  <2>1. i \in 1..7
    BY <1>1, <1>7 DEF FailedChecks
  <2> QED
    BY <1>7, <2>1 DEF FailedChecks
<1>8. ASSUME NEW i \in FailedChecks(u)
      PROVE  \/ EarlyChecks(u)[i].raises = "ValueError" /\ u.syntax \in {"malformed", "bad port"}
             \/ EarlyChecks(u)[i].raises = "UnicodeError" /\ u.dns = "UnicodeError"
             \/ EarlyChecks(u)[i].raises = "InvalidProtocol" /\ u.syntax \in {"other scheme", "no host"}
             \/ EarlyChecks(u)[i].raises = "UnreachableHost" /\ u.syntax = "good" /\ ~Resolved(u)
             \/ EarlyChecks(u)[i].raises = "SSRFBlocked" /\ Resolved(u)
                                                         /\ \E a \in u.addresses : IsPrivate(a)
  <2>1. i \in {1, 2, 3, 4, 5, 6, 7} /\ EarlyChecks(u)[i].fails
    BY <1>7
  <2>2. ASSUME i \in {5, 6, 7}
        PROVE  u.syntax = "good"
    <3>1. 1 \in 1..i - 1 /\ 2 \in 1..i - 1 /\ 3 \in 1..i - 1
      BY <2>2
    <3>2. ~EarlyChecks(u)[1].fails /\ ~EarlyChecks(u)[2].fails /\ ~EarlyChecks(u)[3].fails
      BY <1>7, <3>1
    <3> QED
      BY <1>2, <1>5, <3>2 DEF Syntax
  <2>3. ASSUME i = 7
        PROVE  Resolved(u)
    <3>1. 4 \in 1..i - 1 /\ 5 \in 1..i - 1 /\ 6 \in 1..i - 1
      BY <2>3
    <3>2. ~EarlyChecks(u)[4].fails /\ ~EarlyChecks(u)[5].fails /\ ~EarlyChecks(u)[6].fails
      BY <1>7, <3>1
    <3> QED
      BY <1>2, <1>5, <2>2, <2>3, <3>2 DEF Dns, Resolved
  <2>4. CASE i \in {1, 2, 3, 4}
    BY <1>2, <1>3, <2>1, <2>4
  <2>5. CASE i = 5
    BY <1>2, <1>3, <2>1, <2>2, <2>5 DEF Resolved
  <2>6. CASE i = 6
    BY <1>2, <1>3, <2>1, <2>2, <2>6 DEF Resolved
  <2>7. CASE i = 7
    BY <1>2, <1>3, <2>1, <2>3, <2>7
  <2> QED
    BY <2>1, <2>4, <2>5, <2>6, <2>7
<1> QED
  BY <1>6, <1>8
\* The answer of an exception is in the first row with a class of it.
LEMMA AnsweredFirst ==
  ASSUME NEW exc, NEW i \in 1..6, ErrorToHttp[i][1] \in Mro(exc),
         \A j \in 1..i - 1 : ErrorToHttp[j][1] \notin Mro(exc)
  PROVE  Answered(exc) = <<ErrorToHttp[i][2], ErrorToHttp[i][3]>>
<1>1. DOMAIN ErrorToHttp = 1..6
  BY DEF ErrorToHttp
<1> DEFINE known == {j \in DOMAIN ErrorToHttp : ErrorToHttp[j][1] \in Mro(exc)}
<1>2. i \in known /\ \A j \in known : i <= j
  BY <1>1
<1>3. \A k \in known : (\A j \in known : k <= j) => k = i
  BY <1>1, <1>2
<1>4. i = CHOOSE k \in known : \A j \in known : k <= j
  BY <1>2, <1>3
<1>5. known # {}
  BY <1>2
<1> QED
  BY <1>4, <1>5, Zenon DEF Answered

LEMMA AnswersAre ==
  /\ Answered("InvalidProtocol") = <<400, "INVALID_PROTOCOL">>
  /\ Answered("SSRFBlocked") = <<403, "PRIVATE_IP_BLOCKED">>
  /\ Answered("FileTooLarge") = <<413, "FILE_TOO_LARGE">>
  /\ Answered("UnreachableHost") = <<400, "URL_VALIDATION_FAILED">>
  /\ \A exc \in {"ValueError", "UnicodeError", "UnboundLocalError"} : Answered(exc) = ServerError
<1>1. /\ ErrorToHttp[1] = <<"InvalidProtocol", 400, "INVALID_PROTOCOL">>
      /\ ErrorToHttp[2] = <<"SSRFBlocked",     403, "PRIVATE_IP_BLOCKED">>
      /\ ErrorToHttp[3] = <<"FileTooLarge",    413, "FILE_TOO_LARGE">>
      /\ ErrorToHttp[4] = <<"SecurityError",   400, "URL_VALIDATION_FAILED">>
      /\ ErrorToHttp[5] = <<"PrivateIP",       403, "PRIVATE_IP_BLOCKED">>
      /\ ErrorToHttp[6] = <<"DNSRebinding",    403, "DNS_REBINDING_BLOCKED">>
      /\ DOMAIN ErrorToHttp = 1..6
  BY DEF ErrorToHttp
<1>2. /\ \A exc \in {"InvalidProtocol", "SSRFBlocked", "FileTooLarge", "UnreachableHost"} :
           Mro(exc) = {exc, "SecurityError"}
      /\ \A exc \in {"ValueError", "UnicodeError", "UnboundLocalError"} : Mro(exc) = {exc}
  BY DEF Mro
<1>3. Answered("InvalidProtocol") = <<400, "INVALID_PROTOCOL">>
  <2>1. ErrorToHttp[1][1] \in Mro("InvalidProtocol")
    BY <1>1, <1>2
  <2>2. Answered("InvalidProtocol") = <<ErrorToHttp[1][2], ErrorToHttp[1][3]>>
    BY <2>1, AnsweredFirst
  <2> QED
    BY <1>1, <2>2
<1>4. Answered("SSRFBlocked") = <<403, "PRIVATE_IP_BLOCKED">>
  <2>1. ErrorToHttp[2][1] \in Mro("SSRFBlocked")
    BY <1>1, <1>2
  <2>2. \A j \in 1..2 - 1 : ErrorToHttp[j][1] \notin Mro("SSRFBlocked")
    BY <1>1, <1>2
  <2>3. Answered("SSRFBlocked") = <<ErrorToHttp[2][2], ErrorToHttp[2][3]>>
    BY <2>1, <2>2, AnsweredFirst
  <2> QED
    BY <1>1, <2>3
<1>5. Answered("FileTooLarge") = <<413, "FILE_TOO_LARGE">>
  <2>1. ErrorToHttp[3][1] \in Mro("FileTooLarge")
    BY <1>1, <1>2
  <2>2. \A j \in 1..3 - 1 : ErrorToHttp[j][1] \notin Mro("FileTooLarge")
    BY <1>1, <1>2
  <2>3. Answered("FileTooLarge") = <<ErrorToHttp[3][2], ErrorToHttp[3][3]>>
    BY <2>1, <2>2, AnsweredFirst
  <2> QED
    BY <1>1, <2>3
<1>6. Answered("UnreachableHost") = <<400, "URL_VALIDATION_FAILED">>
  <2>1. ErrorToHttp[4][1] \in Mro("UnreachableHost")
    BY <1>1, <1>2
  <2>2. \A j \in 1..4 - 1 : ErrorToHttp[j][1] \notin Mro("UnreachableHost")
    BY <1>1, <1>2
  <2>3. Answered("UnreachableHost") = <<ErrorToHttp[4][2], ErrorToHttp[4][3]>>
    BY <2>1, <2>2, AnsweredFirst
  <2> QED
    BY <1>1, <2>3
<1>7. ASSUME NEW exc \in {"ValueError", "UnicodeError", "UnboundLocalError"}
      PROVE  Answered(exc) = ServerError
  <2>1. \A j \in DOMAIN ErrorToHttp : ErrorToHttp[j][1] \notin Mro(exc)
    BY <1>1, <1>2
  <2>2. {j \in DOMAIN ErrorToHttp : ErrorToHttp[j][1] \in Mro(exc)} = {}
    BY <2>1
  <2> QED
    BY <2>2, Zenon DEF Answered
<1> QED
  BY <1>3, <1>4, <1>5, <1>6, <1>7

\* What the checks let pass.
LEMMA AdmittedIs ==
  ASSUME NEW a \in Address
  PROVE  Admitted(a) <=> ~IsPrivate(a)
<1>1. a.form \in {"v4", "mapped", "nat64", "v6", "junk"} /\ (a.form = "junk" => a.class = "none")
  BY DEF Address, Junk
<1>2. a = [form |-> "v6", class |-> "reserved"] <=> a.form = "v6" /\ a.class = "reserved"
  BY DEF Address, Junk
<1>3. a.form \in {"v4", "mapped", "nat64"} => a.class \in IPv4Class
  BY DEF Address, Junk
<1>4. a.form = "v6" => a.class \in IPv6Class
  BY DEF Address, Junk
<1> QED
  BY <1>1, <1>2, <1>3, <1>4 DEF Admitted, IsPrivate, IPv4Blocked, IPv6Blocked, IPv4Class, IPv6Class

PostPc == {"idle", "head", "enqueue", "answered"}

\* What the route can answer.
Replies == {Created, ServerError, <<400, "INVALID_PROTOCOL">>, <<403, "PRIVATE_IP_BLOCKED">>,
            <<413, "FILE_TOO_LARGE">>, <<400, "URL_VALIDATION_FAILED">>}

Posts == [pc : PostPc, url : Urls \cup {"none"}, client : BOOLEAN, redirects : Nat,
          answer : HeadAnswer, reply : Replies]

AllAdmitted(u) == \A a \in u.addresses : Admitted(a)

\* The answers that can be given, with what justifies each.
Justified(reply, u, answer) ==
  \/ reply = ServerError /\ \/ u.syntax \in {"malformed", "bad port"}
                            \/ u.dns = "UnicodeError"
                            \/ answer.is = "fails"
                            \/ Passes(u, answer)
  \/ reply = <<400, "INVALID_PROTOCOL">> /\ u.syntax \in {"other scheme", "no host"}
  \/ reply = <<403, "PRIVATE_IP_BLOCKED">> /\ Resolved(u) /\ ~AllAdmitted(u)
  \/ reply = <<413, "FILE_TOO_LARGE">> /\ Resolved(u) /\ AllAdmitted(u) /\ TooLarge(answer)
  \/ reply = <<400, "URL_VALIDATION_FAILED">> /\ u.syntax = "good" /\ ~Resolved(u)
  \/ reply = Created /\ Passes(u, answer)

\* From the HEAD request on the URL is one to which no earlier row of the table applies, and
\* the client is open during that request, and after it only when it failed.
PostInv ==
  /\ post \in Posts
  /\ post.pc # "idle" => post.url \in Urls
  /\ post.pc = "head" => Resolved(post.url) /\ AllAdmitted(post.url)
  /\ post.pc = "enqueue" => Passes(post.url, post.answer)
  /\ post.client => post.pc = "head" \/ (post.pc = "answered" /\ post.answer.is = "fails")
  /\ post.pc = "answered" => Justified(post.reply, post.url, post.answer)

LEMMA HeadAnswers ==
  /\ NoAnswer \in HeadAnswer /\ Failure \in HeadAnswer /\ Failure.is = "fails"
  /\ \A answer \in HeadAnswer \ {NoAnswer, Failure} : answer.is \notin {"none", "fails"}
  BY DEF HeadAnswer, NoAnswer, Failure

LEMMA RepliesType ==
  /\ Created \in Replies /\ ServerError \in Replies
  /\ <<400, "INVALID_PROTOCOL">> \in Replies
  /\ <<403, "PRIVATE_IP_BLOCKED">> \in Replies
  /\ <<413, "FILE_TOO_LARGE">> \in Replies
  /\ <<400, "URL_VALIDATION_FAILED">> \in Replies
  BY Zenon DEF Replies

LEMMA RepliesWords ==
  /\ Created[2] = "queued" /\ ServerError[2] = "Internal Server Error"
  /\ <<400, "INVALID_PROTOCOL">>[2] = "INVALID_PROTOCOL"
  /\ <<403, "PRIVATE_IP_BLOCKED">>[2] = "PRIVATE_IP_BLOCKED"
  /\ <<413, "FILE_TOO_LARGE">>[2] = "FILE_TOO_LARGE"
  /\ <<400, "URL_VALIDATION_FAILED">>[2] = "URL_VALIDATION_FAILED"
  BY DEF Created, ServerError

LEMMA AddressesAre ==
  ASSUME NEW u \in Urls
  PROVE  u \in Url /\ u.addresses \subseteq Address
  BY UrlAssumption DEF Url

LEMMA PostReceiveInv ==
  ASSUME PostInv, NEW u \in Urls, PostReceive(u)
  PROVE  PostInv'
<1>1. u \in Url /\ \A a \in u.addresses : Admitted(a) <=> ~IsPrivate(a)
  BY AddressesAre, AdmittedIs
<1>2. post.pc = "idle" /\ post.client = FALSE
  BY DEF PostReceive, PostInv, Posts
<1>3. CASE FailedChecks(u) = {} /\ post' = [post EXCEPT !.pc = "head", !.url = u, !.client = TRUE]
  <2>1. Resolved(u) /\ AllAdmitted(u)
    BY <1>1, <1>3, ChecksAre DEF AllAdmitted
  <2>2. /\ post' \in Posts
        /\ post'.pc = "head" /\ post'.url = u
    BY <1>3 DEF PostInv, PostPc, Posts
  <2> QED
    BY <2>1, <2>2 DEF PostInv
<1>4. ASSUME NEW i \in FailedChecks(u),
             post' = [post EXCEPT !.pc = "answered", !.url = u,
                                  !.reply = Answered(EarlyChecks(u)[i].raises)]
      PROVE  PostInv'
  <2>1. PICK exc : exc = EarlyChecks(u)[i].raises
    OBVIOUS
  <2>2. \/ exc = "ValueError" /\ u.syntax \in {"malformed", "bad port"}
        \/ exc = "UnicodeError" /\ u.dns = "UnicodeError"
        \/ exc = "InvalidProtocol" /\ u.syntax \in {"other scheme", "no host"}
        \/ exc = "UnreachableHost" /\ u.syntax = "good" /\ ~Resolved(u)
        \/ exc = "SSRFBlocked" /\ Resolved(u) /\ \E a \in u.addresses : IsPrivate(a)
    BY <1>1, <2>1, ChecksAre
  <2>3. Justified(Answered(exc), u, post.answer)
    <3>1. CASE exc \in {"ValueError", "UnicodeError"}
      <4>1. Answered(exc) = ServerError
        BY <3>1, AnswersAre
      <4> QED
        BY <2>2, <3>1, <4>1 DEF Justified
    <3>2. CASE exc = "InvalidProtocol"
      BY <2>2, <3>2, AnswersAre DEF Justified
    <3>3. CASE exc = "UnreachableHost"
      BY <2>2, <3>3, AnswersAre DEF Justified
    <3>4. CASE exc = "SSRFBlocked"
      BY <1>1, <2>2, <3>4, AnswersAre DEF Justified, AllAdmitted
    <3> QED
      BY <2>2, <3>1, <3>2, <3>3, <3>4
  <2>4. Answered(exc) \in Replies
    <3>1. CASE exc \in {"ValueError", "UnicodeError"}
      <4>1. Answered(exc) = ServerError
        BY <3>1, AnswersAre
      <4> QED
        BY <4>1, RepliesType
    <3>2. CASE exc = "InvalidProtocol"
      BY <3>2, AnswersAre, RepliesType, Zenon
    <3>3. CASE exc = "UnreachableHost"
      BY <3>3, AnswersAre, RepliesType, Zenon
    <3>4. CASE exc = "SSRFBlocked"
      BY <3>4, AnswersAre, RepliesType, Zenon
    <3> QED
      BY <2>2, <3>1, <3>2, <3>3, <3>4
  <2>5. /\ post' \in Posts
        /\ post'.pc = "answered" /\ post'.url = u /\ post'.client = post.client
        /\ post'.answer = post.answer /\ post'.reply = Answered(exc)
    BY <1>4, <2>1, <2>4 DEF PostInv, PostPc, Posts
  <2> QED
    BY <1>2, <2>3, <2>5 DEF PostInv
<1> QED
  BY <1>3, <1>4 DEF PostReceive

LEMMA HeadInv ==
  ASSUME PostInv, HeadRedirected \/ HeadFails \/ HeadTooLarge \/ HeadAccepts
  PROVE  PostInv'
<1>1. /\ post \in Posts
      /\ post.pc = "head" /\ post.url \in Urls
      /\ Resolved(post.url) /\ AllAdmitted(post.url)
  BY DEF HeadRedirected, HeadFails, HeadTooLarge, HeadAccepts, PostInv
<1>2. CASE HeadRedirected
  <2>1. /\ post' \in Posts
        /\ post'.pc = "head" /\ post'.url = post.url
    BY <1>1, <1>2 DEF HeadRedirected, Posts
  <2> QED
    BY <1>1, <2>1 DEF PostInv
<1>3. CASE HeadFails
  <2>1. post' = [[post EXCEPT !.pc = "answered", !.reply = ServerError] EXCEPT !.answer = Failure]
    BY <1>3, AnswersAre DEF HeadFails, Reply
  <2>2. /\ post' \in Posts
        /\ post'.pc = "answered" /\ post'.url = post.url /\ post'.reply = ServerError
        /\ post'.answer = Failure
    BY <1>1, <2>1, RepliesType, HeadAnswers DEF PostPc, Posts
  <2> QED
    BY <1>1, <2>2, HeadAnswers DEF PostInv, Justified
<1>4. CASE HeadTooLarge
  <2>1. PICK answer \in HeadAnswer :
          /\ TooLarge(answer)
          /\ post' = [[post EXCEPT !.pc = "answered", !.reply = <<413, "FILE_TOO_LARGE">>]
                        EXCEPT !.answer = answer, !.client = FALSE]
    BY <1>4, AnswersAre DEF HeadTooLarge, Reply
  <2>2. /\ post' \in Posts
        /\ post'.pc = "answered" /\ post'.url = post.url /\ post'.client = FALSE
        /\ post'.reply = <<413, "FILE_TOO_LARGE">> /\ post'.answer = answer
    BY <1>1, <2>1, RepliesType DEF PostPc, Posts
  <2>3. Justified(<<413, "FILE_TOO_LARGE">>, post.url, answer)
    BY <1>1, <2>1 DEF Justified
  <2> QED
    BY <1>1, <2>2, <2>3 DEF PostInv
<1>5. CASE HeadAccepts
  <2>1. PICK answer \in HeadAnswer \ {NoAnswer, Failure} :
          /\ ~TooLarge(answer)
          /\ post' = [post EXCEPT !.pc = "enqueue", !.client = FALSE, !.answer = answer]
    BY <1>5 DEF HeadAccepts
  <2>2. /\ post' \in Posts
        /\ post'.pc = "enqueue" /\ post'.url = post.url /\ post'.client = FALSE
        /\ post'.answer = answer
    BY <1>1, <2>1 DEF PostPc, Posts
  <2>3. Passes(post.url, answer)
    BY <1>1, <2>1, HeadAnswers DEF Passes, AllAdmitted
  <2> QED
    BY <1>1, <2>2, <2>3 DEF PostInv
<1> QED
  BY <1>2, <1>3, <1>4, <1>5

LEMMA PostEnqueueInv ==
  ASSUME PostInv, PostEnqueue
  PROVE  PostInv'
<1>1. PICK reply \in {Created, ServerError} :
        post' = [post EXCEPT !.pc = "answered", !.reply = reply]
  BY DEF PostEnqueue
<1>2. /\ post.pc = "enqueue" /\ post.client = FALSE /\ post.url \in Urls
      /\ Passes(post.url, post.answer)
  BY DEF PostEnqueue, PostInv
<1>3. /\ post' \in Posts
      /\ post'.pc = "answered" /\ post'.url = post.url /\ post'.client = FALSE
      /\ post'.reply = reply /\ post'.answer = post.answer
  BY <1>1, <1>2, RepliesType DEF PostInv, PostPc, Posts
<1>4. Justified(reply, post.url, post.answer)
  BY <1>2 DEF Justified
<1> QED
  BY <1>2, <1>3, <1>4 DEF PostInv

LEMMA NoPostInv ==
  ASSUME post = NoPost
  PROVE  PostInv
<1>1. /\ post \in Posts
      /\ post.pc = "idle" /\ post.client = FALSE
  BY RepliesType, HeadAnswers DEF NoPost, PostPc, Posts
<1> QED
  BY <1>1 DEF PostInv

LEMMA PostInvStep == PostInv /\ [PostNext]_post => PostInv'
<1> SUFFICES ASSUME PostInv, [PostNext]_post
             PROVE  PostInv'
  OBVIOUS
<1>1. CASE PostDone
  <2>1. post' = NoPost
    BY <1>1 DEF PostDone
  <2>2. /\ post' \in Posts
        /\ post'.pc = "idle" /\ post'.client = FALSE
    BY <2>1, RepliesType, HeadAnswers DEF NoPost, PostPc, Posts
  <2> QED
    BY <2>2 DEF PostInv
<1>2. CASE UNCHANGED post
  BY <1>2 DEF PostInv
<1> QED
  BY <1>1, <1>2, PostReceiveInv, HeadInv, PostEnqueueInv DEF PostNext

\* The invariant of a POST: whatever URL it brings, from the HEAD request on the checks are
\* behind it, and its answer is one that its URL justifies.
THEOREM PostInvariant == PostSpec => []PostInv
<1>1. PostInit => PostInv
  BY NoPostInv DEF PostInit
<1>2. PostInv /\ [PostNext]_post => PostInv'
  BY PostInvStep
<1> QED
  BY <1>1, <1>2, PTL DEF PostSpec

\* The client of a HEAD request that got an answer is closed when the POST is answered.
THEOREM HeadClientsClosed == PostSpec => []ClientsClosed
<1>1. PostInv => ClientsClosed
  BY DEF PostInv, ClientsClosed
<1> QED
  BY <1>1, PostInvariant, PTL

\* Each answer is given for its reason only, for any set of URLs and lengths.
THEOREM AnswersAreJustified == PostSpec => []AnswersJustified
<1>1. PostInv => AnswersJustified
  <2> SUFFICES ASSUME PostInv, post.pc = "answered"
               PROVE  AnswersJustified
    BY DEF AnswersJustified
  <2>1. Justified(post.reply, post.url, post.answer)
    BY DEF PostInv
  <2>2. PICK reply, word : reply = post.reply /\ word = reply[2]
    OBVIOUS
  <2>3. CASE /\ reply = ServerError
             /\ \/ post.url.syntax \in {"malformed", "bad port"}
                \/ post.url.dns = "UnicodeError"
                \/ post.answer.is = "fails"
                \/ Passes(post.url, post.answer)
    <3>1. word = "Internal Server Error"
      BY <2>2, <2>3, RepliesWords, Zenon
    <3> QED
      BY <2>2, <2>3, <3>1, ZenonT(60) DEF AnswersJustified
  <2>4. CASE /\ reply = <<400, "INVALID_PROTOCOL">>
             /\ post.url.syntax \in {"other scheme", "no host"}
    <3>1. word = "INVALID_PROTOCOL"
      BY <2>2, <2>4, RepliesWords, Zenon
    <3> QED
      BY <2>2, <2>4, <3>1, RepliesWords, Zenon DEF AnswersJustified, AllAdmitted
  <2>5. CASE /\ reply = <<403, "PRIVATE_IP_BLOCKED">>
             /\ Resolved(post.url) /\ ~AllAdmitted(post.url)
    <3>1. word = "PRIVATE_IP_BLOCKED"
      BY <2>2, <2>5, RepliesWords, Zenon
    <3> QED
      BY <2>2, <2>5, <3>1, RepliesWords, Zenon DEF AnswersJustified, AllAdmitted
  <2>6. CASE /\ reply = <<413, "FILE_TOO_LARGE">>
             /\ Resolved(post.url) /\ AllAdmitted(post.url) /\ TooLarge(post.answer)
    <3>1. word = "FILE_TOO_LARGE"
      BY <2>2, <2>6, RepliesWords, Zenon
    <3> QED
      BY <2>2, <2>6, <3>1, RepliesWords, Zenon DEF AnswersJustified, AllAdmitted
  <2>7. CASE /\ reply = <<400, "URL_VALIDATION_FAILED">>
             /\ post.url.syntax = "good" /\ ~Resolved(post.url)
    <3>1. word = "URL_VALIDATION_FAILED"
      BY <2>2, <2>7, RepliesWords, Zenon
    <3> QED
      BY <2>2, <2>7, <3>1, RepliesWords, Zenon DEF AnswersJustified, AllAdmitted
  <2>8. CASE /\ reply = Created
             /\ Passes(post.url, post.answer)
    <3>1. word = "queued"
      BY <2>2, <2>8, RepliesWords, Zenon
    <3> QED
      BY <2>2, <2>8, <3>1, RepliesWords, Zenon DEF AnswersJustified, AllAdmitted
  <2> QED
    BY <2>1, <2>2, <2>3, <2>4, <2>5, <2>6, <2>7, <2>8 DEF Justified
<1> QED
  BY <1>1, PostInvariant, PTL

-----------------------------------------------------------------------------
(***************************************************************************)
(* TaskFile.  Names lose their directories before anybody uses them, the   *)
(* three names of a completed file are one, and nothing changes it while a *)
(* link is out.                                                            *)
(***************************************************************************)

Clean == Char \ {"/", "ctl"}

FileRecord ==
  [status : {"none", "queued", "downloading", "completed", "failed", "expired"},
   name : Seq(Clean), path : Seq(Clean),
   aria : {"none", "active", "opened", "complete", "error"},
   saved : Seq(Clean), url : Seq(Clean),
   reply : {"none", "OK", "TOKEN_MISSING", "DOWNLOAD_NOT_AVAILABLE", "FILE_NOT_FOUND"}]

\* Before the first GET that found the task completed.
Unseen == file.url = NoName /\ file.reply = "none"

FileInv ==
  /\ file \in FileRecord
  /\ file.status \in {"none", "queued"} => file.aria = "none" /\ file.saved = NoName
  /\ file.status = "queued" /\ file.name # NoName => file.name[1] # "."
  /\ file.status = "downloading" => file.name \in {NoName, file.saved}
  /\ file.status = "completed" => file.aria = "complete" /\ file.path = file.saved
  /\ file.aria \in {"opened", "complete"} => file.saved # NoName
  /\ file.aria = "complete" \/ Unseen
  /\ file.status \in {"none", "queued", "downloading"} => Unseen
  /\ file.url \in {NoName, file.saved}
  /\ UrlLeadsToFile

(* What the operators on names do to any string *)

\* A set of numbers up to n has a largest one: the one with the fewest above it.
LEMMA MaxIs ==
  ASSUME NEW n \in Nat, NEW I \in SUBSET (0..n), I # {}
  PROVE  Max(I) \in I /\ \A i \in I : i <= Max(I)
<1> DEFINE Above(i) == {j \in I : j >= i}
           T == {Above(i) : i \in I}
           Rel == StrictSubsetOrdering(I)
<1>1. IsFiniteSet(I)
  <2>1. IsFiniteSet(0..n)
    BY FS_Interval
  <2> QED
    BY <2>1, FS_Subset
<1>2. T # {} /\ T \subseteq FiniteSubsetsOf(I)
  <2>1. FiniteSubsetsOf(I) = SUBSET I
    BY <1>1, FS_FiniteSubsetsOfFinite
  <2>2. \A i \in I : Above(i) \in SUBSET I
    OBVIOUS
  <2>3. T \subseteq SUBSET I
    BY <2>2
  <2>4. T # {}
    OBVIOUS
  <2> QED
    BY <2>1, <2>3, <2>4
<1>3. IsWellFoundedOn(Rel, FiniteSubsetsOf(I))
  BY FS_StrictSubsetOrderingWellFounded
<1>4. \E S \in T : \A R \in T : ~ (<<R, S>> \in Rel)
  <2> HIDE DEF T, Rel
  <2> QED
    BY <1>2, <1>3, WFMin
<1>5. PICK m \in I : \A i \in I : ~ (<<Above(i), Above(m)>> \in Rel)
  BY <1>4
<1>6. ASSUME NEW i \in I
      PROVE  i <= m
  <2> SUFFICES ASSUME i > m
               PROVE  FALSE
    OBVIOUS
  <2>0. \A j \in I : j \in Nat
    OBVIOUS
  <2>1. Above(i) \subseteq Above(m) /\ m \in Above(m) /\ m \notin Above(i)
    <3>1. m \in Nat /\ i \in Nat /\ i > m
      BY <2>0
    <3>2. \A j \in I : j >= i => j >= m
      BY <2>0, <3>1
    <3>3. m >= m /\ ~(m >= i)
      BY <3>1
    <3> QED
      BY <3>2, <3>3
  <2>2. <<Above(i), Above(m)>> \in Rel
    BY <2>1 DEF StrictSubsetOrdering
  <2> QED
    BY <1>5, <2>2
<1> QED
  BY <1>6 DEF Max

\* ... and a smallest one.
LEMMA MinIs ==
  ASSUME NEW n \in Nat, NEW I \in SUBSET (0..n), I # {}
  PROVE  Min(I) \in I /\ \A i \in I : Min(I) <= i
<1> DEFINE J == {n - i : i \in I}
<1>1. J \in SUBSET (0..n) /\ J # {}
  <2>1. \A i \in I : n - i \in 0..n
    OBVIOUS
  <2> QED
    BY <2>1
<1>2. Max(J) \in J /\ \A j \in J : j <= Max(J)
  <2> HIDE DEF J
  <2> QED
    BY <1>1, MaxIs
<1>3. PICK m \in I : Max(J) = n - m
  BY <1>2
<1>4. \A i \in I : n - i <= n - m
  BY <1>2, <1>3
<1>5. \A i \in I : m <= i
  BY <1>4
<1> QED
  BY <1>5 DEF Min

\* A part of a string is a string of its characters.
LEMMA PartIs ==
  ASSUME NEW S, NEW s \in Seq(S), NEW m \in Nat \ {0}, NEW n \in 0..Len(s)
  PROVE  /\ SubSeq(s, m, n) \in Seq(S)
         /\ Len(SubSeq(s, m, n)) = IF m <= n THEN n - m + 1 ELSE 0
         /\ \A i \in 1..n - m + 1 : SubSeq(s, m, n)[i] = s[m + i - 1]
<1>1. Len(s) \in Nat /\ \A i \in m..n : s[i] \in S
  BY LenProperties
<1> QED
  BY <1>1, SubSeqProperties

LEMMA RStripIs ==
  ASSUME NEW S, NEW s \in Seq(S), NEW c
  PROVE  RStrip(s, c) \in Seq(S)
<1> DEFINE I == {i \in 1..Len(s) : s[i] # c}
           last == IF I # {} THEN Max(I) ELSE 0
<1>1. RStrip(s, c) = SubSeq(s, 1, last)
  BY DEF RStrip, SelectLastInSeq
<1>2. Len(s) \in Nat
  BY LenProperties
<1>3. last \in 0..Len(s)
  <2>1. I \in SUBSET (0..Len(s)) /\ I \subseteq 1..Len(s)
    BY <1>2
  <2>2. I # {} => Max(I) \in I
    <3> HIDE DEF I
    <3> QED
      BY <1>2, <2>1, MaxIs
  <2> QED
    BY <1>2, <2>1, <2>2
<1> HIDE DEF last
<1> QED
  BY <1>1, <1>3, PartIs

\* What is left after dots were taken off starts with something else.
LEMMA LStripIs ==
  ASSUME NEW S, NEW s \in Seq(S), NEW c
  PROVE  LStrip(s, c) \in Seq(S) /\ (LStrip(s, c) # <<>> => LStrip(s, c)[1] # c)
<1> DEFINE I == {i \in 1..Len(s) + 1 : i \in DOMAIN s => s[i] # c}
           t == LStrip(s, c)
<1>1. Len(s) \in Nat /\ DOMAIN s = 1..Len(s)
  BY LenProperties
<1>2. I \in SUBSET (0..Len(s) + 1) /\ Len(s) + 1 \in I
  BY <1>1
<1>3. Min(I) \in I
  <2> HIDE DEF I
  <2>1. Len(s) + 1 \in Nat
    BY <1>1
  <2> QED
    BY <1>2, <2>1, MinIs
<1>. PICK m \in 1..Len(s) + 1 : m = Min(I) /\ (m \in DOMAIN s => s[m] # c)
  BY <1>3
<1>4. t = SubSeq(s, m, Len(s))
  BY DEF LStrip
<1>5. /\ t \in Seq(S)
      /\ Len(t) = IF m <= Len(s) THEN Len(s) - m + 1 ELSE 0
      /\ \A i \in 1..Len(s) - m + 1 : t[i] = s[m + i - 1]
  <2> HIDE DEF t
  <2>1. m \in Nat \ {0} /\ Len(s) \in 0..Len(s)
    BY <1>1
  <2> QED
    BY <1>4, <2>1, PartIs
<1>6. ASSUME t # <<>>
      PROVE  t[1] # c
  <2>1. m \in 1..Len(s)
    BY <1>1, <1>5, <1>6, EmptySeq
  <2>2. t[1] = s[m]
    BY <1>1, <1>5, <2>1
  <2> QED
    BY <1>1, <2>1, <2>2
<1> QED
  BY <1>5, <1>6

\* A base name has no directory, and is the name when that has none.
LEMMA BasenameIs ==
  ASSUME NEW S, NEW s \in Seq(S)
  PROVE  /\ Basename(s) \in Seq(S \ {"/"})
         /\ "/" \notin S => Basename(s) = s
<1> DEFINE I == {i \in 1..Len(s) : s[i] = "/"}
           last == IF I # {} THEN Max(I) ELSE 0
<1>1. Basename(s) = SubSeq(s, 1 + last, Len(s))
  BY DEF Basename, SelectLastInSeq
<1>2. Len(s) \in Nat /\ \A i \in 1..Len(s) : s[i] \in S
  BY LenProperties
<1>3. last \in 0..Len(s) /\ \A i \in I : i <= last
  <2>0. I \in SUBSET (0..Len(s)) /\ I \subseteq 1..Len(s)
    BY <1>2
  <2>1. I # {} => Max(I) \in I /\ \A i \in I : i <= Max(I)
    <3> HIDE DEF I
    <3> QED
      BY <1>2, <2>0, MaxIs
  <2> QED
    BY <1>2, <2>0, <2>1
<1>4. "/" \notin S => last = 0
  BY <1>2
<1>. PICK k \in 0..Len(s) : k = last
  BY <1>3
<1>5. \A i \in 1 + k..Len(s) : s[i] \in S \ {"/"}
  BY <1>2, <1>3
<1>6. SubSeq(s, 1 + k, Len(s)) \in Seq(S \ {"/"})
  BY <1>2, <1>5, SubSeqProperties
<1>7. "/" \notin S => SubSeq(s, 1 + k, Len(s)) = s
  BY <1>4, SubSeqFull
<1> QED
  BY <1>1, <1>6, <1>7

LEMMA ReplaceAllIs ==
  ASSUME NEW S, NEW s \in Seq(S), NEW old, NEW new
  PROVE  ReplaceAll(s, old, new) \in Seq((S \ {old}) \cup {new})
<1> DEFINE T == (S \ {old}) \cup {new}
<1>1. Len(s) \in Nat /\ \A i \in 1..Len(s) : s[i] \in S
  BY LenProperties
<1>2. ReplaceAll(s, old, new) \in [1..Len(s) -> T]
  BY <1>1 DEF ReplaceAll
<1> QED
  BY <1>1, <1>2, SeqDef

\* A string without the character stays as it is.
LEMMA NothingReplaced ==
  ASSUME NEW S, NEW s \in Seq(S), NEW old, old \notin Range(s), NEW new
  PROVE  ReplaceAll(s, old, new) = s
<1>1. DOMAIN s = 1..Len(s) /\ s \in [1..Len(s) -> S]
  BY LenProperties
<1>2. \A i \in 1..Len(s) : s[i] # old
  BY <1>1 DEF Range
<1> QED
  BY <1>1, <1>2 DEF ReplaceAll

\* The first character is one that was there, or the new one.
LEMMA ReplacedFirst ==
  ASSUME NEW S, NEW s \in Seq(S), s # <<>>, NEW old, NEW new
  PROVE  ReplaceAll(s, old, new) # <<>> /\ ReplaceAll(s, old, new)[1] \in {s[1], new}
<1> DEFINE t == ReplaceAll(s, old, new)
<1>1. Len(s) \in Nat \ {0}
  BY EmptySeq
<1>2. t = [i \in 1..Len(s) |-> IF s[i] = old THEN new ELSE s[i]]
  BY DEF ReplaceAll
<1>3. t # <<>>
  <2>1. 1 \in DOMAIN t
    BY <1>1, <1>2
  <2>2. DOMAIN <<>> = {}
    OBVIOUS
  <2> HIDE DEF t
  <2> QED
    BY <2>1, <2>2
<1>4. t[1] \in {s[1], new}
  BY <1>1, <1>2
<1> QED
  BY <1>3, <1>4

\* A cut keeps the first character.
LEMMA CutIs ==
  ASSUME NEW S, NEW s \in Seq(S), s # <<>>
  PROVE  /\ Cut(s) \in Seq(S) /\ Cut(s) # <<>>
         /\ Cut(s)[1] = s[1]
<1>1. Len(s) \in Nat \ {0} /\ MaxName \in Nat \ {0}
  BY EmptySeq, NamesAssumption
<1>. PICK n \in 1..Len(s) : n = IF Len(s) < MaxName THEN Len(s) ELSE MaxName
  BY <1>1
<1>2. Cut(s) = SubSeq(s, 1, n)
  BY DEF Cut
<1>3. Cut(s) \in Seq(S) /\ Len(Cut(s)) = n /\ Cut(s)[1] = s[1]
  BY <1>1, <1>2, PartIs
<1> QED
  BY <1>3, EmptySeq

\* Whatever a POST asks for, the name that is kept is one visible name.
LEMMA SafeFilenameIs ==
  ASSUME NEW name \in Seq(Char)
  PROVE  /\ SafeFilename(name) \in Seq(Clean)
         /\ SafeFilename(name) # <<>> /\ SafeFilename(name)[1] # "."
<1> DEFINE slashes == ReplaceAll(name, "\\", "/")
           base == Basename(RStrip(slashes, "/"))
           visible == Or(LStrip(base, "."), <<"unnamed">>)
           printable == ReplaceAll(visible, "ctl", "_")
<1>1. SafeFilename(name) = Cut(printable)
  BY DEF SafeFilename
<1>2. slashes \in Seq(Char)
  <2>1. slashes \in Seq((Char \ {"\\"}) \cup {"/"})
    BY ReplaceAllIs
  <2>2. (Char \ {"\\"}) \cup {"/"} \subseteq Char
    BY DEF Char
  <2> HIDE DEF slashes
  <2> QED
    BY <2>1, <2>2, SeqMonotonic
<1>3. base \in Seq(Char \ {"/"})
  <2> HIDE DEF slashes
  <2> QED
    BY <1>2, RStripIs, BasenameIs
<1>4. LStrip(base, ".") \in Seq(Char \ {"/"}) /\ (LStrip(base, ".") # <<>> => LStrip(base, ".")[1] # ".")
  <2> HIDE DEF base
  <2> QED
    BY <1>3, LStripIs
<1>5. visible \in Seq(Char \ {"/"}) /\ visible # <<>> /\ visible[1] # "."
  <2>1. <<"unnamed">> \in Seq(Char \ {"/"}) /\ <<"unnamed">> # <<>> /\ <<"unnamed">>[1] = "unnamed"
    <3>1. "unnamed" \in Char \ {"/"}
      BY DEF Char
    <3> HIDE DEF base
    <3>2. \A S : \A c \in S : <<c>> \in Seq(S) /\ <<c>> # <<>> /\ <<c>>[1] = c
      OBVIOUS
    <3> QED
      BY <3>1, <3>2
  <2> HIDE DEF base
  <2> QED
    BY <1>4, <2>1 DEF Or
<1>6. /\ printable \in Seq(((Char \ {"/"}) \ {"ctl"}) \cup {"_"})
      /\ printable # <<>> /\ printable[1] # "."
  <2> HIDE DEF visible
  <2>1. "_" # "."
    OBVIOUS
  <2> QED
    BY <1>5, <2>1, ReplaceAllIs, ReplacedFirst
<1>7. ((Char \ {"/"}) \ {"ctl"}) \cup {"_"} = Clean
  BY DEF Char, Clean
<1> HIDE DEF printable
<1>8. printable \in Seq(Clean)
  BY <1>6, <1>7
<1> QED
  BY <1>1, <1>6, <1>8, CutIs

\* What tellStatus tells of a file in the directory of its task is its name.
LEMMA ToldIs ==
  ASSUME FileInv
  PROVE  Told = file.saved
<1>1. file.saved \in Seq(Clean) /\ "/" \notin Clean
  BY DEF FileInv, FileRecord, Clean
<1> QED
  BY <1>1, BasenameIs DEF Told

LEMMA ForgottenInv ==
  ASSUME file' = NoFile
  PROVE  FileInv'
<1>1. <<>> \in Seq(Clean)
  OBVIOUS
<1> QED
  BY <1>1 DEF FileInv, FileRecord, NoFile, NoName, Unseen, UrlLeadsToFile

LEMMA CreateFileInv ==
  ASSUME FileInv, NEW requested \in Requested, CreateFile(requested)
  PROVE  FileInv'
<1> DEFINE name == IF requested = NoName THEN NoName ELSE SafeFilename(requested)
<1>1. name \in Seq(Clean) /\ (name # NoName => name[1] # ".")
  <2>1. requested \in Seq(Char) /\ <<>> \in Seq(Clean)
    BY NamesAssumption
  <2> QED
    BY <2>1, SafeFilenameIs DEF NoName
<1> HIDE DEF name
<1>2. /\ file' = [file EXCEPT !.status = "queued", !.name = name]
      /\ file.status = "none"
  BY DEF CreateFile, name
<1>3. /\ file' \in FileRecord /\ file'.status = "queued" /\ file'.name = name
      /\ file'.aria = file.aria /\ file'.saved = file.saved
      /\ file'.url = file.url /\ file'.reply = file.reply
  BY <1>1, <1>2 DEF FileInv, FileRecord
<1> QED
  BY <1>1, <1>2, <1>3 DEF FileInv, Unseen, UrlLeadsToFile

LEMMA StartFileInv ==
  ASSUME FileInv, StartFile
  PROVE  FileInv'
<1>1. /\ file' \in FileRecord /\ file'.status = "downloading" /\ file'.aria = "active"
      /\ file'.name = file.name /\ file'.saved = file.name
      /\ file'.url = file.url /\ file'.reply = file.reply /\ file.status = "queued"
  BY DEF StartFile, FileInv, FileRecord
<1> QED
  BY <1>1 DEF FileInv, Unseen, UrlLeadsToFile

LEMMA ServerAnswersInv ==
  ASSUME FileInv, NEW offered \in Offered, ServerAnswers(offered)
  PROVE  FileInv'
<1> DEFINE saved == Or(file.saved, offered)
<1>1. saved \in Seq(Clean) /\ saved # NoName /\ file.saved \in {NoName, saved}
  BY NamesAssumption DEF Or, Clean, NoName, FileInv, FileRecord
<1>. PICK aria \in {"opened", "error"} : aria = IF Len(saved) <= NameMax THEN "opened" ELSE "error"
  OBVIOUS
<1> HIDE DEF saved
<1>2. file' = [file EXCEPT !.saved = saved, !.aria = aria] /\ file.aria = "active"
  BY DEF ServerAnswers, saved
<1>3. /\ file' \in FileRecord /\ file'.status = file.status /\ file'.aria = aria
      /\ file'.name = file.name /\ file'.saved = saved
      /\ file'.url = file.url /\ file'.reply = file.reply
  BY <1>1, <1>2 DEF FileInv, FileRecord
<1> QED
  BY <1>1, <1>2, <1>3 DEF FileInv, Unseen, UrlLeadsToFile

LEMMA DownloadEndsInv ==
  ASSUME FileInv, DownloadEnds
  PROVE  FileInv'
<1>. PICK end \in {"complete", "error"} : file' = [file EXCEPT !.aria = end]
  BY DEF DownloadEnds
<1>1. /\ file' \in FileRecord /\ file'.status = file.status /\ file'.aria = end
      /\ file'.name = file.name /\ file'.saved = file.saved
      /\ file'.url = file.url /\ file'.reply = file.reply /\ file.aria = "opened"
  BY DEF DownloadEnds, FileInv, FileRecord
<1> QED
  BY <1>1 DEF FileInv, Unseen, UrlLeadsToFile

LEMMA PollFileInv ==
  ASSUME FileInv, PollFile
  PROVE  FileInv'
<1>. PICK name, path, status :
       /\ name = Or(file.name, Told)
       /\ path = IF file.aria = "complete" THEN FinalName(file.name, Told) ELSE file.path
       /\ status = CASE file.aria = "complete" -> "completed"
                     [] file.aria = "error" -> "failed"
                     [] OTHER -> file.status
  OBVIOUS
<1>1. file.name \in {NoName, file.saved} /\ file.status = "downloading" /\ file \in FileRecord
  BY DEF PollFile, FileInv
<1>2. name = file.saved
  BY <1>1, ToldIs DEF Or, NoName
<1>3. file.aria = "complete" => path = file.saved
  BY <1>1, ToldIs DEF Or, NoName, FinalName, FileInv
<1>4. path \in Seq(Clean) /\ name \in Seq(Clean)
  BY <1>1, <1>2, <1>3 DEF FileRecord
<1>5. /\ status \in {"completed", "failed", "downloading"}
      /\ status = "completed" => file.aria = "complete"
  BY <1>1
<1>6. file' = [file EXCEPT !.name = name, !.path = path, !.status = status]
  BY DEF PollFile
<1>7. /\ file' \in FileRecord /\ file'.status = status /\ file'.aria = file.aria
      /\ file'.name = name /\ file'.path = path /\ file'.saved = file.saved
      /\ file'.url = file.url /\ file'.reply = file.reply
  BY <1>1, <1>4, <1>5, <1>6 DEF FileRecord
<1> QED
  BY <1>1, <1>2, <1>3, <1>5, <1>7 DEF FileInv, Unseen, UrlLeadsToFile

LEMMA RemoveFileInv ==
  ASSUME FileInv, RemoveFile
  PROVE  FileInv'
<1>. PICK status \in {"expired", "failed"} :
       file' = [file EXCEPT !.status = status, !.path = NoName]
  BY DEF RemoveFile
<1>0. <<>> \in Seq(Clean)
  OBVIOUS
<1>1. /\ file' \in FileRecord /\ file'.status = status /\ file'.aria = file.aria
      /\ file'.name = file.name /\ file'.saved = file.saved
      /\ file'.url = file.url /\ file'.reply = file.reply
  BY <1>0 DEF FileInv, FileRecord, NoName
<1> QED
  BY <1>1 DEF FileInv, Unseen, UrlLeadsToFile

LEMMA GetFileInv ==
  ASSUME FileInv, GetFile
  PROVE  FileInv'
<1>. PICK url : url = IF file.status = "completed" /\ file.path # NoName
                      THEN DownloadUrl(file.path) ELSE NoName
  OBVIOUS
<1>1. /\ url \in Seq(Clean) /\ url \in {NoName, file.saved}
      /\ url # NoName => file.status = "completed"
  BY DEF FileInv, FileRecord, DownloadUrl, NoName
<1>2. file' = [file EXCEPT !.reply = "none", !.url = url]
  BY DEF GetFile
<1>3. /\ file' \in FileRecord /\ file'.status = file.status /\ file'.aria = file.aria
      /\ file'.name = file.name /\ file'.path = file.path /\ file'.saved = file.saved
      /\ file'.url = url /\ file'.reply = "none"
  BY <1>1, <1>2 DEF FileInv, FileRecord
<1> QED
  BY <1>1, <1>3 DEF FileInv, Unseen, UrlLeadsToFile

\* Without a special character and an escape, the name comes back as it was.
LEMMA ReplyIs ==
  ASSUME FileInv, file.url = file.saved,
         LinkReply(file.url) \in {"TOKEN_MISSING", "FILE_NOT_FOUND"}
  PROVE  Range(file.saved) \cap (Special \cup {"%"}) # {}
<1>1. file.saved \in Seq(Clean)
  BY DEF FileInv, FileRecord
<1>2. CASE Special \cap Range(file.saved) # {}
  BY <1>2
<1>3. CASE ReplaceAll(file.saved, "%", "x") # file.saved
  BY <1>1, <1>3, NothingReplaced
<1>4. CASE Special \cap Range(file.saved) = {} /\ ReplaceAll(file.saved, "%", "x") = file.saved
  BY <1>4 DEF LinkReply
<1> QED
  BY <1>2, <1>3, <1>4

LEMMA FollowLinkInv ==
  ASSUME FileInv, FollowLink
  PROVE  FileInv'
<1>. PICK reply : reply = LinkReply(file.url)
  OBVIOUS
<1>0. reply \in {"OK", "TOKEN_MISSING", "DOWNLOAD_NOT_AVAILABLE", "FILE_NOT_FOUND"}
  BY DEF LinkReply
<1>1. file' = [file EXCEPT !.url = NoName, !.reply = reply] /\ file.url # NoName
  BY DEF FollowLink
<1>2. <<>> \in Seq(Clean)
  OBVIOUS
<1>3. /\ file' \in FileRecord /\ file'.status = file.status /\ file'.aria = file.aria
      /\ file'.name = file.name /\ file'.path = file.path /\ file'.saved = file.saved
      /\ file'.url = NoName /\ file'.reply = reply
  BY <1>0, <1>1, <1>2 DEF FileInv, FileRecord, NoName
<1>4. UrlLeadsToFile'
  BY <1>1, <1>3, ReplyIs DEF FileInv, UrlLeadsToFile
<1> QED
  BY <1>1, <1>3, <1>4 DEF FileInv, Unseen

LEMMA FileInvStep ==
  ASSUME FileInv, [FileNext]_file
  PROVE  FileInv'
<1>1. CASE UNCHANGED file
  BY <1>1 DEF FileInv, Unseen, UrlLeadsToFile
<1> QED
  BY <1>1, CreateFileInv, StartFileInv, ServerAnswersInv, DownloadEndsInv, PollFileInv,
     RemoveFileInv, GetFileInv, FollowLinkInv, ForgottenInv DEF FileNext, ForgetFile

\* The inductive invariant of a task's file name, for any names that are asked for or offered.
THEOREM FileInvariant == FileSpec => []FileInv
<1>1. FileInit => FileInv
  <2> SUFFICES ASSUME FileInit
               PROVE  FileInv
    OBVIOUS
  <2>1. <<>> \in Seq(Clean)
    OBVIOUS
  <2> QED
    BY <2>1 DEF FileInit, FileInv, FileRecord, NoFile, NoName, Unseen, UrlLeadsToFile
<1>2. FileInv /\ [FileNext]_file => FileInv'
  BY FileInvStep
<1> QED
  BY <1>1, <1>2, PTL DEF FileSpec

\* Whatever name is asked for, the download is one visible file directly in the directory of
\* its task (_safe_filename).
THEOREM NamesStayInTaskDir == FileSpec => []FilesInTaskDir
<1>1. FileInv => FilesInTaskDir
  <2> SUFFICES ASSUME FileInv
               PROVE  FilesInTaskDir
    OBVIOUS
  <2>1. ASSUME NEW name \in Seq(Clean)
        PROVE  {"/", "ctl"} \cap Range(name) = {}
    <3>1. Range(name) \subseteq Clean
      BY LenProperties DEF Range
    <3> QED
      BY <3>1 DEF Clean
  <2> QED
    BY <2>1 DEF FileInv, FileRecord, FilesInTaskDir
<1> QED
  BY <1>1, FileInvariant, PTL

\* Unless its name has a character that means something in a URL, the download_url of a
\* completed task leads to the file that aria2 wrote, for any names.
THEOREM UrlsLeadToFile == FileSpec => []UrlLeadsToFile
<1>1. FileInv => UrlLeadsToFile
  BY DEF FileInv
<1> QED
  BY <1>1, FileInvariant, PTL
=============================================================================
