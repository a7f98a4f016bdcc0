------------------------------- MODULE Config -------------------------------
(***************************************************************************)
(* config/layers.py, config/loader.py and the two places of cli.py that    *)
(* build a configuration: a process starting, and the REPL reading it again*)
(* before every request.  Five layers are merged, the later over the       *)
(* earlier; the merged values are validated; each role then takes what its *)
(* own table leaves out from the default role.                             *)
(*                                                                         *)
(* A setting is <<"model", role, key>> or <<section, key>>, a value is a   *)
(* string, BAD one the validation refuses, and a layer is a function from  *)
(* the settings it gives to their values.                                  *)
(***************************************************************************)
EXTENDS Integers, Sequences, FiniteSets

CONSTANTS
  RoleNames,              \* roles a config file may declare
  BUILTIN_ROLES,          \* roles every configuration has; "default" is one
  PrefixOf,               \* pairs <<short, long>>: long is short followed by "_..."
  ModelKeys,
  PlainSettings,          \* settings of the other sections
  BoolSettings,           \* those of them the environment layer reads with _as_bool
  SettingValues,
  EnvNames,               \* the environment variables that may be set
  Flags,                  \* the settings a process may be given on the command line
  ConfigEdits             \* bound of the model: edits of files

BAD == "bad"              \* a value validate refuses
UNSET == "unset"          \* DEFAULTS has None for it
ModelSettings == {<<"model", r, k>> : r \in RoleNames, k \in ModelKeys}
AllSettings == ModelSettings \cup PlainSettings
Layers == UNION {[S -> SettingValues] : S \in SUBSET AllSettings}

ASSUME ConfigAssumption ==
  /\ "default" \in BUILTIN_ROLES /\ BUILTIN_ROLES \subseteq RoleNames
  /\ PrefixOf \subseteq RoleNames \X RoleNames /\ BoolSettings \subseteq PlainSettings
  /\ UNSET \notin SettingValues /\ ConfigEdits \in Nat
  /\ \A n \in EnvNames : n.setting \in AllSettings /\ n.deprecated \in BOOLEAN
  /\ \A s \in PlainSettings : s[1] # "model"
  /\ SettingValues \ {BAD} # {}
  /\ \A f \in Flags : \E S \in SUBSET PlainSettings : f \in [S -> SettingValues]

VARIABLES
  cfUser, cfProject,      \* the two config.toml
  cfDotenv,               \* the project's .env: names to values
  cfShell,                \* the environment a process starts with
  cfEnviron,              \* os.environ of the process
  cfShortFirst,           \* in which order the last build iterated its set of roles
  cfFlags,                \* what the command line gave
  cfProcess,              \* "down", "prompt" (the REPL waits), "work"
  cfConfig,               \* _config of loader.py: NotBuilt, or what was built
  cfRead,                 \* history: the layers the last build read
  cfNoticed,              \* the roles committed_api_key_notice named
  cfEdits

cfVars == <<cfUser, cfProject, cfDotenv, cfShell, cfEnviron, cfShortFirst, cfFlags, cfProcess,
            cfConfig, cfRead, cfNoticed, cfEdits>>

LAYER_NAMES == <<"builtin", "user", "project", "env", "cli">>
NoLayer == [s \in {} |-> UNSET]
NotBuilt == [built |-> FALSE]

ConfigInit ==
  /\ cfUser = NoLayer /\ cfProject = NoLayer /\ cfDotenv = NoLayer
  /\ \E n \in SUBSET EnvNames :
       Cardinality(n) <= 1 /\ cfShell \in [n -> SettingValues]
  /\ cfEnviron = NoLayer /\ cfShortFirst = FALSE /\ cfFlags = NoLayer
  /\ cfProcess = "down" /\ cfConfig = NotBuilt /\ cfRead = <<>> /\ cfNoticed = {} /\ cfEdits = 0

-----------------------------------------------------------------------------
(***************************************************************************)
(* The layers.                                                             *)
(***************************************************************************)
\* builtin_layer: DEFAULTS has no api_key.
Builtin == [s \in {<<"model", "default", k>> : k \in ModelKeys} \cup PlainSettings |->
              IF s[Len(s)] = "api_key" THEN UNSET ELSE CHOOSE v \in SettingValues : v # BAD]

\* roles a RUDRA_* name can be about: a role no file declares is not known.
Declared(user, project) ==
  BUILTIN_ROLES \cup {s[2] : s \in {t \in DOMAIN user \cup DOMAIN project : t[1] = "model"}}

\* _split_role_and_suffix: the first role of the set that the name begins with;
\* when a shorter one comes first the rest is no key, and the name is dropped.
Routed(setting, declared, shortFirst) ==
  \/ setting[1] # "model" \/ setting[2] = "default"
  \/ /\ setting[2] \in declared
     /\ ~\E r \in declared : <<r, setting[2]>> \in PrefixOf /\ shortFirst

Modern(setting) == [deprecated |-> FALSE, setting |-> setting]
Deprecated(setting) == [deprecated |-> TRUE, setting |-> setting]

\* _legacy, and what OLLAMA_MODEL stands in for.
Legacy(setting, environ) ==
  IF Deprecated(setting) \in DOMAIN environ THEN {environ[Deprecated(setting)]}
  ELSE IF setting \in {<<"model", "planner", "model">>, <<"model", "coder", "model">>}
          /\ Deprecated(<<"model", "default", "model">>) \in DOMAIN environ
       THEN {environ[Deprecated(<<"model", "default", "model">>)]}
  ELSE {}

\* env_layer: a deprecated name fills what its modern one left out.
EnvLayer(environ, declared, shortFirst) ==
  LET modern == {s \in AllSettings : Modern(s) \in DOMAIN environ /\ Routed(s, declared, shortFirst)}
      legacy == {s \in AllSettings : Legacy(s, environ) # {}}
  IN  [s \in modern \cup legacy |->
         IF s \in modern THEN environ[Modern(s)] ELSE CHOOSE v \in Legacy(s, environ) : TRUE]

\* _as_bool raises where it reads, whatever a later layer says.
EnvRaises(environ) ==
  \E s \in BoolSettings :
    \/ Modern(s) \in DOMAIN environ /\ environ[Modern(s)] = BAD
    \/ /\ Modern(s) \notin DOMAIN environ /\ Deprecated(s) \in DOMAIN environ
       /\ environ[Deprecated(s)] = BAD

\* build_config: the five layers, in the order of LAYER_NAMES.
ReadLayers(environ, flags, shortFirst) ==
  <<Builtin, cfUser, cfProject,
    EnvLayer(environ, Declared(cfUser, cfProject), shortFirst), flags>>

-----------------------------------------------------------------------------
(***************************************************************************)
(* Merging, validating, building.                                          *)
(***************************************************************************)
\* The functions f and g together, where both have a value the one of f.
Over(f, g) == [x \in DOMAIN f \cup DOMAIN g |-> IF x \in DOMAIN f THEN f[x] ELSE g[x]]

Merging == [value |-> NoLayer, provenance |-> NoLayer]

\* The values of a layer come from it.
FromLayer(layers, i) == [s \in DOMAIN layers[i] |-> LAYER_NAMES[i]]

\* Mutant: the first layer that gives a setting is named as where it came from.
DeepMergeFirst(layers) ==
  LET upTo[i \in 0..Len(layers)] ==
        IF i = 0 THEN Merging
        ELSE [value |-> Over(layers[i], upTo[i - 1].value),
              provenance |-> Over(upTo[i - 1].provenance, FromLayer(layers, i))]
  IN  upTo[Len(layers)]

\* deep_merge: a later value replaces an earlier one, and its provenance too.
DeepMerge(layers) ==
  LET upTo[i \in 0..Len(layers)] ==
        IF i = 0 THEN Merging
        ELSE [value |-> Over(layers[i], upTo[i - 1].value),
              provenance |-> Over(FromLayer(layers, i), upTo[i - 1].provenance)]
  IN  upTo[Len(layers)]

\* Mutant: only the model tables are validated.
RefusedSectionsNot(merged) == {}

\* validate: of the merged values, so a bad one that lost is not refused.
RefusedModels(merged) == {s \in DOMAIN merged.value \cap ModelSettings : merged.value[s] = BAD}
RefusedSections(merged) == {s \in DOMAIN merged.value \cap PlainSettings : merged.value[s] = BAD}
Refused(merged) == RefusedModels(merged) \cup RefusedSections(merged)

Tables(merged) == BUILTIN_ROLES \cup {s[2] : s \in DOMAIN merged.value \cap ModelSettings}

\* Mutant: a role with a table of its own inherits nothing.
BuildModelsOwn(merged) ==
  [p \in Tables(merged) \X ModelKeys |->
     LET own == <<"model", p[1], p[2]>>  base == <<"model", "default", p[2]>>
     IN  IF own \in DOMAIN merged.value THEN merged.value[own]
         ELSE IF \E k \in ModelKeys : <<"model", p[1], k>> \in DOMAIN merged.value THEN UNSET
         ELSE merged.value[base]]

\* _build_models: {**base, **table[role]}.
BuildModels(merged) ==
  [p \in Tables(merged) \X ModelKeys |->
     LET own == <<"model", p[1], p[2]>>  base == <<"model", "default", p[2]>>
     IN  IF own \in DOMAIN merged.value THEN merged.value[own] ELSE merged.value[base]]

\* The other sections, each setting with its default.
Sections(merged) == [s \in PlainSettings |-> merged.value[s]]

\* build_config after validate: the sections, the roles and where it came from.
Built(merged) ==
  [built |-> TRUE, models |-> BuildModels(merged),
   plain |-> Sections(merged), provenance |-> merged.provenance]

\* _source_of, for `config get`: a role without the key is shown the default's.
SourceOf(config, setting) ==
  IF setting \in DOMAIN config.provenance THEN config.provenance[setting]
  ELSE IF setting[1] = "model" /\ <<"model", "default", setting[3]>> \in DOMAIN config.provenance
       THEN config.provenance[<<"model", "default", setting[3]>>]
  ELSE "builtin"

\* _flatten: every setting `config list` shows, with its value.
Flatten(config) ==
  [s \in {<<"model", p[1], p[2]>> : p \in DOMAIN config.models} \cup PlainSettings |->
     IF s[1] = "model" THEN config.models[<<s[2], s[3]>>] ELSE config.plain[s]]

\* Mutant: only the default role's key is looked at.
NoticedDefault(config) ==
  {r \in {"default"} : /\ config.models[<<r, "api_key">>] # UNSET
                       /\ config.provenance[<<"model", r, "api_key">>] = "project"}

\* committed_api_key_notice: the roles whose own key the project's file gave.
Noticed(config) ==
  {r \in RoleNames : /\ <<r, "api_key">> \in DOMAIN config.models
                     /\ config.models[<<r, "api_key">>] # UNSET
                     /\ <<"model", r, "api_key">> \in DOMAIN config.provenance
                     /\ config.provenance[<<"model", r, "api_key">>] = "project"}

-----------------------------------------------------------------------------
(***************************************************************************)
(* What happens.                                                           *)
(***************************************************************************)
\* load_dotenv does not override: a name once in os.environ stays.
Loaded(environ) == Over(environ, cfDotenv)

\* build_config with what the process was given; a ConfigError ends the process.
Builds(flags, environ, next, notices) ==
  \E shortFirst \in BOOLEAN :
    LET layers == ReadLayers(environ, flags, shortFirst)  merged == DeepMerge(layers)
    IN  /\ cfShortFirst' = shortFirst
        /\ IF EnvRaises(environ) \/ Refused(merged) # {}
           THEN /\ cfProcess' = "down" /\ cfConfig' = NotBuilt /\ cfRead' = <<>> /\ cfNoticed' = {}
                /\ cfEnviron' = NoLayer /\ cfFlags' = NoLayer
           ELSE /\ cfProcess' = next /\ cfConfig' = Built(merged) /\ cfRead' = layers
                /\ cfNoticed' = IF notices THEN Noticed(Built(merged)) ELSE cfNoticed
                /\ cfEnviron' = environ /\ cfFlags' = flags

\* main: the first get_config, with the command line's overrides.
Launch(flags) ==
  /\ cfProcess = "down"
  /\ Builds(flags, Loaded(cfShell), "prompt", TRUE)
  /\ UNCHANGED <<cfUser, cfProject, cfDotenv, cfShell, cfEdits>>

\* Mutant: a request is run with the configuration the process started with.
ReadAgainNot ==
  /\ cfProcess = "prompt" /\ cfProcess' = "work"
  /\ UNCHANGED <<cfUser, cfProject, cfDotenv, cfShell, cfEnviron, cfShortFirst, cfFlags, cfConfig,
                 cfRead, cfNoticed, cfEdits>>

\* Mutant: and without the overrides the process was given.
ReadAgainBare ==
  /\ cfProcess = "prompt"
  /\ Builds(NoLayer, Loaded(cfEnviron), "work", FALSE)
  /\ UNCHANGED <<cfUser, cfProject, cfDotenv, cfShell, cfEdits>>

\* _repl_session: reset_config, and get_config with the same overrides.
ReadAgain ==
  /\ cfProcess = "prompt"
  /\ Builds(cfFlags, Loaded(cfEnviron), "work", FALSE)
  /\ UNCHANGED <<cfUser, cfProject, cfDotenv, cfShell, cfEdits>>

\* The request ends; or the user leaves.
RequestEnds ==
  /\ cfProcess = "work" /\ cfProcess' = "prompt"
  /\ UNCHANGED <<cfUser, cfProject, cfDotenv, cfShell, cfEnviron, cfShortFirst, cfFlags, cfConfig,
                 cfRead, cfNoticed, cfEdits>>

ConfigExit ==
  /\ cfProcess = "prompt" /\ cfProcess' = "down"
  /\ cfConfig' = NotBuilt /\ cfRead' = <<>> /\ cfNoticed' = {}
  /\ cfEnviron' = NoLayer /\ cfFlags' = NoLayer
  /\ UNCHANGED <<cfUser, cfProject, cfDotenv, cfShell, cfShortFirst, cfEdits>>

\* The user writes a setting into a file, or takes it out, while no request runs.
Edited(layer, s, given) ==
  IF given = UNSET THEN [t \in DOMAIN layer \ {s} |-> layer[t]] ELSE Over([t \in {s} |-> given], layer)

EditFile ==
  /\ cfProcess # "work" /\ cfEdits < ConfigEdits /\ cfEdits' = cfEdits + 1
  /\ \E given \in SettingValues \cup {UNSET} :
       \/ \E s \in AllSettings : cfUser' = Edited(cfUser, s, given) /\ UNCHANGED <<cfProject, cfDotenv>>
       \/ \E s \in AllSettings : cfProject' = Edited(cfProject, s, given) /\ UNCHANGED <<cfUser, cfDotenv>>
       \/ \E n \in EnvNames : cfDotenv' = Edited(cfDotenv, n, given) /\ UNCHANGED <<cfUser, cfProject>>
  /\ UNCHANGED <<cfShell, cfEnviron, cfShortFirst, cfFlags, cfProcess, cfConfig, cfRead, cfNoticed>>

ConfigNext ==
  \/ \E flags \in Flags : Launch(flags)
  \/ ReadAgain \/ RequestEnds \/ ConfigExit \/ EditFile

ConfigSpec == ConfigInit /\ [][ConfigNext]_cfVars

-----------------------------------------------------------------------------
(***************************************************************************)
(* Properties.                                                             *)
(***************************************************************************)
\* Every variable has its type.
ConfigTypeOK ==
  /\ {cfUser, cfProject} \subseteq Layers
  /\ cfProcess \in {"down", "prompt", "work"} /\ cfShortFirst \in BOOLEAN
  /\ cfEdits \in 0..ConfigEdits /\ cfNoticed \subseteq RoleNames
  /\ cfConfig.built <=> cfRead # <<>>
  /\ cfConfig.built <=> cfProcess # "down"
  /\ cfConfig.built => \A s \in DOMAIN Flatten(cfConfig) : Flatten(cfConfig)[s] # BAD

LayerIndex(name) == CHOOSE i \in DOMAIN LAYER_NAMES : LAYER_NAMES[i] = name

\* `rudra config get` tells the truth: the layer it names for a setting (deep_merge's
\* provenance, _source_of) did give the value in force, for the role or for the default role.
SourcesAreTrue ==
  cfConfig.built =>
    \A s \in DOMAIN Flatten(cfConfig) :
      LET layer == cfRead[LayerIndex(SourceOf(cfConfig, s))]
          given == IF s \in DOMAIN layer THEN layer[s] ELSE layer[<<"model", "default", s[3]>>]
      IN  Flatten(cfConfig)[s] = given

\* What a setting should be: the last of the files and flags, as they are now, that gives it;
\* a role's own setting in any of them before the default role's in any.
Highest(layers, s) ==
  LET given == {i \in DOMAIN layers : s \in DOMAIN layers[i]}
  IN  layers[CHOOSE i \in given : \A j \in given : j <= i][s]

Gives(layers, s) == \E i \in DOMAIN layers : s \in DOMAIN layers[i]

\* A request runs under the files as they are: whatever was edited since the process started
\* (reset_config before every request) is in force, each role's value being its own where any
\* layer gives one and the default role's otherwise, and nothing refused is in force.
RequestsSeeTheFiles ==
  cfProcess = "work" =>
    LET layers == ReadLayers(cfEnviron, cfFlags, cfShortFirst)
    IN  /\ \A s \in PlainSettings : cfConfig.plain[s] = Highest(layers, s)
        /\ \A p \in DOMAIN cfConfig.models :
             cfConfig.models[p] = IF Gives(layers, <<"model", p[1], p[2]>>)
                                  THEN Highest(layers, <<"model", p[1], p[2]>>)
                                  ELSE Highest(layers, <<"model", "default", p[2]>>)
        /\ \A s \in DOMAIN Flatten(cfConfig) : Flatten(cfConfig)[s] # BAD

\* --plan, --auto and the rest hold for every request of the process they were given to,
\* however the files are edited between two of them.
FlagsStand ==
  [][cfProcess' = "work" => \A s \in DOMAIN cfFlags : cfConfig'.plain[s] = cfFlags[s]]_cfVars

\* A request is current: under the files as they are and the flags as they were given.
RequestsAreCurrent == []RequestsSeeTheFiles /\ FlagsStand

\* The role whose setting is in force for a role: its own, or the default's.
Giver(layers, r, k) == IF Gives(layers, <<"model", r, k>>) THEN r ELSE "default"

\* A process that starts with a key in force that the project's config.toml gave names the role
\* the key was given for, one with a table of its own as well as the default others inherit from.
CommittedKeysAreNoticed ==
  [][(cfProcess = "down" /\ cfProcess' = "prompt") =>
       \A r \in RoleNames :
         (/\ <<r, "api_key">> \in DOMAIN cfConfig'.models
          /\ cfConfig'.models[<<r, "api_key">>] # UNSET
          /\ LET s == <<"model", Giver(cfRead', r, "api_key"), "api_key">>
             IN  /\ s \in DOMAIN cfProject
                 /\ \A i \in {4, 5} : s \notin DOMAIN cfRead'[i])
         => Giver(cfRead', r, "api_key") \in cfNoticed']_cfVars

\* What is reported of the settings is true: the layer a value is said to come from, and the
\* key the user is told is committed.
WhatIsReportedIsTrue == []SourcesAreTrue /\ CommittedKeysAreNoticed
=============================================================================
