----------------------------- MODULE ConfigFile ------------------------------
(***************************************************************************)
(* The MQTT section of config.yaml (config.py): what a start makes of the  *)
(* file, the environment and the defaults, and what a save from the        *)
(* settings page (controller.py, update_mqtt) makes of the file.           *)
(*                                                                         *)
(* The environment of a process never changes; the next process may have   *)
(* another.  A field missing from the file or the environment is missing   *)
(* from the function's domain.                                             *)
(***************************************************************************)
EXTENDS Naturals, Dicts

CONSTANTS
    Fields,     \* the fields of MqttConfig
    Default,    \* the value of each when nobody sets it
    Allowed,    \* the values a user may give to each
    Overrides,  \* the environments a process may be started with
    Written,    \* the files a user may begin with
    MaxEdits    \* bound: changes of settings, by the page or by hand

ASSUME ConfigAssumption ==
    /\ DOMAIN Default = Fields
    /\ \A f \in Fields : Default[f] \in Allowed[f]
    /\ \A w \in Written : DOMAIN w \in SUBSET Fields /\ \A f \in DOMAIN w : w[f] \in Allowed[f]

VARIABLES
    up,        \* whether the process runs
    env,       \* its environment
    file,      \* the file
    settings,  \* config.mqtt in memory
    wanted,    \* the value the user last gave to each field
    unsaved,   \* fields whose wanted value only memory has, their save failed
    lost,      \* fields whose wanted value is not in the file any more, see SetMqtt
    edits      \* how many changes there were

configVars == <<up, env, file, settings, wanted, unsaved, lost, edits>>

\* _env_override: the environment always wins over what is given
Overridden(raw, e) == Over(e, raw)

\* build_mqtt_config, in an environment
BuiltIn(raw, e) == [f \in Fields |-> Over(Overridden(raw, e), Default)[f]]
Built(raw) == BuiltIn(raw, env)

\* mutant: the environment is not looked at
PersistedAll(cfg) == {f \in Fields : cfg[f] # Default[f]}

\* _persisted_value: neither what the environment sets nor what is at its default
Persisted(cfg) == {f \in Fields \ DOMAIN env : cfg[f] # Default[f]}

\* dump_config
Dumped(cfg) == [f \in Persisted(cfg) |-> cfg[f]]

ConfigInit ==
    /\ up = FALSE
    /\ env \in Overrides
    /\ file \in Written
    /\ settings = Built(file)
    /\ wanted = [f \in Fields |-> Over(file, Default)[f]]
    /\ unsaved = {}
    /\ lost = {}
    /\ edits = 0

\* one field with a value the user may give it
Raw == UNION {[{f} -> Allowed[f]] : f \in Fields}

\* mutant: what the page does not send is reset
SettingsReset(raw) == Built(raw)

\* update_mqtt: what the page does not send stays
Merged(raw) == Built(Over(raw, settings))

\* update_mqtt under the lock.  The file is written as a whole, without the fields
\* the environment sets: what the user wanted there is gone from it.
SetMqtt(raw) ==
    /\ up /\ edits < MaxEdits
    /\ settings' = Merged(raw)
    /\ file' = Dumped(settings')
    /\ wanted' = Over(raw, wanted)
    /\ unsaved' = {}
    /\ lost' = (lost \ DOMAIN raw) \cup {f \in DOMAIN env : wanted'[f] # Default[f]}
    /\ edits' = edits + 1
    /\ UNCHANGED <<up, env>>

\* save_config raises: memory is ahead of the file
SetMqttFails(raw) ==
    /\ up /\ edits < MaxEdits
    /\ settings' = Merged(raw)
    /\ wanted' = Over(raw, wanted)
    /\ unsaved' = unsaved \cup DOMAIN raw
    /\ lost' = lost \ DOMAIN raw
    /\ edits' = edits + 1
    /\ UNCHANGED <<up, env, file>>

\* the user edits the file while no process runs
EditFile(raw) ==
    /\ ~up /\ edits < MaxEdits
    /\ file' = Over(raw, file)
    /\ wanted' = Over(raw, wanted)
    /\ lost' = lost \ DOMAIN raw
    /\ edits' = edits + 1
    /\ UNCHANGED <<up, env, settings, unsaved>>

\* the process ends, and what it could not save with it
Exit ==
    /\ up
    /\ up' = FALSE
    /\ lost' = lost \cup unsaved
    /\ unsaved' = {}
    /\ UNCHANGED <<env, file, settings, wanted, edits>>

\* load_config
Load ==
    /\ ~up
    /\ up' = TRUE
    /\ env' \in Overrides
    /\ settings' = BuiltIn(file, env')
    /\ UNCHANGED <<file, wanted, unsaved, lost, edits>>

-----------------------------------------------------------------------------
\* Every setting has the value its user last gave to it or, while the environment
\* sets it, that value, over any number of saves of other settings, edits of the file
\* and restarts with and without the variable.  Left out are, each until its user gives
\* it again, only a value given or kept while a variable hid it and one whose save
\* failed and which no later save wrote before the process ended.
SettingsHold ==
    up => \A f \in Fields \ lost : settings[f] = Over(env, wanted)[f]

\* What only the environment says, a password first of all, never gets into the file
\* (README.md; test_config.py, test_env_override_is_not_persisted), not even when the
\* variable is gone at the next save.
EnvStaysOut == \A f \in DOMAIN file : file[f] \in Allowed[f]

=============================================================================
