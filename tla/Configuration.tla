---------------------------- MODULE Configuration ----------------------------
(***************************************************************************)
(* The configuration of a process: model defaults, config/*.json, ND__     *)
(* variables and DATABASE_URL, one over the other.  A process may load it  *)
(* several times (run_api does for the port, the application again for the *)
(* services), and .env becomes part of its environment on the way.         *)
(*                                                                         *)
(* Two settings stand for all of them: "key", of any declared type, and    *)
(* "url", the address of the database, which has a variable of its own.    *)
(***************************************************************************)
EXTENDS Naturals, FiniteSets

Unset == "unset"
Kinds == {"str", "int", "bool", "list"}    \* declared types

(* Python values: their type, and what they read.                          *)
Value(type, is) == [type |-> type, is |-> is]
Default == Value("default", "default")

Texts == {"on", "80", "8.5", "dns,arp", "[80]"}
Given == {Unset} \cup Texts

(* What setup.json may hold for the key, and the file as a whole.          *)
FileValues ==
    {Value("int", "80"), Value("str", "80"), Value("str", "on"), Value("bool", "true"),
     Value("numbers", "[80]")}
Contents == [key : FileValues \cup {Default}, url : {Default, Value("str", "file")}]
Broken == [key |-> Value("malformed", ""), url |-> Default]

VARIABLES
    kind,      \* the declared type of the key
    file,      \* setup.json: Contents, Broken, or nothing at all
    limits,    \* whether rate_limits.json is valid
    dotenv,    \* .env
    environ,   \* os.environ
    read,      \* secrets._loaded
    config,    \* the last configuration loaded
    verdict,   \* "none", "loaded", "refused" or "crashed"
    heard,     \* history: the environment the last load read, and
    before     \* history: the configuration before it, unless since edited

configuration == <<kind, file, limits, dotenv, environ, read, config,
                   verdict, heard, before>>

(* "section": ND__SECTION itself is set, collected before or after         *)
(* ND__SECTION__KEY.                                                       *)
Environments ==
    [key : Given, url : {Unset, "env"}, secret : {Unset, "blank", "secret"},
     section : {Unset, "before", "after"}]

DotEnvs == [key : {Unset, "80"}, url : {Unset, "dotenv"}, secret : {Unset, "hidden"}]
NoConfig == [key |-> Default, url |-> Default]

ConfigurationInit ==
    /\ kind \in Kinds
    /\ file \in Contents \cup {Broken} /\ limits \in BOOLEAN
    /\ dotenv \in DotEnvs
    /\ environ \in Environments /\ read = FALSE
    /\ config = NoConfig /\ verdict = "none"
    /\ heard = environ /\ before = NoConfig

----------------------------------------------------------------------------
(* coerce: a text none of the rules applies to is left to validation, but  *)
(* what looks like a number and is no int raises.                          *)
Raises(k, text) == k = "int" /\ text = "8.5"

CoerceCollection(text) ==
    CASE text = "[80]" -> Value("numbers", text)
      [] text \in {"80", "8.5"} -> Value("number", text)    \* JSON, and no list
      [] OTHER -> Value("list", text)

Coerce(k, text) ==
    CASE k = "bool" /\ text = "on" -> Value("bool", "true")
      [] k = "int" /\ text = "80" -> Value("int", "80")
      [] k = "list" -> CoerceCollection(text)
      [] OTHER -> Value("str", text)

(* model_validate: what a field of each type takes, and makes of it.       *)
Accepts(k, v) ==
    \/ v = Default \/ v.type = k
    \/ k = "int" /\ v \in {Value("str", "80"), Value("bool", "true")}
    \/ k = "bool" /\ v = Value("str", "on")

Validated(k, v) ==
    CASE v = Default -> v
      [] k = "int" -> Value("int", IF v.type = "bool" THEN "1" ELSE v.is)
      [] k = "bool" -> Value("bool", "true")
      [] OTHER -> v

(* collect_overrides raises on a section that is no dict when its key      *)
(* comes.                                                                  *)
CollectRaises(env) ==
    env.key # Unset /\ (Raises(kind, env.key) \/ env.section = "before")

(* Mutant: the file wins over the environment.                             *)
ApplyOverridesUnder(env) ==
    [key |-> IF env.key # Unset /\ file.key = Default THEN Coerce(kind, env.key) ELSE file.key,
     url |-> IF env.url # Unset THEN Value("str", env.url) ELSE file.url]

(* apply_overrides.                                                        *)
ApplyOverrides(env) ==
    [key |-> IF env.key # Unset THEN Coerce(kind, env.key) ELSE file.key,
     url |-> IF env.url # Unset THEN Value("str", env.url) ELSE file.url]

(* load_env: what is exported already stays.                               *)
LoadEnv(env) ==
    IF read THEN env
    ELSE [n \in DOMAIN env |-> IF n \in DOMAIN dotenv /\ env[n] = Unset THEN dotenv[n] ELSE env[n]]

(* get_secret: a blank one is none.                                        *)
Secret(env) == IF env.secret = "blank" THEN Unset ELSE env.secret

Outcome ==
    IF file = Broken THEN "refused"
    ELSE IF CollectRaises(environ) THEN "crashed"
    ELSE IF environ.section # Unset \/ ~Accepts(kind, ApplyOverrides(environ).key) THEN "refused"
    ELSE "loaded"

(* load_app_config: .env is only looked at once a configuration stands.    *)
LoadAppConfig ==
    /\ verdict \notin {"refused", "crashed"}
    /\ verdict' = Outcome
    /\ heard' = environ
    /\ IF verdict' = "loaded"
       THEN LET merged == ApplyOverrides(environ)
                env == LoadEnv(environ)
            IN  /\ environ' = env /\ read' = TRUE /\ before' = config
                /\ config' = [key |-> Validated(kind, merged.key),
                              url |-> IF Secret(env) # Unset THEN Value("str", Secret(env))
                                      ELSE merged.url]
       ELSE UNCHANGED <<environ, read, config, before>>
    /\ UNCHANGED <<kind, file, limits, dotenv>>

(* NetworkDefenderSDK.create looks at the limits only once the first file  *)
(* is in order.                                                            *)
LoadRateLimitConfig ==
    /\ verdict = "loaded" /\ ~limits
    /\ verdict' = "refused"
    /\ UNCHANGED <<kind, file, limits, dotenv, environ, read, config, heard, before>>

(* An operator edits the file under a running process.                     *)
EditFile ==
    /\ verdict = "loaded"
    /\ file' \in {Broken, [key |-> Default, url |-> Default]} \ {file}
    /\ before' = NoConfig /\ config' = NoConfig /\ verdict' = "none"
    /\ UNCHANGED <<kind, limits, dotenv, environ, read, heard>>

ConfigurationNext == LoadAppConfig \/ LoadRateLimitConfig \/ EditFile

ConfigurationSpec == ConfigurationInit /\ [][ConfigurationNext]_configuration

----------------------------------------------------------------------------
(* What an operator means by the text of a variable.                       *)
Meant(k, text) == IF k = "bool" THEN Value("bool", "true") ELSE Value(k, text)

(* "model defaults < config/*.json < ND__SECTION__KEY env vars", and the   *)
(* connection string over all of them: a configuration that is loaded is   *)
(* made of the highest layer that names a setting, as the environment was  *)
(* when it was read; and two loads of a process differ only if the file    *)
(* was edited in between or .env names a setting, which the first does not *)
(* hear.                                                                   *)
LayersRespected ==
    verdict = "loaded" =>
      /\ heard.key # Unset => config.key = Meant(kind, heard.key)
      /\ heard.key = Unset /\ file.key # Default =>
           config.key # Default /\ config.key.type = kind
      /\ LET url == <<Secret(environ), heard.url>>
         IN  \/ url[1] # Unset /\ config.url.is = url[1]
             \/ url[1] = Unset /\ url[2] # Unset /\ config.url.is = url[2]
             \/ url = <<Unset, Unset>> /\ config.url = file.url
      /\ before # NoConfig /\ config # before => dotenv.key # Unset \/ dotenv.url # Unset
=============================================================================
