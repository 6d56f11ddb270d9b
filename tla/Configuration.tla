---------------------------- MODULE Configuration ----------------------------
(***************************************************************************)
(* The configuration service: what setConfig makes of a configuration file *)
(* and the environment, and what the agent reads of it to start.           *)
(*                                                                         *)
(* A configuration maps its sections to their settings, and settings to    *)
(* texts; the settings of its top level are in the section "root".  Of     *)
(* settings that are handled in the same way we keep one or two.  A Boolean *)
(* of the file, or read from the environment, is "yes" or "no", and so is  *)
(* neither the text "true" nor "false".  A variable of the environment is  *)
(* known by the setting it is for.                                         *)
(***************************************************************************)
EXTENDS Naturals, FiniteSets

CONSTANTS
  File,     \* paths that exist
  Text      \* texts a setting may have

Section == {"root", "mqtt", "amqp", "http"}

\* IOTA_MQTT_CLEAN, _RETAIN and IOTA_AMQP_DURABLE; IOTA_MQTT_REJECT_UNAUTHORIZED.
Flags == {"clean", "durable", "rejectUnauthorized"}

\* What a path that has to exist is for.
Checked ==
  {<<"mqtt", "ca">>, <<"mqtt", "cert">>, <<"mqtt", "key">>, <<"http", "key">>,
   <<"root", "transformations">>}

\* process.env[v] is not undefined; and it is taken for true.
Defined(env, v) == v \in DOMAIN env
IsSet(env, v)   == Defined(env, v) /\ env[v] # ""

SetIn(env, section) == {v[2] : v \in {v \in DOMAIN env : v[1] = section /\ IsSet(env, v)}}

\* anyIsSet.
AnyIsSet(env, section) == SetIn(env, section) # {}

Boolean(text) == IF text = "true" THEN "yes" ELSE "no"

\* The settings a section takes from the environment: the variables that are set, but
\* disabled only if it is "true", and rejectUnauthorized even if it is empty.  The
\* transformations are loaded from their file, and are no setting here.
Given(env, section) ==
  {s \in SetIn(env, section) \ {"transformations"} : s = "disabled" => env[<<section, s>>] = "true"}
    \union {s \in {"rejectUnauthorized"} : Defined(env, <<section, s>>)}

\* A wrong Kept: every section is made anew, like that of HTTP.
KeptNothing(config, env, section) ==
  IF section \notin DOMAIN config \/ AnyIsSet(env, section) THEN {} ELSE DOMAIN config[section]

\* The settings a section keeps from the file: a variable of HTTP makes the section
\* anew, and that of durable the options of AMQP, of which "autoDelete" is another.
Kept(config, env, section) ==
  IF section \notin DOMAIN config \/ (section = "http" /\ AnyIsSet(env, section)) THEN {}
  ELSE DOMAIN config[section]
         \ (IF section = "amqp" /\ "durable" \in SetIn(env, section) THEN {"autoDelete"} ELSE {})

Settings(config, env, section) ==
  [s \in Given(env, section) \union Kept(config, env, section) |->
     IF s \notin Given(env, section) THEN config[section][s]
     ELSE IF s \in Flags \union {"disabled"} THEN Boolean(env[<<section, s>>])
     ELSE env[<<section, s>>]]

\* processEnvironmentVariables: a section there is nothing of stays away.
Effective(config, env) ==
  [section \in DOMAIN config \union {s \in Section : AnyIsSet(env, s)} |->
     Settings(config, env, section)]

\* fileExists throws for a path that does not exist, and the path that is tried for the
\* certificate of HTTP is that of the key.  An empty rejectUnauthorized is set on a
\* section nothing has made.
Throws(config, env) ==
  \/ \E v \in Checked : IsSet(env, v) /\ env[v] \notin File
  \/ /\ IsSet(env, <<"http", "cert">>)
     /\ Defined(env, <<"http", "key">>) => env[<<"http", "key">>] \notin File
  \/ /\ Defined(env, <<"mqtt", "rejectUnauthorized">>)
     /\ "mqtt" \notin DOMAIN config
     /\ ~ AnyIsSet(env, "mqtt")

-----------------------------------------------------------------------------
(* What the bindings read.                                                 *)

Has(config, section, s) == section \in DOMAIN config /\ s \in DOMAIN config[section]

\* A Boolean setting, or a text, that JavaScript takes for true.
Truthy(config, section, s) == Has(config, section, s) /\ config[section][s] \notin {"", "no"}

Enabled(config, section) == section \in DOMAIN config /\ ~ Truthy(config, section, "disabled")

\* The ARGO binding reads the environment itself.
ArgoEnabled(env) ==
  LET v == <<"argo", "disabled">> IN Defined(env, v) /\ env[v] = "false"

\* The key and the certificate start of HTTP reads, if there are both.
Credentials(config) ==
  IF Truthy(config, "http", "key") /\ Truthy(config, "http", "cert")
  THEN {config["http"]["key"], config["http"]["cert"]} ELSE {}

\* The files start of MQTT reads if it is enabled, whether the file or the environment
\* names them, with those of HTTP.
FilesRead(config) ==
  Credentials(config) \union
    {config["mqtt"][s] : s \in {s \in {"key", "ca", "cert"} : Enabled(config, "mqtt") /\ Truthy(config, "mqtt", s)}}

\* configRetrieval === true.
Retrieves(config) == Has(config, "root", "configRetrieval") /\ config["root"]["configRetrieval"] = "yes"

DefaultTransport(config) ==
  IF Truthy(config, "root", "defaultTransport") THEN config["root"]["defaultTransport"] ELSE "none"
=============================================================================
