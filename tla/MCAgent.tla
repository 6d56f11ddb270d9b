------------------------------- MODULE MCAgent -------------------------------
(* An instance of Provisioning, and so of Lifecycle and Configuration, for TLC. *)
EXTENDS Provisioning, TLC

Pem == "pem"

MCText == STRING

-----------------------------------------------------------------------------
(* Configuration files.                                                    *)

Root == [configRetrieval |-> "no", defaultTransport |-> "MQTT"]
Http == [port |-> "7896"]
Mqtt == [host |-> "file", clean |-> "yes"]
Amqp == [host |-> "file", durable |-> "yes", autoDelete |-> "yes"]

\* Everything; each binding missing or disabled in turn; nothing but HTTP.
FileOfAll == [root |-> Root, mqtt |-> Mqtt, amqp |-> Amqp, http |-> Http]
WithoutAmqp == [root |-> Root, mqtt |-> Mqtt, http |-> Http]
Off == [disabled |-> "yes"]
Files ==
  {FileOfAll,
   [FileOfAll EXCEPT !.root = [configRetrieval |-> "yes", defaultTransport |-> "HTTP"]],
   [root |-> Root, mqtt |-> Mqtt, amqp |-> Amqp],
   [root |-> Root, mqtt |-> Off, amqp |-> Off, http |-> Http],
   [root |-> Root, http |-> [port |-> "7896", key |-> Pem, cert |-> "missing"]],
   [root |-> Root, mqtt |-> [host |-> "file", ca |-> Pem, key |-> Pem], http |-> Http],
   [root |-> Root, mqtt |-> [host |-> "file", ca |-> "missing"], http |-> Http],
   [root |-> Root, mqtt |-> [disabled |-> "yes", ca |-> "missing"], http |-> Http],
   WithoutAmqp}

-----------------------------------------------------------------------------
(* Environments: every variable alone, and some of two.                    *)

Values ==
  (<<"root", "configRetrieval">> :> {"true"}) @@ (<<"root", "defaultTransport">> :> {"HTTP"}) @@
  (<<"root", "transformations">> :> {Pem, "missing"}) @@
  (<<"mqtt", "host">> :> {"", "env"}) @@ (<<"mqtt", "ca">> :> {Pem, "missing"}) @@
  (<<"mqtt", "clean">> :> {"true", "false"}) @@ (<<"mqtt", "rejectUnauthorized">> :> {"", "true"}) @@
  (<<"mqtt", "disabled">> :> {"true", "false"}) @@
  (<<"amqp", "host">> :> {"env"}) @@ (<<"amqp", "durable">> :> {"false"}) @@
  (<<"amqp", "disabled">> :> {"true"}) @@
  (<<"http", "port">> :> {"80"}) @@ (<<"http", "cert">> :> {Pem}) @@
  (<<"argo", "disabled">> :> {"false"})

Singles == UNION {{v :> text : text \in Values[v]} : v \in DOMAIN Values}

Environments ==
  {<<>>} \union Singles \union
  {(<<"mqtt", "rejectUnauthorized">> :> "") @@ (<<"amqp", "durable">> :> "true"),
   (<<"http", "key">> :> Pem) @@ (<<"http", "cert">> :> "missing"),
   (<<"http", "port">> :> "80") @@ (<<"argo", "disabled">> :> "false")}

-----------------------------------------------------------------------------
(* Groups and requests for devices.                                        *)

CONSTANTS k1, k2, s1, s2

MCGroups ==
  {[transport |-> "none", endpoint |-> FALSE], [transport |-> "HTTP", endpoint |-> FALSE],
   [transport |-> "HTTP", endpoint |-> TRUE], [transport |-> "MQTT", endpoint |-> TRUE]}

Of(update, to, endpoint, old) ==
  [update |-> update, transport |-> to, endpoint |-> endpoint, key |-> k1, old |-> old]

Requests ==
  {Of(FALSE, "none", FALSE, k1), Of(FALSE, "none", TRUE, k1), Of(FALSE, "HTTP", FALSE, k1),
   Of(TRUE, "none", FALSE, k1), Of(TRUE, "none", FALSE, k2)}

Changed(k) == {[key \in Key |-> IF key = k THEN group ELSE NoGroup] : group \in MCGroups}

Meets(file, env, signals, wanted, initially) ==
  [file |-> file, env |-> env, signals |-> signals, wanted |-> wanted, groups |-> initially]

Quiet == {[k \in Key |-> NoGroup]}

\* Every environment with the file that has everything and one signal; every file with
\* some environments and two; devices are provisioned in an agent without AMQP.
MCScenario ==
  {Meets(FileOfAll, env, {s1}, {}, Quiet) : env \in Environments} \union
  {Meets(file, env, {s1, s2}, {}, Quiet) :
     file \in Files \ {FileOfAll}, env \in {<<>>, <<"mqtt", "rejectUnauthorized">> :> ""}} \union
  {Meets(FileOfAll, <<"argo", "disabled">> :> "false", {s1, s2}, {}, Quiet)} \union
  {Meets(WithoutAmqp, <<"root", "defaultTransport">> :> "HTTP", {s1}, Requests, Changed(k1))}
=============================================================================
