---------------------------- MODULE Configuration ----------------------------
(***************************************************************************)
(* Config::from_map (src/src/config.rs): the environment variables of the  *)
(* process, each looked up and checked, to the settings of the bridge, or  *)
(* to a refusal.                                                           *)
(*                                                                         *)
(* A variable is unset, blank, or a text.  A text is what its own rule     *)
(* makes of it: a whole number, a URL, a list of event types, or Good; or  *)
(* Bad, when the rule refuses it.  Of a URL its scheme and host are kept.  *)
(***************************************************************************)
EXTENDS Naturals

CONSTANTS
    Hosts,              \* the hosts a URL may name
    Loopback,           \* those that are loopback addresses
    DEFAULT,            \* the default of every number
    RECONNECT_CEILING   \* longest RECONNECT_MAX_SECONDS, 3600 in the code

Intervals == {"STREAM_IDLE_TIMEOUT_SECONDS", "FIRE_COOLDOWN_SECONDS",
              "FIRE_ACTIVE_TTL_SECONDS", "WEBHOOK_TIMEOUT_SECONDS"}
Optional == {"FIRE_REALERT_SECONDS", "PROTECT_PROBE_SECONDS"}
Numbers == Intervals \cup Optional \cup
    {"WEBHOOK_ATTEMPTS", "RECONNECT_INITIAL_SECONDS", "RECONNECT_MAX_SECONDS"}

ASSUME ConfigurationAssumption ==
    /\ Loopback \subseteq Hosts
    /\ DEFAULT \in [Numbers -> Nat \ {0}]
    /\ RECONNECT_CEILING \in Nat

Unset == [kind |-> "Unset"]
Blank == [kind |-> "Blank"]
Bad == [kind |-> "Bad"]
Good == [kind |-> "Good"]
Number(n) == [kind |-> "Number", value |-> n]
Url(scheme, host) == [kind |-> "Url", scheme |-> scheme, host |-> host]
Urls == {Url(scheme, host) :
            scheme \in {"https", "http", "ftp"}, host \in Hosts}

Needed == {"HIKVISION_HOST", "HIKVISION_USER", "HIKVISION_PASS",
           "PROTECT_API_KEY"}
Texts == Needed \cup {"PROTECT_WEBHOOK_ID", "HIKVISION_SCHEME",
                     "HEALTH_BIND", "FIRE_EVENT_TYPES"}
UrlNames == {"PROTECT_WEBHOOK_URL", "PROTECT_BASE_URL"}

(* What the environment may hold under each name.                          *)
IsEnvironment(env) ==
    /\ \A name \in Numbers :
            env[name] \in {Unset, Blank, Bad} \/ env[name].value \in Nat
    /\ \A name \in Texts : env[name] \in {Unset, Blank, Bad, Good}
    /\ \A name \in UrlNames : env[name] \in {Unset, Blank, Bad} \cup Urls

------------------------------------------------------------------------------
(* The numbers.  A blank one is no number; only an unset one has a default.*)

Whole(env, name) == env[name].kind \in {"Unset", "Number"}

Seconds(env, name) ==
    IF env[name] = Unset THEN DEFAULT[name] ELSE env[name].value

OptionalSeconds_KeepsZero(env, name) == {Seconds(env, name)}
(* Zero disables an optional interval: an Option, as a set.                *)
OptionalSeconds(env, name) == {Seconds(env, name)} \ {0}

NumbersAccepted_UncheckedOrder(env) ==
    /\ \A name \in Numbers : Whole(env, name)
    /\ \A name \in Intervals : Seconds(env, name) # 0
    /\ Seconds(env, "WEBHOOK_ATTEMPTS") # 0
    /\ Seconds(env, "RECONNECT_INITIAL_SECONDS") # 0
    /\ Seconds(env, "RECONNECT_MAX_SECONDS") <= RECONNECT_CEILING
NumbersAccepted(env) ==
    /\ \A name \in Numbers : Whole(env, name)
    /\ \A name \in Intervals : Seconds(env, name) # 0
    /\ Seconds(env, "WEBHOOK_ATTEMPTS") # 0
    /\ Seconds(env, "RECONNECT_INITIAL_SECONDS") # 0
    /\ Seconds(env, "RECONNECT_MAX_SECONDS")
            >= Seconds(env, "RECONNECT_INITIAL_SECONDS")
    /\ Seconds(env, "RECONNECT_MAX_SECONDS") <= RECONNECT_CEILING

------------------------------------------------------------------------------
(* The URLs.  PROTECT_WEBHOOK_URL replaces base and ID for the webhook; a  *)
(* base that is set is probed even so.                                     *)

Given(env, name) == env[name] \notin {Unset, Blank}

WebhookUrl(env) ==
    IF Given(env, "PROTECT_WEBHOOK_URL") THEN env["PROTECT_WEBHOOK_URL"]
                                         ELSE env["PROTECT_BASE_URL"]

ProbeUrl(env) ==
    IF Given(env, "PROTECT_BASE_URL") THEN env["PROTECT_BASE_URL"]
                                      ELSE WebhookUrl(env)

HttpsOrLoopback(url) ==
    \/ url.scheme = "https"
    \/ url.scheme = "http" /\ url.host \in Loopback

UrlsAccepted(env) ==
    /\ Given(env, "PROTECT_WEBHOOK_URL") \/ env["PROTECT_WEBHOOK_ID"] = Good
    /\ WebhookUrl(env) \in Urls /\ HttpsOrLoopback(WebhookUrl(env))
    /\ ProbeUrl(env) \in Urls /\ HttpsOrLoopback(ProbeUrl(env))

------------------------------------------------------------------------------

TextsAccepted(env) ==
    /\ \A name \in Needed : env[name] = Good
    /\ env["HIKVISION_SCHEME"] \in {Unset, Good}
    /\ env["HEALTH_BIND"] \in {Unset, Good}
    /\ env["FIRE_EVENT_TYPES"] # Bad

Accepted(env) ==
    TextsAccepted(env) /\ UrlsAccepted(env) /\ NumbersAccepted(env)

FromMap(env) ==
    [webhook_url |-> WebhookUrl(env),
     probe_url |-> ProbeUrl(env),
     stream_idle |-> Seconds(env, "STREAM_IDLE_TIMEOUT_SECONDS"),
     cooldown |-> Seconds(env, "FIRE_COOLDOWN_SECONDS"),
     realert |-> OptionalSeconds(env, "FIRE_REALERT_SECONDS"),
     active_ttl |-> Seconds(env, "FIRE_ACTIVE_TTL_SECONDS"),
     webhook_timeout |-> Seconds(env, "WEBHOOK_TIMEOUT_SECONDS"),
     webhook_attempts |-> Seconds(env, "WEBHOOK_ATTEMPTS"),
     probe_interval |-> OptionalSeconds(env, "PROTECT_PROBE_SECONDS"),
     reconnect_initial |-> Seconds(env, "RECONNECT_INITIAL_SECONDS"),
     reconnect_max |-> Seconds(env, "RECONNECT_MAX_SECONDS")]
==============================================================================
