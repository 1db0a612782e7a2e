--------------------------- MODULE MCBridgeProcess ---------------------------
(* Instances of BridgeProcess for TLC: environments that differ from a     *)
(* plain one in up to two variables.  The defaults are scaled down.        *)
EXTENDS BridgeProcess, TLC

CONSTANTS protect, other, local

MCHosts == {protect, other, local}

MCDefault ==
    [name \in Numbers |->
        IF name = "WEBHOOK_ATTEMPTS" THEN 3 ELSE 1]

Plain ==
    [name \in Numbers \cup Texts \cup UrlNames |->
        CASE name \in Needed \cup {"PROTECT_WEBHOOK_ID"} -> Good
          [] name = "PROTECT_BASE_URL" -> Url("https", protect)
          [] OTHER -> Unset]

Timers == {"PROTECT_PROBE_SECONDS", "WEBHOOK_TIMEOUT_SECONDS"}

Values(name) ==
    {Unset, Blank, Bad} \cup
    CASE name \in Timers -> {Number(0), Number(2)}
      [] name \in Numbers \ Timers -> {Number(n) : n \in {0, 2, 3}}
      [] name \in Texts -> {Good}
      [] name \in UrlNames -> Urls

Varied(names) ==
    UNION {{[Plain EXCEPT ![a] = x, ![b] = y] : x \in Values(a), y \in Values(b)} :
             a, b \in names}

MCEnvironments ==
    Varied(Numbers) \cup Varied(UrlNames \cup {"PROTECT_WEBHOOK_ID"})
        \cup UNION {Varied({name}) : name \in Texts}
==============================================================================
