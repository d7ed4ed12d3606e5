---------------------------- MODULE MCSettings ----------------------------
(***************************************************************************)
(* Two pages and one element.  The run of both pages edits what decides    *)
(* between joining a network and offering one, and stores the password     *)
(* again as it is: where it is stored matters there, not its value.  The   *)
(* runs that look for a single behaviour change every field and return.    *)
(***************************************************************************)
EXTENDS Settings

MCDeviceFields == <<Message("did", 0, "board"), Message("network", 0, "first")>>
MCElements == <<Message("led", 1, "toggle")>>
MCEdits == {[key |-> "options", val |-> "ap"], [key |-> "password", val |-> "factory"]}
MCAllEdits == MCEdits \cup {[key |-> "options", val |-> "station"],
                            [key |-> "ssid", val |-> "home"],
                            [key |-> "password", val |-> "secret"]}
FactoryWiFi == {<<"LRX", "factory">>}
MCWiFi == FactoryWiFi \cup {<<"home", "secret">>}
===========================================================================
