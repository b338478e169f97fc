---------------------------- MODULE MCSettingsCache ----------------------------
(* Two threads of one process; the page of default values has one default    *)
(* account, the other page the switch and the provider's id.                 *)
EXTENDS SettingsCache

CONSTANTS w1, w2, server, enabled, id, abuse

OneProcess == [w \in {w1, w2} |-> server]
Defaults == <<abuse>>
Service == <<enabled, id>>
Provider == <<id>>
Values == {0, 1}
CodeDefault == [o \in {enabled, id} |-> 0]

=============================================================================
