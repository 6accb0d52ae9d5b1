---------------------------- MODULE MCPolicySync ----------------------------
(* The quarantine's policy, and those of a rule's window and of the same   *)
(* rule made always-on.  A configuration file cannot pair model values.    *)
EXTENDS PolicySync

CONSTANTS window, always

Unrelated == {}
Scheduled == {<<window, always>>}
=============================================================================
