---------------------------- MODULE MCDispatcher ----------------------------
(***************************************************************************)
(* Dispatcher for TLC: one or two service types, and the sets of rivals,   *)
(* strategies and hazards the configurations choose from.                  *)
(***************************************************************************)
EXTENDS Dispatcher

CONSTANTS http, https

OneType == {http}
TwoTypes == {http, https}

Renaming == {"change_name"}
Unique == {"unique"}
UniqueOrIgnore == {"unique", "ignore"}

AnyRival == [local : BOOLEAN, cookie : {"own", "other"}]
AnyPlace == [local : BOOLEAN, cookie : {"other"}]
LocalTwin == {[local |-> TRUE, cookie |-> "own"]}

AnyCookie == {"null", "own"}
OwnCookie == {"own"}

NoHazards == {}
DaemonHazards == {"client_failure", "group_failure", "add_error", "reset_quiet", "empty_commit"}
ClientFailure == {"client_failure"}
GroupFailure == {"group_failure"}

=============================================================================
