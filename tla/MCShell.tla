------------------------------ MODULE MCShell ------------------------------
(***************************************************************************)
(* Shell for TLC: three watchers, so that an entry can be removed in front *)
(* of, at and behind the position of the notification loop; two clients,   *)
(* so that one is replaced.                                                *)
(***************************************************************************)
EXTENDS Shell

CONSTANTS w1, w2, w3

MCWatchers == {w1, w2, w3}
MCFirstStates == {"connecting", "running"}
MCLaterStates == {"running", "failure"}
MCNoStaleIds == {}

=============================================================================
