---------------------------- MODULE MCPublisher ----------------------------
(***************************************************************************)
(* Publisher for TLC: one key beside the default resource, and one or two  *)
(* connections, so that one request is served within the handler of        *)
(* another.                                                                *)
(***************************************************************************)
EXTENDS Publisher

CONSTANTS a, s1, s2

OneKey == {a}
OneSocket == {s1}
TwoSockets == {s1, s2}
BothKinds == {"static", "handler"}
EveryCall == AllCalls
Ordinary == {"start_fails", "no_host", "one_file"}
QuitEarly == {"quit_early"}

=============================================================================
