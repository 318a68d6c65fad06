------------------------------- MODULE MCTls -------------------------------
(***************************************************************************)
(* Tls for TLC: a call within a call, certificates that expire, and files  *)
(* that get lost.                                                          *)
(***************************************************************************)
EXTENDS Tls

NoHazards == {}
FastThread == {"fast_thread"}

=============================================================================
