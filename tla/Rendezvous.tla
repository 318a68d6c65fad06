----------------------------- MODULE Rendezvous -----------------------------
(***************************************************************************)
(* What a consumer promises of the publisher it contacts.  It knows the    *)
(* publisher the application chose, or meets those of the name it looks    *)
(* for, one after the other and in any order; each becomes the one it      *)
(* contacts, and the best protocol it has met it never forgets.            *)
(***************************************************************************)
EXTENDS Integers

CONSTANTS Offers, NoOffer

VARIABLES
    looking,   \* there is a consumer
    wanted,    \* the protocols it looks for its publisher with
    level,     \* the best protocol met, or the one asked for
    choice     \* the offer it contacts

Init ==
    /\ looking = FALSE
    /\ wanted = {}
    /\ level = 0
    /\ choice = NoOffer

(* A consumer for a name, for one protocol or for any. *)
Look ==
    /\ ~looking
    /\ looking' = TRUE
    /\ choice' = NoOffer
    /\ \/ level' = 0 /\ wanted' = {1, 2}
       \/ \E p \in {1, 2} : level' = p /\ wanted' = {p}

(* A consumer for a service the application knows of. *)
Know(o) ==
    /\ ~looking
    /\ looking' = TRUE
    /\ choice' = o
    /\ level' = o.protocol
    /\ wanted' = {}

Better(p, q) == IF p > q THEN p ELSE q

Meet(o) ==
    /\ looking
    /\ o.ours
    /\ o.protocol \in wanted
    /\ choice' = o
    /\ level' = Better(o.protocol, level)
    /\ UNCHANGED <<looking, wanted>>

Leave ==
    /\ looking
    /\ looking' = FALSE
    /\ wanted' = {}
    /\ level' = 0
    /\ choice' = NoOffer

Next ==
    \/ Look
    \/ \E o \in Offers : Know(o) \/ Meet(o)
    \/ Leave

Spec == Init /\ [][Next]_<<looking, wanted, level, choice>>

=============================================================================
