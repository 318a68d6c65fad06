------------------------------- MODULE Store -------------------------------
(***************************************************************************)
(* What publisher and consumers promise together: a store of values by     *)
(* key, of which consumers look up one value or list the keys.  An answer  *)
(* is what the store holds at one moment between the question and the      *)
(* answer, complete, or the call fails.                                    *)
(***************************************************************************)
CONSTANTS
    Clients,          \* who asks
    Contents,         \* what the store may hold
    Questions,        \* what may be asked
    Answer(_, _)      \* Answer(store, question)

VARIABLES
    store,   \* what is published now
    calls    \* the last question of each client, and its answer

Init ==
    /\ store \in Contents
    /\ calls = [c \in Clients |-> [phase |-> "idle"]]

(* The application publishes and removes, one change at a time or several. *)
Change ==
    /\ store' \in Contents
    /\ UNCHANGED calls

Ask(c, q) ==
    /\ calls[c].phase \in {"idle", "returned", "failed"}
    /\ calls' = [calls EXCEPT ![c] = [phase |-> "asked", question |-> q]]
    /\ UNCHANGED store

(* The moment the answer is from. *)
Bind(c) ==
    /\ calls[c].phase = "asked"
    /\ calls' = [calls EXCEPT ![c] = [phase |-> "bound", question |-> calls[c].question,
                                      answer |-> Answer(store, calls[c].question)]]
    /\ UNCHANGED store

Return(c) ==
    /\ calls[c].phase = "bound"
    /\ calls' = [calls EXCEPT ![c].phase = "returned"]
    /\ UNCHANGED store

Fail(c) ==
    /\ calls[c].phase \in {"asked", "bound"}
    /\ calls' = [calls EXCEPT ![c] = [phase |-> "failed"]]
    /\ UNCHANGED store

Next ==
    \/ Change
    \/ \E c \in Clients :
         \/ \E q \in Questions : Ask(c, q)
         \/ Bind(c)
         \/ Return(c)
         \/ Fail(c)

Spec == Init /\ [][Next]_<<store, calls>>

=============================================================================
