------------------------------ MODULE MCCanBus ------------------------------
(***************************************************************************)
(* CanBus for TLC.  The payloads have one frame, two, FILL frames only, one *)
(* LONG frame, the end of the buffer inside a LONG frame and beyond it.    *)
(***************************************************************************)
EXTENDS CanBus, TLC

CONSTANTS t1, t2, n1, n2

MCThreads == {t1, t2}
MCNodes == {n1, n2}

\* Threads are interchangeable, and so are nodes.
Symmetry == Permutations(MCThreads) \cup Permutations(MCNodes)

MCPayload ==
    {[k \in 1..n |-> (k + n) % Base] : n \in {6, 7, 16, 22, 34}}
       \cup {[k \in 1..n |-> IF k <= 7 THEN (k + 16) % Base ELSE 1] : n \in {16, 35}}

\* Bound: a behaviour has PINGs or payloads, not both, as they share no data.
OneKind == messages' = 0 \/ (sent' = 0 /\ \A t \in Thread : pc'[t] = "idle")

\* The payloads are sent.
Finished == messages = MaxMessages /\ ~sending /\ UNCHANGED busVars

MCNext == (BusNext /\ OneKind) \/ Finished

MCSpec == BusInit /\ [][MCNext]_busVars
=============================================================================
