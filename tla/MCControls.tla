----------------------------- MODULE MCControls -----------------------------
(* The emergency controls that have to take effect in the end, on small        *)
(* instances: the governance contract's proposals and the backend's copy of    *)
(* the pause.  They share no state: each behaviour moves the one that part     *)
(* names, under that one's fairness.                                           *)
EXTENDS MultisigGovernance, PauseGuard

VARIABLE part

CONSTANTS k1, k2

\* Lists with one, two, repeated and no signers.
MCSignerLists == {<<>>, <<k1>>, <<k1, k2>>, <<k2, k2>>}

Init == part \in {"governance", "pause"} /\ GovInit /\ PauseInit

Next ==
    \/ part = "governance" /\ GovNext /\ UNCHANGED <<part, pause_vars>>
    \/ part = "pause" /\ PauseNext /\ UNCHANGED <<part, govVars>>

vars == <<part, govVars, pause_vars>>

Spec == Init /\ [][Next]_vars /\ (IF part = "pause" THEN PauseFairness ELSE GovFairness)
=============================================================================
