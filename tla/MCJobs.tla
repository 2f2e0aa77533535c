------------------------------- MODULE MCJobs -------------------------------
(* The backend's scheduled jobs on small instances: the default checker, and   *)
(* the jobs that reconcile settlements and scores.  They share no state: each  *)
(* behaviour moves the one that part names, under that one's fairness.         *)
EXTENDS DefaultChecker, ScoreJobs

VARIABLE part

MCRuns == {<<1, "timer">>, <<2, "admin">>}
MCBook == <<[approved |-> 0, term |-> 1], [approved |-> 0, term |-> 1]>>
MCNamed == {<<1>>}
MCSchedules == {{"timer", "admin"}, {"timer", "autocorrect", "recon", "outage"},
                {"recon", "decay", "outage"}}

\* A part at rest is in one of its initial states.
Init ==
    /\ part \in {"checker", "jobs"}
    /\ CheckInit /\ (part = "jobs" => ~suspect)
    /\ JobsInit /\ (part = "checker" => on = {"timer", "admin"})

Next ==
    \/ part = "checker" /\ CheckNext /\ UNCHANGED <<part, jobVars>>
    \/ part = "jobs" /\ JobsNext /\ UNCHANGED <<part, check_vars>>

vars == <<part, check_vars, jobVars>>

Spec == Init /\ [][Next]_vars /\ (IF part = "jobs" THEN JobsFairness ELSE CheckFairness)
=============================================================================
