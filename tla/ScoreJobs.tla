----------------------------- MODULE ScoreJobs -----------------------------
(* The background jobs that keep credit scores and loan settlements honest:     *)
(* the cross-contract reconciler (services/crossContractReconciler.ts, run by   *)
(* a timer and by an admin route), the score reconciliation                     *)
(* (scoreReconciliationService.ts) and the decay of idle borrowers' scores      *)
(* (scoreDecayService.ts, cron/scoreDecayJob.ts).  Each reads a snapshot and    *)
(* then awaits once per row or borrower, while the indexer stores events and    *)
(* the others write.                                                            *)
EXTENDS SequencesExt, ScoresService

CONSTANTS Borrowers,
          ChainScores,    \* the scores the NFT contract may report
          MAX_EVENTS,     \* bound on the events of the log
          MAX_FAULTS,     \* bound on failing queries and reads
          STALE_ATTEMPTS, \* CROSS_RECONCILE_STALE_ATTEMPTS
          MAX_ROWS,       \* CROSS_RECONCILE_MAX_ROWS_PER_RUN
          THRESHOLD,      \* SCORE_RECONCILIATION_AUTOCORRECT_THRESHOLD
          Schedules       \* the jobs and flags that are on together

ASSUME ScoreJobsAssumption ==
    /\ STALE_ATTEMPTS \in Nat \ {0} /\ MAX_ROWS \in Nat \ {0}
    /\ THRESHOLD \in Nat /\ ChainScores \subseteq Nat /\ ChainScores # {}

VARIABLES contract_events, \* sequence of [type, who, ledger], as the indexer stored them
          chain,           \* the score of each borrower's token
          scores,          \* the scores table: borrowers with a row
          idle,            \* borrowers whose last loan event is over a month old
          intents,         \* cross_contract_reconciliation, by the event's position
          cross,           \* runs of the cross-contract reconciler
          recon,           \* the score reconciliation
          decay,           \* the decay job
          on,              \* the jobs and flags of this deployment
          job_faults

jobVars == <<contract_events, chain, scores, idle, intents, cross, recon, decay, job_faults, on>>

Triggers == {"timer", "admin"}
LoanEvents == {"LoanApproved", "LoanRepaid", "LoanDefaulted"}
Blank == [b \in {} |-> 0]
Unscored == -1

\* getDefaultCreditScore: the score of a new borrower, and the one reported
\* while the node does not answer.
DefaultScore == 500

NoSettlement == [pc |-> "idle", todo |-> <<>>, corrections |-> Blank]
NoPass == [pc |-> "idle", todo |-> {}, corrections |-> Blank]

JobsInit ==
    /\ contract_events = <<>> /\ chain = [b \in Borrowers |-> DefaultScore]
    /\ scores = Blank /\ idle = Borrowers /\ intents = Blank
    /\ cross = [t \in Triggers |-> NoSettlement]
    /\ recon = NoPass /\ decay = {} /\ job_faults = 0 /\ on \in Schedules

-----------------------------------------------------------------------------
(* What the jobs look at: the chain and the indexed events.                     *)

\* In an outage a query or a read of the node may fail, a bounded number of times.
may_fail == "outage" \in on /\ job_faults < MAX_FAULTS

\* Scores move with a repayment and a default (storeEvents).
delta_of(type) == CASE type = "LoanRepaid" -> 15 [] type = "LoanDefaulted" -> -50 [] OTHER -> 0

last_ledger == IF contract_events = <<>> THEN 1 ELSE contract_events[Len(contract_events)].ledger

logged(type, b, ledger) ==
    /\ Len(contract_events) < MAX_EVENTS
    /\ contract_events' = Append(contract_events, [type |-> type, who |-> b, ledger |-> ledger])

\* The indexer stores a loan event and its score delta in one transaction.
loan_event(type, b) ==
    /\ \E l \in {last_ledger, last_ledger + 1} : logged(type, b, l)
    /\ scores' = IF delta_of(type) = 0 THEN scores
                 ELSE updateUserScoresBulk(scores, [u \in {b} |-> delta_of(type)])
    /\ idle' = idle \ {b}
    /\ UNCHANGED <<chain, intents, cross, recon, decay, job_faults, on>>

\* The token's score changes, and the event that says so is stored.
score_updated(b) ==
    /\ \E l \in {last_ledger, last_ledger + 1} : logged("ScoreUpdated", b, l)
    /\ \E s \in ChainScores : chain' = [chain EXCEPT ![b] = s]
    /\ UNCHANGED <<scores, idle, intents, cross, recon, decay, job_faults, on>>

month_passes ==
    /\ "decay" \in on /\ idle # Borrowers /\ idle' = Borrowers
    /\ UNCHANGED <<contract_events, chain, scores, intents, cross, recon, decay, job_faults, on>>

-----------------------------------------------------------------------------
(* Cross-contract reconciliation.                                               *)

\* The amount over 100 for a repayment, 50 off for a default; an approval owes
\* no score change.
expected_score_delta(type) ==
    CASE type = "LoanRepaid" -> 1 [] type = "LoanDefaulted" -> -50 [] OTHER -> 0

Positions == 1..Len(contract_events)

\* One row per loan event that has none.
backfilled ==
    [i \in DOMAIN intents \cup {p \in Positions : contract_events[p].type \in LoanEvents} |->
        IF i \in DOMAIN intents THEN intents[i] ELSE [state |-> "pending", attempts |-> 0]]

backfillPendingRows(t) ==
    /\ t \in on /\ cross[t].pc = "idle"
    /\ intents' = backfilled
    /\ cross' = [cross EXCEPT ![t].pc = "fetch"]
    /\ UNCHANGED <<contract_events, chain, scores, idle, recon, decay, job_faults, on>>

\* A failed row is read again: only 'reconciled' is left out of the select.
is_unresolved(r) == r.state # "reconciled"

unresolved ==
    LET ids == {i \in DOMAIN intents : is_unresolved(intents[i])}
        row(i) == [id |-> i, attempts |-> intents[i].attempts]
        inOrder == SetToSortSeq(ids, LAMBDA a, b : a < b)
    IN  SubSeq([n \in DOMAIN inOrder |-> row(inOrder[n])], 1, Min({MAX_ROWS, Len(inOrder)}))

fetchUnresolvedRows(t) ==
    /\ cross[t].pc = "fetch"
    /\ cross' = [cross EXCEPT ![t].pc = "judge", ![t].todo = unresolved]
    /\ UNCHANGED <<contract_events, chain, scores, idle, intents, recon, decay, job_faults, on>>

\* An UPDATE of one row.  Attempts count up to the number that makes a row stale.
marked(t, state, pc, todo) ==
    /\ intents' = [intents EXCEPT ![Head(cross[t].todo).id] =
                      [state |-> state, attempts |-> Min({STALE_ATTEMPTS, @.attempts + 1})]]
    /\ cross' = [cross EXCEPT ![t].pc = pc, ![t].todo = todo]
    /\ UNCHANGED <<contract_events, chain, scores, idle, recon, decay, job_faults, on>>

working(t, pc) == cross[t].pc = pc /\ cross[t].todo # <<>>

judged_event(t) == contract_events[Head(cross[t].todo).id]

\* The first score event of the borrower in or after the ledger of the loan
\* event stands for its score change.
findMatchingScoreLedger(e) ==
    \E p \in Positions : /\ contract_events[p].type = "ScoreUpdated"
                         /\ contract_events[p].who = e.who
                         /\ contract_events[p].ledger >= e.ledger

settles(e) == expected_score_delta(e.type) = 0 \/ findMatchingScoreLedger(e)

stale_never(row) == FALSE

stale(row) == row.attempts + 1 >= STALE_ATTEMPTS

\* The read, and its verdict to be written by the next query.
match_score(t) ==
    /\ working(t, "judge")
    /\ cross' = [cross EXCEPT ![t].pc = IF settles(judged_event(t)) THEN "reconciled"
                                        ELSE IF stale(Head(cross[t].todo)) THEN "half" ELSE "pending"]
    /\ UNCHANGED <<contract_events, chain, scores, idle, intents, recon, decay, job_faults, on>>

markReconciled(t) == working(t, "reconciled") /\ marked(t, "reconciled", "judge", Tail(cross[t].todo))

markPending(t) == working(t, "pending") /\ marked(t, "pending", "judge", Tail(cross[t].todo))

markPartial(t) == working(t, "half") /\ marked(t, "half_applied", "compensate", cross[t].todo)

\* Every compensation handler only logs, so it succeeds and the row fails.
compensatePartial(t) ==
    /\ working(t, "compensate")
    /\ IF "autocorrect" \in on THEN marked(t, "failed", "lookup", cross[t].todo)
       ELSE marked(t, "failed", "judge", Tail(cross[t].todo))

\* With autocorrect on, the chain's score replaces the table's.  A transient
\* error of the node gives the default score, any other is logged and skipped.
lookup_score(t) ==
    /\ working(t, "lookup")
    /\ \E s \in {chain[judged_event(t).who], DefaultScore, Unscored} :
          /\ s = chain[judged_event(t).who] \/ may_fail
          /\ job_faults' = IF s = chain[judged_event(t).who] THEN job_faults ELSE job_faults + 1
          /\ cross' = [cross EXCEPT ![t] =
                [pc |-> "judge", todo |-> Tail(@.todo),
                 corrections |-> IF s = Unscored THEN @.corrections
                                 ELSE setAbsoluteUserScoresBulk(@.corrections,
                                                                [u \in {judged_event(t).who} |-> s])]]
    /\ UNCHANGED <<contract_events, chain, scores, idle, intents, recon, decay, on>>

\* The corrections go out together and the run ends; stuck rows are alerted.
run_ends(t) ==
    /\ cross[t].pc = "judge" /\ cross[t].todo = <<>>
    /\ scores' = setAbsoluteUserScoresBulk(scores, cross[t].corrections)
    /\ cross' = [cross EXCEPT ![t] = NoSettlement]
    /\ UNCHANGED <<contract_events, chain, idle, intents, recon, decay, job_faults, on>>

\* A query throws: the run ends where it is and its corrections are lost.
run_throws(t) ==
    /\ cross[t].pc # "idle" /\ may_fail
    /\ cross' = [cross EXCEPT ![t] = NoSettlement] /\ job_faults' = job_faults + 1
    /\ UNCHANGED <<contract_events, chain, scores, idle, intents, recon, decay, on>>

-----------------------------------------------------------------------------
(* Score reconciliation.                                                        *)

\* Borrowers of an approved loan.  Events here carry no loan id: a borrower has
\* one loan at a time, closed by the repayment or default that follows.
has_open_loan(b) ==
    \E p \in Positions : /\ contract_events[p].type = "LoanApproved" /\ contract_events[p].who = b
                         /\ \A q \in p..Len(contract_events) :
                               contract_events[q].who = b =>
                                  contract_events[q].type \notin {"LoanRepaid", "LoanDefaulted"}

fetchActiveBorrowerScores ==
    /\ "recon" \in on /\ recon.pc = "idle"
    /\ recon' = [pc |-> "read", corrections |-> Blank,
                 todo |-> {[who |-> b, db |-> IF b \in DOMAIN scores THEN scores[b] ELSE Unscored] :
                              b \in {x \in Borrowers : has_open_loan(x)}}]
    /\ UNCHANGED <<contract_events, chain, scores, idle, intents, cross, decay, job_faults, on>>

difference(a, b) == IF a > b THEN a - b ELSE b - a

\* A borrower without a row always differs.
exceedsThreshold_strict(db, score) == db = Unscored \/ difference(db, score) > THRESHOLD

exceedsThreshold(db, score) == db = Unscored \/ (db # score /\ difference(db, score) >= THRESHOLD)

\* One borrower of a batch is answered, with the chain's score or, on a
\* transient error, the default one; a rejected read is only counted.
borrower_read ==
    /\ recon.pc = "read"
    /\ \E row \in recon.todo : \E s \in {chain[row.who], DefaultScore, Unscored} :
          /\ s = chain[row.who] \/ may_fail
          /\ job_faults' = IF s = chain[row.who] THEN job_faults ELSE job_faults + 1
          /\ recon' = [recon EXCEPT
                !.todo = @ \ {row},
                !.corrections = IF s # Unscored /\ exceedsThreshold(row.db, s)
                                THEN setAbsoluteUserScoresBulk(@, [u \in {row.who} |-> s]) ELSE @]
    /\ UNCHANGED <<contract_events, chain, scores, idle, intents, cross, decay, on>>

reconcileActiveBorrowerScores ==
    /\ recon.pc = "read" /\ recon.todo = {}
    /\ scores' = setAbsoluteUserScoresBulk(scores, recon.corrections)
    /\ recon' = NoPass
    /\ UNCHANGED <<contract_events, chain, idle, intents, cross, decay, job_faults, on>>

-----------------------------------------------------------------------------
(* Decay.                                                                       *)

\* Half after a 30-day half-life; a default's half-life is 90 days, which leaves
\* 794 thousandths after a month.
last_event_type(b) ==
    LET ps == {p \in Positions : contract_events[p].who = b /\ contract_events[p].type \in LoanEvents}
    IN  IF ps = {} THEN "none" ELSE contract_events[Max(ps)].type

decayedScore(score, type) ==
    Max({300, (score * (IF type = "LoanDefaulted" THEN 794 ELSE 500) + 500) \div 1000})

getInactiveBorrowers ==
    /\ "decay" \in on /\ decay = {}
    /\ decay' = {[who |-> b, score |-> scores[b], type |-> last_event_type(b)] :
                    b \in idle \cap DOMAIN scores}
    /\ decay' # {}
    /\ UNCHANGED <<contract_events, chain, scores, idle, intents, cross, recon, job_faults, on>>

\* The score written is computed from the one the job read at its start.
applyScoreDecay ==
    /\ \E row \in decay :
          /\ decay' = decay \ {row}
          /\ \/ /\ scores' = setAbsoluteUserScoresBulk(
                                scores, [u \in {row.who} |-> decayedScore(row.score, row.type)])
                /\ UNCHANGED job_faults
             \/ /\ may_fail /\ job_faults' = job_faults + 1
                /\ UNCHANGED scores
    /\ UNCHANGED <<contract_events, chain, idle, intents, cross, recon, on>>

-----------------------------------------------------------------------------
cross_step(t) ==
    \/ backfillPendingRows(t) \/ fetchUnresolvedRows(t) \/ match_score(t)
    \/ markReconciled(t) \/ markPending(t) \/ markPartial(t) \/ compensatePartial(t)
    \/ lookup_score(t) \/ run_ends(t)

recon_step == fetchActiveBorrowerScores \/ borrower_read \/ reconcileActiveBorrowerScores

JobsNext ==
    \/ \E b \in Borrowers : score_updated(b) \/ \E type \in LoanEvents : loan_event(type, b)
    \/ month_passes
    \/ \E t \in Triggers : cross_step(t) \/ run_throws(t)
    \/ recon_step
    \/ getInactiveBorrowers \/ applyScoreDecay

\* Both intervals fire for ever and every await returns.  Nobody has to call the
\* admin route, and an idle borrower's decay need not come.
JobsFairness == WF_jobVars(cross_step("timer")) /\ WF_jobVars(recon_step)

JobsSpec == JobsInit /\ [][JobsNext]_jobVars /\ JobsFairness

-----------------------------------------------------------------------------
(* Properties.                                                                  *)

\* Every loan event the indexer stored is in the end judged: its score change is
\* found or it is given up as failed, whatever queries fail in an outage and
\* however an admin run overlaps the timer's (run).  MAX_ROWS is not below
\* MAX_EVENTS: rows that failed are read again and would fill the batch.
EveryIntentJudged ==
    "timer" \in on => \A p \in 1..MAX_EVENTS :
        (p \in Positions /\ contract_events[p].type \in LoanEvents)
            ~> (p \in DOMAIN intents /\ intents[p].state \in {"reconciled", "failed"})

\* As long as a borrower has an open loan the table keeps coming back to the
\* chain's score, give or take less than the threshold: neither a decay, a
\* default score read during an outage nor a late correction stays
\* (reconcileActiveBorrowerScores).
near(b) == b \in DOMAIN scores /\ (scores[b] = chain[b] \/ difference(scores[b], chain[b]) < THRESHOLD)

ScoresReturnToChain ==
    "recon" \in on => \A b \in Borrowers : <>[]has_open_loan(b) => []<>near(b)
=============================================================================
